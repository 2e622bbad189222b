----------------------------- MODULE RiskReview -----------------------------
(***************************************************************************)
(* The events of a frame and their review.  BehaviorAnalyzer rates the     *)
(* tracks; AnalysisPipeline::enrichWithLlm posts the events to the Python  *)
(* service, which has a model review them or sends them back as they are;  *)
(* what arrives of the reply changes the risks, and each change leaves an  *)
(* entry in the event's evidence.                                          *)
(*                                                                         *)
(* The positions and velocities of a track are reduced to the signs the    *)
(* rules look for, the evidence to its entries, the reply to the objects   *)
(* of its array of events, and a text to what is found in it.              *)
(***************************************************************************)
EXTENDS Naturals, Sequences, FiniteSets

CONSTANTS TrackIds,        \* ids of the tracks of a frame
          TrackShapes,     \* kinds and signs of the tracks of a frame
          MaxInt,          \* the largest value of an int
          ReplyIds,        \* numbers a reply may name; 0 for none
          ReplyBehaviors,  \* behaviours a reply may name; "none" for none
          ReplyRisks,      \* risks a reply may hold; "unknown" for none that parses
          MaxObjects       \* bound: objects in a reply

Risks == {"low", "medium", "high", "critical"}

\* A vehicle is not in the middle of the lane and at the edge at once.
Shapes == [kind : {"vehicle"}, signs : {s \in SUBSET {"ahead", "lateral", "stopping", "edge"} :
                                           ~ {"ahead", "edge"} \subseteq s}]
          \cup [kind : {"pedestrian"}, signs : SUBSET {"path"}]

ASSUME ReviewAssumption ==
    /\ TrackIds \subseteq 1..MaxInt /\ TrackShapes \subseteq Shapes
    /\ MaxInt \in Nat /\ MaxObjects \in Nat
    /\ ReplyIds \subseteq Nat /\ ReplyRisks \subseteq Risks \cup {"unknown"}

VARIABLES phase,   \* where the main thread is with the frame
          found,   \* history: the events as the rules found them
          events,  \* the events of the frame
          service, \* what the service does with the request
          reply    \* what postJson returned

vars == <<phase, found, events, service, reply>>

Objects == [trackId : ReplyIds, behavior : ReplyBehaviors, risk : ReplyRisks, accepted : BOOLEAN]

\* ok: the status is 2xx; array: a whole array of events is found, with
\* these objects.  History: the objects sent, and whether they are the events
\* of the request.
NoReply == [ok |-> FALSE, array |-> FALSE, objects |-> <<>>, sent |-> <<>>, echo |-> FALSE]
Reply(objects, echo) ==
    [ok |-> TRUE, array |-> TRUE, objects |-> objects, sent |-> objects, echo |-> echo]

Init ==
    /\ phase = "idle" /\ found = <<>> /\ events = <<>>
    /\ service = "idle" /\ reply = NoReply

----------------------------------------------------------------------------
(* The rules. *)

\* What the CAN bus tells of the own vehicle.
EgoStates == [valid : BOOLEAN, speed : {"absent", "slow", "fast"}, turning : BOOLEAN]

FrontRisk(ego) == IF ego.valid /\ ego.speed = "slow" THEN "high" ELSE "critical"
CutInRisk(ego) == IF ego.valid /\ ego.turning THEN "medium" ELSE "high"

Rule(kind, sign, behavior, risk) ==
    [kind |-> kind, sign |-> sign, behavior |-> behavior, risk |-> risk]

Rules(ego) ==
    <<Rule("vehicle", "ahead", "front_collision_risk", FrontRisk(ego)),
      Rule("vehicle", "lateral", "cut_in_or_abrupt_lane_change", CutInRisk(ego)),
      Rule("vehicle", "stopping", "sudden_stop_ahead", "high"),
      Rule("vehicle", "edge", "lane_departure_or_road_edge_risk", "medium"),
      Rule("pedestrian", "path", "pedestrian_in_path", "high")>>

MakeEvent(track, rule) ==
    [trackId |-> track.id, behavior |-> rule.behavior, risk |-> rule.risk, trail |-> <<>>]

Broken(track, rule) == rule.kind = track.kind /\ rule.sign \in track.signs

EventsOf(track, ego) ==
    LET rules == Rules(ego)
        upTo[k \in 0..Len(rules)] ==
            IF k = 0 THEN <<>>
            ELSE IF Broken(track, rules[k]) THEN Append(upTo[k - 1], MakeEvent(track, rules[k]))
            ELSE upTo[k - 1]
    IN  upTo[Len(rules)]

Analysis(tracks, ego) ==
    LET upTo[k \in 0..Len(tracks)] ==
            IF k = 0 THEN <<>> ELSE upTo[k - 1] \o EventsOf(tracks[k], ego)
    IN  upTo[Len(tracks)]

\* The tracks of a frame: each id once.
Scenes ==
    {ts \in UNION {[1..n -> [id : TrackIds, shape : TrackShapes]] : n \in 0..2} :
        \A i, j \in DOMAIN ts : i # j => ts[i].id # ts[j].id}

Track(t) == [id |-> t.id, kind |-> t.shape.kind, signs |-> t.shape.signs]

\* The next frame.  Only a frame with events is sent to the service.
Analyze(scene, ego) ==
    /\ phase = "idle"
    /\ events' = Analysis([i \in DOMAIN scene |-> Track(scene[i])], ego)
    /\ found' = events'
    /\ phase' = IF events' = <<>> THEN "done" ELSE "posted"
    /\ service' = IF events' = <<>> THEN "idle" ELSE "asked"
    /\ UNCHANGED reply

\* The events join the run's result.
TakeResult ==
    /\ phase = "done"
    /\ phase' = "idle" /\ found' = <<>> /\ events' = <<>> /\ reply' = NoReply
    /\ UNCHANGED service

----------------------------------------------------------------------------
(* The service, and what of its reply arrives. *)

\* Without a key, after an error and for a text that is not JSON it sends
\* the events of the request back.
Echo ==
    /\ service = "asked"
    /\ service' = "replied"
    /\ reply' = Reply([i \in DOMAIN events |->
                          [trackId |-> events[i].trackId, behavior |-> events[i].behavior,
                           risk |-> events[i].risk, accepted |-> TRUE]], TRUE)
    /\ UNCHANGED <<phase, found, events>>

\* The model may answer anything.
ModelReplies(objects) ==
    /\ service = "asked"
    /\ service' = "replied"
    /\ reply' = Reply(objects, FALSE)
    /\ UNCHANGED <<phase, found, events>>

\* Another path, a request that does not parse, an exception.
Refuses ==
    /\ service = "asked"
    /\ service' = "replied"
    /\ UNCHANGED <<phase, found, events, reply>>

\* Seeded: of an array that is cut off the objects before the cut count.
ArrivedFault(r, cut) == [r EXCEPT !.objects = SubSeq(@, 1, cut)]

\* The status has arrived when the body breaks off; an array without its
\* bracket is not found, and so none of its objects is.
Arrived(r, cut) ==
    IF cut = Len(r.objects) THEN r ELSE [r EXCEPT !.array = FALSE, !.objects = <<>>]

Arrives ==
    /\ phase = "posted" /\ service = "replied"
    /\ phase' = "answered" /\ service' = "idle"
    /\ \E cut \in 0..Len(reply.objects) : reply' = Arrived(reply, cut)
    /\ UNCHANGED <<found, events>>

\* No connection, or no answer in time; a late one goes nowhere.
Fails ==
    /\ phase = "posted"
    /\ phase' = "answered" /\ service' = "idle"
    /\ reply' = NoReply
    /\ UNCHANGED <<found, events>>

----------------------------------------------------------------------------
(* The review. *)

\* Seeded: a behaviour alone names an event.
NamesFault(object, event) == object.behavior = event.behavior

Names(object, event) ==
    object.trackId = event.trackId /\ object.behavior = event.behavior

\* Seeded: a risk that does not parse is taken as it is.
UsableFault(object) == object.trackId # 0 /\ object.behavior # "none"

\* An object is skipped unless it names something and says what to do.
Usable(object) ==
    /\ object.trackId # 0 /\ object.behavior # "none"
    /\ object.accepted => object.risk # "unknown"

Verdict(object) == IF object.accepted THEN object.risk ELSE "low"

Changed(event, object) ==
    IF Usable(object) /\ Names(object, event)
      THEN [event EXCEPT !.risk = Verdict(object),
                         !.trail = Append(@, [from |-> event.risk, to |-> Verdict(object)])]
      ELSE event

\* The objects are applied in their order, each to all events.
Reviewed(objects) ==
    LET after[k \in 0..Len(objects)] ==
            IF k = 0 THEN events
            ELSE LET before == after[k - 1]
                 IN  [i \in DOMAIN before |-> Changed(before[i], objects[k])]
    IN  after[Len(objects)]

Review == IF reply.ok /\ reply.array THEN reply.objects ELSE <<>>

ApplyLlmReview ==
    /\ phase = "answered"
    /\ \A k \in DOMAIN Review : Review[k].trackId <= MaxInt
    /\ events' = Reviewed(Review)
    /\ phase' = "done"
    /\ UNCHANGED <<found, service, reply>>

\* std::stoi throws when the number does not fit: the run ends without the
\* frame's result.
ReviewThrows ==
    /\ phase = "answered"
    /\ \E k \in DOMAIN Review : Review[k].trackId > MaxInt
    /\ phase' = "thrown"
    /\ UNCHANGED <<found, events, service, reply>>

Next ==
    \/ \E scene \in Scenes, ego \in EgoStates : Analyze(scene, ego)
    \/ TakeResult
    \/ Echo
    \/ \E n \in 0..MaxObjects : \E objects \in [1..n -> Objects] : ModelReplies(objects)
    \/ Refuses
    \/ Arrives
    \/ Fails
    \/ ApplyLlmReview
    \/ ReviewThrows

Ended == phase = "thrown" /\ UNCHANGED vars

Spec == Init /\ [][Next \/ Ended]_vars
----------------------------------------------------------------------------
Event == [trackId : TrackIds, behavior : {Rules(ego)[i].behavior : ego \in EgoStates, i \in 1..5},
          risk : Risks, trail : Seq([from : Risks, to : Risks])]

\* Every risk is one of the four the program knows, whatever the reply
\* holds (parseRiskLevel, applyLlmReview).
TypeOK ==
    /\ phase \in {"idle", "posted", "answered", "done", "thrown"}
    /\ service \in {"idle", "asked", "replied"}
    /\ \A i \in DOMAIN events : events[i] \in Event
    /\ \A i \in DOMAIN found : found[i] \in Event /\ found[i].trail = <<>>
    /\ reply.ok \in BOOLEAN /\ reply.array \in BOOLEAN /\ reply.echo \in BOOLEAN
    /\ phase \in {"answered", "done"} => service = "idle"

\* The objects the service sent that decide on an event.
Deciding(event) ==
    {k \in DOMAIN reply.sent :
        /\ reply.sent[k].trackId = event.trackId
        /\ reply.sent[k].behavior = event.behavior
        /\ ~ reply.sent[k].accepted \/ reply.sent[k].risk \in Risks}

\* A review counts as a whole or not at all.  If the whole of it arrived,
\* the risk of an event is that of the last object deciding on it, and its
\* trail leads from the rule's risk to this one with an entry for each;
\* otherwise, and without such an object, it is as the rules left it.
\* No event comes or goes (enrichWithLlm, applyLlmReview).
ReviewIsWhole ==
    phase = "done" =>
        /\ DOMAIN events = DOMAIN found
        /\ \A i \in DOMAIN events :
              LET deciding == Deciding(events[i])
                  trail == events[i].trail
              IN  IF reply.ok /\ reply.array /\ deciding # {}
                    THEN LET last == CHOOSE k \in deciding : \A j \in deciding : j <= k
                             object == reply.sent[last]
                         IN  /\ Len(trail) = Cardinality(deciding)
                             /\ events[i].risk = IF object.accepted THEN object.risk ELSE "low"
                             /\ events[i] = [found[i] EXCEPT !.risk = events[i].risk,
                                                             !.trail = trail]
                             /\ trail[1].from = found[i].risk
                             /\ trail[Len(trail)].to = events[i].risk
                             /\ \A j \in 1..(Len(trail) - 1) : trail[j].to = trail[j + 1].from
                    ELSE events[i] = found[i]

\* A service without a model changes no risk: its reply leaves one entry in
\* each event, although one track may have several events and several tracks
\* the same one (enrich in llm_behavior_analyzer.py, applyLlmReview).
EchoKeepsRisks ==
    phase = "done" /\ reply.echo =>
        \A i \in DOMAIN events :
            /\ events[i].risk = found[i].risk
            /\ Len(events[i].trail) = IF reply.array THEN 1 ELSE 0
=============================================================================
