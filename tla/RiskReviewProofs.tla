--------------------------- MODULE RiskReviewProofs ---------------------------
(***************************************************************************)
(* Theorems about RiskReview, for any tracks, any reply and any number of  *)
(* frames: the types, reviews that count as a whole, and echoes that       *)
(* change no risk.                                                         *)
(***************************************************************************)
EXTENDS RiskReview, SequenceTheorems, FiniteSetTheorems, WellFoundedInduction, TLAPS

(* Induction over a set: the least number that was missing from it would    *)
(* come after one that is in it.                                           *)
LEMMA NatSetInduction ==
    ASSUME NEW S, 0 \in S, \A n \in Nat : n \in S => n + 1 \in S
    PROVE  \A n \in Nat : n \in S
<1> SUFFICES ASSUME Nat \ S # {} PROVE FALSE
    OBVIOUS
<1>. DEFINE less == OpToRel(<, Nat)
<1>1. PICK n \in Nat \ S : \A m \in Nat \ S : <<m, n>> \notin less
    <2>. HIDE DEF less
    <2>1. IsWellFoundedOn(less, Nat)
        BY NatLessThanWellFounded DEF less
    <2>. QED
        BY <2>1, WFMin
<1>2. n # 0 /\ n - 1 \in Nat /\ (n - 1) + 1 = n /\ n - 1 < n
    OBVIOUS
<1>3. <<n - 1, n>> \in less
    BY <1>2 DEF OpToRel
<1>. QED
    BY <1>1, <1>2, <1>3

\* The values from start on, each from the one before it.
Steps(g, start, n, step) == g[0] = start /\ \A k \in 1..n : g[k] = step[k][g[k - 1]]

LEMMA Recursion ==
    ASSUME NEW T, NEW start \in T, NEW n \in Nat, NEW step \in [1..n -> [T -> T]]
    PROVE  \E g \in [0..n -> T] : Steps(g, start, n, step)
<1>. DEFINE Good(m, g) == /\ g \in [0..m -> T]
                          /\ \A k \in 0..m : g[k] = IF k = 0 THEN start ELSE step[k][g[k - 1]]
            S == {m \in Nat : m <= n => \E g \in [0..m -> T] : Good(m, g)}
<1>1. 0 \in S
    <2>1. \A k \in 0..0 : k = 0
        OBVIOUS
    <2>2. Good(0, [k \in 0..0 |-> start])
        BY <2>1
    <2>. QED
        BY <2>2
<1>2. \A m \in Nat : m \in S => m + 1 \in S
    <2> SUFFICES ASSUME NEW m \in Nat, m \in S PROVE m + 1 \in S
        OBVIOUS
    <2> SUFFICES ASSUME m + 1 <= n PROVE \E g \in [0..(m + 1) -> T] : Good(m + 1, g)
        OBVIOUS
    <2>1. PICK g \in [0..m -> T] : Good(m, g)
        OBVIOUS
    <2>. DEFINE h == [k \in 0..(m + 1) |-> IF k = m + 1 THEN step[m + 1][g[m]] ELSE g[k]]
    <2>2. m + 1 \in 1..n /\ m \in 0..m /\ \A k \in 0..(m + 1) : k = m + 1 \/ k \in 0..m
        OBVIOUS
    <2>3. h \in [0..(m + 1) -> T]
        BY <2>2
    <2>4. ASSUME NEW k \in 0..(m + 1)
          PROVE  h[k] = IF k = 0 THEN start ELSE step[k][h[k - 1]]
        <3>1. CASE k = m + 1
            BY <2>2, <3>1
        <3>2. CASE k \in 0..m
            BY <2>1, <3>2
        <3>. QED
            BY <2>2, <3>1, <3>2
    <2>. QED
        BY <2>3, <2>4
<1>. HIDE DEF S
<1>3. n \in S
    BY <1>1, <1>2, NatSetInduction
<1>4. PICK g \in [0..n -> T] : Good(n, g)
    BY <1>3 DEF S
<1>5. Steps(g, start, n, step)
    BY <1>4 DEF Steps
<1>. QED
    BY <1>5
----------------------------------------------------------------------------
(* The events found. *)


Behaviors == {"front_collision_risk", "cut_in_or_abrupt_lane_change", "sudden_stop_ahead",
              "lane_departure_or_road_edge_risk", "pedestrian_in_path"}
Entry == [from : Risks, to : Risks]
Found == [trackId : TrackIds, behavior : Behaviors, risk : Risks, trail : Seq(Entry)]

\* New events, each track and behaviour once.
Fresh(s) ==
    /\ s \in Seq(Found)
    /\ \A i \in 1..Len(s) : s[i].trail = <<>>
    /\ \A i, j \in 1..Len(s) :
          s[i].trackId = s[j].trackId /\ s[i].behavior = s[j].behavior => i = j

LEMMA EmptyIsFresh == Fresh(<<>>)
BY EmptySeq DEF Fresh

LEMMA FreshConcat ==
    ASSUME NEW s, Fresh(s), NEW t, Fresh(t),
           \A i \in 1..Len(s), j \in 1..Len(t) :
              ~(s[i].trackId = t[j].trackId /\ s[i].behavior = t[j].behavior)
    PROVE  Fresh(s \o t)
<1>1. s \in Seq(Found) /\ t \in Seq(Found) /\ Len(s) \in Nat /\ Len(t) \in Nat
    BY LenProperties DEF Fresh
<1>2. /\ s \o t \in Seq(Found) /\ Len(s \o t) = Len(s) + Len(t)
      /\ \A i \in 1..(Len(s) + Len(t)) : (s \o t)[i] = IF i <= Len(s) THEN s[i] ELSE t[i - Len(s)]
    BY <1>1, ConcatProperties
<1>. DEFINE u == s \o t
<1>3. \A i \in 1..Len(u) : \/ i \in 1..Len(s) /\ u[i] = s[i]
                           \/ i > Len(s) /\ i - Len(s) \in 1..Len(t) /\ u[i] = t[i - Len(s)]
    BY <1>1, <1>2
<1>4. u \in Seq(Found) /\ Len(u) \in Nat
    BY <1>2, LenProperties
<1>. HIDE DEF u
<1>5. \A i \in 1..Len(u) : u[i].trail = <<>>
    BY <1>3, SMTT(30) DEF Fresh
<1>6. ASSUME NEW i \in 1..Len(u), NEW j \in 1..Len(u),
             u[i].trackId = u[j].trackId, u[i].behavior = u[j].behavior
      PROVE  i = j
    <2>1. CASE i \in 1..Len(s) /\ j \in 1..Len(s)
        <3>1. u[i] = s[i] /\ u[j] = s[j]
            BY <1>1, <1>3, <2>1
        <3>. QED
            BY <1>6, <2>1, <3>1 DEF Fresh
    <2>2. CASE i \notin 1..Len(s) /\ j \notin 1..Len(s)
        <3>1. /\ i - Len(s) \in 1..Len(t) /\ u[i] = t[i - Len(s)]
              /\ j - Len(s) \in 1..Len(t) /\ u[j] = t[j - Len(s)]
            BY <1>3, <2>2
        <3>2. i - Len(s) = j - Len(s)
            BY <1>6, <3>1 DEF Fresh
        <3>. QED
            BY <1>1, <3>2
    <2>3. CASE i \in 1..Len(s) /\ j \notin 1..Len(s)
        <3>1. u[i] = s[i] /\ j - Len(s) \in 1..Len(t) /\ u[j] = t[j - Len(s)]
            BY <1>1, <1>3, <2>3, SMTT(30)
        <3>. QED
            BY <1>6, <2>3, <3>1
    <2>4. CASE i \notin 1..Len(s) /\ j \in 1..Len(s)
        <3>1. u[j] = s[j] /\ i - Len(s) \in 1..Len(t) /\ u[i] = t[i - Len(s)]
            BY <1>1, <1>3, <2>4
        <3>. QED
            BY <1>6, <2>4, <3>1
    <2>. QED
        BY <2>1, <2>2, <2>3, <2>4
<1>. QED
    BY <1>4, <1>5, <1>6 DEF Fresh, u

LEMMA FreshAppend ==
    ASSUME NEW s, Fresh(s), NEW e \in Found, e.trail = <<>>,
           \A i \in 1..Len(s) : ~(s[i].trackId = e.trackId /\ s[i].behavior = e.behavior)
    PROVE  Fresh(Append(s, e))
<1>1. s \in Seq(Found) /\ Len(s) \in Nat
    BY LenProperties DEF Fresh
<1>2. /\ Append(s, e) \in Seq(Found) /\ Len(Append(s, e)) = Len(s) + 1
      /\ \A i \in 1..Len(s) : Append(s, e)[i] = s[i]
      /\ Append(s, e)[Len(s) + 1] = e
    BY <1>1, AppendProperties
<1>. DEFINE u == Append(s, e)
<1>3. \A i \in 1..Len(u) : \/ i \in 1..Len(s) /\ u[i] = s[i]
                           \/ i = Len(s) + 1 /\ u[i] = e
    BY <1>1, <1>2
<1>. HIDE DEF u
<1>4. /\ u \in Seq(Found)
      /\ \A i \in 1..Len(u) : u[i].trail = <<>>
    BY <1>2, <1>3 DEF Fresh, u
<1>5. \A i, j \in 1..Len(u) : u[i].trackId = u[j].trackId /\ u[i].behavior = u[j].behavior => i = j
    BY <1>3 DEF Fresh
<1>. QED
    BY <1>4, <1>5 DEF Fresh, u

LEMMA RulesProperties ==
    ASSUME NEW ego \in EgoStates
    PROVE  /\ Rules(ego) \in Seq([kind : {"vehicle", "pedestrian"}, behavior : Behaviors, risk : Risks,
                                  sign : {"ahead", "lateral", "stopping", "edge", "path"}])
           /\ Len(Rules(ego)) = 5
           /\ \A i, j \in 1..5 : Rules(ego)[i].behavior = Rules(ego)[j].behavior => i = j
<1>1. FrontRisk(ego) \in Risks /\ CutInRisk(ego) \in Risks
    BY DEF FrontRisk, CutInRisk, Risks
<1>2. Risks = Risks \cup {"medium", "high"}
    BY DEF Risks
<1>. QED
    BY <1>1, <1>2 DEF Rules, Rule, Behaviors

(* BehaviorAnalyzer::analyzeTrack: an event at most for each rule. *)
LEMMA EventsOfProperties ==
    ASSUME NEW ego \in EgoStates, NEW track, track.id \in TrackIds
    PROVE  /\ Fresh(EventsOf(track, ego))
           /\ \A i \in 1..Len(EventsOf(track, ego)) : EventsOf(track, ego)[i].trackId = track.id
<1>. DEFINE rules == Rules(ego)
            upTo[k \in 0..Len(rules)] ==
                IF k = 0 THEN <<>>
                ELSE IF Broken(track, rules[k]) THEN Append(upTo[k - 1], MakeEvent(track, rules[k]))
                ELSE upTo[k - 1]
<1>1. EventsOf(track, ego) = upTo[Len(rules)]
    BY DEF EventsOf
<1>2. /\ Len(rules) = 5
      /\ \A k \in 1..5 : rules[k].behavior \in Behaviors /\ rules[k].risk \in Risks
      /\ \A i, j \in 1..5 : rules[i].behavior = rules[j].behavior => i = j
    <2>. DEFINE R == [kind : {"vehicle", "pedestrian"}, behavior : Behaviors, risk : Risks,
                      sign : {"ahead", "lateral", "stopping", "edge", "path"}]
    <2>1. /\ rules \in Seq(R) /\ Len(rules) = 5
          /\ \A i, j \in 1..5 : rules[i].behavior = rules[j].behavior => i = j
        BY RulesProperties
    <2>2. \A k \in 1..5 : rules[k] \in R
        <3>. HIDE DEF rules, R
        <3>. QED
            BY <2>1, ElementOfSeq
    <2>. QED
        BY <2>1, <2>2
<1>. HIDE DEF rules
<1>3. \A k \in 1..5 : MakeEvent(track, rules[k]) \in Found
    BY <1>2, EmptySeq DEF MakeEvent, Found
<1>4. \E g : g = [k \in 0..Len(rules) |->
                     IF k = 0 THEN <<>>
                     ELSE IF Broken(track, rules[k]) THEN Append(g[k - 1], MakeEvent(track, rules[k]))
                     ELSE g[k - 1]]
    <2>. DEFINE step == [k \in 1..5 |->
                            [s \in Seq(Found) |->
                                IF Broken(track, rules[k]) THEN Append(s, MakeEvent(track, rules[k]))
                                ELSE s]]
    <2>1. step \in [1..5 -> [Seq(Found) -> Seq(Found)]]
        BY <1>3, AppendProperties
    <2>2. <<>> \in Seq(Found) /\ 5 \in Nat
        BY EmptySeq
    <2>. HIDE DEF step
    <2>3. PICK g \in [0..5 -> Seq(Found)] : Steps(g, <<>>, 5, step)
        BY <2>1, <2>2, Recursion
    <2>4. ASSUME NEW k \in 0..5
          PROVE  g[k] = IF k = 0 THEN <<>>
                        ELSE IF Broken(track, rules[k]) THEN Append(g[k - 1], MakeEvent(track, rules[k]))
                        ELSE g[k - 1]
        <3>1. g[k] = IF k = 0 THEN <<>> ELSE step[k][g[k - 1]]
            BY <2>3, k = 0 \/ k \in 1..5 DEF Steps
        <3>2. CASE k # 0
            <4>1. k \in 1..5 /\ k - 1 \in 0..5
                BY <3>2
            <4>2. g[k - 1] \in Seq(Found)
                BY <4>1
            <4>. QED
                BY <3>1, <3>2, <4>1, <4>2 DEF step
        <3>. QED
            BY <3>1, <3>2
    <2>5. g = [k \in 0..5 |-> IF k = 0 THEN <<>>
                        ELSE IF Broken(track, rules[k]) THEN Append(g[k - 1], MakeEvent(track, rules[k]))
                        ELSE g[k - 1]]
        BY <2>4
    <2>. QED
        BY <1>2, <2>5
<1>5. upTo = [k \in 0..Len(rules) |->
                 IF k = 0 THEN <<>>
                 ELSE IF Broken(track, rules[k]) THEN Append(upTo[k - 1], MakeEvent(track, rules[k]))
                 ELSE upTo[k - 1]]
    BY <1>4
<1>. HIDE DEF upTo
<1>6. \A k \in 0..5 : upTo[k] = IF k = 0 THEN <<>>
                                ELSE IF Broken(track, rules[k])
                                  THEN Append(upTo[k - 1], MakeEvent(track, rules[k]))
                                ELSE upTo[k - 1]
    BY <1>2, <1>5
<1>. DEFINE Good(k) == /\ Fresh(upTo[k])
                       /\ \A i \in 1..Len(upTo[k]) :
                             /\ upTo[k][i].trackId = track.id
                             /\ \E r \in 1..k : upTo[k][i].behavior = rules[r].behavior
            S == {k \in Nat : k <= 5 => Good(k)}
<1>7. 0 \in S
    <2>1. upTo[0] = <<>>
        BY <1>6
    <2>. QED
        BY <2>1, EmptyIsFresh
<1>8. ASSUME NEW k \in Nat, k \in S PROVE k + 1 \in S
    <2> SUFFICES ASSUME k + 1 <= 5 PROVE Good(k + 1)
        OBVIOUS
    <2>1. Good(k) /\ k + 1 \in 1..5 /\ k + 1 \in 0..5 /\ k + 1 # 0 /\ (k + 1) - 1 = k
        BY <1>8
    <2>2. CASE Broken(track, rules[k + 1])
        <3>. DEFINE s == upTo[k]
                    e == MakeEvent(track, rules[k + 1])
        <3>1. upTo[k + 1] = Append(s, e)
            BY <1>6, <2>1, <2>2
        <3>2. e \in Found /\ e.trail = <<>> /\ e.trackId = track.id /\ e.behavior = rules[k + 1].behavior
            BY <1>3, <2>1 DEF MakeEvent
        <3>3. ASSUME NEW i \in 1..Len(s) PROVE s[i].behavior # e.behavior
            <4>1. PICK r \in 1..k : s[i].behavior = rules[r].behavior
                BY <2>1
            <4>2. r \in 1..5 /\ k + 1 \in 1..5 /\ r # k + 1
                BY <2>1
            <4>3. rules[r].behavior # rules[k + 1].behavior
                BY <1>2, <4>2
            <4>. QED
                BY <3>2, <4>1, <4>3
        <3>4. s \in Seq(Found) /\ Fresh(s)
            BY <2>1 DEF Fresh
        <3>. HIDE DEF s, e
        <3>5. Fresh(Append(s, e))
            BY <3>2, <3>3, <3>4, FreshAppend
        <3>6. /\ Len(s) \in Nat /\ Len(Append(s, e)) = Len(s) + 1
              /\ \A i \in 1..Len(s) : Append(s, e)[i] = s[i]
              /\ Append(s, e)[Len(s) + 1] = e
            BY <3>2, <3>4, AppendProperties, LenProperties
        <3>7. ASSUME NEW i \in 1..Len(Append(s, e))
              PROVE  /\ Append(s, e)[i].trackId = track.id
                     /\ \E r \in 1..(k + 1) : Append(s, e)[i].behavior = rules[r].behavior
            <4>1. CASE i \in 1..Len(s)
                BY <2>1, <3>6, <4>1 DEF s
            <4>2. CASE i = Len(s) + 1
                BY <3>2, <3>6, <4>2
            <4>. QED
                BY <3>6, <4>1, <4>2
        <3>. QED
            BY <3>1, <3>5, <3>7
    <2>3. CASE ~ Broken(track, rules[k + 1])
        <3>1. upTo[k + 1] = upTo[k]
            BY <1>6, <2>1, <2>3
        <3>. QED
            BY <2>1, <3>1
    <2>. QED
        BY <2>2, <2>3
<1>. HIDE DEF S
<1>9. 5 \in S
    BY <1>7, <1>8, NatSetInduction
<1>. QED
    BY <1>1, <1>2, <1>9 DEF S

(* BehaviorAnalyzer::analyze: the events of the tracks in a row. *)
LEMMA AnalysisProperties ==
    ASSUME NEW ego \in EgoStates, NEW tracks, Len(tracks) \in Nat,
           \A k \in 1..Len(tracks) : tracks[k].id \in TrackIds,
           \A j, k \in 1..Len(tracks) : tracks[j].id = tracks[k].id => j = k
    PROVE  Fresh(Analysis(tracks, ego))
<1>. DEFINE n == Len(tracks)
            upTo[k \in 0..Len(tracks)] ==
                IF k = 0 THEN <<>> ELSE upTo[k - 1] \o EventsOf(tracks[k], ego)
<1>1. Analysis(tracks, ego) = upTo[n]
    BY DEF Analysis
<1>2. \A k \in 1..n : /\ EventsOf(tracks[k], ego) \in Seq(Found)
                      /\ Fresh(EventsOf(tracks[k], ego))
                      /\ \A i \in 1..Len(EventsOf(tracks[k], ego)) :
                            EventsOf(tracks[k], ego)[i].trackId = tracks[k].id
    BY EventsOfProperties DEF Fresh
<1>3. \E g : g = [k \in 0..Len(tracks) |->
                     IF k = 0 THEN <<>> ELSE g[k - 1] \o EventsOf(tracks[k], ego)]
    <2>. DEFINE step == [k \in 1..n |-> [s \in Seq(Found) |-> s \o EventsOf(tracks[k], ego)]]
    <2>1. step \in [1..n -> [Seq(Found) -> Seq(Found)]]
        BY <1>2, ConcatProperties
    <2>2. <<>> \in Seq(Found) /\ n \in Nat
        BY EmptySeq
    <2>. HIDE DEF step, n
    <2>3. PICK g \in [0..n -> Seq(Found)] : Steps(g, <<>>, n, step)
        BY <2>1, <2>2, Recursion
    <2>4. ASSUME NEW k \in 0..n
          PROVE  g[k] = IF k = 0 THEN <<>> ELSE g[k - 1] \o EventsOf(tracks[k], ego)
        <3>1. CASE k = 0
            BY <2>3, <3>1 DEF Steps
        <3>2. CASE k # 0
            <4>1. k \in 1..n /\ k - 1 \in 0..n
                BY <2>2, <3>2
            <4>2. g[k - 1] \in Seq(Found)
                BY <4>1
            <4>3. step[k][g[k - 1]] = g[k - 1] \o EventsOf(tracks[k], ego)
                BY <4>1, <4>2 DEF step
            <4>. QED
                BY <2>3, <3>2, <4>1, <4>3 DEF Steps
        <3>. QED
            BY <3>1, <3>2
    <2>5. g = [k \in 0..n |-> IF k = 0 THEN <<>> ELSE g[k - 1] \o EventsOf(tracks[k], ego)]
        BY <2>4
    <2>. QED
        BY <2>5 DEF n
<1>4. upTo = [k \in 0..Len(tracks) |->
                 IF k = 0 THEN <<>> ELSE upTo[k - 1] \o EventsOf(tracks[k], ego)]
    BY <1>3
<1>. HIDE DEF upTo
<1>5. \A k \in 0..n : upTo[k] = IF k = 0 THEN <<>> ELSE upTo[k - 1] \o EventsOf(tracks[k], ego)
    BY <1>4
<1>. DEFINE Good(k) == /\ Fresh(upTo[k])
                       /\ \A i \in 1..Len(upTo[k]) :
                             \E r \in 1..k : upTo[k][i].trackId = tracks[r].id
            S == {k \in Nat : k <= n => Good(k)}
<1>6. 0 \in S
    <2>1. upTo[0] = <<>>
        BY <1>5
    <2>. QED
        BY <2>1, EmptyIsFresh
<1>7. ASSUME NEW k \in Nat, k \in S PROVE k + 1 \in S
    <2> SUFFICES ASSUME k + 1 <= n PROVE Good(k + 1)
        OBVIOUS
    <2>. DEFINE s == upTo[k]
                t == EventsOf(tracks[k + 1], ego)
    <2>1. Good(k) /\ k + 1 \in 1..n /\ k + 1 \in 0..n /\ k + 1 # 0 /\ (k + 1) - 1 = k
        BY <1>7
    <2>2. upTo[k + 1] = s \o t
        BY <1>5, <2>1
    <2>3. /\ Fresh(s) /\ Fresh(t) /\ s \in Seq(Found) /\ t \in Seq(Found)
          /\ \A i \in 1..Len(t) : t[i].trackId = tracks[k + 1].id
          /\ \A i \in 1..Len(s) : \E r \in 1..k : s[i].trackId = tracks[r].id
        BY <1>2, <2>1 DEF Fresh
    <2>. HIDE DEF s, t
    <2>4. \A i \in 1..Len(s), j \in 1..Len(t) : s[i].trackId # t[j].trackId
        BY <2>1, <2>3
    <2>5. Fresh(s \o t)
        BY <2>3, <2>4, FreshConcat
    <2>6. /\ Len(s \o t) = Len(s) + Len(t) /\ Len(s) \in Nat /\ Len(t) \in Nat
          /\ \A i \in 1..(Len(s) + Len(t)) : (s \o t)[i] = IF i <= Len(s) THEN s[i] ELSE t[i - Len(s)]
        BY <2>3, ConcatProperties, LenProperties
    <2>7. ASSUME NEW i \in 1..Len(s \o t)
          PROVE  \E r \in 1..(k + 1) : (s \o t)[i].trackId = tracks[r].id
        <3>1. CASE i <= Len(s)
            <4>1. i \in 1..Len(s) /\ (s \o t)[i] = s[i]
                BY <2>6, <3>1
            <4>. QED
                BY <2>3, <4>1
        <3>2. CASE i > Len(s)
            <4>1. i - Len(s) \in 1..Len(t) /\ (s \o t)[i] = t[i - Len(s)]
                BY <2>6, <3>2
            <4>. QED
                BY <2>3, <4>1
        <3>3. i \in Int /\ Len(s) \in Int
            BY <2>6
        <3>. QED
            BY <3>1, <3>2, <3>3
    <2>. QED
        BY <2>2, <2>5, <2>7
<1>. HIDE DEF S
<1>8. n \in S
    BY <1>6, <1>7, NatSetInduction
<1>. QED
    BY <1>1, <1>8 DEF S

LEMMA SceneAnalysis ==
    ASSUME NEW scene \in Scenes, NEW ego \in EgoStates
    PROVE  Fresh(Analysis([i \in DOMAIN scene |-> Track(scene[i])], ego))
<1>. DEFINE tracks == [i \in DOMAIN scene |-> Track(scene[i])]
<1>1. PICK n \in 0..2 : scene \in [1..n -> [id : TrackIds, shape : TrackShapes]]
    BY DEF Scenes
<1>2. /\ DOMAIN scene = 1..n
      /\ \A i \in 1..n : scene[i].id \in TrackIds
      /\ \A i, j \in 1..n : i # j => scene[i].id # scene[j].id
    BY <1>1 DEF Scenes
<1>3. DOMAIN tracks = 1..n /\ \A i \in 1..n : tracks[i].id = scene[i].id
    BY <1>2 DEF Track
<1>4. Len(tracks) = n
    <2>1. tracks \in [1..n -> {tracks[i] : i \in 1..n}]
        BY <1>2
    <2>. HIDE DEF tracks
    <2>2. tracks \in Seq({tracks[i] : i \in 1..n})
        BY <2>1
    <2>. QED
        BY <1>3, <2>2, LenProperties
<1>. HIDE DEF tracks
<1>5. Fresh(Analysis(tracks, ego))
    BY <1>2, <1>3, <1>4, AnalysisProperties
<1>. QED
    BY <1>5 DEF tracks
----------------------------------------------------------------------------
(* The review of the events. *)

AnyObject == [trackId : Nat, behavior : ReplyBehaviors \cup Behaviors,
              risk : Risks \cup {"unknown"}, accepted : BOOLEAN]

\* The first k objects that change an event.
Deciders(event, objects, k) ==
    {j \in 1..k : Usable(objects[j]) /\ Names(objects[j], event)}

\* What the first k objects make of an event.
Outcome(before, after, objects, k) ==
    LET deciders == Deciders(before, objects, k)
    IN  /\ after.trackId = before.trackId /\ after.behavior = before.behavior
        /\ Len(after.trail) = Cardinality(deciders)
        /\ deciders = {} => after = before
        /\ deciders # {} =>
              /\ \E last \in deciders : /\ \A j \in deciders : j <= last
                                        /\ after.risk = Verdict(objects[last])
              /\ after.trail[1].from = before.risk
              /\ after.trail[Len(after.trail)].to = after.risk
        /\ \A j \in 1..(Len(after.trail) - 1) : after.trail[j].to = after.trail[j + 1].from

LEMMA VerdictIsRisk ==
    ASSUME NEW object \in AnyObject, Usable(object)
    PROVE  Verdict(object) \in Risks
BY DEF AnyObject, Usable, Verdict, Risks

LEMMA NextDeciders ==
    ASSUME NEW event, NEW objects, NEW k \in Nat
    PROVE  LET decides == Usable(objects[k + 1]) /\ Names(objects[k + 1], event)
           IN  /\ IsFiniteSet(Deciders(event, objects, k)) /\ k + 1 \notin Deciders(event, objects, k)
               /\ decides => Deciders(event, objects, k + 1) = Deciders(event, objects, k) \cup {k + 1}
               /\ ~ decides => Deciders(event, objects, k + 1) = Deciders(event, objects, k)
<1>1. IsFiniteSet(Deciders(event, objects, k))
    <2>1. IsFiniteSet(1..k) /\ Deciders(event, objects, k) \subseteq 1..k
        BY FS_Interval DEF Deciders
    <2>. QED
        BY <2>1, FS_Subset
<1>2. 1..(k + 1) = (1..k) \cup {k + 1} /\ k + 1 \notin 1..k
    OBVIOUS
<1>. QED
    BY <1>1, <1>2 DEF Deciders

(* One object of a review (applyLlmReview). *)
LEMMA ChangedOutcome ==
    ASSUME NEW before \in Found, before.trail = <<>>, NEW after \in Found, NEW objects,
           NEW k \in Nat, objects[k + 1] \in AnyObject, Outcome(before, after, objects, k)
    PROVE  /\ Changed(after, objects[k + 1]) \in Found
           /\ Outcome(before, Changed(after, objects[k + 1]), objects, k + 1)
<1>. DEFINE object == objects[k + 1]
            D == Deciders(before, objects, k)
            D1 == Deciders(before, objects, k + 1)
            decides == Usable(object) /\ Names(object, before)
            changed == Changed(after, object)
            risk == Verdict(object)
            trail == after.trail
            last == Len(trail)
            entry == [from |-> after.risk, to |-> risk]
<1>1. /\ IsFiniteSet(D) /\ k + 1 \notin D
      /\ decides => D1 = D \cup {k + 1}
      /\ ~ decides => D1 = D
    BY NextDeciders
<1>2. /\ after.trackId = before.trackId /\ after.behavior = before.behavior
      /\ last = Cardinality(D) /\ (D = {} => after = before)
      /\ D # {} =>
            /\ \E l \in D : (\A j \in D : j <= l) /\ after.risk = Verdict(objects[l])
            /\ trail[1].from = before.risk
            /\ trail[last].to = after.risk
      /\ \A j \in 1..(last - 1) : trail[j].to = trail[j + 1].from
    BY DEF Outcome
<1>3. decides <=> Usable(object) /\ Names(object, after)
    BY <1>2 DEF Names
<1>4. CASE ~ decides
    <2>1. changed = after /\ D1 = D
        BY <1>1, <1>3, <1>4 DEF Changed
    <2>2. Outcome(before, after, objects, k + 1)
        BY <2>1 DEF Outcome
    <2>. QED
        BY <2>1, <2>2
<1>5. CASE decides
    <2>1. changed = [after EXCEPT !.risk = risk, !.trail = Append(trail, entry)]
        BY <1>3, <1>5 DEF Changed
    <2>2. risk \in Risks /\ after.risk \in Risks /\ trail \in Seq(Entry) /\ entry \in Entry
        BY <1>5, VerdictIsRisk DEF Found, Entry
    <2>3. /\ Append(trail, entry) \in Seq(Entry) /\ Len(Append(trail, entry)) = last + 1
          /\ \A j \in 1..last : Append(trail, entry)[j] = trail[j]
          /\ Append(trail, entry)[last + 1] = entry
          /\ last \in Nat
        BY <2>2, AppendProperties, LenProperties
    <2>. DEFINE longer == Append(trail, entry)
    <2>. HIDE DEF longer, entry, trail, last, risk
    <2>4. /\ changed \in Found /\ changed.risk = risk /\ changed.trail = longer
          /\ changed.trackId = before.trackId /\ changed.behavior = before.behavior
        <3>. HIDE DEF changed
        <3>1. changed = [after EXCEPT !.risk = risk, !.trail = longer] /\ longer \in Seq(Entry)
            BY <2>1, <2>3 DEF longer
        <3>. QED
            BY <1>2, <2>2, <3>1 DEF Found
    <2>. HIDE DEF changed, D, D1
    <2>5. D1 = D \cup {k + 1} /\ k + 1 \in D1 /\ \A j \in D1 : j <= k + 1
        <3>1. \A j \in D : j \in 1..k
            BY DEF D, Deciders
        <3>. QED
            BY <1>1, <1>5, <3>1
    <2>6. Len(longer) = Cardinality(D1)
        <3>1. Cardinality(D1) = Cardinality(D) + 1
            BY <1>1, <2>5, FS_AddElement
        <3>. QED
            BY <1>2, <2>3, <3>1 DEF longer
    <2>7. entry.from = after.risk /\ entry.to = risk
        BY DEF entry
    <2>8. longer[1].from = before.risk
        <3>1. CASE D = {}
            <4>1. last = 0 /\ after = before
                BY <1>2, <3>1, FS_EmptySet
            <4>. QED
                BY <2>3, <2>7, <4>1 DEF longer
        <3>2. CASE D # {}
            <4>1. last # 0
                BY <1>1, <1>2, <3>2, FS_EmptySet
            <4>. QED
                BY <1>2, <2>3, <3>2, <4>1 DEF longer
        <3>. QED
            BY <3>1, <3>2
    <2>9. longer[Len(longer)].to = risk
        BY <2>3, <2>7 DEF longer
    <2>10. ASSUME NEW j \in 1..(Len(longer) - 1) PROVE longer[j].to = longer[j + 1].from
        <3>1. j \in 1..last /\ longer[j] = trail[j]
            BY <2>3 DEF longer
        <3>2. CASE j = last
            <4>1. last # 0
                BY <2>3, <3>1
            <4>2. D # {}
                BY <1>2, <4>1, FS_EmptySet
            <4>3. longer[j + 1] = entry
                BY <2>3, <3>2 DEF longer
            <4>. QED
                BY <1>2, <2>7, <3>1, <3>2, <4>2, <4>3
        <3>3. CASE j # last
            <4>1. j \in 1..(last - 1) /\ j + 1 \in 1..last
                BY <2>3, <3>1, <3>3
            <4>2. longer[j + 1] = trail[j + 1]
                BY <2>3, <4>1 DEF longer
            <4>. QED
                BY <1>2, <3>1, <4>1, <4>2
        <3>. QED
            BY <3>2, <3>3
    <2>11. Outcome(before, changed, objects, k + 1)
        <3>1. \E l \in D1 : (\A j \in D1 : j <= l) /\ changed.risk = Verdict(objects[l])
            BY <2>4, <2>5 DEF risk
        <3>2. D1 # {}
            BY <2>5
        <3>. QED
            BY <2>4, <2>6, <2>8, <2>9, <2>10, <3>1, <3>2 DEF Outcome, D1
    <2>. QED
        BY <2>4, <2>11 DEF changed
<1>. QED
    BY <1>4, <1>5

(* applyLlmReview on a frame's events, whatever objects it gets. *)
LEMMA ReviewedOutcome ==
    ASSUME Fresh(events), NEW objects \in Seq(AnyObject)
    PROVE  /\ Reviewed(objects) \in [1..Len(events) -> Found]
           /\ \A i \in 1..Len(events) :
                 Outcome(events[i], Reviewed(objects)[i], objects, Len(objects))
<1>. DEFINE n == Len(objects)
            T == [1..Len(events) -> Found]
            after[k \in 0..Len(objects)] ==
                IF k = 0 THEN events
                ELSE LET before == after[k - 1]
                     IN  [i \in DOMAIN before |-> Changed(before[i], objects[k])]
<1>1. Reviewed(objects) = after[n]
    BY DEF Reviewed
<1>2. /\ n \in Nat /\ \A k \in 1..n : objects[k] \in AnyObject
      /\ Len(events) \in Nat /\ events \in T
      /\ \A i \in 1..Len(events) : events[i] \in Found /\ events[i].trail = <<>>
    BY LenProperties DEF Fresh
<1>3. \A k \in 1..n : \A e \in Found : Changed(e, objects[k]) \in Found
    <2> SUFFICES ASSUME NEW k \in 1..n, NEW e \in Found PROVE Changed(e, objects[k]) \in Found
        OBVIOUS
    <2>. DEFINE object == objects[k]
    <2>1. CASE Usable(object) /\ Names(object, e)
        <3>. DEFINE entry == [from |-> e.risk, to |-> Verdict(object)]
                    longer == Append(e.trail, entry)
        <3>1. Verdict(object) \in Risks
            BY <1>2, <2>1, VerdictIsRisk
        <3>2. longer \in Seq(Entry)
            BY <3>1, AppendProperties DEF Found, Entry
        <3>3. Changed(e, object) = [e EXCEPT !.risk = Verdict(object), !.trail = longer]
            BY <2>1 DEF Changed
        <3>. HIDE DEF longer
        <3>. QED
            BY <3>1, <3>2, <3>3 DEF Found
    <2>. QED
        BY <2>1 DEF Changed
<1>4. \E g : g = [k \in 0..Len(objects) |->
                     IF k = 0 THEN events
                     ELSE LET before == g[k - 1]
                          IN  [i \in DOMAIN before |-> Changed(before[i], objects[k])]]
    <2>. DEFINE step == [k \in 1..n |->
                            [b \in T |-> [i \in DOMAIN b |-> Changed(b[i], objects[k])]]]
    <2>1. step \in [1..n -> [T -> T]]
        <3>1. \A k \in 1..n : \A b \in T : [i \in DOMAIN b |-> Changed(b[i], objects[k])] \in T
            BY <1>3
        <3>. HIDE DEF T
        <3>. QED
            BY <3>1
    <2>. HIDE DEF step, n, T
    <2>2. PICK g \in [0..n -> T] : Steps(g, events, n, step)
        BY <1>2, <2>1, Recursion
    <2>3. ASSUME NEW k \in 0..n
          PROVE  g[k] = IF k = 0 THEN events
                        ELSE [i \in DOMAIN g[k - 1] |-> Changed(g[k - 1][i], objects[k])]
        <3>1. CASE k = 0
            BY <2>2, <3>1 DEF Steps
        <3>2. CASE k # 0
            <4>1. k \in 1..n /\ k - 1 \in 0..n
                BY <1>2, <3>2
            <4>2. g[k - 1] \in T
                BY <4>1
            <4>3. step[k][g[k - 1]] = [i \in DOMAIN g[k - 1] |-> Changed(g[k - 1][i], objects[k])]
                BY <4>1, <4>2 DEF step
            <4>. QED
                BY <2>2, <3>2, <4>1, <4>3 DEF Steps
        <3>. QED
            BY <3>1, <3>2
    <2>4. g = [k \in 0..n |-> IF k = 0 THEN events
                              ELSE [i \in DOMAIN g[k - 1] |-> Changed(g[k - 1][i], objects[k])]]
        BY <2>3
    <2>. QED
        BY <2>4 DEF n
<1>5. after = [k \in 0..Len(objects) |->
                  IF k = 0 THEN events
                  ELSE LET before == after[k - 1]
                       IN  [i \in DOMAIN before |-> Changed(before[i], objects[k])]]
    BY <1>4
<1>. HIDE DEF after
<1>6. \A k \in 0..n : after[k] = IF k = 0 THEN events
                                 ELSE [i \in DOMAIN after[k - 1] |->
                                          Changed(after[k - 1][i], objects[k])]
    BY <1>5
<1>. HIDE DEF n
<1>. DEFINE Good(k) == /\ after[k] \in T
                       /\ \A i \in 1..Len(events) : Outcome(events[i], after[k][i], objects, k)
            S == {k \in Nat : k <= n => Good(k)}
<1>7. 0 \in S
    <2>1. after[0] = events
        <3>1. 0 \in 0..n
            BY <1>2
        <3>. QED
            BY <1>6, <3>1, Zenon
    <2>2. ASSUME NEW i \in 1..Len(events) PROVE Outcome(events[i], events[i], objects, 0)
        <3>1. Deciders(events[i], objects, 0) = {}
            BY DEF Deciders
        <3>2. Len(events[i].trail) = 0
            <4>1. events[i].trail = <<>> /\ Len(<<>>) = 0
                BY <1>2, EmptySeq
            <4>. QED
                BY <4>1
        <3>3. 1..(0 - 1) = {}
            OBVIOUS
        <3>. QED
            BY <3>1, <3>2, <3>3, FS_EmptySet DEF Outcome
    <2>. QED
        BY <1>2, <2>1, <2>2
<1>8. ASSUME NEW k \in Nat, k \in S PROVE k + 1 \in S
    <2> SUFFICES ASSUME k + 1 <= n PROVE Good(k + 1)
        OBVIOUS
    <2>1. Good(k) /\ k + 1 \in 1..n /\ k + 1 \in 0..n /\ k + 1 # 0 /\ (k + 1) - 1 = k
        BY <1>2, <1>8
    <2>2. DOMAIN after[k] = 1..Len(events) /\ \A i \in 1..Len(events) : after[k][i] \in Found
        BY <2>1
    <2>3. after[k + 1] = [i \in 1..Len(events) |-> Changed(after[k][i], objects[k + 1])]
        BY <1>6, <2>1, <2>2
    <2>4. \A i \in 1..Len(events) :
             /\ Changed(after[k][i], objects[k + 1]) \in Found
             /\ Outcome(events[i], Changed(after[k][i], objects[k + 1]), objects, k + 1)
        BY <1>2, <2>1, <2>2, ChangedOutcome
    <2>. QED
        BY <2>3, <2>4
<1>. HIDE DEF S
<1>9. n \in S
    BY <1>2, <1>7, <1>8, NatSetInduction
<1>. QED
    BY <1>1, <1>2, <1>9 DEF S, n
----------------------------------------------------------------------------
(* The inductive invariant. *)

ReplyTypes == [ok : BOOLEAN, array : BOOLEAN, objects : Seq(AnyObject),
               sent : Seq(AnyObject), echo : BOOLEAN]

\* The service is at work only while the main thread waits for it, and nothing
\* of a reply is there before it has replied.
Waiting ==
    /\ phase \in {"idle", "posted", "answered", "done", "thrown"}
    /\ service \in {"idle", "asked", "replied"}
    /\ service # "idle" => phase = "posted"
    /\ phase = "idle" \/ service = "asked" => reply = NoReply

\* An array that counts is the whole one; an echo holds the events found, in
\* their order.
Sent ==
    /\ reply \in ReplyTypes
    /\ reply.array => reply.ok /\ reply.objects = reply.sent
    /\ reply.echo =>
          /\ Len(reply.sent) = Len(found)
          /\ \A i \in 1..Len(found) :
                /\ reply.sent[i].trackId = found[i].trackId
                /\ reply.sent[i].behavior = found[i].behavior
                /\ reply.sent[i].risk = found[i].risk
                /\ reply.sent[i].accepted

\* Until the review the events are the ones found, and after it what the
\* objects make of them.
Judged ==
    /\ Fresh(found)
    /\ phase # "done" => events = found
    /\ phase = "done" =>
          /\ events \in [1..Len(found) -> Found]
          /\ \A i \in 1..Len(found) : Outcome(found[i], events[i], Review, Len(Review))

ReviewInv == Waiting /\ Sent /\ Judged

LEMMA NoReplyTypes == NoReply \in ReplyTypes /\ NoReply.array = FALSE /\ NoReply.echo = FALSE
BY EmptySeq DEF NoReply, ReplyTypes

LEMMA ReviewTypes ==
    ASSUME Sent
    PROVE  Review \in Seq(AnyObject)
BY EmptySeq DEF Sent, ReplyTypes, Review

LEMMA NothingReviewed ==
    ASSUME NEW event \in Found, event.trail = <<>>
    PROVE  Outcome(event, event, <<>>, Len(<<>>))
<1>1. Len(<<>>) = 0
    BY EmptySeq
<1>2. Len(event.trail) = 0
    BY <1>1
<1>3. Deciders(event, <<>>, 0) = {} /\ 1..(0 - 1) = {}
    BY DEF Deciders
<1>4. Outcome(event, event, <<>>, 0)
    BY <1>2, <1>3, FS_EmptySet DEF Outcome
<1>. QED
    BY <1>1, <1>4

LEMMA InitReview == Init => ReviewInv
<1> SUFFICES ASSUME Init PROVE ReviewInv
    OBVIOUS
<1>1. Waiting
    BY DEF Init, Waiting
<1>2. Sent
    BY NoReplyTypes DEF Init, Sent
<1>3. Judged
    BY EmptyIsFresh DEF Init, Judged
<1>. QED
    BY <1>1, <1>2, <1>3 DEF ReviewInv

LEMMA AnalyzeReview ==
    ASSUME ReviewInv, NEW scene \in Scenes, NEW ego \in EgoStates, Analyze(scene, ego)
    PROVE  ReviewInv'
<1>1. Fresh(events') /\ found' = events' /\ reply' = NoReply /\ reply = NoReply
    BY SceneAnalysis DEF Analyze, ReviewInv, Waiting
<1>2. Waiting'
    BY <1>1 DEF ReviewInv, Waiting, Analyze
<1>3. Sent'
    BY <1>1, NoReplyTypes DEF Sent
<1>4. Judged'
    <2>1. Fresh(found')
        BY <1>1
    <2>2. ASSUME phase' = "done"
          PROVE  /\ events' \in [1..Len(found') -> Found]
                 /\ \A i \in 1..Len(found') : Outcome(found'[i], events'[i], Review', Len(Review'))
        <3>1. found' = <<>> /\ events' = <<>> /\ Len(<<>>) = 0
            BY <1>1, <2>2, EmptySeq DEF Analyze
        <3>2. <<>> \in [1..0 -> Found]
            OBVIOUS
        <3>. QED
            BY <3>1, <3>2
    <2>. QED
        BY <1>1, <2>1, <2>2 DEF Judged
<1>. QED
    BY <1>2, <1>3, <1>4 DEF ReviewInv

LEMMA EchoReview ==
    ASSUME ReviewInv, Echo
    PROVE  ReviewInv'
<1>. DEFINE objects == [i \in DOMAIN events |->
                           [trackId |-> events[i].trackId, behavior |-> events[i].behavior,
                            risk |-> events[i].risk, accepted |-> TRUE]]
<1>1. /\ service = "asked" /\ phase = "posted" /\ service' = "replied"
      /\ reply' = Reply(objects, TRUE)
      /\ phase' = phase /\ found' = found /\ events' = events
      /\ events = found /\ Fresh(found)
    BY DEF Echo, ReviewInv, Waiting, Judged
<1>2. /\ Len(found) \in Nat /\ found \in Seq(Found) /\ DOMAIN found = 1..Len(found)
      /\ \A i \in 1..Len(found) : found[i] \in Found
    BY <1>1, LenProperties DEF Fresh
<1>3. objects \in Seq(AnyObject) /\ Len(objects) = Len(found)
    <2>1. TrackIds \subseteq Nat /\ Behaviors \subseteq ReplyBehaviors \cup Behaviors
        BY ReviewAssumption
    <2>2. \A i \in 1..Len(found) :
             [trackId |-> found[i].trackId, behavior |-> found[i].behavior,
              risk |-> found[i].risk, accepted |-> TRUE] \in AnyObject
        BY <1>2, <2>1 DEF Found, AnyObject
    <2>3. objects \in [1..Len(found) -> AnyObject]
        BY <1>1, <1>2, <2>2
    <2>. HIDE DEF objects
    <2>4. objects \in Seq(AnyObject) /\ DOMAIN objects = 1..Len(found)
        BY <1>2, <2>3
    <2>. QED
        BY <1>2, <2>4, LenProperties
<1>4. \A i \in 1..Len(found) :
         /\ objects[i].trackId = found[i].trackId /\ objects[i].behavior = found[i].behavior
         /\ objects[i].risk = found[i].risk /\ objects[i].accepted
    BY <1>1, <1>2
<1>. HIDE DEF objects
<1>5. Sent'
    <2>1. reply' \in ReplyTypes /\ reply'.ok /\ reply'.objects = objects /\ reply'.sent = objects
        BY <1>1, <1>3 DEF Reply, ReplyTypes
    <2>. QED
        BY <1>1, <1>3, <1>4, <2>1 DEF Sent
<1>6. Waiting'
    BY <1>1 DEF Waiting
<1>7. Judged'
    BY <1>1 DEF Judged
<1>. QED
    BY <1>5, <1>6, <1>7 DEF ReviewInv

LEMMA ModelRepliesReview ==
    ASSUME ReviewInv, NEW n \in 0..MaxObjects, NEW objects \in [1..n -> Objects],
           ModelReplies(objects)
    PROVE  ReviewInv'
<1>1. /\ service = "asked" /\ phase = "posted" /\ service' = "replied"
      /\ reply' = Reply(objects, FALSE)
      /\ phase' = phase /\ found' = found /\ events' = events
      /\ events = found /\ Fresh(found)
    BY DEF ModelReplies, ReviewInv, Waiting, Judged
<1>2. objects \in Seq(AnyObject)
    <2>1. Objects \subseteq AnyObject
        BY ReviewAssumption DEF Objects, AnyObject
    <2>2. objects \in [1..n -> AnyObject] /\ n \in Nat
        BY <2>1, ReviewAssumption
    <2>. QED
        BY <2>2
<1>3. Sent'
    BY <1>1, <1>2 DEF Sent, Reply, ReplyTypes
<1>4. Waiting'
    BY <1>1 DEF Waiting
<1>5. Judged'
    BY <1>1 DEF Judged
<1>. QED
    BY <1>3, <1>4, <1>5 DEF ReviewInv

LEMMA ArrivesReview ==
    ASSUME ReviewInv, Arrives
    PROVE  ReviewInv'
<1>1. PICK cut \in 0..Len(reply.objects) : reply' = Arrived(reply, cut)
    BY DEF Arrives
<1>2. /\ reply' \in ReplyTypes /\ reply'.echo = reply.echo /\ reply'.sent = reply.sent
      /\ reply'.array => reply.array /\ reply'.objects = reply.objects
      /\ reply'.ok = reply.ok
    BY <1>1, EmptySeq DEF Arrived, ReplyTypes, ReviewInv, Sent
<1>3. /\ phase = "posted" /\ phase' = "answered" /\ service' = "idle"
      /\ found' = found /\ events' = events
    BY DEF Arrives
<1>4. Sent'
    BY <1>2, <1>3 DEF Sent, ReviewInv
<1>5. Waiting'
    BY <1>3 DEF Waiting
<1>6. Judged'
    BY <1>3 DEF Judged, ReviewInv
<1>. QED
    BY <1>4, <1>5, <1>6 DEF ReviewInv

LEMMA ApplyReview ==
    ASSUME ReviewInv, ApplyLlmReview
    PROVE  ReviewInv'
<1>1. /\ phase = "answered" /\ phase' = "done" /\ events' = Reviewed(Review)
      /\ found' = found /\ service' = service /\ reply' = reply
      /\ events = found /\ Fresh(found) /\ service = "idle"
    BY DEF ApplyLlmReview, ReviewInv, Judged, Waiting
<1>2. Review \in Seq(AnyObject)
    BY ReviewTypes DEF ReviewInv
<1>3. /\ events' \in [1..Len(found) -> Found]
      /\ \A i \in 1..Len(found) : Outcome(found[i], events'[i], Review, Len(Review))
    BY <1>1, <1>2, ReviewedOutcome
<1>4. Judged'
    <2>1. Review' = Review
        BY <1>1 DEF Review
    <2>. QED
        BY <1>1, <1>3, <2>1 DEF Judged
<1>5. Waiting'
    BY <1>1 DEF Waiting
<1>6. Sent'
    BY <1>1 DEF ReviewInv, Sent
<1>. QED
    BY <1>4, <1>5, <1>6 DEF ReviewInv

LEMMA ReviewStep == ReviewInv /\ [Next \/ Ended]_vars => ReviewInv'
<1> SUFFICES ASSUME ReviewInv, [Next \/ Ended]_vars PROVE ReviewInv'
    OBVIOUS
<1>1. ASSUME NEW scene \in Scenes, NEW ego \in EgoStates, Analyze(scene, ego) PROVE ReviewInv'
    BY <1>1, AnalyzeReview
<1>2. CASE TakeResult
    <2>1. /\ phase = "done" /\ service = "idle" /\ phase' = "idle" /\ service' = "idle"
          /\ found' = <<>> /\ events' = <<>> /\ reply' = NoReply
        BY <1>2 DEF TakeResult, ReviewInv, Waiting
    <2>2. Waiting'
        BY <2>1 DEF Waiting
    <2>3. Sent'
        BY <2>1, NoReplyTypes DEF Sent
    <2>4. Judged'
        BY <2>1, EmptyIsFresh DEF Judged
    <2>. QED
        BY <2>2, <2>3, <2>4 DEF ReviewInv
<1>3. CASE Echo
    BY <1>3, EchoReview
<1>4. ASSUME NEW n \in 0..MaxObjects, NEW objects \in [1..n -> Objects], ModelReplies(objects)
      PROVE  ReviewInv'
    BY <1>4, ModelRepliesReview
<1>5. CASE Refuses
    BY <1>5 DEF Refuses, ReviewInv, Waiting, Sent, Judged
<1>6. CASE Arrives
    BY <1>6, ArrivesReview
<1>7. CASE Fails
    <2>1. /\ phase = "posted" /\ phase' = "answered" /\ service' = "idle"
          /\ reply' = NoReply /\ found' = found /\ events' = events
        BY <1>7 DEF Fails
    <2>2. Waiting'
        BY <2>1 DEF Waiting
    <2>3. Sent'
        BY <2>1, NoReplyTypes DEF Sent
    <2>4. Judged'
        BY <2>1 DEF Judged, ReviewInv
    <2>. QED
        BY <2>2, <2>3, <2>4 DEF ReviewInv
<1>8. CASE ApplyLlmReview
    BY <1>8, ApplyReview
<1>9. CASE ReviewThrows
    BY <1>9 DEF ReviewThrows, ReviewInv, Waiting, Sent, Judged
<1>10. CASE UNCHANGED vars
    BY <1>10 DEF vars, ReviewInv, Waiting, Sent, Judged, Review
<1>. QED
    BY <1>1, <1>2, <1>3, <1>4, <1>5, <1>6, <1>7, <1>8, <1>9, <1>10 DEF Next, Ended

LEMMA ReviewInvariant == Spec => []ReviewInv
<1>. QED
    BY InitReview, ReviewStep, PTL DEF Spec
----------------------------------------------------------------------------
(* What follows from it. *)

LEMMA EventTypes ==
    ASSUME ReviewInv
    PROVE  /\ DOMAIN events = 1..Len(found) /\ DOMAIN found = 1..Len(found) /\ Len(found) \in Nat
           /\ \A i \in 1..Len(found) : found[i] \in Found /\ found[i].trail = <<>> /\ events[i] \in Found
<1>1. found \in Seq(Found) /\ \A i \in 1..Len(found) : found[i].trail = <<>>
    BY DEF ReviewInv, Judged, Fresh
<1>2. Len(found) \in Nat /\ DOMAIN found = 1..Len(found) /\ \A i \in 1..Len(found) : found[i] \in Found
    BY <1>1, LenProperties
<1>3. CASE phase = "done"
    BY <1>1, <1>2, <1>3 DEF ReviewInv, Judged
<1>4. CASE phase # "done"
    BY <1>1, <1>2, <1>4 DEF ReviewInv, Judged
<1>. QED
    BY <1>3, <1>4

\* Whatever the reply holds, each event keeps one of the rules' behaviours and
\* one of the four risks (parseRiskLevel, applyLlmReview).
THEOREM TypeCorrect == Spec => []TypeOK
<1>1. Behaviors \subseteq {Rules(ego)[i].behavior : ego \in EgoStates, i \in 1..5}
    <2>. DEFINE ego == [valid |-> TRUE, speed |-> "slow", turning |-> TRUE]
    <2>1. ego \in EgoStates
        BY DEF EgoStates
    <2>. HIDE DEF ego
    <2>2. \A b \in Behaviors : \E i \in 1..5 : b = Rules(ego)[i].behavior
        BY DEF Rules, Rule, Behaviors
    <2>. QED
        BY <2>1, <2>2
<1>2. Found \subseteq Event
    BY <1>1 DEF Found, Event, Entry
<1>3. ReviewInv => TypeOK
    <2> SUFFICES ASSUME ReviewInv PROVE TypeOK
        OBVIOUS
    <2>1. /\ \A i \in DOMAIN events : events[i] \in Event
          /\ \A i \in DOMAIN found : found[i] \in Event /\ found[i].trail = <<>>
        BY <1>2, EventTypes
    <2>. QED
        BY <2>1 DEF TypeOK, ReviewInv, Waiting, Sent, ReplyTypes
<1>. QED
    BY <1>3, ReviewInvariant, PTL

LEMMA DecidersAreDeciding ==
    ASSUME ReviewInv, reply.ok, reply.array, NEW event \in Found
    PROVE  /\ Review = reply.sent
           /\ Deciders(event, Review, Len(Review)) = Deciding(event)
           /\ Len(Review) \in Nat /\ \A k \in 1..Len(Review) : Review[k] \in AnyObject
<1>1. Review = reply.sent /\ reply.sent \in Seq(AnyObject)
    BY DEF Review, ReviewInv, Sent, ReplyTypes
<1>2. /\ Len(reply.sent) \in Nat /\ DOMAIN reply.sent = 1..Len(reply.sent)
      /\ \A k \in 1..Len(reply.sent) : reply.sent[k] \in AnyObject
    BY <1>1, LenProperties
<1>3. event.trackId # 0 /\ event.behavior # "none"
    BY ReviewAssumption DEF Found, Behaviors
<1>4. ASSUME NEW object \in AnyObject
      PROVE  Usable(object) /\ Names(object, event) <=>
                /\ object.trackId = event.trackId /\ object.behavior = event.behavior
                /\ ~ object.accepted \/ object.risk \in Risks
    <2>1. object.risk # "unknown" <=> object.risk \in Risks
        BY DEF AnyObject, Risks
    <2>2. object.accepted \in BOOLEAN
        BY DEF AnyObject
    <2>. QED
        BY <1>3, <2>1, <2>2 DEF Usable, Names
<1>. QED
    BY <1>1, <1>2, <1>4 DEF Deciders, Deciding

\* A review counts as a whole or not at all, whatever the reply holds and
\* wherever it breaks off: the last of the objects that decide on an event
\* sets its risk, and its trail leads there from the rule's, entry by entry
\* (enrichWithLlm, applyLlmReview).
THEOREM ReviewIsWholeCorrect == Spec => []ReviewIsWhole
<1>1. ReviewInv => ReviewIsWhole
    <2> SUFFICES ASSUME ReviewInv, phase = "done", NEW i \in 1..Len(found)
                 PROVE  LET deciding == Deciding(events[i])
                            trail == events[i].trail
                        IN  IF reply.ok /\ reply.array /\ deciding # {}
                              THEN LET last == CHOOSE k \in deciding : \A j \in deciding : j <= k
                                       object == reply.sent[last]
                                   IN  /\ Len(trail) = Cardinality(deciding)
                                       /\ events[i].risk = IF object.accepted THEN object.risk ELSE "low"
                                       /\ events[i] = [found[i] EXCEPT !.risk = events[i].risk,
                                                                       !.trail = trail]
                                       /\ trail[1].from = found[i].risk
                                       /\ trail[Len(trail)].to = events[i].risk
                                       /\ \A j \in 1..(Len(trail) - 1) : trail[j].to = trail[j + 1].from
                              ELSE events[i] = found[i]
        BY EventTypes DEF ReviewIsWhole
    <2>. DEFINE deciding == Deciding(events[i])
    <2>1. found[i] \in Found /\ events[i] \in Found /\ Outcome(found[i], events[i], Review, Len(Review))
        BY EventTypes DEF ReviewInv, Judged
    <2>2. events[i].trackId = found[i].trackId /\ events[i].behavior = found[i].behavior
        BY <2>1 DEF Outcome
    <2>3. deciding = Deciding(found[i])
        BY <2>2 DEF Deciding
    <2>4. CASE reply.ok /\ reply.array
        <3>1. Review = reply.sent /\ Deciders(found[i], Review, Len(Review)) = deciding
            BY <2>1, <2>3, <2>4, DecidersAreDeciding
        <3>2. CASE deciding # {}
            <4>. HIDE DEF deciding
            <4>1. /\ Len(events[i].trail) = Cardinality(deciding)
                  /\ \E last \in deciding : /\ \A j \in deciding : j <= last
                                            /\ events[i].risk = Verdict(reply.sent[last])
                  /\ events[i].trail[1].from = found[i].risk
                  /\ events[i].trail[Len(events[i].trail)].to = events[i].risk
                  /\ \A j \in 1..(Len(events[i].trail) - 1) :
                        events[i].trail[j].to = events[i].trail[j + 1].from
                BY <2>1, <3>1, <3>2 DEF Outcome
            <4>. DEFINE last == CHOOSE k \in deciding : \A j \in deciding : j <= k
            <4>2. deciding \subseteq Nat
                BY DEF deciding, Deciding, ReviewInv, Sent, ReplyTypes
            <4>3. events[i].risk = Verdict(reply.sent[last])
                <5>1. PICK l \in deciding : /\ \A j \in deciding : j <= l
                                            /\ events[i].risk = Verdict(reply.sent[l])
                    BY <4>1
                <5>2. last \in deciding /\ \A j \in deciding : j <= last
                    BY <5>1
                <5>3. last <= l /\ l <= last
                    BY <5>1, <5>2
                <5>. QED
                    BY <4>2, <5>1, <5>2, <5>3
            <4>4. events[i] = [found[i] EXCEPT !.risk = events[i].risk, !.trail = events[i].trail]
                BY <2>1, <2>2 DEF Found
            <4>. HIDE DEF last
            <4>. QED
                BY <2>4, <3>2, <4>1, <4>3, <4>4 DEF Verdict, last, deciding
        <3>3. CASE deciding = {}
            BY <2>1, <3>1, <3>3 DEF Outcome
        <3>. QED
            BY <3>2, <3>3
    <2>5. CASE ~ (reply.ok /\ reply.array)
        <3>1. Deciders(found[i], Review, Len(Review)) = {}
            <4>1. Review = <<>> /\ Len(<<>>) = 0
                BY <2>5, EmptySeq DEF Review
            <4>2. Deciders(found[i], <<>>, 0) = {}
                BY DEF Deciders
            <4>. QED
                BY <4>1, <4>2
        <3>2. events[i] = found[i]
            BY <2>1, <3>1 DEF Outcome
        <3>. QED
            BY <2>5, <3>2
    <2>. QED
        BY <2>4, <2>5
<1>. QED
    BY <1>1, ReviewInvariant, PTL

\* Without a model behind it the service changes no risk, however many events
\* a track has and however many tracks have the same one: each object of its
\* reply names one event (enrich in llm_behavior_analyzer.py, applyLlmReview).
THEOREM EchoKeepsRisksCorrect == Spec => []EchoKeepsRisks
<1>1. ReviewInv => EchoKeepsRisks
    <2> SUFFICES ASSUME ReviewInv, phase = "done", reply.echo, NEW i \in 1..Len(found)
                 PROVE  /\ events[i].risk = found[i].risk
                        /\ Len(events[i].trail) = IF reply.array THEN 1 ELSE 0
        BY EventTypes DEF EchoKeepsRisks
    <2>1. /\ found[i] \in Found /\ found[i].trail = <<>>
          /\ Outcome(found[i], events[i], Review, Len(Review))
        BY EventTypes DEF ReviewInv, Judged
    <2>2. CASE reply.array
        <3>1. reply.ok /\ Len(reply.sent) = Len(found)
            BY <2>2 DEF ReviewInv, Sent
        <3>2. Review = reply.sent /\ \A k \in 1..Len(Review) : Review[k] \in AnyObject
            BY <2>1, <2>2, <3>1, DecidersAreDeciding
        <3>3. /\ Review[i].trackId = found[i].trackId /\ Review[i].behavior = found[i].behavior
              /\ Review[i].risk = found[i].risk /\ Review[i].accepted
            BY <3>2 DEF ReviewInv, Sent
        <3>4. Deciders(found[i], Review, Len(Review)) = {i}
            <4>1. Usable(Review[i]) /\ Names(Review[i], found[i])
                <5>1. found[i].trackId # 0 /\ found[i].behavior # "none" /\ found[i].risk # "unknown"
                    BY <2>1, ReviewAssumption DEF Found, Behaviors, Risks
                <5>. QED
                    BY <3>3, <5>1 DEF Usable, Names
            <4>2. ASSUME NEW j \in 1..Len(found), Names(Review[j], found[i]) PROVE j = i
                <5>1. Review[j].trackId = found[j].trackId /\ Review[j].behavior = found[j].behavior
                    BY <3>2 DEF ReviewInv, Sent
                <5>2. found[j].trackId = found[i].trackId /\ found[j].behavior = found[i].behavior
                    BY <4>2, <5>1 DEF Names
                <5>. QED
                    BY <5>2 DEF ReviewInv, Judged, Fresh
            <4>. QED
                BY <3>1, <3>2, <4>1, <4>2 DEF Deciders
        <3>5. Len(events[i].trail) = 1 /\ events[i].risk = Verdict(Review[i])
            <4>1. Cardinality({i}) = 1
                BY FS_Singleton
            <4>. QED
                BY <2>1, <3>4, <4>1 DEF Outcome
        <3>. QED
            BY <2>2, <3>3, <3>5 DEF Verdict
    <2>3. CASE ~ reply.array
        <3>1. Review = <<>> /\ Len(<<>>) = 0
            BY <2>3, EmptySeq DEF Review
        <3>2. Deciders(found[i], <<>>, 0) = {}
            BY DEF Deciders
        <3>3. events[i] = found[i]
            BY <2>1, <3>1, <3>2 DEF Outcome
        <3>. QED
            BY <2>1, <2>3, <3>1, <3>3
    <2>. QED
        BY <2>2, <2>3
<1>. QED
    BY <1>1, ReviewInvariant, PTL
=============================================================================
