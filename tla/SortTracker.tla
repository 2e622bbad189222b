----------------------------- MODULE SortTracker -----------------------------
(***************************************************************************)
(* vehicle::core::SortTracker: one update for each frame matches the       *)
(* tracks with the detections, opens tracks for the others and forgets the *)
(* tracks that were missed too often.  The Kalman filter is left open: how *)
(* much the predicted box of a track overlaps a detection is a score, 0    *)
(* for at most minIou_ (Perception says which there are).                  *)
(***************************************************************************)
EXTENDS Subsequence

CONSTANTS MaxMissed,        \* maxMissedFrames_: 5
          TrajectoryLimit   \* points kept of a trajectory: 20

ASSUME TrackerAssumption == MaxMissed \in Nat /\ TrajectoryLimit \in Nat \ {0}

VARIABLES tracks,     \* tracks_; the trajectory as the frames of its points
          nextId,     \* nextId_
          visible,    \* what update() returned: [id, detection] pairs
          clock,      \* history: frames so far
          lastSeen    \* history: lastSeen[id], the last frame with a detection for it

trackerVars == <<tracks, nextId, visible, clock, lastSeen>>

TrackerInit ==
    /\ tracks = <<>> /\ nextId = 1 /\ visible = <<>>
    /\ clock = 0 /\ lastSeen = <<>>

----------------------------------------------------------------------------
\* Seeded: equal overlaps count as better, so that none at all does too.
BestFault(row, used) ==
    LET free == DOMAIN row \ used
    IN  IF free = {} THEN 0
        ELSE CHOOSE d \in free : \A e \in free : row[e] < row[d] \/ (row[e] = row[d] /\ e <= d)

\* The detection a track takes: the first with the largest overlap among
\* those not used, 0 if none overlaps.
Best(row, used) ==
    LET free == {d \in DOMAIN row \ used : row[d] > 0}
    IN  IF free = {} THEN 0
        ELSE CHOOSE d \in free : \A e \in free : row[e] < row[d] \/ (row[e] = row[d] /\ d <= e)

Used(match) == {match[i] : i \in DOMAIN match} \ {0}

\* The tracks choose in their order: what each takes is gone for the others.
Match(score) ==
    LET first[k \in 0..Len(score)] ==
            IF k = 0 THEN <<>>
            ELSE LET before == first[k - 1] IN Append(before, Best(score[k], Used(before)))
    IN  first[Len(score)]

\* Seeded: the trajectory is cut one point too late.
ExtendedFault(trajectory, point) ==
    LET longer == Append(trajectory, point)
    IN  IF Len(trajectory) > TrajectoryLimit THEN Tail(longer) ELSE longer

Extended(trajectory, point) ==
    LET longer == Append(trajectory, point)
    IN  IF Len(longer) > TrajectoryLimit THEN Tail(longer) ELSE longer

Matched(track, detection) ==
    [track EXCEPT !.detection = detection, !.age = @ + 1, !.missed = 0,
                  !.trajectory = Extended(@, clock + 1)]

Missed(track) == [track EXCEPT !.missed = @ + 1]

NewTrack(id, detection) ==
    [id |-> id, detection |-> detection, age |-> 0, missed |-> 0, trajectory |-> <<clock + 1>>]

\* Seeded: one missed frame is forgiven less.
SurvivorsFault(all) == Picked(all, {i \in DOMAIN all : all[i].missed < MaxMissed})
Survivors(all) == Picked(all, {i \in DOMAIN all : all[i].missed <= MaxMissed})

\* The detections no track took, in their order.
Unmatched(n, match) == Picked([d \in 1..n |-> d], (1..n) \ Used(match))

\* update() with n detections.
Update(n, score) ==
    LET match == Match(score)
        fresh == Unmatched(n, match)
        all == [i \in DOMAIN tracks |-> IF match[i] = 0 THEN Missed(tracks[i])
                                                       ELSE Matched(tracks[i], match[i])]
                 \o [i \in DOMAIN fresh |-> NewTrack(nextId + i - 1, fresh[i])]
        seen == Picked(tracks', {i \in DOMAIN tracks' : tracks'[i].missed = 0})
    IN  /\ tracks' = Survivors(all)
        /\ nextId' = nextId + Len(fresh)
        /\ visible' = [i \in DOMAIN seen |-> [id |-> seen[i].id, detection |-> seen[i].detection]]
        /\ clock' = clock + 1
        /\ lastSeen' = [id \in 1..(nextId' - 1) |->
                           IF \/ id >= nextId
                              \/ \E i \in DOMAIN tracks : tracks[i].id = id /\ match[i] # 0
                             THEN clock + 1 ELSE lastSeen[id]]
----------------------------------------------------------------------------
\* The window of the trajectory is never exceeded and ends with the last match.
TracksOK ==
    /\ nextId \in Nat \ {0}
    /\ \A i \in DOMAIN tracks :
          /\ tracks[i].id \in 1..(nextId - 1)
          /\ tracks[i].detection \in Nat \ {0}
          /\ tracks[i].missed \in 0..MaxMissed
          /\ LET path == tracks[i].trajectory IN
                /\ Len(path) = IF tracks[i].age < TrajectoryLimit THEN tracks[i].age + 1
                                                                  ELSE TrajectoryLimit
                /\ \A j, k \in DOMAIN path : j < k => path[j] < path[k]
                /\ path[Len(path)] = lastSeen[tracks[i].id]

\* A track keeps its id for as long as it was seen within the last MaxMissed
\* frames, and no longer; an id that is gone is never used again.  The ids in
\* use are always listed from the oldest to the newest.
KeptExactlyWhileRecent ==
    /\ {tracks[i].id : i \in DOMAIN tracks}
          = {id \in DOMAIN lastSeen : clock - lastSeen[id] <= MaxMissed}
    /\ \A i, j \in DOMAIN tracks : i < j => tracks[i].id < tracks[j].id
    /\ \A i \in DOMAIN tracks : tracks[i].missed = clock - lastSeen[tracks[i].id]
=============================================================================
