--------------------------- MODULE PerceptionProofs ---------------------------
(***************************************************************************)
(* Theorems about Perception, for any outputs of the model, any boxes the  *)
(* Kalman filter predicts and any number of frames: the types, that what   *)
(* there is to find in an output is what is found, which tracks are kept,  *)
(* the order in which they choose, and that no two tracks are on one       *)
(* object.                                                                 *)
(***************************************************************************)
EXTENDS Perception, SequenceTheorems, FiniteSetTheorems, WellFoundedInduction, TLAPS

(* Induction over a set: the least number that was missing from it would    *)
(* come after one that is in it.                                           *)
LEMMA NatSetInduction ==
    ASSUME NEW S, 0 \in S, \A n \in Nat : n \in S => n + 1 \in S
    PROVE  \A n \in Nat : n \in S
<1> SUFFICES ASSUME Nat \ S # {} PROVE FALSE
    OBVIOUS
<1>. DEFINE less == OpToRel(<, Nat)
<1>1. PICK n \in Nat \ S : \A m \in Nat \ S : <<m, n>> \notin less
    <2>. HIDE DEF less
    <2>1. IsWellFoundedOn(less, Nat)
        BY NatLessThanWellFounded DEF less
    <2>. QED
        BY <2>1, WFMin
<1>2. n # 0 /\ n - 1 \in Nat /\ (n - 1) + 1 = n /\ n - 1 < n
    OBVIOUS
<1>3. <<n - 1, n>> \in less
    BY <1>2 DEF OpToRel
<1>. QED
    BY <1>1, <1>2, <1>3

\* The values from start on, each from the one before it.
Steps(g, start, n, step) == g[0] = start /\ \A k \in 1..n : g[k] = step[k][g[k - 1]]

LEMMA Recursion ==
    ASSUME NEW T, NEW start \in T, NEW n \in Nat, NEW step \in [1..n -> [T -> T]]
    PROVE  \E g \in [0..n -> T] : Steps(g, start, n, step)
<1>. DEFINE Good(m, g) == /\ g \in [0..m -> T]
                          /\ \A k \in 0..m : g[k] = IF k = 0 THEN start ELSE step[k][g[k - 1]]
            S == {m \in Nat : m <= n => \E g \in [0..m -> T] : Good(m, g)}
<1>1. 0 \in S
    <2>1. \A k \in 0..0 : k = 0
        OBVIOUS
    <2>2. Good(0, [k \in 0..0 |-> start])
        BY <2>1
    <2>. QED
        BY <2>2
<1>2. \A m \in Nat : m \in S => m + 1 \in S
    <2> SUFFICES ASSUME NEW m \in Nat, m \in S PROVE m + 1 \in S
        OBVIOUS
    <2> SUFFICES ASSUME m + 1 <= n PROVE \E g \in [0..(m + 1) -> T] : Good(m + 1, g)
        OBVIOUS
    <2>1. PICK g \in [0..m -> T] : Good(m, g)
        OBVIOUS
    <2>. DEFINE h == [k \in 0..(m + 1) |-> IF k = m + 1 THEN step[m + 1][g[m]] ELSE g[k]]
    <2>2. m + 1 \in 1..n /\ m \in 0..m /\ \A k \in 0..(m + 1) : k = m + 1 \/ k \in 0..m
        OBVIOUS
    <2>3. h \in [0..(m + 1) -> T]
        BY <2>2
    <2>4. ASSUME NEW k \in 0..(m + 1)
          PROVE  h[k] = IF k = 0 THEN start ELSE step[k][h[k - 1]]
        <3>1. CASE k = m + 1
            BY <2>2, <3>1
        <3>2. CASE k \in 0..m
            BY <2>1, <3>2
        <3>. QED
            BY <2>2, <3>1, <3>2
    <2>. QED
        BY <2>3, <2>4
<1>. HIDE DEF S
<1>3. n \in S
    BY <1>1, <1>2, NatSetInduction
<1>4. PICK g \in [0..n -> T] : Good(n, g)
    BY <1>3 DEF S
<1>5. Steps(g, start, n, step)
    BY <1>4 DEF Steps
<1>. QED
    BY <1>5

(* The places of s, up to the n-th, from which the elements of p are. *)
Selects(at, p, s, n, places) ==
    /\ \A i \in 1..Len(p) : at[i] \in places /\ p[i] = s[at[i]]
    /\ \A i, j \in 1..Len(p) : i < j => at[i] < at[j]
    /\ \A k \in 1..n : k \in places => \E i \in 1..Len(p) : at[i] = k

LEMMA SelectsNext ==
    ASSUME NEW T, NEW s \in Seq(T), NEW places, NEW n \in Nat, n + 1 \in places, n + 1 <= Len(s),
           NEW p \in Seq(T), NEW at \in [1..Len(p) -> 1..n], Selects(at, p, s, n, places)
    PROVE  /\ Append(p, s[n + 1]) \in Seq(T)
           /\ \E to \in [1..Len(Append(p, s[n + 1])) -> 1..(n + 1)] :
                 Selects(to, Append(p, s[n + 1]), s, n + 1, places)
<1>1. s[n + 1] \in T
    BY LenProperties
<1>. DEFINE q == Append(p, s[n + 1])
            to == [i \in 1..(Len(p) + 1) |-> IF i = Len(p) + 1 THEN n + 1 ELSE at[i]]
<1>2. /\ q \in Seq(T) /\ Len(q) = Len(p) + 1 /\ Len(p) \in Nat
      /\ \A i \in 1..Len(p) : q[i] = p[i]
      /\ q[Len(p) + 1] = s[n + 1]
    BY <1>1, AppendProperties, LenProperties
<1>. HIDE DEF q
<1>3. \A i \in 1..Len(q) : i \in 1..Len(p) \/ i = Len(p) + 1
    BY <1>2
<1>4. /\ to \in [1..Len(q) -> 1..(n + 1)]
      /\ to[Len(p) + 1] = n + 1 /\ \A i \in 1..Len(p) : to[i] = at[i] /\ to[i] < n + 1
    <2>1. /\ \A i \in 1..Len(p) : at[i] \in 1..n /\ i # Len(p) + 1 /\ i \in 1..(Len(p) + 1)
          /\ n + 1 \in 1..(n + 1) /\ Len(p) + 1 \in 1..(Len(p) + 1)
        BY <1>2
    <2>2. \A i \in 1..(Len(p) + 1) : i \in 1..Len(p) \/ i = Len(p) + 1
        BY <1>2
    <2>3. \A i \in 1..n : i \in 1..(n + 1) /\ i < n + 1
        OBVIOUS
    <2>. QED
        BY <1>2, <2>1, <2>2, <2>3
<1>. HIDE DEF to
<1>5. \A i \in 1..Len(q) : to[i] \in places /\ q[i] = s[to[i]]
    BY <1>2, <1>3, <1>4 DEF Selects
<1>6. ASSUME NEW i \in 1..Len(q), NEW j \in 1..Len(q), i < j PROVE to[i] < to[j]
    <2>1. i \in 1..Len(p)
        BY <1>2, <1>6
    <2>. QED
        BY <1>3, <1>4, <1>6, <2>1 DEF Selects
<1>7. ASSUME NEW k \in 1..(n + 1), k \in places PROVE \E i \in 1..Len(q) : to[i] = k
    <2>1. CASE k = n + 1
        BY <1>2, <1>4, <2>1
    <2>2. CASE k \in 1..n
        <3>1. PICK i \in 1..Len(p) : at[i] = k
            BY <1>7, <2>2 DEF Selects
        <3>2. i \in 1..Len(q)
            BY <1>2
        <3>3. to[i] = k
            BY <1>4, <3>1
        <3>. QED
            BY <3>2, <3>3
    <2>. QED
        BY <2>1, <2>2
<1>. QED
    BY <1>2, <1>4, <1>5, <1>6, <1>7 DEF Selects, q

LEMMA PickedProperties ==
    ASSUME NEW T, NEW s \in Seq(T), NEW places
    PROVE  /\ Picked(s, places) \in Seq(T)
           /\ \E at \in [1..Len(Picked(s, places)) -> 1..Len(s)] :
                 Selects(at, Picked(s, places), s, Len(s), places)
<1>. DEFINE upTo[k \in 0..Len(s)] ==
                IF k = 0 THEN <<>>
                ELSE IF k \in places THEN Append(upTo[k - 1], s[k])
                ELSE upTo[k - 1]
            n == Len(s)
<1>1. Picked(s, places) = upTo[n]
    BY DEF Picked
<1>2. n \in Nat /\ \A k \in 1..n : s[k] \in T
    BY LenProperties
<1>3. \E g : g = [k \in 0..Len(s) |->
                     IF k = 0 THEN <<>>
                     ELSE IF k \in places THEN Append(g[k - 1], s[k])
                     ELSE g[k - 1]]
    <2>. DEFINE step == [k \in 1..n |->
                            [p \in Seq(T) |-> IF k \in places THEN Append(p, s[k]) ELSE p]]
    <2>1. step \in [1..n -> [Seq(T) -> Seq(T)]]
        BY <1>2, AppendProperties
    <2>2. <<>> \in Seq(T)
        BY EmptySeq
    <2>. HIDE DEF step, n
    <2>3. PICK g \in [0..n -> Seq(T)] : Steps(g, <<>>, n, step)
        BY <1>2, <2>1, <2>2, Recursion
    <2>4. ASSUME NEW k \in 0..n
          PROVE  g[k] = IF k = 0 THEN <<>>
                        ELSE IF k \in places THEN Append(g[k - 1], s[k])
                        ELSE g[k - 1]
        <3>1. CASE k = 0
            BY <2>3, <3>1 DEF Steps
        <3>2. CASE k # 0
            <4>1. k \in 1..n /\ k - 1 \in 0..n
                BY <1>2, <3>2
            <4>2. g[k - 1] \in Seq(T)
                BY <4>1
            <4>3. step[k][g[k - 1]] = IF k \in places THEN Append(g[k - 1], s[k]) ELSE g[k - 1]
                BY <4>1, <4>2 DEF step
            <4>. QED
                BY <2>3, <3>2, <4>1, <4>3 DEF Steps
        <3>. QED
            BY <3>1, <3>2
    <2>5. g = [k \in 0..n |-> IF k = 0 THEN <<>>
                              ELSE IF k \in places THEN Append(g[k - 1], s[k])
                              ELSE g[k - 1]]
        BY <2>4
    <2>. QED
        BY <2>5 DEF n
<1>4. upTo = [k \in 0..Len(s) |-> IF k = 0 THEN <<>>
                                  ELSE IF k \in places THEN Append(upTo[k - 1], s[k])
                                  ELSE upTo[k - 1]]
    BY <1>3
<1>. HIDE DEF upTo
<1>5. \A k \in 0..n : upTo[k] = IF k = 0 THEN <<>>
                                ELSE IF k \in places THEN Append(upTo[k - 1], s[k])
                                ELSE upTo[k - 1]
    BY <1>4
<1>. HIDE DEF n
<1>. DEFINE Good(k) == /\ upTo[k] \in Seq(T)
                       /\ \E at \in [1..Len(upTo[k]) -> 1..k] : Selects(at, upTo[k], s, k, places)
            S == {k \in Nat : k <= n => Good(k)}
<1>6. 0 \in S
    <2>1. 0 \in 0..n
        BY <1>2
    <2>2. upTo[0] = <<>> /\ <<>> \in Seq(T) /\ Len(<<>>) = 0
        BY <1>5, <2>1, EmptySeq, Zenon
    <2>3. <<>> \in [1..0 -> 1..0] /\ 1..0 = {}
        OBVIOUS
    <2>4. Selects(<<>>, <<>>, s, 0, places)
        BY <2>2, <2>3 DEF Selects
    <2>5. Good(0)
        BY <2>2, <2>3, <2>4
    <2>. QED
        BY <2>5
<1>7. ASSUME NEW k \in Nat, k \in S PROVE k + 1 \in S
    <2> SUFFICES ASSUME k + 1 <= n PROVE Good(k + 1)
        OBVIOUS
    <2>1. Good(k) /\ k + 1 \in 0..n /\ k + 1 # 0 /\ (k + 1) - 1 = k
        BY <1>2, <1>7
    <2>2. PICK at \in [1..Len(upTo[k]) -> 1..k] : Selects(at, upTo[k], s, k, places)
        BY <2>1
    <2>3. CASE k + 1 \in places
        <3>1. upTo[k + 1] = Append(upTo[k], s[k + 1])
            BY <1>5, <2>1, <2>3
        <3>2. /\ Append(upTo[k], s[k + 1]) \in Seq(T)
              /\ \E to \in [1..Len(Append(upTo[k], s[k + 1])) -> 1..(k + 1)] :
                    Selects(to, Append(upTo[k], s[k + 1]), s, k + 1, places)
            BY <2>1, <2>2, <2>3, SelectsNext DEF n
        <3>. QED
            BY <3>1, <3>2
    <2>4. CASE k + 1 \notin places
        <3>1. upTo[k + 1] = upTo[k]
            BY <1>5, <2>1, <2>4
        <3>2. at \in [1..Len(upTo[k]) -> 1..(k + 1)]
            BY <2>2
        <3>3. Selects(at, upTo[k], s, k + 1, places)
            <4>1. \A j \in 1..(k + 1) : j \in places => j \in 1..k
                BY <2>4
            <4>. QED
                BY <2>2, <4>1 DEF Selects
        <3>. QED
            BY <2>1, <3>1, <3>2, <3>3
    <2>. QED
        BY <2>3, <2>4
<1>. HIDE DEF S
<1>8. n \in S
    BY <1>2, <1>6, <1>7, NatSetInduction
<1>. QED
    BY <1>1, <1>2, <1>8 DEF S, n
----------------------------------------------------------------------------
(* Matching. *)

(* The loop over the detections: one that is free and overlaps most. *)
LEMMA BestProperties ==
    ASSUME NEW n \in Nat, NEW row \in [1..n -> Nat], NEW used
    PROVE  /\ Best(row, used) \in 0..n
           /\ Best(row, used) = 0 => \A d \in 1..n : d \in used \/ row[d] = 0
           /\ Best(row, used) # 0 =>
                 /\ Best(row, used) \notin used /\ row[Best(row, used)] > 0
                 /\ \A d \in 1..n : d \in used \/ row[d] <= row[Best(row, used)]
<1>. DEFINE free == {d \in DOMAIN row \ used : row[d] > 0}
            First(d, k) == /\ d \in free /\ d <= k
                           /\ \A e \in free : e <= k => row[e] < row[d] \/ (row[e] = row[d] /\ d <= e)
            S == {k \in Nat : k <= n => \/ \A e \in free : e > k
                                        \/ \E d \in 1..n : First(d, k)}
<1>1. free \subseteq 1..n /\ \A d \in 1..n : row[d] \in Nat
    OBVIOUS
<1>2. 0 \in S
    BY <1>1
<1>3. ASSUME NEW k \in Nat, k \in S PROVE k + 1 \in S
    <2> SUFFICES ASSUME k + 1 <= n
                 PROVE  \/ \A e \in free : e > k + 1
                        \/ \E d \in 1..n : First(d, k + 1)
        OBVIOUS
    <2>. HIDE DEF free
    <2>1. \A e \in 1..n : e <= k + 1 => e <= k \/ e = k + 1
        OBVIOUS
    <2>2. CASE \A e \in free : e > k
        <3>1. CASE k + 1 \in free
            <4>1. First(k + 1, k + 1)
                BY <1>1, <2>2, <3>1
            <4>. QED
                BY <1>1, <3>1, <4>1
        <3>2. CASE k + 1 \notin free
            BY <1>1, <2>2, <3>2, SMTT(30)
        <3>. QED
            BY <3>1, <3>2
    <2>3. ASSUME NEW d \in 1..n, First(d, k) PROVE \E c \in 1..n : First(c, k + 1)
        <3>1. CASE k + 1 \in free /\ row[d] < row[k + 1]
            <4>1. ASSUME NEW e \in free, e <= k + 1
                  PROVE  row[e] < row[k + 1] \/ (row[e] = row[k + 1] /\ k + 1 <= e)
                <5>1. e \in 1..n /\ row[e] \in Nat /\ row[d] \in Nat /\ row[k + 1] \in Nat
                    BY <1>1, <3>1
                <5>. QED
                    BY <2>1, <2>3, <3>1, <4>1, <5>1
            <4>2. First(k + 1, k + 1)
                BY <3>1, <4>1
            <4>. QED
                BY <1>1, <3>1, <4>2
        <3>2. CASE ~ (k + 1 \in free /\ row[d] < row[k + 1])
            <4>1. ASSUME NEW e \in free, e <= k + 1
                  PROVE  row[e] < row[d] \/ (row[e] = row[d] /\ d <= e)
                <5>1. e \in 1..n /\ row[e] \in Nat /\ row[d] \in Nat
                    BY <1>1
                <5>2. CASE e = k + 1
                    BY <2>3, <3>2, <5>1, <5>2
                <5>3. CASE e <= k
                    BY <2>3, <5>3
                <5>. QED
                    BY <2>1, <4>1, <5>1, <5>2, <5>3
            <4>2. First(d, k + 1)
                BY <2>3, <4>1
            <4>. QED
                BY <4>2
        <3>. QED
            BY <3>1, <3>2
    <2>. QED
        BY <1>3, <2>2, <2>3
<1>. HIDE DEF S
<1>4. n \in S
    BY <1>2, <1>3, NatSetInduction
<1>5. CASE free = {}
    BY <1>1, <1>5 DEF Best
<1>6. CASE free # {}
    <2>. HIDE DEF free
    <2>1. PICK d \in 1..n : First(d, n)
        <3>1. (\A e \in free : e > n) \/ \E d \in 1..n : First(d, n)
            BY <1>4 DEF S
        <3>2. \E e \in free : ~ (e > n)
            <4>1. PICK e \in free : TRUE
                BY <1>6
            <4>2. e \in 1..n
                BY <1>1, <4>1
            <4>. QED
                BY <4>1, <4>2
        <3>. QED
            BY <3>1, <3>2
    <2>2. d \in free /\ \A e \in free : row[e] < row[d] \/ (row[e] = row[d] /\ d <= e)
        BY <1>1, <2>1
    <2>. DEFINE best == CHOOSE c \in free : \A e \in free : row[e] < row[c] \/ (row[e] = row[c] /\ c <= e)
    <2>3. best \in free /\ \A e \in free : row[e] < row[best] \/ (row[e] = row[best] /\ best <= e)
        BY <2>2
    <2>4. Best(row, used) = best
        BY <1>6 DEF Best, free
    <2>. HIDE DEF best
    <2>5. best \in 1..n /\ row[best] \in Nat /\ best \notin used /\ row[best] > 0
        BY <1>1, <2>3 DEF free
    <2>6. \A e \in 1..n : e \in used \/ row[e] <= row[best]
        <3> SUFFICES ASSUME NEW e \in 1..n, e \notin used PROVE row[e] <= row[best]
            OBVIOUS
        <3>1. row[e] = 0 \/ e \in free
            BY <1>1 DEF free
        <3>. QED
            BY <1>1, <2>3, <2>5, <3>1
    <2>. QED
        BY <2>4, <2>5, <2>6
<1>. QED
    BY <1>5, <1>6

(* The loop over the tracks: each leaves for the others what it took. *)
LEMMA MatchProperties ==
    ASSUME NEW n \in Nat, NEW rows \in Seq([1..n -> Nat])
    PROVE  /\ Match(rows) \in Seq(0..n) /\ Len(Match(rows)) = Len(rows)
           /\ \A k \in 1..Len(rows) :
                 Match(rows)[k] = Best(rows[k], {Match(rows)[j] : j \in 1..(k - 1)} \ {0})
<1>. DEFINE T == Seq(0..n)
            m == Len(rows)
            first[k \in 0..Len(rows)] ==
                IF k = 0 THEN <<>>
                ELSE LET before == first[k - 1] IN Append(before, Best(rows[k], Used(before)))
<1>1. Match(rows) = first[m]
    BY DEF Match
<1>2. m \in Nat /\ \A k \in 1..m : rows[k] \in [1..n -> Nat]
    BY LenProperties
<1>3. \A k \in 1..m : \A used : Best(rows[k], used) \in 0..n
    BY <1>2, BestProperties
<1>4. \E g : g = [k \in 0..Len(rows) |->
                     IF k = 0 THEN <<>>
                     ELSE LET before == g[k - 1] IN Append(before, Best(rows[k], Used(before)))]
    <2>. DEFINE step == [k \in 1..m |-> [b \in T |-> Append(b, Best(rows[k], Used(b)))]]
    <2>1. step \in [1..m -> [T -> T]]
        BY <1>3, AppendProperties
    <2>2. <<>> \in T
        BY EmptySeq
    <2>. HIDE DEF step, m, T
    <2>3. PICK g \in [0..m -> T] : Steps(g, <<>>, m, step)
        BY <1>2, <2>1, <2>2, Recursion
    <2>4. ASSUME NEW k \in 0..m
          PROVE  g[k] = IF k = 0 THEN <<>> ELSE Append(g[k - 1], Best(rows[k], Used(g[k - 1])))
        <3>1. CASE k = 0
            BY <2>3, <3>1 DEF Steps
        <3>2. CASE k # 0
            <4>1. k \in 1..m /\ k - 1 \in 0..m
                BY <1>2, <3>2
            <4>2. g[k - 1] \in T
                BY <4>1
            <4>3. step[k][g[k - 1]] = Append(g[k - 1], Best(rows[k], Used(g[k - 1])))
                BY <4>1, <4>2 DEF step
            <4>. QED
                BY <2>3, <3>2, <4>1, <4>3 DEF Steps
        <3>. QED
            BY <3>1, <3>2
    <2>5. g = [k \in 0..m |-> IF k = 0 THEN <<>>
                              ELSE Append(g[k - 1], Best(rows[k], Used(g[k - 1])))]
        BY <2>4
    <2>. QED
        BY <2>5 DEF m
<1>5. first = [k \in 0..Len(rows) |->
                  IF k = 0 THEN <<>>
                  ELSE LET before == first[k - 1] IN Append(before, Best(rows[k], Used(before)))]
    BY <1>4
<1>. HIDE DEF first
<1>6. \A k \in 0..m : first[k] = IF k = 0 THEN <<>>
                                 ELSE Append(first[k - 1], Best(rows[k], Used(first[k - 1])))
    BY <1>5
<1>. HIDE DEF m
<1>. DEFINE Good(k) == /\ first[k] \in Seq(0..n) /\ Len(first[k]) = k
                       /\ \A i \in 1..k :
                             first[k][i] = Best(rows[i], {first[k][j] : j \in 1..(i - 1)} \ {0})
            S == {k \in Nat : k <= m => Good(k)}
<1>. HIDE DEF Good
<1>7. 0 \in S
    <2>1. 0 \in 0..m
        BY <1>2
    <2>2. first[0] = <<>> /\ <<>> \in Seq(0..n) /\ Len(<<>>) = 0
        BY <1>6, <2>1, EmptySeq, Zenon
    <2>3. 1..0 = {}
        OBVIOUS
    <2>4. Good(0)
        BY <2>2, <2>3 DEF Good
    <2>. QED
        BY <2>4
<1>8. ASSUME NEW k \in Nat, k \in S PROVE k + 1 \in S
    <2> SUFFICES ASSUME k + 1 <= m PROVE Good(k + 1)
        OBVIOUS
    <2>. DEFINE f == first[k]
                b == Best(rows[k + 1], Used(f))
                g == Append(f, b)
    <2>1. Good(k) /\ k + 1 \in 1..m /\ k + 1 \in 0..m /\ k + 1 # 0 /\ (k + 1) - 1 = k
        BY <1>2, <1>8
    <2>2. first[k + 1] = g
        BY <1>6, <2>1
    <2>3. f \in Seq(0..n) /\ Len(f) = k /\ b \in 0..n
        BY <1>3, <2>1 DEF Good
    <2>4. DOMAIN f = 1..k
        BY <2>3, LenProperties
    <2>. HIDE DEF f, b
    <2>5. /\ g \in Seq(0..n) /\ Len(g) = k + 1
          /\ \A i \in 1..k : g[i] = f[i]
          /\ g[k + 1] = b
        BY <2>3, AppendProperties
    <2>. HIDE DEF g
    <2>6. ASSUME NEW i \in 1..(k + 1)
          PROVE  g[i] = Best(rows[i], {g[j] : j \in 1..(i - 1)} \ {0})
        <3>1. \A j \in 1..(i - 1) : j \in 1..k
            OBVIOUS
        <3>2. {g[j] : j \in 1..(i - 1)} = {f[j] : j \in 1..(i - 1)}
            BY <2>5, <3>1
        <3>3. CASE i \in 1..k
            <4>1. f[i] = Best(rows[i], {f[j] : j \in 1..(i - 1)} \ {0})
                BY <2>1, <3>3 DEF f, Good
            <4>. QED
                BY <2>5, <3>2, <3>3, <4>1
        <3>4. CASE i = k + 1
            <4>1. Used(f) = {f[j] : j \in 1..(i - 1)} \ {0}
                BY <2>4, <3>4 DEF Used
            <4>. QED
                BY <2>5, <3>2, <3>4, <4>1 DEF b
        <3>. QED
            BY <3>3, <3>4
    <2>. QED
        BY <2>2, <2>5, <2>6 DEF Good
<1>. HIDE DEF S
<1>9. m \in S
    BY <1>2, <1>7, <1>8, NatSetInduction
<1>10. Good(m)
    BY <1>2, <1>9 DEF S
<1>. QED
    BY <1>1, <1>10 DEF Good, m
----------------------------------------------------------------------------
(* The list of tracks. *)

TrackType == [id : Nat, detection : Nat, age : Nat, missed : Nat, trajectory : Seq(Nat)]

\* The frames of a trajectory, of which the last one is known.
Trail(path, age, last) ==
    /\ path \in Seq(Nat)
    /\ Len(path) = IF age < TrajectoryLimit THEN age + 1 ELSE TrajectoryLimit
    /\ \A j, k \in 1..Len(path) : j < k => path[j] < path[k]
    /\ path[Len(path)] = last

LEMMA ExtendedTrail ==
    ASSUME NEW path, NEW age \in Nat, NEW last, NEW point \in Nat, Trail(path, age, last), last < point
    PROVE  Trail(Extended(path, point), age + 1, point)
<1>. DEFINE longer == Append(path, point)
            n == Len(path)
<1>1. /\ path \in Seq(Nat) /\ n \in Nat \ {0} /\ path[n] = last
      /\ n = IF age < TrajectoryLimit THEN age + 1 ELSE TrajectoryLimit
      /\ \A j, k \in 1..n : j < k => path[j] < path[k]
      /\ \A j \in 1..n : path[j] \in Nat
    BY TrackerAssumption, LenProperties DEF Trail
<1>2. /\ longer \in Seq(Nat) /\ longer # <<>> /\ Len(longer) = n + 1
      /\ \A j \in 1..n : longer[j] = path[j]
      /\ longer[n + 1] = point
    <2>1. path \in Seq(Nat)
        BY <1>1
    <2>2. /\ longer \in Seq(Nat) /\ longer # <<>> /\ Len(longer) = Len(path) + 1
          /\ \A j \in 1..Len(path) : longer[j] = path[j]
          /\ longer[Len(path) + 1] = point
        BY <2>1, AppendProperties
    <2>. QED
        BY <2>2
<1>. HIDE DEF longer, n
<1>3. ASSUME NEW j \in 1..(n + 1), NEW k \in 1..(n + 1), j < k PROVE longer[j] < longer[k]
    <2>1. j \in 1..n /\ longer[j] = path[j] /\ path[j] \in Nat
        <3>1. n \in Nat
            BY <1>1
        <3>2. j \in 1..n
            BY <1>3, <3>1
        <3>. QED
            BY <1>1, <1>2, <3>2
    <2>2. path[j] <= last /\ last \in Nat
        <3>1. CASE j = n
            BY <1>1, <2>1, <3>1
        <3>2. CASE j # n
            <4>1. j < n /\ n \in 1..n
                BY <1>1, <2>1, <3>2
            <4>2. path[j] < path[n] /\ path[n] \in Nat
                BY <1>1, <2>1, <4>1
            <4>. QED
                BY <1>1, <2>1, <4>2
        <3>. QED
            BY <3>1, <3>2
    <2>3. CASE k = n + 1
        BY <1>2, <2>1, <2>2, <2>3
    <2>4. CASE k \in 1..n
        BY <1>1, <1>2, <1>3, <2>1, <2>4
    <2>. QED
        BY <1>1, <2>3, <2>4
<1>4. CASE n + 1 > TrajectoryLimit
    <2>. DEFINE cut == Tail(longer)
    <2>1. Extended(path, point) = cut
        BY <1>2, <1>4 DEF Extended, longer
    <2>2. /\ cut \in Seq(Nat) /\ Len(cut) = n
          /\ \A j \in 1..n : cut[j] = longer[j + 1]
        BY <1>1, <1>2, HeadTailProperties, SMTT(30)
    <2>. HIDE DEF cut
    <2>3. n = TrajectoryLimit /\ ~ (age + 1 < TrajectoryLimit)
        BY <1>1, <1>4, TrackerAssumption
    <2>4. ASSUME NEW j \in 1..n, NEW k \in 1..n, j < k PROVE cut[j] < cut[k]
        <3>1. n \in Nat
            BY <1>1
        <3>2. j + 1 \in 1..(n + 1) /\ k + 1 \in 1..(n + 1) /\ j + 1 < k + 1
            BY <2>4, <3>1
        <3>3. longer[j + 1] < longer[k + 1]
            BY <1>3, <3>2
        <3>. QED
            BY <2>2, <3>3
    <2>5. cut[n] = point
        <3>1. n \in 1..n
            BY <1>1
        <3>. QED
            BY <1>2, <2>2, <3>1
    <2>. QED
        BY <2>1, <2>2, <2>3, <2>4, <2>5 DEF Trail
<1>5. CASE ~ (n + 1 > TrajectoryLimit)
    <2>1. Extended(path, point) = longer
        BY <1>2, <1>5 DEF Extended, longer
    <2>2. n + 1 = IF age + 1 < TrajectoryLimit THEN (age + 1) + 1 ELSE TrajectoryLimit
        BY <1>1, <1>5, TrackerAssumption
    <2>. QED
        BY <1>2, <1>3, <2>1, <2>2 DEF Trail
<1>. QED
    BY <1>4, <1>5

\* A track as it stands after `now` frames, when seen[id] is the last frame in
\* which the track id had a detection.
GoodTrack(t, next, seen, now) ==
    /\ t \in TrackType
    /\ t.id \in 1..(next - 1) /\ t.detection # 0
    /\ t.missed = now - seen[t.id]
    /\ Trail(t.trajectory, t.age, seen[t.id])

\* A list of tracks that lacks none that was seen within the last frames.
GoodList(list, next, seen, now) ==
    /\ next \in Nat \ {0} /\ now \in Nat /\ seen \in [1..(next - 1) -> 1..now]
    /\ list \in Seq(TrackType)
    /\ \A i \in 1..Len(list) : GoodTrack(list[i], next, seen, now)
    /\ \A i, j \in 1..Len(list) : i < j => list[i].id < list[j].id
    /\ \A id \in 1..(next - 1) :
          now - seen[id] <= MaxMissed => \E i \in 1..Len(list) : list[i].id = id

(* Erasing the tracks that were missed too often. *)
LEMMA SurvivorsGood ==
    ASSUME NEW list, NEW next, NEW seen, NEW now, GoodList(list, next, seen, now)
    PROVE  /\ GoodList(Survivors(list), next, seen, now)
           /\ \A i \in 1..Len(Survivors(list)) : Survivors(list)[i].missed <= MaxMissed
           /\ \E at \in [1..Len(Survivors(list)) -> 1..Len(list)] :
                 Selects(at, Survivors(list), list, Len(list),
                         {i \in 1..Len(list) : list[i].missed <= MaxMissed})
<1>. DEFINE places == {i \in 1..Len(list) : list[i].missed <= MaxMissed}
            left == Survivors(list)
<1>1. list \in Seq(TrackType) /\ DOMAIN list = 1..Len(list) /\ Len(list) \in Nat
    BY LenProperties DEF GoodList
<1>2. left = Picked(list, places)
    BY <1>1 DEF Survivors
<1>. HIDE DEF left
<1>3. left \in Seq(TrackType)
    <2>. HIDE DEF places
    <2>. QED
        BY <1>1, <1>2, PickedProperties
<1>4. PICK at \in [1..Len(left) -> 1..Len(list)] : Selects(at, left, list, Len(list), places)
    <2>. HIDE DEF places
    <2>. QED
        BY <1>1, <1>2, PickedProperties
<1>5. \A i \in 1..Len(left) : at[i] \in 1..Len(list) /\ left[i] = list[at[i]] /\ at[i] \in places
    BY <1>4 DEF Selects
<1>6. ASSUME NEW i \in 1..Len(left), NEW j \in 1..Len(left), i < j
      PROVE  left[i].id < left[j].id
    <2>1. at[i] < at[j]
        BY <1>4, <1>6 DEF Selects
    <2>2. list[at[i]].id < list[at[j]].id
        BY <1>5, <2>1 DEF GoodList
    <2>. QED
        BY <1>5, <2>2
<1>7. ASSUME NEW id \in 1..(next - 1), now - seen[id] <= MaxMissed
      PROVE  \E i \in 1..Len(left) : left[i].id = id
    <2>1. PICK k \in 1..Len(list) : list[k].id = id
        BY <1>7 DEF GoodList
    <2>2. list[k].missed <= MaxMissed
        BY <1>7, <2>1 DEF GoodList, GoodTrack
    <2>3. PICK i \in 1..Len(left) : at[i] = k
        BY <1>4, <2>2 DEF Selects
    <2>. QED
        BY <1>5, <2>1, <2>3
<1>8. \A i \in 1..Len(left) : GoodTrack(left[i], next, seen, now) /\ left[i].missed <= MaxMissed
    BY <1>5 DEF GoodList
<1>9. GoodList(left, next, seen, now)
    BY <1>3, <1>6, <1>7, <1>8 DEF GoodList
<1>. QED
    BY <1>4, <1>8, <1>9 DEF left

(* What update() makes of the tracks before it erases some: those there were, *)
(* and one for each detection left over.                                      *)
Aged(match) == [i \in DOMAIN tracks |-> IF match[i] = 0 THEN Missed(tracks[i])
                                                       ELSE Matched(tracks[i], match[i])]
Opened(fresh) == [i \in DOMAIN fresh |-> NewTrack(nextId + i - 1, fresh[i])]
Everyone(n, match) == Aged(match) \o Opened(Unmatched(n, match))

LEMMA UnmatchedProperties ==
    ASSUME NEW n \in Nat, NEW match
    PROVE  /\ Unmatched(n, match) \in Seq(1..n)
           /\ \A i \in 1..Len(Unmatched(n, match)) : Unmatched(n, match)[i] \notin Used(match)
           /\ \A i, j \in 1..Len(Unmatched(n, match)) :
                 i < j => Unmatched(n, match)[i] < Unmatched(n, match)[j]
           /\ \A d \in 1..n : d \in Used(match) \/ \E i \in 1..Len(Unmatched(n, match)) :
                                                      Unmatched(n, match)[i] = d
<1>. DEFINE s == [d \in 1..n |-> d]
            places == (1..n) \ Used(match)
            fresh == Unmatched(n, match)
<1>1. s \in Seq(1..n) /\ Len(s) = n
    BY SeqDef
<1>2. \A d \in 1..n : s[d] = d
    OBVIOUS
<1>3. fresh = Picked(s, places)
    BY DEF Unmatched
<1>4. \A d \in 1..n : d \in places \/ d \in Used(match)
    OBVIOUS
<1>5. \A d \in places : d \notin Used(match)
    OBVIOUS
<1>. HIDE DEF s, places, fresh
<1>6. fresh \in Seq(1..n)
    BY <1>1, <1>3, PickedProperties
<1>7. PICK at \in [1..Len(fresh) -> 1..n] : Selects(at, fresh, s, n, places)
    BY <1>1, <1>3, PickedProperties
<1>8. \A i \in 1..Len(fresh) : fresh[i] = at[i] /\ at[i] \in places
    BY <1>2, <1>7 DEF Selects
<1>9. \A i, j \in 1..Len(fresh) : i < j => fresh[i] < fresh[j]
    BY <1>7, <1>8 DEF Selects
<1>10. \A d \in 1..n : d \in Used(match) \/ \E i \in 1..Len(fresh) : fresh[i] = d
    BY <1>4, <1>7, <1>8 DEF Selects
<1>. QED
    BY <1>5, <1>6, <1>8, <1>9, <1>10 DEF fresh

\* What is known of the tracks, the overlaps and the match when update() begins.
LEMMA UpdateBegins ==
    ASSUME GoodList(tracks, nextId, lastSeen, clock),
           NEW n \in Nat, NEW rows \in Seq([1..n -> Nat]), Len(rows) = Len(tracks)
    PROVE  /\ tracks \in Seq(TrackType) /\ DOMAIN tracks = 1..Len(tracks) /\ Len(tracks) \in Nat
           /\ Match(rows) \in Seq(0..n) /\ DOMAIN Match(rows) = 1..Len(tracks)
           /\ \A i \in 1..Len(tracks) : Match(rows)[i] \in 0..n
           /\ \A i, j \in 1..Len(tracks) : i # j /\ Match(rows)[i] # 0 => Match(rows)[i] # Match(rows)[j]
<1>. DEFINE match == Match(rows)
            m == Len(tracks)
<1>1. tracks \in Seq(TrackType) /\ DOMAIN tracks = 1..m /\ m \in Nat
    BY LenProperties DEF GoodList
<1>2. /\ match \in Seq(0..n) /\ Len(match) = m
      /\ \A k \in 1..m : match[k] = Best(rows[k], {match[j] : j \in 1..(k - 1)} \ {0})
    BY MatchProperties
<1>3. \A k \in 1..m : rows[k] \in [1..n -> Nat]
    BY LenProperties
<1>. HIDE DEF match, m
<1>4. DOMAIN match = 1..m /\ \A k \in 1..m : match[k] \in 0..n
    BY <1>2, LenProperties
<1>5. ASSUME NEW i \in 1..m, NEW j \in 1..m, j < i, match[i] # 0 PROVE match[i] # match[j]
    <2>. DEFINE used == {match[h] : h \in 1..(i - 1)} \ {0}
    <2>1. match[i] = Best(rows[i], used)
        BY <1>2
    <2>2. j \in 1..(i - 1)
        BY <1>1, <1>5
    <2>3. match[j] = 0 \/ match[j] \in used
        BY <2>2
    <2>. HIDE DEF used
    <2>4. match[i] \notin used
        <3>1. rows[i] \in [1..n -> Nat]
            BY <1>3
        <3>2. Best(rows[i], used) # 0 => Best(rows[i], used) \notin used
            BY <3>1, BestProperties
        <3>. QED
            BY <1>5, <2>1, <3>2
    <2>. QED
        BY <1>5, <2>3, <2>4
<1>6. ASSUME NEW i \in 1..m, NEW j \in 1..m, i # j, match[i] # 0 PROVE match[i] # match[j]
    <2>1. i < j \/ j < i
        BY <1>1, <1>6
    <2>. QED
        BY <1>5, <1>6, <2>1
<1>. QED
    BY <1>1, <1>2, <1>4, <1>6 DEF match, m


\* The ids below b, of which those from a on are new.
LEMMA Below ==
    ASSUME NEW a \in Nat \ {0}, NEW b \in Nat \ {0}
    PROVE  /\ \A id \in a..(b - 1) : id \in 1..(b - 1) /\ id >= a
           /\ a <= b => \A id \in 1..(a - 1) : id \in 1..(b - 1) /\ ~ (id >= a)
OBVIOUS

\* The frames in which the ids were seen last, with those of this one.
LEMMA SeenProperties ==
    ASSUME GoodList(tracks, nextId, lastSeen, clock),
           NEW n \in Nat, NEW rows \in Seq([1..n -> Nat]), Len(rows) = Len(tracks), Update(n, rows)
    PROVE  /\ nextId' = nextId + Len(Unmatched(n, Match(rows))) /\ clock' = clock + 1
           /\ nextId' \in Nat \ {0} /\ clock' \in Nat
           /\ lastSeen' \in [1..(nextId' - 1) -> 1..clock']
           /\ \A id \in nextId..(nextId' - 1) : lastSeen'[id] = clock'
           /\ \A i \in 1..Len(tracks) :
                 lastSeen'[tracks[i].id] = IF Match(rows)[i] = 0 THEN lastSeen[tracks[i].id] ELSE clock'
           /\ \A id \in 1..(nextId - 1) : lastSeen'[id] = lastSeen[id] \/ lastSeen'[id] = clock'
<1>. DEFINE match == Match(rows)
            fresh == Unmatched(n, match)
<1>1. /\ nextId \in Nat \ {0} /\ clock \in Nat /\ lastSeen \in [1..(nextId - 1) -> 1..clock]
      /\ DOMAIN tracks = 1..Len(tracks) /\ Len(tracks) \in Nat
    BY UpdateBegins DEF GoodList
<1>2. Len(fresh) \in Nat
    BY UnmatchedProperties, LenProperties
<1>. HIDE DEF match, fresh
<1>3. /\ nextId' = nextId + Len(fresh) /\ clock' = clock + 1
      /\ lastSeen' = [id \in 1..(nextId' - 1) |->
                         IF \/ id >= nextId
                            \/ \E i \in DOMAIN tracks : tracks[i].id = id /\ match[i] # 0
                           THEN clock + 1 ELSE lastSeen[id]]
    BY DEF Update, match, fresh
<1>4. nextId' \in Nat \ {0} /\ clock' \in Nat /\ nextId <= nextId' /\ clock' \in 1..clock'
    BY <1>1, <1>2, <1>3
<1>5. \A id \in 1..(nextId' - 1) :
         lastSeen'[id] = IF \/ id >= nextId
                            \/ \E i \in 1..Len(tracks) : tracks[i].id = id /\ match[i] # 0
                           THEN clock' ELSE lastSeen[id]
    BY <1>1, <1>3
<1>6. \A id \in 1..(nextId' - 1) : id >= nextId \/ lastSeen[id] \in 1..clock'
    <2>1. \A id \in 1..(nextId' - 1) : id >= nextId \/ id \in 1..(nextId - 1)
        BY <1>1, <1>4
    <2>2. \A id \in 1..(nextId - 1) : lastSeen[id] \in 1..clock
        BY <1>1
    <2>3. \A k \in 1..clock : k \in 1..clock'
        BY <1>1, <1>3
    <2>. QED
        BY <2>1, <2>2, <2>3
<1>7. lastSeen' \in [1..(nextId' - 1) -> 1..clock']
    <2>1. DOMAIN lastSeen' = 1..(nextId' - 1) /\ lastSeen' = [id \in 1..(nextId' - 1) |-> lastSeen'[id]]
        BY <1>3
    <2>2. \A id \in 1..(nextId' - 1) : lastSeen'[id] \in 1..clock'
        BY <1>4, <1>5, <1>6
    <2>. QED
        BY <2>1, <2>2
<1>8. ASSUME NEW id \in nextId..(nextId' - 1) PROVE lastSeen'[id] = clock'
    <2>1. nextId \in Nat \ {0} /\ nextId' \in Nat \ {0}
        BY <1>1, <1>4
    <2>2. id \in 1..(nextId' - 1) /\ id >= nextId
        BY <2>1, Below
    <2>. QED
        BY <1>5, <2>2
<1>9. \A id \in 1..(nextId - 1) : id \in 1..(nextId' - 1) /\ ~ (id >= nextId)
    <2>1. nextId \in Nat \ {0} /\ nextId' \in Nat \ {0} /\ nextId <= nextId'
        BY <1>1, <1>4
    <2>. QED
        BY <2>1, Below
<1>10. ASSUME NEW i \in 1..Len(tracks)
       PROVE  lastSeen'[tracks[i].id] = IF match[i] = 0 THEN lastSeen[tracks[i].id] ELSE clock'
    <2>1. tracks[i].id \in 1..(nextId - 1)
        BY DEF GoodList, GoodTrack
    <2>2. \A j \in 1..Len(tracks) : tracks[j].id = tracks[i].id => j = i
        <3> SUFFICES ASSUME NEW j \in 1..Len(tracks), tracks[j].id = tracks[i].id, j # i PROVE FALSE
            OBVIOUS
        <3>1. i < j \/ j < i
            BY <1>1
        <3>2. tracks[i].id < tracks[j].id \/ tracks[j].id < tracks[i].id
            BY <3>1 DEF GoodList
        <3>. QED
            BY <2>1, <3>2
    <2>. QED
        BY <1>5, <1>9, <2>1, <2>2
<1>. QED
    BY <1>3, <1>4, <1>5, <1>7, <1>8, <1>9, <1>10 DEF match, fresh


LEMMA OneLater ==
    ASSUME NEW now \in Nat, NEW last \in Nat, NEW missed, NEW next,
           missed = now - last, next = now + 1
    PROVE  missed + 1 = next - last
OBVIOUS

LEMMA MissedTrack ==
    ASSUME NEW t \in TrackType, NEW u, u = [t EXCEPT !.missed = @ + 1]
    PROVE  /\ u \in TrackType /\ u.id = t.id /\ u.detection = t.detection /\ u.age = t.age
           /\ u.trajectory = t.trajectory /\ u.missed = t.missed + 1
BY SMTT(30) DEF TrackType

(* The tracks there were, matched or missed. *)
LEMMA AgedGood ==
    ASSUME GoodList(tracks, nextId, lastSeen, clock),
           NEW n \in Nat, NEW rows \in Seq([1..n -> Nat]), Len(rows) = Len(tracks), Update(n, rows)
    PROVE  /\ Aged(Match(rows)) \in Seq(TrackType) /\ Len(Aged(Match(rows))) = Len(tracks)
           /\ \A i \in 1..Len(tracks) :
                 /\ GoodTrack(Aged(Match(rows))[i], nextId', lastSeen', clock')
                 /\ Aged(Match(rows))[i].id = tracks[i].id
                 /\ Match(rows)[i] = 0 => Aged(Match(rows))[i].missed # 0
                 /\ Match(rows)[i] # 0 => /\ Aged(Match(rows))[i].missed = 0
                                          /\ Aged(Match(rows))[i].detection = Match(rows)[i]
<1>. DEFINE match == Match(rows)
            aged == Aged(match)
            m == Len(tracks)
<1>1. /\ tracks \in Seq(TrackType) /\ DOMAIN tracks = 1..m /\ m \in Nat
      /\ \A i \in 1..m : match[i] \in 0..n
    BY UpdateBegins
<1>2. /\ clock' = clock + 1 /\ clock \in Nat /\ nextId \in Nat \ {0} /\ nextId' \in Nat \ {0}
      /\ nextId <= nextId'
      /\ \A i \in 1..m : lastSeen'[tracks[i].id] = IF match[i] = 0 THEN lastSeen[tracks[i].id] ELSE clock'
    <2>1. Len(Unmatched(n, match)) \in Nat
        BY UnmatchedProperties, LenProperties
    <2>2. nextId \in Nat \ {0} /\ clock \in Nat
        BY DEF GoodList
    <2>3. nextId' = nextId + Len(Unmatched(n, match)) /\ clock' = clock + 1
        BY SeenProperties
    <2>4. nextId' \in Nat \ {0} /\ nextId <= nextId'
        BY <2>1, <2>2, <2>3
    <2>. QED
        BY <2>2, <2>3, <2>4, SeenProperties
<1>. HIDE DEF match, m
<1>3. aged = [i \in 1..m |-> IF match[i] = 0 THEN Missed(tracks[i]) ELSE Matched(tracks[i], match[i])]
    BY <1>1 DEF Aged
<1>4. ASSUME NEW i \in 1..m
      PROVE  /\ aged[i] \in TrackType /\ GoodTrack(aged[i], nextId', lastSeen', clock')
             /\ aged[i].id = tracks[i].id
             /\ match[i] = 0 => aged[i].missed # 0
             /\ match[i] # 0 => aged[i].missed = 0 /\ aged[i].detection = match[i]
    <2>. DEFINE t == tracks[i]
    <2>1. GoodTrack(t, nextId, lastSeen, clock)
        BY DEF GoodList, m
    <2>. HIDE DEF t
    <2>2. /\ t \in TrackType /\ t.id \in 1..(nextId - 1) /\ t.detection # 0
          /\ t.missed = clock - lastSeen[t.id] /\ Trail(t.trajectory, t.age, lastSeen[t.id])
        BY <2>1 DEF GoodTrack
    <2>3. t.id \in 1..(nextId' - 1)
        <3>1. nextId \in Nat \ {0} /\ nextId' \in Nat \ {0} /\ nextId <= nextId'
            BY <1>2
        <3>. QED
            BY <2>2, <3>1
    <2>4. lastSeen[t.id] \in 1..clock
        BY <2>2 DEF GoodList
    <2>5. CASE match[i] = 0
        <3>1. aged[i] = [t EXCEPT !.missed = @ + 1]
            BY <1>3, <2>5 DEF Missed, t
        <3>2. /\ aged[i] \in TrackType /\ aged[i].id = t.id /\ aged[i].detection = t.detection
              /\ aged[i].age = t.age /\ aged[i].trajectory = t.trajectory
              /\ aged[i].missed = t.missed + 1
            BY <2>2, <3>1, MissedTrack
        <3>3. lastSeen'[t.id] = lastSeen[t.id]
            BY <1>2, <2>5 DEF t
        <3>4. t.missed + 1 = clock' - lastSeen[t.id]
            <4>1. clock \in Nat /\ lastSeen[t.id] \in Nat /\ t.missed = clock - lastSeen[t.id]
                BY <1>2, <2>2, <2>4
            <4>2. clock' = clock + 1
                BY <1>2
            <4>. QED
                BY <4>1, <4>2, OneLater
        <3>5. t.missed + 1 # 0
            BY <2>2 DEF TrackType
        <3>. QED
            BY <2>2, <2>3, <2>5, <3>2, <3>3, <3>4, <3>5 DEF GoodTrack, t
    <2>6. CASE match[i] # 0
        <3>1. aged[i] = [t EXCEPT !.detection = match[i], !.age = @ + 1, !.missed = 0,
                                  !.trajectory = Extended(@, clock + 1)]
            BY <1>3, <2>6, Zenon DEF Matched, t
        <3>2. t.age \in Nat /\ lastSeen[t.id] < clock + 1 /\ clock + 1 \in Nat
            BY <1>2, <2>2, <2>4, SMTT(30) DEF TrackType
        <3>3. Trail(Extended(t.trajectory, clock + 1), t.age + 1, clock + 1)
            BY <2>2, <3>2, ExtendedTrail
        <3>4. Extended(t.trajectory, clock + 1) \in Seq(Nat) /\ match[i] \in Nat
            BY <1>1, <3>3 DEF Trail
        <3>. DEFINE path == Extended(t.trajectory, clock + 1)
        <3>. HIDE DEF path
        <3>5. aged[i] = [t EXCEPT !.detection = match[i], !.age = @ + 1, !.missed = 0,
                                  !.trajectory = path]
            BY <3>1 DEF path
        <3>6. path \in Seq(Nat)
            BY <3>4 DEF path
        <3>7. /\ aged[i] \in TrackType /\ aged[i].id = t.id /\ aged[i].detection = match[i]
              /\ aged[i].age = t.age + 1 /\ aged[i].trajectory = path
              /\ aged[i].missed = 0
            <4>1. t \in TrackType /\ match[i] \in Nat
                BY <2>2, <3>4
            <4>2. aged[i] = [id |-> t.id, detection |-> match[i], age |-> t.age + 1, missed |-> 0,
                             trajectory |-> path]
                BY <3>5, <4>1 DEF TrackType
            <4>3. t.id \in Nat /\ t.age + 1 \in Nat
                BY <4>1 DEF TrackType
            <4>4. aged[i] \in TrackType
                BY <3>6, <4>1, <4>2, <4>3 DEF TrackType
            <4>. QED
                BY <4>2, <4>4
        <3>8. lastSeen'[t.id] = clock' /\ clock' - clock' = 0 /\ clock' = clock + 1
            BY <1>2, <2>6 DEF t
        <3>9. Trail(path, t.age + 1, clock')
            BY <3>3, <3>8 DEF path
        <3>. QED
            BY <2>2, <2>3, <2>6, <3>7, <3>8, <3>9 DEF GoodTrack, t
    <2>. QED
        BY <2>5, <2>6
<1>5. DOMAIN aged = 1..m
    BY <1>3
<1>6. aged \in Seq(TrackType) /\ Len(aged) = m
    <2>1. aged \in [1..m -> TrackType]
        BY <1>3, <1>4
    <2>. HIDE DEF aged
    <2>. QED
        BY <1>1, <2>1, SeqDef, LenProperties
<1>. QED
    BY <1>4, <1>6 DEF match, m

(* The tracks that are new. *)
LEMMA OpenedGood ==
    ASSUME GoodList(tracks, nextId, lastSeen, clock),
           NEW n \in Nat, NEW rows \in Seq([1..n -> Nat]), Len(rows) = Len(tracks), Update(n, rows)
    PROVE  /\ Opened(Unmatched(n, Match(rows))) \in Seq(TrackType)
           /\ Len(Opened(Unmatched(n, Match(rows)))) = Len(Unmatched(n, Match(rows)))
           /\ \A i \in 1..Len(Unmatched(n, Match(rows))) :
                 /\ GoodTrack(Opened(Unmatched(n, Match(rows)))[i], nextId', lastSeen', clock')
                 /\ Opened(Unmatched(n, Match(rows)))[i].id = nextId + i - 1
                 /\ Opened(Unmatched(n, Match(rows)))[i].missed = 0
                 /\ Opened(Unmatched(n, Match(rows)))[i].detection = Unmatched(n, Match(rows))[i]
<1>. DEFINE fresh == Unmatched(n, Match(rows))
            opened == Opened(fresh)
            m == Len(fresh)
<1>1. fresh \in Seq(1..n) /\ DOMAIN fresh = 1..m /\ m \in Nat /\ \A i \in 1..m : fresh[i] \in 1..n
    <2>1. fresh \in Seq(1..n)
        BY UnmatchedProperties
    <2>. HIDE DEF fresh
    <2>. QED
        BY <2>1, LenProperties
<1>2. /\ nextId' = nextId + m /\ clock' = clock + 1 /\ nextId \in Nat \ {0} /\ clock \in Nat
      /\ \A id \in nextId..(nextId' - 1) : lastSeen'[id] = clock'
    BY SeenProperties DEF GoodList
<1>. HIDE DEF fresh, m
<1>3. opened = [i \in 1..m |-> NewTrack(nextId + i - 1, fresh[i])]
    BY <1>1 DEF Opened
<1>4. Trail(<<clock + 1>>, 0, clock')
    <2>1. clock + 1 \in Nat /\ clock' = clock + 1
        BY <1>2
    <2>2. <<clock + 1>> \in Seq(Nat) /\ Len(<<clock + 1>>) = 1 /\ <<clock + 1>>[1] = clock + 1
        BY <2>1
    <2>3. 1 = IF 0 < TrajectoryLimit THEN 0 + 1 ELSE TrajectoryLimit
        BY TrackerAssumption
    <2>4. \A j, k \in 1..1 : ~ (j < k)
        OBVIOUS
    <2>. QED
        BY <2>1, <2>2, <2>3, <2>4 DEF Trail
<1>5. ASSUME NEW i \in 1..m
      PROVE  /\ opened[i] \in TrackType /\ GoodTrack(opened[i], nextId', lastSeen', clock')
             /\ opened[i].id = nextId + i - 1 /\ opened[i].missed = 0 /\ opened[i].detection = fresh[i]
    <2>. DEFINE id == nextId + i - 1
    <2>1. m \in Nat /\ nextId \in Nat \ {0} /\ nextId' = nextId + m
        BY <1>1, <1>2
    <2>2. id \in Nat /\ id \in 1..(nextId' - 1) /\ id \in nextId..(nextId' - 1)
        BY <2>1
    <2>. HIDE DEF id
    <2>3. lastSeen'[id] = clock' /\ clock' - clock' = 0
        BY <1>2, <2>2
    <2>. DEFINE path == <<clock + 1>>
    <2>4. path \in Seq(Nat) /\ Trail(path, 0, clock')
        BY <1>4 DEF Trail
    <2>. HIDE DEF path
    <2>5. opened[i] = [id |-> id, detection |-> fresh[i], age |-> 0, missed |-> 0, trajectory |-> path]
        BY <1>3 DEF NewTrack, id, path
    <2>6. fresh[i] \in Nat /\ fresh[i] # 0
        BY <1>1
    <2>7. opened[i] \in TrackType
        BY <2>2, <2>4, <2>5, <2>6 DEF TrackType
    <2>8. /\ opened[i].id = id /\ opened[i].detection = fresh[i] /\ opened[i].age = 0
          /\ opened[i].missed = 0 /\ opened[i].trajectory = path
        BY <2>5
    <2>9. GoodTrack(opened[i], nextId', lastSeen', clock')
        BY <2>2, <2>3, <2>4, <2>6, <2>7, <2>8 DEF GoodTrack
    <2>. QED
        BY <2>7, <2>8, <2>9 DEF id
<1>6. opened \in Seq(TrackType) /\ Len(opened) = m
    <2>1. opened \in [1..m -> TrackType]
        BY <1>3, <1>5
    <2>. HIDE DEF opened
    <2>. QED
        BY <1>1, <2>1, SeqDef, LenProperties
<1>. QED
    BY <1>5, <1>6 DEF fresh, m

(* The elements of two sequences together. *)
Halves(all, a, b) ==
    /\ Len(a) \in Nat /\ Len(b) \in Nat /\ Len(all) = Len(a) + Len(b)
    /\ \A i \in 1..Len(a) : all[i] = a[i]
    /\ \A i \in 1..Len(b) : all[Len(a) + i] = b[i]
    /\ \A i \in 1..Len(all) : i \in 1..Len(a) \/ \E k \in 1..Len(b) : i = Len(a) + k

LEMMA Joined ==
    ASSUME NEW T, NEW a \in Seq(T), NEW b \in Seq(T)
    PROVE  a \o b \in Seq(T) /\ Halves(a \o b, a, b)
<1>. DEFINE all == a \o b
<1>1. Len(a) \in Nat /\ Len(b) \in Nat
    BY LenProperties
<1>2. all \in Seq(T) /\ Len(all) = Len(a) + Len(b)
    BY ConcatProperties
<1>3. \A i \in 1..Len(a) : all[i] = a[i]
    BY <1>1, ConcatProperties
<1>4. ASSUME NEW i \in 1..Len(b) PROVE all[Len(a) + i] = b[i]
    <2>1. Len(a) + i \in 1..(Len(a) + Len(b)) /\ ~ (Len(a) + i <= Len(a)) /\ (Len(a) + i) - Len(a) = i
        BY <1>1
    <2>. QED
        BY <2>1, ConcatProperties
<1>. HIDE DEF all
<1>5. ASSUME NEW i \in 1..(Len(a) + Len(b)), i \notin 1..Len(a) PROVE \E k \in 1..Len(b) : i = Len(a) + k
    <2>1. i - Len(a) \in 1..Len(b) /\ i = Len(a) + (i - Len(a))
        BY <1>1, <1>5
    <2>. QED
        BY <2>1
<1>6. all \in Seq(T) /\ Halves(all, a, b)
    BY <1>1, <1>2, <1>3, <1>4, <1>5 DEF Halves
<1>. QED
    BY <1>6 DEF all

LEMMA Sooner ==
    ASSUME NEW now \in Nat, NEW last \in Nat, NEW next, NEW limit \in Nat,
           next = now + 1, next - last <= limit
    PROVE  now - last <= limit
OBVIOUS

(* An id that was seen later than before belongs to a track there was. *)
LEMMA SeenAgain ==
    ASSUME GoodList(tracks, nextId, lastSeen, clock), NEW n \in Nat, NEW rows, Update(n, rows),
           NEW id \in 1..(nextId - 1), lastSeen'[id] # lastSeen[id]
    PROVE  \E i \in 1..Len(tracks) : tracks[i].id = id
<1>1. /\ nextId \in Nat \ {0} /\ DOMAIN tracks = 1..Len(tracks)
      /\ Len(Unmatched(n, Match(rows))) \in Nat
    BY UnmatchedProperties, LenProperties DEF GoodList
<1>2. nextId' = nextId + Len(Unmatched(n, Match(rows)))
    BY DEF Update
<1>3. nextId <= nextId' /\ nextId' \in Nat \ {0}
    BY <1>1, <1>2
<1>4. id \in 1..(nextId' - 1) /\ ~ (id >= nextId)
    BY <1>1, <1>3, Below
<1>5. lastSeen' = [k \in 1..(nextId' - 1) |->
                      IF \/ k >= nextId
                         \/ \E i \in DOMAIN tracks : tracks[i].id = k /\ Match(rows)[i] # 0
                        THEN clock + 1 ELSE lastSeen[k]]
    BY DEF Update
<1>. QED
    BY <1>1, <1>4, <1>5

(* Nothing of what update() has before it erases tracks is out of date. *)
LEMMA EveryoneGood ==
    ASSUME GoodList(tracks, nextId, lastSeen, clock),
           NEW n \in Nat, NEW rows \in Seq([1..n -> Nat]), Len(rows) = Len(tracks), Update(n, rows)
    PROVE  GoodList(Everyone(n, Match(rows)), nextId', lastSeen', clock')
<1>. DEFINE a == Aged(Match(rows))
            fresh == Unmatched(n, Match(rows))
            b == Opened(fresh)
            m == Len(tracks)
            f == Len(fresh)
            all == Everyone(n, Match(rows))
<1>1. /\ a \in Seq(TrackType) /\ Len(a) = m
      /\ \A i \in 1..m : GoodTrack(a[i], nextId', lastSeen', clock') /\ a[i].id = tracks[i].id
    BY AgedGood
<1>2. /\ b \in Seq(TrackType) /\ Len(b) = f
      /\ \A i \in 1..f : GoodTrack(b[i], nextId', lastSeen', clock') /\ b[i].id = nextId + i - 1
    BY OpenedGood
<1>3. /\ m \in Nat /\ f \in Nat
      /\ all \in Seq(TrackType) /\ Len(all) = m + f
      /\ \A i \in 1..m : all[i] = a[i]
      /\ \A i \in 1..f : all[m + i] = b[i]
      /\ \A i \in 1..Len(all) : i \in 1..m \/ \E k \in 1..f : i = m + k
    <2>1. all = a \o b
        BY DEF Everyone
    <2>2. a \in Seq(TrackType) /\ b \in Seq(TrackType) /\ Len(a) = m /\ Len(b) = f
        BY <1>1, <1>2
    <2>. HIDE DEF all, a, b, m, f
    <2>3. all \in Seq(TrackType) /\ Halves(all, a, b)
        BY <2>1, <2>2, Joined
    <2>. QED
        BY <2>2, <2>3 DEF Halves
<1>4. /\ nextId' = nextId + f /\ clock' = clock + 1 /\ nextId' \in Nat \ {0} /\ clock' \in Nat
      /\ lastSeen' \in [1..(nextId' - 1) -> 1..clock']
      /\ \A id \in 1..(nextId - 1) : lastSeen'[id] = lastSeen[id] \/ lastSeen'[id] = clock'
    BY SeenProperties
<1>5. \A i \in 1..m : lastSeen'[tracks[i].id] = IF Match(rows)[i] = 0 THEN lastSeen[tracks[i].id] ELSE clock'
    BY SeenProperties
<1>6. /\ nextId \in Nat \ {0} /\ clock \in Nat /\ lastSeen \in [1..(nextId - 1) -> 1..clock]
      /\ \A i \in 1..m : tracks[i].id \in 1..(nextId - 1)
      /\ \A i, j \in 1..m : i < j => tracks[i].id < tracks[j].id
      /\ \A id \in 1..(nextId - 1) :
            clock - lastSeen[id] <= MaxMissed => \E i \in 1..m : tracks[i].id = id
    BY DEF GoodList, GoodTrack
<1>. HIDE DEF a, b, m, f, all
<1>7. ASSUME NEW i \in 1..Len(all) PROVE GoodTrack(all[i], nextId', lastSeen', clock')
    <2>1. CASE i \in 1..m
        BY <1>1, <1>3, <2>1
    <2>2. ASSUME NEW k \in 1..f, i = m + k PROVE GoodTrack(all[i], nextId', lastSeen', clock')
        BY <1>2, <1>3, <2>2
    <2>. QED
        BY <1>3, <2>1, <2>2
<1>8. ASSUME NEW k \in 1..f PROVE m + k \in 1..Len(all) /\ all[m + k].id = nextId + k - 1
    <2>1. m \in Nat /\ f \in Nat /\ Len(all) = m + f
        BY <1>3
    <2>2. m + k \in 1..(m + f)
        BY <2>1
    <2>3. all[m + k] = b[k] /\ b[k].id = nextId + k - 1
        BY <1>2, <1>3
    <2>. QED
        BY <2>1, <2>2, <2>3
<1>9. ASSUME NEW i \in 1..Len(all), NEW j \in 1..Len(all), i < j PROVE all[i].id < all[j].id
    <2>1. nextId \in Nat /\ m \in Nat /\ f \in Nat
        BY <1>3, <1>6
    <2>2. CASE i \in 1..m /\ j \in 1..m
        <3>1. all[i].id = tracks[i].id /\ all[j].id = tracks[j].id
            BY <1>1, <1>3, <2>2
        <3>. QED
            BY <1>6, <1>9, <2>2, <3>1
    <2>3. ASSUME i \in 1..m, NEW k \in 1..f, j = m + k PROVE all[i].id < all[j].id
        <3>1. all[i].id \in 1..(nextId - 1)
            BY <1>1, <1>3, <1>6, <2>3
        <3>2. all[j].id = nextId + k - 1
            BY <1>8, <2>3
        <3>. DEFINE x == all[i].id
        <3>. HIDE DEF x
        <3>3. x \in 1..(nextId - 1)
            BY <3>1 DEF x
        <3>4. x < nextId + k - 1
            BY <2>1, <2>3, <3>3
        <3>. QED
            BY <3>2, <3>4 DEF x
    <2>4. ASSUME NEW h \in 1..f, i = m + h, NEW k \in 1..f, j = m + k PROVE all[i].id < all[j].id
        <3>1. all[i].id = nextId + h - 1 /\ all[j].id = nextId + k - 1
            BY <1>8, <2>4
        <3>2. h < k
            BY <1>9, <2>1, <2>4
        <3>. QED
            BY <2>1, <3>1, <3>2
    <2>5. ASSUME NEW k \in 1..f, i = m + k, j \in 1..m PROVE FALSE
        BY <1>9, <2>1, <2>5
    <2>. QED
        BY <1>3, <2>2, <2>3, <2>4, <2>5
<1>10. ASSUME NEW id \in 1..(nextId' - 1), clock' - lastSeen'[id] <= MaxMissed
       PROVE  \E i \in 1..Len(all) : all[i].id = id
    <2>1. CASE id \in 1..(nextId - 1)
        <3>1. \E i \in 1..m : tracks[i].id = id
            <4>1. CASE lastSeen'[id] = lastSeen[id]
                <5>1. lastSeen[id] \in 1..clock
                    BY <1>6, <2>1
                <5>. DEFINE last == lastSeen[id]
                <5>2. last \in Nat /\ clock \in Nat /\ clock' = clock + 1 /\ clock' - last <= MaxMissed
                    BY <1>4, <1>6, <1>10, <4>1, <5>1
                <5>. HIDE DEF last
                <5>3. clock - last <= MaxMissed
                    BY <5>2, TrackerAssumption, Sooner
                <5>. QED
                    BY <1>6, <2>1, <5>3 DEF last
            <4>2. CASE lastSeen'[id] # lastSeen[id]
                BY <1>4, <2>1, <4>2, SeenAgain DEF m
            <4>. QED
                BY <4>1, <4>2
        <3>2. PICK i \in 1..m : tracks[i].id = id
            BY <3>1
        <3>3. i \in 1..Len(all)
            BY <1>3
        <3>. QED
            BY <1>1, <1>3, <3>2, <3>3
    <2>2. CASE ~ (id \in 1..(nextId - 1))
        <3>. DEFINE k == id - nextId + 1
        <3>1. nextId \in Nat \ {0} /\ f \in Nat /\ m \in Nat /\ id \in 1..(nextId + f - 1)
            BY <1>3, <1>4, <1>6
        <3>2. id >= nextId /\ id <= nextId + f - 1 /\ id \in Nat
            BY <2>2, <3>1
        <3>3. k \in 1..f /\ nextId + k - 1 = id
            BY <3>1, <3>2
        <3>. HIDE DEF k
        <3>. QED
            BY <1>8, <3>3
    <2>. QED
        BY <2>1, <2>2
<1>. QED
    <2>1. GoodList(all, nextId', lastSeen', clock')
        BY <1>3, <1>4, <1>7, <1>9, <1>10 DEF GoodList
    <2>. QED
        BY <2>1 DEF all


(* The invariant of the tracker: the list is in order and complete, and no *)
(* track in it was missed too often.                                       *)
TrackerInv ==
    /\ GoodList(tracks, nextId, lastSeen, clock)
    /\ \A i \in 1..Len(tracks) : tracks[i].missed <= MaxMissed

LEMMA UpdateMakes ==
    ASSUME NEW n, NEW rows, Update(n, rows)
    PROVE  tracks' = Survivors(Everyone(n, Match(rows)))
BY DEF Update, Everyone, Aged, Opened

LEMMA TrackerStep ==
    ASSUME TrackerInv, NEW n \in Nat, NEW rows \in Seq([1..n -> Nat]), Len(rows) = Len(tracks),
           Update(n, rows)
    PROVE  TrackerInv'
<1>. DEFINE all == Everyone(n, Match(rows))
<1>1. GoodList(all, nextId', lastSeen', clock')
    BY EveryoneGood DEF TrackerInv
<1>2. tracks' = Survivors(all)
    BY UpdateMakes
<1>. HIDE DEF all
<1>3. /\ GoodList(Survivors(all), nextId', lastSeen', clock')
      /\ \A i \in 1..Len(Survivors(all)) : Survivors(all)[i].missed <= MaxMissed
    BY <1>1, SurvivorsGood
<1>. QED
    BY <1>2, <1>3 DEF TrackerInv

LEMMA TrackerStarts ==
    ASSUME TrackerInit
    PROVE  TrackerInv
<1>1. tracks = <<>> /\ nextId = 1 /\ clock = 0 /\ lastSeen = <<>>
    BY DEF TrackerInit
<1>2. 1..0 = {} /\ <<>> \in Seq(TrackType) /\ Len(<<>>) = 0 /\ 1 - 1 = 0
    BY EmptySeq
<1>3. <<>> \in [1..0 -> 1..0]
    BY <1>2
<1>. QED
    BY <1>1, <1>2, <1>3 DEF TrackerInv, GoodList

LEMMA TrackerTypes ==
    ASSUME TrackerInv
    PROVE  TracksOK /\ KeptExactlyWhileRecent
<1>1. /\ nextId \in Nat \ {0} /\ clock \in Nat /\ lastSeen \in [1..(nextId - 1) -> 1..clock]
      /\ tracks \in Seq(TrackType)
    BY DEF TrackerInv, GoodList
<1>2. DOMAIN tracks = 1..Len(tracks) /\ \A i \in 1..Len(tracks) : tracks[i] \in TrackType
    BY <1>1, LenProperties
<1>3. ASSUME NEW i \in 1..Len(tracks)
      PROVE  /\ tracks[i].id \in 1..(nextId - 1) /\ tracks[i].detection \in Nat \ {0}
             /\ tracks[i].missed \in 0..MaxMissed
             /\ tracks[i].missed = clock - lastSeen[tracks[i].id]
             /\ Trail(tracks[i].trajectory, tracks[i].age, lastSeen[tracks[i].id])
    <2>1. GoodTrack(tracks[i], nextId, lastSeen, clock) /\ tracks[i].missed <= MaxMissed
        BY DEF TrackerInv, GoodList
    <2>2. tracks[i].missed \in Nat /\ tracks[i].detection \in Nat
        BY <1>2 DEF TrackType
    <2>. QED
        BY <2>1, <2>2, TrackerAssumption DEF GoodTrack
<1>4. TracksOK
    <2> SUFFICES ASSUME NEW i \in DOMAIN tracks
                 PROVE  LET path == tracks[i].trajectory IN
                          /\ Len(path) = IF tracks[i].age < TrajectoryLimit THEN tracks[i].age + 1
                                                                            ELSE TrajectoryLimit
                          /\ \A j, k \in DOMAIN path : j < k => path[j] < path[k]
                          /\ path[Len(path)] = lastSeen[tracks[i].id]
        BY <1>1, <1>2, <1>3 DEF TracksOK
    <2>. DEFINE path == tracks[i].trajectory
    <2>1. Trail(path, tracks[i].age, lastSeen[tracks[i].id])
        BY <1>2, <1>3
    <2>. HIDE DEF path
    <2>2. DOMAIN path = 1..Len(path)
        BY <2>1, LenProperties DEF Trail
    <2>3. /\ Len(path) = IF tracks[i].age < TrajectoryLimit THEN tracks[i].age + 1 ELSE TrajectoryLimit
          /\ \A j, k \in DOMAIN path : j < k => path[j] < path[k]
          /\ path[Len(path)] = lastSeen[tracks[i].id]
        BY <2>1, <2>2 DEF Trail
    <2>. QED
        BY <2>3 DEF path
<1>5. {tracks[i].id : i \in DOMAIN tracks} = {id \in DOMAIN lastSeen : clock - lastSeen[id] <= MaxMissed}
    <2>1. DOMAIN lastSeen = 1..(nextId - 1)
        BY <1>1
    <2>2. \A i \in 1..Len(tracks) : /\ tracks[i].id \in DOMAIN lastSeen
                                    /\ clock - lastSeen[tracks[i].id] <= MaxMissed
        <3> SUFFICES ASSUME NEW i \in 1..Len(tracks)
                     PROVE  clock - lastSeen[tracks[i].id] <= MaxMissed
            BY <1>3, <2>1
        <3>1. tracks[i].missed <= MaxMissed /\ tracks[i].missed = clock - lastSeen[tracks[i].id]
            BY <1>3 DEF TrackerInv
        <3>. QED
            BY <3>1
    <2>3. \A id \in DOMAIN lastSeen : clock - lastSeen[id] <= MaxMissed =>
                                          \E i \in 1..Len(tracks) : tracks[i].id = id
        BY <2>1 DEF TrackerInv, GoodList
    <2>. QED
        BY <1>2, <2>2, <2>3
<1>6. \A i, j \in DOMAIN tracks : i < j => tracks[i].id < tracks[j].id
    BY <1>2 DEF TrackerInv, GoodList
<1>7. \A i \in DOMAIN tracks : tracks[i].missed = clock - lastSeen[tracks[i].id]
    BY <1>2, <1>3
<1>. QED
    BY <1>4, <1>5, <1>6, <1>7 DEF KeptExactlyWhileRecent

(* What update() returns: the tracks that have a detection of this frame. *)
LEMMA VisibleTracks ==
    ASSUME TrackerInv', NEW n, NEW rows, Update(n, rows)
    PROVE  /\ DOMAIN visible' \subseteq Nat
           /\ \A v \in DOMAIN visible' : \E i \in 1..Len(tracks') :
                 /\ tracks'[i].missed = 0
                 /\ visible'[v] = [id |-> tracks'[i].id, detection |-> tracks'[i].detection]
           /\ \A i \in 1..Len(tracks') : tracks'[i].missed = 0 => \E v \in DOMAIN visible' :
                 visible'[v] = [id |-> tracks'[i].id, detection |-> tracks'[i].detection]
           /\ \A v, w \in DOMAIN visible' : v # w => visible'[v].id # visible'[w].id
<1>. DEFINE places == {i \in DOMAIN tracks' : tracks'[i].missed = 0}
            seen == Picked(tracks', places)
            m == Len(tracks')
<1>1. /\ tracks' \in Seq(TrackType) /\ DOMAIN tracks' = 1..m
      /\ \A i \in 1..m : tracks'[i].id \in Nat
      /\ \A i, j \in 1..m : i < j => tracks'[i].id < tracks'[j].id
    <2>1. /\ tracks' \in Seq(TrackType)
          /\ \A i, j \in 1..m : i < j => tracks'[i].id < tracks'[j].id
        BY DEF TrackerInv, GoodList
    <2>2. DOMAIN tracks' = 1..m /\ \A i \in 1..m : tracks'[i] \in TrackType
        BY <2>1, LenProperties
    <2>. QED
        BY <2>1, <2>2 DEF TrackType
<1>2. visible' = [i \in DOMAIN seen |-> [id |-> seen[i].id, detection |-> seen[i].detection]]
    BY DEF Update
<1>3. /\ \A i \in places : i \in 1..m /\ tracks'[i].missed = 0
      /\ \A i \in 1..m : tracks'[i].missed = 0 => i \in places
    BY <1>1
<1>. HIDE DEF places
<1>4. seen \in Seq(TrackType)
    BY <1>1, PickedProperties
<1>5. PICK at \in [1..Len(seen) -> 1..m] : Selects(at, seen, tracks', m, places)
    BY <1>1, PickedProperties
<1>. HIDE DEF seen, m
<1>6. DOMAIN seen = 1..Len(seen) /\ Len(seen) \in Nat
    BY <1>4, LenProperties
<1>7. \A i \in 1..Len(seen) : at[i] \in 1..m /\ at[i] \in places /\ seen[i] = tracks'[at[i]]
    BY <1>5 DEF Selects
<1>8. ASSUME NEW v \in 1..Len(seen), NEW w \in 1..Len(seen), v < w PROVE seen[v].id # seen[w].id
    <2>1. at[v] < at[w]
        BY <1>5, <1>8 DEF Selects
    <2>2. tracks'[at[v]].id < tracks'[at[w]].id /\ tracks'[at[v]].id \in Nat
        BY <1>1, <1>7, <2>1
    <2>. QED
        BY <1>7, <2>2
<1>9. DOMAIN visible' = 1..Len(seen)
    BY <1>2, <1>6
<1>10. \A v \in 1..Len(seen) : /\ visible'[v] = [id |-> seen[v].id, detection |-> seen[v].detection]
                               /\ visible'[v].id = seen[v].id
    BY <1>2, <1>6
<1>11. \A v \in DOMAIN visible' : \E i \in 1..m :
          /\ tracks'[i].missed = 0
          /\ visible'[v] = [id |-> tracks'[i].id, detection |-> tracks'[i].detection]
    <2> SUFFICES ASSUME NEW v \in 1..Len(seen)
                 PROVE  \E i \in 1..m :
                          /\ tracks'[i].missed = 0
                          /\ visible'[v] = [id |-> tracks'[i].id, detection |-> tracks'[i].detection]
        BY <1>9
    <2>1. at[v] \in 1..m /\ tracks'[at[v]].missed = 0 /\ seen[v] = tracks'[at[v]]
        BY <1>3, <1>7
    <2>. QED
        BY <1>10, <2>1
<1>12. ASSUME NEW i \in 1..m, tracks'[i].missed = 0
       PROVE  \E v \in DOMAIN visible' :
                 visible'[v] = [id |-> tracks'[i].id, detection |-> tracks'[i].detection]
    <2>1. i \in places
        BY <1>3, <1>12
    <2>2. PICK v \in 1..Len(seen) : at[v] = i
        BY <1>5, <2>1 DEF Selects
    <2>. QED
        BY <1>7, <1>9, <1>10, <2>2
<1>13. ASSUME NEW v \in DOMAIN visible', NEW w \in DOMAIN visible', v # w
       PROVE  visible'[v].id # visible'[w].id
    <2>1. v \in 1..Len(seen) /\ w \in 1..Len(seen)
        BY <1>9
    <2>2. v < w \/ w < v
        BY <1>6, <1>13, <2>1
    <2>3. seen[v].id # seen[w].id
        BY <1>8, <2>1, <2>2
    <2>. QED
        BY <1>10, <2>1, <2>3
<1>. QED
    BY <1>9, <1>11, <1>12, <1>13 DEF m


\* What is shown of a track and a detection it took or was opened for.
Shown(id, detection) == \E v \in DOMAIN visible' : visible'[v] = [id |-> id, detection |-> detection]

(* What update() returns, in terms of what took which detection: it is shown *)
(* when it did, and nothing else is.                                         *)
LEMMA VisibleMatches ==
    ASSUME TrackerInv, NEW n \in Nat, NEW rows \in Seq([1..n -> Nat]), Len(rows) = Len(tracks),
           Update(n, rows)
    PROVE  /\ \A v \in DOMAIN visible' :
                 \/ \E i \in 1..Len(tracks) :
                       /\ Match(rows)[i] # 0
                       /\ visible'[v] = [id |-> tracks[i].id, detection |-> Match(rows)[i]]
                 \/ \E k \in 1..Len(Unmatched(n, Match(rows))) :
                       visible'[v] = [id |-> nextId + k - 1, detection |-> Unmatched(n, Match(rows))[k]]
           /\ \A i \in 1..Len(tracks) :
                 Match(rows)[i] # 0 => Shown(tracks[i].id, Match(rows)[i])
           /\ \A k \in 1..Len(Unmatched(n, Match(rows))) :
                 Shown(nextId + k - 1, Unmatched(n, Match(rows))[k])
           /\ \A v, w \in DOMAIN visible' : v # w => visible'[v].id # visible'[w].id
<1>. DEFINE match == Match(rows)
            fresh == Unmatched(n, match)
            a == Aged(match)
            b == Opened(fresh)
            m == Len(tracks)
            f == Len(fresh)
            all == Everyone(n, match)
<1>0. GoodList(tracks, nextId, lastSeen, clock)
    BY DEF TrackerInv
<1>1. /\ a \in Seq(TrackType) /\ Len(a) = m
      /\ \A i \in 1..m : /\ a[i].id = tracks[i].id
                         /\ match[i] = 0 => a[i].missed # 0
                         /\ match[i] # 0 => a[i].missed = 0 /\ a[i].detection = match[i]
    BY <1>0, AgedGood
<1>2. /\ b \in Seq(TrackType) /\ Len(b) = f
      /\ \A i \in 1..f : b[i].id = nextId + i - 1 /\ b[i].missed = 0 /\ b[i].detection = fresh[i]
    BY <1>0, OpenedGood
<1>3. /\ m \in Nat /\ f \in Nat /\ Len(all) = m + f
      /\ \A i \in 1..m : all[i] = a[i]
      /\ \A i \in 1..f : all[m + i] = b[i]
      /\ \A i \in 1..Len(all) : i \in 1..m \/ \E k \in 1..f : i = m + k
    <2>1. all = a \o b
        BY DEF Everyone
    <2>2. a \in Seq(TrackType) /\ b \in Seq(TrackType) /\ Len(a) = m /\ Len(b) = f
        BY <1>1, <1>2
    <2>. HIDE DEF all, a, b, m, f
    <2>3. Halves(all, a, b)
        BY <2>1, <2>2, Joined
    <2>. QED
        BY <2>2, <2>3 DEF Halves
<1>4. GoodList(all, nextId', lastSeen', clock') /\ tracks' = Survivors(all)
    BY <1>0, EveryoneGood, UpdateMakes
<1>. HIDE DEF match, fresh, a, b, m, f, all
<1>5. PICK at \in [1..Len(tracks') -> 1..Len(all)] :
         Selects(at, tracks', all, Len(all), {i \in 1..Len(all) : all[i].missed <= MaxMissed})
    BY <1>4, SurvivorsGood
<1>6. \A i \in 1..Len(tracks') : at[i] \in 1..Len(all) /\ tracks'[i] = all[at[i]]
    BY <1>5 DEF Selects
<1>7. ASSUME NEW p \in 1..Len(all), all[p].missed = 0
      PROVE  Shown(all[p].id, all[p].detection)
    <2>1. all[p].missed <= MaxMissed
        BY <1>7, TrackerAssumption
    <2>2. PICK i \in 1..Len(tracks') : at[i] = p
        BY <1>5, <2>1 DEF Selects
    <2>3. tracks'[i] = all[p]
        BY <1>6, <2>2
    <2>4. \E v \in DOMAIN visible' :
             visible'[v] = [id |-> tracks'[i].id, detection |-> tracks'[i].detection]
        BY <1>7, <2>3, TrackerStep, VisibleTracks
    <2>. QED
        BY <2>3, <2>4 DEF Shown
<1>8. ASSUME NEW i \in 1..m, match[i] # 0 PROVE Shown(tracks[i].id, match[i])
    <2>1. i \in 1..Len(all)
        BY <1>3
    <2>2. all[i].missed = 0 /\ all[i].id = tracks[i].id /\ all[i].detection = match[i]
        BY <1>1, <1>3, <1>8
    <2>. QED
        BY <1>7, <2>1, <2>2
<1>9. ASSUME NEW k \in 1..f PROVE Shown(nextId + k - 1, fresh[k])
    <2>1. m \in Nat /\ f \in Nat /\ Len(all) = m + f
        BY <1>3
    <2>2. m + k \in 1..(m + f)
        BY <2>1
    <2>3. all[m + k].missed = 0 /\ all[m + k].id = nextId + k - 1 /\ all[m + k].detection = fresh[k]
        BY <1>2, <1>3
    <2>4. Shown(all[m + k].id, all[m + k].detection)
        BY <1>7, <2>1, <2>2, <2>3
    <2>. QED
        BY <2>3, <2>4
<1>10. ASSUME NEW v \in DOMAIN visible'
       PROVE  \/ \E i \in 1..m : match[i] # 0 /\ visible'[v] = [id |-> tracks[i].id, detection |-> match[i]]
              \/ \E k \in 1..f : visible'[v] = [id |-> nextId + k - 1, detection |-> fresh[k]]
    <2>1. PICK i \in 1..Len(tracks') :
             /\ tracks'[i].missed = 0
             /\ visible'[v] = [id |-> tracks'[i].id, detection |-> tracks'[i].detection]
        BY TrackerStep, VisibleTracks
    <2>. DEFINE p == at[i]
    <2>2. p \in 1..Len(all) /\ tracks'[i] = all[p]
        BY <1>6
    <2>. HIDE DEF p
    <2>3. CASE p \in 1..m
        <3>1. all[p] = a[p]
            BY <1>3, <2>3
        <3>2. match[p] # 0 /\ a[p].id = tracks[p].id /\ a[p].detection = match[p]
            BY <1>1, <2>1, <2>2, <2>3, <3>1
        <3>. QED
            BY <2>1, <2>2, <2>3, <3>1, <3>2
    <2>4. ASSUME NEW k \in 1..f, p = m + k
          PROVE  visible'[v] = [id |-> nextId + k - 1, detection |-> fresh[k]]
        BY <1>2, <1>3, <2>1, <2>2, <2>4
    <2>. QED
        BY <1>3, <2>2, <2>3, <2>4
<1>11. \A v, w \in DOMAIN visible' : v # w => visible'[v].id # visible'[w].id
    BY TrackerStep, VisibleTracks
<1>. QED
    BY <1>8, <1>9, <1>10, <1>11 DEF match, fresh, m, f


(* Each detection comes back once, under an id of its own. *)
LEMMA EachShownOnce ==
    ASSUME TrackerInv, NEW n \in Nat, NEW rows \in Seq([1..n -> Nat]), Len(rows) = Len(tracks),
           Update(n, rows)
    PROVE  /\ {visible'[v].detection : v \in DOMAIN visible'} = 1..n
           /\ \A v, w \in DOMAIN visible' :
                 v # w => visible'[v].id # visible'[w].id /\ visible'[v].detection # visible'[w].detection
<1>. DEFINE match == Match(rows)
            fresh == Unmatched(n, match)
            m == Len(tracks)
            f == Len(fresh)
<1>1. /\ \A v \in DOMAIN visible' :
            \/ \E i \in 1..m : match[i] # 0 /\ visible'[v] = [id |-> tracks[i].id, detection |-> match[i]]
            \/ \E k \in 1..f : visible'[v] = [id |-> nextId + k - 1, detection |-> fresh[k]]
      /\ \A i \in 1..m : match[i] # 0 => Shown(tracks[i].id, match[i])
      /\ \A k \in 1..f : Shown(nextId + k - 1, fresh[k])
      /\ \A v, w \in DOMAIN visible' : v # w => visible'[v].id # visible'[w].id
    BY VisibleMatches
<1>2. /\ DOMAIN match = 1..m
      /\ \A i \in 1..m : match[i] \in 0..n
      /\ \A i, j \in 1..m : i # j /\ match[i] # 0 => match[i] # match[j]
    BY UpdateBegins DEF TrackerInv
<1>3. /\ \A i \in 1..f : fresh[i] \notin Used(match)
      /\ \A i, j \in 1..f : i < j => fresh[i] < fresh[j]
      /\ \A d \in 1..n : d \in Used(match) \/ \E i \in 1..f : fresh[i] = d
    BY UnmatchedProperties
<1>4. f \in Nat /\ \A i \in 1..f : fresh[i] \in 1..n
    <2>1. fresh \in Seq(1..n)
        BY UnmatchedProperties
    <2>. HIDE DEF fresh
    <2>. QED
        BY <2>1, LenProperties
<1>. HIDE DEF match, fresh, m, f
<1>5. \A d \in Used(match) : \E i \in 1..m : match[i] = d /\ match[i] # 0
    BY <1>2 DEF Used
<1>6. \A i \in 1..m : match[i] # 0 => match[i] \in Used(match)
    BY <1>2 DEF Used
<1>7. ASSUME NEW v \in DOMAIN visible' PROVE visible'[v].detection \in 1..n
    <2>1. ASSUME NEW i \in 1..m, match[i] # 0, visible'[v] = [id |-> tracks[i].id, detection |-> match[i]]
          PROVE  visible'[v].detection \in 1..n
        <3>1. match[i] \in 0..n
            BY <1>2
        <3>2. match[i] \in 1..n
            BY <2>1, <3>1
        <3>. QED
            BY <2>1, <3>2
    <2>2. ASSUME NEW k \in 1..f, visible'[v] = [id |-> nextId + k - 1, detection |-> fresh[k]]
          PROVE  visible'[v].detection \in 1..n
        BY <1>4, <2>2
    <2>. QED
        BY <1>1, <2>1, <2>2
<1>8. ASSUME NEW d \in 1..n PROVE \E v \in DOMAIN visible' : visible'[v].detection = d
    <2>1. \E id : Shown(id, d)
        <3>1. CASE d \in Used(match)
            BY <1>1, <1>5, <3>1
        <3>2. CASE d \notin Used(match)
            <4>1. PICK k \in 1..f : fresh[k] = d
                BY <1>3, <3>2
            <4>. QED
                BY <1>1, <4>1
        <3>. QED
            BY <3>1, <3>2
    <2>2. PICK id : Shown(id, d)
        BY <2>1
    <2>3. PICK v \in DOMAIN visible' : visible'[v] = [id |-> id, detection |-> d]
        BY <2>2 DEF Shown
    <2>. QED
        BY <2>3
<1>9. ASSUME NEW v \in DOMAIN visible', NEW w \in DOMAIN visible', v # w
      PROVE  visible'[v].detection # visible'[w].detection
    <2> SUFFICES ASSUME visible'[v].detection = visible'[w].detection PROVE FALSE
        OBVIOUS
    <2>1. visible'[v].id # visible'[w].id
        BY <1>1, <1>9
    <2>2. ASSUME NEW i \in 1..m, match[i] # 0, visible'[v] = [id |-> tracks[i].id, detection |-> match[i]],
                 NEW j \in 1..m, match[j] # 0, visible'[w] = [id |-> tracks[j].id, detection |-> match[j]]
          PROVE  FALSE
        <3>1. match[i] = match[j] /\ tracks[i].id # tracks[j].id
            BY <2>1, <2>2
        <3>. QED
            BY <1>2, <2>2, <3>1
    <2>3. ASSUME NEW i \in 1..m, match[i] # 0, NEW k \in 1..f, match[i] = fresh[k] PROVE FALSE
        BY <1>3, <1>6, <2>3
    <2>4. ASSUME NEW h \in 1..f, visible'[v] = [id |-> nextId + h - 1, detection |-> fresh[h]],
                 NEW k \in 1..f, visible'[w] = [id |-> nextId + k - 1, detection |-> fresh[k]]
          PROVE  FALSE
        <3>1. fresh[h] = fresh[k] /\ h # k
            BY <2>1, <2>4
        <3>2. h < k \/ k < h
            BY <1>4, <3>1
        <3>3. fresh[h] \in Nat /\ fresh[k] \in Nat /\ (fresh[h] < fresh[k] \/ fresh[k] < fresh[h])
            BY <1>3, <1>4, <3>2
        <3>. QED
            BY <3>1, <3>3
    <2>. QED
        <3>1. \/ \E i \in 1..m : match[i] # 0 /\ visible'[v] = [id |-> tracks[i].id, detection |-> match[i]]
              \/ \E k \in 1..f : visible'[v] = [id |-> nextId + k - 1, detection |-> fresh[k]]
            BY <1>1
        <3>2. \/ \E i \in 1..m : match[i] # 0 /\ visible'[w] = [id |-> tracks[i].id, detection |-> match[i]]
              \/ \E k \in 1..f : visible'[w] = [id |-> nextId + k - 1, detection |-> fresh[k]]
            BY <1>1
        <3>3. ASSUME NEW i \in 1..m, match[i] # 0,
                     visible'[v] = [id |-> tracks[i].id, detection |-> match[i]]
              PROVE  FALSE
            <4>1. visible'[v].detection = match[i]
                BY <3>3
            <4>2. ASSUME NEW k \in 1..f, visible'[w] = [id |-> nextId + k - 1, detection |-> fresh[k]]
                  PROVE  FALSE
                <5>1. visible'[w].detection = fresh[k]
                    BY <4>2
                <5>2. match[i] = fresh[k]
                    BY <4>1, <5>1
                <5>. QED
                    BY <2>3, <3>3, <5>2
            <4>. QED
                BY <2>2, <3>2, <3>3, <4>2
        <3>4. ASSUME NEW h \in 1..f, visible'[v] = [id |-> nextId + h - 1, detection |-> fresh[h]]
              PROVE  FALSE
            <4>1. visible'[v].detection = fresh[h]
                BY <3>4
            <4>2. ASSUME NEW i \in 1..m, match[i] # 0,
                         visible'[w] = [id |-> tracks[i].id, detection |-> match[i]]
                  PROVE  FALSE
                <5>1. visible'[w].detection = match[i]
                    BY <4>2
                <5>2. match[i] = fresh[h]
                    BY <4>1, <5>1
                <5>. QED
                    BY <2>3, <4>2, <5>2
            <4>. QED
                BY <2>4, <3>2, <3>4, <4>2
        <3>. QED
            BY <3>1, <3>3, <3>4
<1>10. {visible'[v].detection : v \in DOMAIN visible'} = 1..n
    BY <1>7, <1>8
<1>. QED
    BY <1>1, <1>9, <1>10

(* The detections with which a track comes back: the one it took, if any. *)
LEMMA TakenIsMatched ==
    ASSUME TrackerInv, NEW n \in Nat, NEW rows \in Seq([1..n -> Nat]), Len(rows) = Len(tracks),
           Update(n, rows), NEW i \in 1..Len(tracks)
    PROVE  \A d : d \in {visible'[v].detection :
                            v \in {w \in DOMAIN visible' : visible'[w].id = tracks[i].id}}
                    <=> Match(rows)[i] # 0 /\ d = Match(rows)[i]
<1>. DEFINE match == Match(rows)
            fresh == Unmatched(n, match)
            m == Len(tracks)
            f == Len(fresh)
<1>1. /\ \A v \in DOMAIN visible' :
            \/ \E j \in 1..m : match[j] # 0 /\ visible'[v] = [id |-> tracks[j].id, detection |-> match[j]]
            \/ \E k \in 1..f : visible'[v] = [id |-> nextId + k - 1, detection |-> fresh[k]]
      /\ \A j \in 1..m : match[j] # 0 => Shown(tracks[j].id, match[j])
    BY VisibleMatches
<1>2. m \in Nat /\ \A j \in 1..m : tracks[j].id \in 1..(nextId - 1)
    BY UpdateBegins DEF TrackerInv, GoodList, GoodTrack
<1>3. \A h, j \in 1..m : h < j => tracks[h].id < tracks[j].id
    BY DEF TrackerInv, GoodList
<1>4. nextId \in Nat \ {0} /\ f \in Nat
    BY UnmatchedProperties, LenProperties DEF TrackerInv, GoodList
<1>. HIDE DEF match, fresh, m, f
<1>5. \A j \in 1..m : tracks[j].id = tracks[i].id => j = i
    <2> SUFFICES ASSUME NEW j \in 1..m, tracks[j].id = tracks[i].id, j # i PROVE FALSE
        OBVIOUS
    <2>1. i \in 1..m
        BY DEF m
    <2>2. i < j \/ j < i
        BY <1>2, <2>1
    <2>3. tracks[i].id < tracks[j].id \/ tracks[j].id < tracks[i].id
        BY <1>3, <2>1, <2>2
    <2>. QED
        BY <1>2, <2>1, <2>3
<1>6. ASSUME NEW v \in DOMAIN visible', visible'[v].id = tracks[i].id
      PROVE  match[i] # 0 /\ visible'[v].detection = match[i]
    <2>1. ASSUME NEW j \in 1..m, match[j] # 0, visible'[v] = [id |-> tracks[j].id, detection |-> match[j]]
          PROVE  match[i] # 0 /\ visible'[v].detection = match[i]
        BY <1>5, <1>6, <2>1
    <2>2. ASSUME NEW k \in 1..f, visible'[v] = [id |-> nextId + k - 1, detection |-> fresh[k]]
          PROVE  FALSE
        <3>1. tracks[i].id = nextId + k - 1
            BY <1>6, <2>2
        <3>2. i \in 1..m
            BY DEF m
        <3>3. nextId + k - 1 \in 1..(nextId - 1)
            BY <1>2, <3>1, <3>2
        <3>. QED
            BY <1>4, <3>3
    <2>. QED
        BY <1>1, <2>1, <2>2
<1>7. ASSUME match[i] # 0
      PROVE  \E v \in DOMAIN visible' : visible'[v].id = tracks[i].id /\ visible'[v].detection = match[i]
    <2>1. i \in 1..m
        BY DEF m
    <2>2. PICK v \in DOMAIN visible' : visible'[v] = [id |-> tracks[i].id, detection |-> match[i]]
        BY <1>1, <1>7, <2>1 DEF Shown
    <2>. QED
        BY <2>2
<1>8. ASSUME NEW d
      PROVE  d \in {visible'[v].detection :
                       v \in {w \in DOMAIN visible' : visible'[w].id = tracks[i].id}}
                 <=> match[i] # 0 /\ d = match[i]
    BY <1>6, <1>7
<1>. QED
    BY <1>8 DEF match

(* The older tracks choose first. *)
LEMMA GreedyStep ==
    ASSUME TrackerInv, NEW n \in Nat, NEW rows \in Seq([1..n -> Nat]), Len(rows) = Len(tracks),
           Update(n, rows), NEW i \in 1..Len(tracks)
    PROVE  LET gains == {rows[i][d] : d \in TakenBy(i)}
           IN  /\ 0 \notin gains
               /\ \A d \in 1..n :
                     (\A g \in gains \cup {0} : rows[i][d] > g) => \E j \in 1..(i - 1) : d \in TakenBy(j)
<1>. DEFINE match == Match(rows)
            m == Len(tracks)
            gains == {rows[i][d] : d \in TakenBy(i)}
            used == {match[j] : j \in 1..(i - 1)} \ {0}
<1>1. \A h \in 1..m : \A d : d \in TakenBy(h) <=> match[h] # 0 /\ d = match[h]
    BY TakenIsMatched DEF TakenBy
<1>2. m \in Nat /\ i \in 1..m
    BY UpdateBegins DEF TrackerInv
<1>3. match[i] = Best(rows[i], used)
    BY MatchProperties
<1>4. rows[i] \in [1..n -> Nat]
    BY <1>2, LenProperties
<1>. HIDE DEF match, m, used
<1>5. /\ match[i] = 0 => \A d \in 1..n : d \in used \/ rows[i][d] = 0
      /\ match[i] # 0 => /\ rows[i][match[i]] > 0
                         /\ \A d \in 1..n : d \in used \/ rows[i][d] <= rows[i][match[i]]
      /\ match[i] \in 0..n
    <2>. DEFINE row == rows[i]
    <2>1. row \in [1..n -> Nat] /\ match[i] = Best(row, used)
        BY <1>3, <1>4
    <2>. HIDE DEF row
    <2>2. /\ Best(row, used) = 0 => \A d \in 1..n : d \in used \/ row[d] = 0
          /\ Best(row, used) # 0 =>
                /\ Best(row, used) \notin used /\ row[Best(row, used)] > 0
                /\ \A d \in 1..n : d \in used \/ row[d] <= row[Best(row, used)]
          /\ Best(row, used) \in 0..n
        BY <2>1, BestProperties
    <2>. QED
        BY <2>1, <2>2 DEF row
<1>6. \A g : g \in gains <=> match[i] # 0 /\ g = rows[i][match[i]]
    BY <1>1, <1>2
<1>. HIDE DEF gains
<1>7. 0 \notin gains
    BY <1>5, <1>6
<1>8. ASSUME NEW d \in 1..n, \A g \in gains \cup {0} : rows[i][d] > g
      PROVE  \E j \in 1..(i - 1) : d \in TakenBy(j)
    <2>1. rows[i][d] \in Nat /\ rows[i][d] > 0
        BY <1>4, <1>8
    <2>2. d \in used
        <3>1. CASE match[i] = 0
            <4>1. d \in used \/ rows[i][d] = 0
                BY <1>5, <3>1
            <4>. QED
                BY <2>1, <4>1
        <3>2. CASE match[i] # 0
            <4>1. rows[i][d] > rows[i][match[i]]
                BY <1>6, <1>8, <3>2
            <4>2. match[i] \in 1..n
                BY <1>5, <3>2
            <4>3. rows[i][match[i]] \in Nat
                BY <1>4, <4>2
            <4>4. d \in used \/ rows[i][d] <= rows[i][match[i]]
                BY <1>5, <3>2
            <4>5. ~ (rows[i][d] <= rows[i][match[i]])
                <5>. DEFINE x == rows[i][d]
                            y == rows[i][match[i]]
                <5>1. x \in Nat /\ y \in Nat /\ x > y
                    BY <2>1, <4>1, <4>3
                <5>. HIDE DEF x, y
                <5>2. ~ (x <= y)
                    BY <5>1
                <5>. QED
                    BY <5>2 DEF x, y
            <4>. QED
                BY <4>4, <4>5
        <3>. QED
            BY <3>1, <3>2
    <2>3. PICK j \in 1..(i - 1) : match[j] = d /\ d # 0
        BY <2>2 DEF used
    <2>4. j \in 1..m
        BY <1>2
    <2>. QED
        BY <1>1, <2>3, <2>4
<1>. QED
    BY <1>7, <1>8 DEF gains
----------------------------------------------------------------------------
(* Arithmetic. *)

LEMMA DivInt ==
    ASSUME NEW a \in Int, NEW b \in Nat \ {0}
    PROVE  a \div b \in Int /\ a % b \in 0..(b - 1) /\ a = b * (a \div b) + (a % b)
<1>1. a \div b \in Int
    OBVIOUS
<1>2. a % b \in 0..(b - 1)
    OBVIOUS
<1>3. a = b * (a \div b) + (a % b)
    OBVIOUS
<1>. QED
    BY <1>1, <1>2, <1>3

LEMMA Monotone ==
    ASSUME NEW a \in Int, NEW b \in Int, NEW c \in Nat, a <= b
    PROVE  a * c <= b * c /\ c * a <= c * b
OBVIOUS

\* The index of a value in a table that is stored row by row, ...
LEMMA PlaceOfValue ==
    ASSUME NEW rows \in Nat, NEW columns \in Nat, NEW r \in 0..(rows - 1), NEW c \in 0..(columns - 1)
    PROVE  r * columns + c + 1 \in 1..(rows * columns)
<1>1. r + 1 \in Int /\ r + 1 <= rows /\ rows \in Int /\ r \in Nat /\ c \in Nat
    OBVIOUS
<1>2. (r + 1) * columns <= rows * columns
    BY <1>1, Monotone
<1>3. (r + 1) * columns = r * columns + columns
    BY <1>1
<1>4. r * columns \in Nat /\ rows * columns \in Nat
    BY <1>1
<1>. QED
    BY <1>1, <1>2, <1>3, <1>4

\* ... and the row and the column of an index.
LEMMA ValueOfPlace ==
    ASSUME NEW rows \in Nat \ {0}, NEW columns \in Nat, NEW k \in 1..(rows * columns)
    PROVE  (k - 1) % rows \in 0..(rows - 1) /\ (k - 1) \div rows \in 0..(columns - 1)
<1>. DEFINE q == (k - 1) \div rows
            r == (k - 1) % rows
<1>1. k - 1 \in Nat /\ k - 1 < rows * columns
    OBVIOUS
<1>2. q \in Int /\ r \in 0..(rows - 1) /\ k - 1 = rows * q + r
    BY <1>1, DivInt
<1>. HIDE DEF q, r
<1>3. q >= 0
    <2> SUFFICES ASSUME q <= -1 PROVE FALSE
        BY <1>2
    <2>1. rows * q <= rows * (-1)
        BY <1>2, Monotone
    <2>. QED
        BY <1>1, <1>2, <2>1
<1>4. q <= columns - 1
    <2> SUFFICES ASSUME columns <= q PROVE FALSE
        BY <1>2
    <2>1. rows * columns <= rows * q
        BY <1>2, Monotone
    <2>2. rows * columns \in Nat /\ rows * q \in Int
        BY <1>2
    <2>. QED
        BY <1>1, <1>2, <2>1, <2>2
<1>. QED
    BY <1>2, <1>3, <1>4 DEF q, r

\* A quotient that is rounded up exceeds a limit as the fraction does.
LEMMA Ceiling ==
    ASSUME NEW a \in Int, NEW b \in Nat \ {0}, NEW limit \in Nat, (a + b - 1) \div b <= limit
    PROVE  a <= limit * b
<1>. DEFINE q == (a + b - 1) \div b
            r == (a + b - 1) % b
<1>1. q \in Int /\ r \in 0..(b - 1) /\ a + b - 1 = b * q + r
    BY DivInt
<1>. HIDE DEF q, r
<1>2. b * q <= b * limit
    BY <1>1, Monotone DEF q
<1>3. b * q \in Int /\ limit * b = b * limit /\ b * limit \in Nat
    BY <1>1
<1>. QED
    BY <1>1, <1>2, <1>3

LEMMA CeilingAbove ==
    ASSUME NEW a \in Int, NEW b \in Nat \ {0}, NEW limit \in Nat, (a + b - 1) \div b > limit
    PROVE  a > limit * b
<1>. DEFINE q == (a + b - 1) \div b
            r == (a + b - 1) % b
<1>1. q \in Int /\ r \in 0..(b - 1) /\ a + b - 1 = b * q + r
    BY DivInt
<1>. HIDE DEF q, r
<1>2. limit + 1 <= q
    BY <1>1 DEF q
<1>3. b * (limit + 1) <= b * q
    BY <1>1, <1>2, Monotone
<1>4. b * q \in Int /\ b * (limit + 1) = limit * b + b /\ limit * b \in Nat
    BY <1>1
<1>. QED
    BY <1>1, <1>3, <1>4

\* Quotient and rest are unique.
LEMMA DivUnique ==
    ASSUME NEW b \in Nat \ {0}, NEW q \in Int, NEW r \in 0..(b - 1)
    PROVE  (b * q + r) \div b = q /\ (b * q + r) % b = r
<1>. DEFINE a == b * q + r
            d == a \div b
            e == a % b
<1>1. a \in Int /\ b * q \in Int
    OBVIOUS
<1>2. d \in Int /\ e \in 0..(b - 1) /\ a = b * d + e
    BY <1>1, DivInt
<1>. HIDE DEF d, e
<1>3. d <= q
    <2> SUFFICES ASSUME q + 1 <= d PROVE FALSE
        BY <1>2
    <2>1. b * (q + 1) <= b * d
        BY <1>2, Monotone
    <2>2. b * (q + 1) = b * q + b /\ b * d \in Int
        BY <1>2
    <2>. QED
        BY <1>1, <1>2, <2>1, <2>2
<1>4. q <= d
    <2> SUFFICES ASSUME d + 1 <= q PROVE FALSE
        BY <1>2
    <2>1. b * (d + 1) <= b * q
        BY <1>2, Monotone
    <2>2. b * (d + 1) = b * d + b /\ b * d \in Int
        BY <1>2
    <2>. QED
        BY <1>1, <1>2, <2>1, <2>2
<1>5. d = q
    BY <1>2, <1>3, <1>4
<1>6. e = r
    BY <1>1, <1>2, <1>5
<1>. QED
    BY <1>5, <1>6 DEF d, e

LEMMA LargerSmaller ==
    ASSUME NEW a \in Int, NEW b \in Int
    PROVE  /\ Larger(a, b) \in Int /\ Larger(a, b) >= a /\ Larger(a, b) >= b
           /\ Larger(a, b) = a \/ Larger(a, b) = b
           /\ Smaller(a, b) \in Int /\ Smaller(a, b) <= a /\ Smaller(a, b) <= b
           /\ Smaller(a, b) = a \/ Smaller(a, b) = b
BY DEF Larger, Smaller

LEMMA RoundedInt ==
    ASSUME NEW a \in Int, NEW b \in Nat \ {0}
    PROVE  Rounded(a, b) \in Int
<1>1. 2 * a + b \in Int /\ b - 2 * a \in Int /\ 2 * b \in Nat \ {0}
    OBVIOUS
<1>2. (2 * a + b) \div (2 * b) \in Int /\ (b - 2 * a) \div (2 * b) \in Int
    BY <1>1, DivInt
<1>. QED
    BY <1>2 DEF Rounded

\* A whole number is rounded to itself.
LEMMA RoundedExact ==
    ASSUME NEW b \in Nat \ {0}, NEW k \in Int
    PROVE  Rounded(b * k, b) = k
<1>. DEFINE c == 2 * b
<1>1. c \in Nat \ {0} /\ b \in 0..(c - 1) /\ -k \in Int /\ b * k \in Int
    OBVIOUS
<1>2. 2 * (b * k) + b = c * k + b /\ b - 2 * (b * k) = c * (-k) + b
    OBVIOUS
<1>. HIDE DEF c
<1>3. (c * k + b) \div c = k /\ (c * (-k) + b) \div c = -k
    BY <1>1, DivUnique
<1>4. Rounded(b * k, b) = IF b * k >= 0 THEN (2 * (b * k) + b) \div c ELSE -((b - 2 * (b * k)) \div c)
    BY DEF Rounded, c
<1>5. -(-k) = k
    OBVIOUS
<1>. QED
    BY <1>2, <1>3, <1>4, <1>5

----------------------------------------------------------------------------
(* Boxes. *)

Strip == [x : Int, width : Int]
InFrame == {b \in Strip : b.x >= 0 /\ b.x + b.width <= FrameWidth}

LEMMA OverlapIsInt ==
    ASSUME NEW a \in Strip, NEW b \in Strip
    PROVE  IntersectionOverUnion(a, b) \in Int
<1>. DEFINE both == Larger(0, Smaller(a.x + a.width, b.x + b.width) - Larger(a.x, b.x))
            combined == Larger(0, a.width) + Larger(0, b.width) - both
<1>1. a.x \in Int /\ a.width \in Int /\ b.x \in Int /\ b.width \in Int
    BY DEF Strip
<1>2. both \in Int
    BY <1>1 DEF Larger, Smaller
<1>3. combined \in Int
    <2>. HIDE DEF both
    <2>. QED
        BY <1>1, <1>2 DEF Larger
<1>4. IntersectionOverUnion(a, b) =
         IF combined <= 0 THEN 0 ELSE (10000 * both + combined - 1) \div combined
    BY DEF IntersectionOverUnion
<1>. HIDE DEF both, combined
<1>5. CASE combined <= 0
    BY <1>4, <1>5
<1>6. CASE ~ (combined <= 0)
    <2>1. combined \in Nat \ {0} /\ 10000 * both + combined - 1 \in Int
        BY <1>2, <1>3, <1>6
    <2>2. (10000 * both + combined - 1) \div combined \in Int
        BY <2>1, DivInt
    <2>. QED
        BY <1>4, <1>6, <2>2
<1>. QED
    BY <1>5, <1>6

LEMMA UnboxedInFrame ==
    ASSUME NEW cx \in Int, NEW width \in Int
    PROVE  Unboxed(cx, width) \in InFrame
<1>. DEFINE x == Rounded((2 * cx - Letterbox.pad - width) * Letterbox.longSide, 2 * InputSize)
            right == Smaller(FrameWidth, x + Rounded(width * Letterbox.longSide, InputSize))
            left == Larger(0, x)
<1>1. /\ FrameWidth \in Nat \ {0} /\ FrameHeight \in Nat \ {0} /\ InputSize \in Nat \ {0}
      /\ 2 * InputSize \in Nat \ {0}
    BY DetectorAssumption
<1>2. Letterbox.longSide \in Nat \ {0} /\ Letterbox.pad \in Int
    <2>. DEFINE longSide == Larger(FrameWidth, FrameHeight)
    <2>1. longSide \in Nat \ {0} /\ FrameWidth * InputSize \in Int
        BY <1>1 DEF Larger
    <2>. HIDE DEF longSide
    <2>2. Rounded(FrameWidth * InputSize, longSide) \in Int
        BY <2>1, RoundedInt
    <2>3. InputSize - Larger(1, Rounded(FrameWidth * InputSize, longSide)) \in Int
        BY <1>1, <2>2 DEF Larger
    <2>4. Letterbox.longSide = longSide
        BY DEF Letterbox, longSide
    <2>5. Letterbox.pad = InputSize - Larger(1, Rounded(FrameWidth * InputSize, longSide))
        BY DEF Letterbox, longSide
    <2>. QED
        BY <2>1, <2>3, <2>4, <2>5
<1>3. x \in Int
    <2>1. (2 * cx - Letterbox.pad - width) * Letterbox.longSide \in Int
        BY <1>2
    <2>. QED
        BY <1>1, <2>1, RoundedInt
<1>4. Rounded(width * Letterbox.longSide, InputSize) \in Int
    <2>1. width * Letterbox.longSide \in Int
        BY <1>2
    <2>. QED
        BY <1>1, <2>1, RoundedInt
<1>5. Unboxed(cx, width) = [x |-> left, width |-> right - left]
    BY DEF Unboxed
<1>. HIDE DEF x
<1>6. left \in Int /\ left >= 0 /\ right \in Int /\ right <= FrameWidth
    BY <1>1, <1>3, <1>4 DEF Larger, Smaller
<1>. HIDE DEF left, right
<1>7. right - left \in Int /\ left + (right - left) <= FrameWidth
    BY <1>1, <1>6
<1>. QED
    BY <1>5, <1>6, <1>7 DEF InFrame, Strip

(* How much two boxes overlap, in pixels. *)
Share(a, b, both, combined) ==
    /\ both \in Nat /\ combined \in Nat /\ both <= combined
    /\ IntersectionOverUnion(a, b) =
          IF combined <= 0 THEN 0 ELSE (10000 * both + combined - 1) \div combined

LEMMA PixelCounts ==
    ASSUME NEW a \in InFrame, NEW b \in InFrame
    PROVE  Share(a, b, Cardinality(Pixels(a) \cap Pixels(b)), Cardinality(Pixels(a) \cup Pixels(b)))
<1>1. /\ a.x \in Int /\ a.width \in Int /\ a.x >= 0 /\ a.x + a.width <= FrameWidth
      /\ b.x \in Int /\ b.width \in Int /\ b.x >= 0 /\ b.x + b.width <= FrameWidth
      /\ FrameWidth \in Nat
    BY DetectorAssumption DEF InFrame, Strip
<1>. DEFINE p == Pixels(a)
            q == Pixels(b)
            left == Larger(a.x, b.x)
            right == Smaller(a.x + a.width, b.x + b.width)
<1>2. p = (a.x)..(a.x + a.width - 1) /\ q = (b.x)..(b.x + b.width - 1)
    BY <1>1 DEF Pixels
<1>3. left \in Int /\ right \in Int
    BY <1>1 DEF Larger, Smaller
<1>4. p \cap q = left..(right - 1)
    <2>1. ASSUME NEW k \in Int
          PROVE  (left <= k <=> a.x <= k /\ b.x <= k)
                    /\ (k <= right - 1 <=> k <= a.x + a.width - 1 /\ k <= b.x + b.width - 1)
        BY <1>1 DEF Larger, Smaller
    <2>. HIDE DEF p, q, left, right
    <2>2. \A k : k \in p <=> k \in Int /\ a.x <= k /\ k <= a.x + a.width - 1
        BY <1>1, <1>2
    <2>3. \A k : k \in q <=> k \in Int /\ b.x <= k /\ k <= b.x + b.width - 1
        BY <1>1, <1>2
    <2>4. \A k : k \in left..(right - 1) <=> k \in Int /\ left <= k /\ k <= right - 1
        BY <1>3
    <2>5. ASSUME NEW k PROVE k \in p \cap q <=> k \in left..(right - 1)
        <3>1. CASE k \in Int
            BY <2>1, <2>2, <2>3, <2>4, <3>1
        <3>2. CASE k \notin Int
            BY <2>2, <2>4, <3>2
        <3>. QED
            BY <3>1, <3>2
    <2>. QED
        BY <2>5
<1>5. /\ IsFiniteSet(p) /\ Cardinality(p) = Larger(0, a.width)
      /\ IsFiniteSet(q) /\ Cardinality(q) = Larger(0, b.width)
    <2>. HIDE DEF p, q
    <2>1. /\ IsFiniteSet(p) /\ Cardinality(p) = IF a.x > a.x + a.width - 1 THEN 0 ELSE (a.x + a.width - 1) - a.x + 1
          /\ IsFiniteSet(q) /\ Cardinality(q) = IF b.x > b.x + b.width - 1 THEN 0 ELSE (b.x + b.width - 1) - b.x + 1
        <3>. DEFINE aTo == a.x + a.width - 1
                    bTo == b.x + b.width - 1
        <3>1. aTo \in Int /\ bTo \in Int
            BY <1>1
        <3>. HIDE DEF aTo, bTo
        <3>2. p = (a.x)..aTo /\ q = (b.x)..bTo
            BY <1>2 DEF aTo, bTo
        <3>3. /\ IsFiniteSet(p) /\ Cardinality(p) = IF a.x > aTo THEN 0 ELSE aTo - a.x + 1
              /\ IsFiniteSet(q) /\ Cardinality(q) = IF b.x > bTo THEN 0 ELSE bTo - b.x + 1
            BY <1>1, <3>1, <3>2, FS_Interval
        <3>. QED
            BY <3>3 DEF aTo, bTo
    <2>. QED
        BY <1>1, <2>1 DEF Larger
<1>6. Cardinality(p \cap q) = Larger(0, right - left)
    <2>. HIDE DEF p, q, left, right
    <2>1. Cardinality(p \cap q) = IF left > right - 1 THEN 0 ELSE (right - 1) - left + 1
        <3>1. right - 1 \in Int
            BY <1>3
        <3>2. Cardinality(left..(right - 1)) = IF left > right - 1 THEN 0 ELSE (right - 1) - left + 1
            BY <1>3, <3>1, FS_Interval
        <3>. QED
            BY <1>4, <3>2
    <2>. QED
        BY <1>3, <2>1 DEF Larger
<1>. DEFINE both == Cardinality(p \cap q)
            combined == Cardinality(p \cup q)
<1>7. combined = Larger(0, a.width) + Larger(0, b.width) - both /\ combined \in Nat /\ both \in Nat
    <2>. HIDE DEF p, q
    <2>1. IsFiniteSet(p \cup q) /\ combined = Cardinality(p) + Cardinality(q) - both
        BY <1>5, FS_Union
    <2>2. combined \in Nat
        BY <2>1, FS_CardinalityType
    <2>3. IsFiniteSet(p \cap q) /\ both \in Nat
        BY <1>5, FS_Intersection, FS_CardinalityType
    <2>. QED
        BY <1>5, <2>1, <2>2, <2>3
<1>8. IntersectionOverUnion(a, b) = IF combined <= 0 THEN 0 ELSE (10000 * both + combined - 1) \div combined
    BY <1>6, <1>7 DEF IntersectionOverUnion
<1>9. both <= combined
    <2>. HIDE DEF p, q, left, right
    <2>1. IsFiniteSet(p \cup q)
        BY <1>5, FS_Union
    <2>2. p \cap q \in SUBSET (p \cup q)
        OBVIOUS
    <2>. QED
        BY <2>1, <2>2, FS_Subset
<1>. HIDE DEF p, q, both, combined
<1>10. Share(a, b, both, combined)
    BY <1>7, <1>8, <1>9 DEF Share
<1>. QED
    BY <1>10 DEF p, q, both, combined

\* A box has as many pixels as it is wide.
LEMMA PixelsOfBox ==
    ASSUME NEW a \in InFrame
    PROVE  /\ IsFiniteSet(Pixels(a)) /\ Cardinality(Pixels(a)) = Larger(0, a.width)
           /\ a.width \in Int
<1>. DEFINE last == a.x + a.width - 1
<1>1. /\ a.x \in Int /\ a.width \in Int /\ a.x >= 0 /\ a.x + a.width <= FrameWidth
      /\ FrameWidth \in Nat
    BY DetectorAssumption DEF InFrame, Strip
<1>2. Pixels(a) = (a.x)..last /\ last \in Int
    BY <1>1 DEF Pixels
<1>. HIDE DEF last
<1>3. IsFiniteSet(Pixels(a)) /\ Cardinality(Pixels(a)) = IF a.x > last THEN 0 ELSE last - a.x + 1
    BY <1>1, <1>2, FS_Interval
<1>. QED
    BY <1>1, <1>3 DEF last, Larger

(* Boxes that overlap by no more than the threshold are not about one object. *)
LEMMA ApartPixels ==
    ASSUME NEW a \in InFrame, NEW b \in InFrame, IntersectionOverUnion(a, b) <= NmsThreshold
    PROVE  ~ OneObject(Pixels(a), Pixels(b))
<1>. DEFINE both == Cardinality(Pixels(a) \cap Pixels(b))
            combined == Cardinality(Pixels(a) \cup Pixels(b))
<1>. HIDE DEF both, combined
<1>1. /\ both \in Nat /\ combined \in Nat /\ both <= combined
      /\ IntersectionOverUnion(a, b) =
            IF combined <= 0 THEN 0 ELSE (10000 * both + combined - 1) \div combined
    <2>1. Share(a, b, both, combined)
        BY PixelCounts DEF both, combined
    <2>. QED
        BY <2>1 DEF Share
<1>2. NmsThreshold \in Nat
    BY DetectorAssumption
<1>3. 10000 * both <= NmsThreshold * combined
    <2>1. CASE combined = 0
        BY <1>1, <1>2, <2>1
    <2>2. CASE combined # 0
        <3>1. combined \in Nat \ {0} /\ ~ (combined <= 0) /\ 10000 * both \in Int
            BY <1>1, <2>2
        <3>2. (10000 * both + combined - 1) \div combined <= NmsThreshold
            BY <1>1, <3>1
        <3>. QED
            BY <1>2, <3>1, <3>2, Ceiling
    <2>. QED
        BY <2>1, <2>2
<1>4. 10000 * both \in Int /\ NmsThreshold * combined \in Int
    BY <1>1, <1>2
<1>5. ~ (10000 * both > NmsThreshold * combined)
    BY <1>3, <1>4
<1>. QED
    BY <1>5 DEF OneObject, both, combined

(* Those that overlap by more are, ... *)
LEMMA TogetherPixels ==
    ASSUME NEW a \in InFrame, NEW b \in InFrame, ~ (IntersectionOverUnion(a, b) <= NmsThreshold)
    PROVE  OneObject(Pixels(a), Pixels(b))
<1>. DEFINE both == Cardinality(Pixels(a) \cap Pixels(b))
            combined == Cardinality(Pixels(a) \cup Pixels(b))
            q == (10000 * both + combined - 1) \div combined
<1>. HIDE DEF both, combined
<1>1. /\ both \in Nat /\ combined \in Nat /\ both <= combined
      /\ IntersectionOverUnion(a, b) = IF combined <= 0 THEN 0 ELSE q
    <2>1. Share(a, b, both, combined)
        BY PixelCounts DEF both, combined
    <2>. QED
        BY <2>1 DEF Share
<1>2. NmsThreshold \in Nat
    BY DetectorAssumption
<1>3. combined \in Nat \ {0} /\ ~ (combined <= 0) /\ 10000 * both \in Int
    BY <1>1, <1>2
<1>4. q \in Int
    <2>1. 10000 * both + combined - 1 \in Int
        BY <1>3
    <2>. QED
        BY <1>3, <2>1, DivInt
<1>5. q > NmsThreshold
    <2>1. IntersectionOverUnion(a, b) = q
        BY <1>1, <1>3
    <2>. HIDE DEF q
    <2>. QED
        BY <1>2, <1>4, <2>1
<1>6. 10000 * both > NmsThreshold * combined
    BY <1>2, <1>3, <1>5, CeilingAbove
<1>. QED
    BY <1>6 DEF OneObject, both, combined

\* ... and so is one and the same.
LEMMA SamePixels ==
    ASSUME NEW a \in InFrame, a.width > 0, NmsThreshold < 10000
    PROVE  OneObject(Pixels(a), Pixels(a))
<1>. DEFINE p == Pixels(a)
            n == Cardinality(p)
<1>1. n \in Nat \ {0}
    BY PixelsOfBox DEF Larger
<1>. HIDE DEF p
<1>2. Cardinality(p \cap p) = n /\ Cardinality(p \cup p) = n
    <2>1. p \cap p = p /\ p \cup p = p
        OBVIOUS
    <2>. QED
        BY <2>1
<1>. HIDE DEF n
<1>3. NmsThreshold + 1 <= 10000 /\ NmsThreshold \in Nat
    BY DetectorAssumption
<1>4. (NmsThreshold + 1) * n <= 10000 * n
    BY <1>1, <1>3, Monotone
<1>5. 10000 * n > NmsThreshold * n
    BY <1>1, <1>3, <1>4
<1>. QED
    BY <1>2, <1>5 DEF OneObject, p

LEMMA Cancelled ==
    ASSUME NEW b \in Nat \ {0}, NEW u \in Int, NEW v \in Int
    PROVE  (b * u <= b * v <=> u <= v) /\ (b * u < b * v <=> u < v)
<1>1. b * u \in Int /\ b * v \in Int
    OBVIOUS
<1>2. u <= v => b * u <= b * v
    BY Monotone
<1>3. v <= u => b * v <= b * u
    BY Monotone
<1>4. u + 1 <= v => b * u + b <= b * v
    <2> SUFFICES ASSUME u + 1 <= v PROVE b * u + b <= b * v
        OBVIOUS
    <2>1. b * (u + 1) <= b * v
        BY Monotone
    <2>2. b * (u + 1) = b * u + b
        OBVIOUS
    <2>. QED
        BY <2>1, <2>2
<1>5. v + 1 <= u => b * v + b <= b * u
    <2> SUFFICES ASSUME v + 1 <= u PROVE b * v + b <= b * u
        OBVIOUS
    <2>1. b * (v + 1) <= b * u
        BY Monotone
    <2>2. b * (v + 1) = b * v + b
        OBVIOUS
    <2>. QED
        BY <2>1, <2>2
<1>. DEFINE x == b * u
            y == b * v
<1>. HIDE DEF x, y
<1>6. x \in Int /\ y \in Int /\ (u <= v => x <= y) /\ (v <= u => y <= x)
         /\ (u + 1 <= v => x + b <= y) /\ (v + 1 <= u => y + b <= x)
    BY <1>1, <1>2, <1>3, <1>4, <1>5 DEF x, y
<1>7. (x <= y <=> u <= v) /\ (x < y <=> u < v)
    BY <1>6
<1>. QED
    BY <1>7 DEF x, y

(* With an even scale, neither the letterbox nor the way back rounds. *)
LEMMA UnboxedPixels ==
    ASSUME EvenScale, NEW row, row.cx \in Int, row.width \in Int
    PROVE  Pixels(Unboxed(row.cx, row.width)) = PixelsOfRow(row)
<1>. DEFINE scale == Larger(FrameWidth, FrameHeight)
            pad == Letterbox.pad
            cx == row.cx
            width == row.width
            size == 2 * InputSize
            n == 2 * cx - pad - width
<1>1. /\ FrameWidth \in Nat \ {0} /\ FrameHeight \in Nat \ {0} /\ InputSize \in Nat \ {0}
      /\ size \in Nat \ {0}
    BY DetectorAssumption
<1>2. Letterbox.longSide = scale /\ scale \in Nat \ {0}
    BY <1>1 DEF Letterbox, Larger
<1>. HIDE DEF scale, size
<1>3. PICK k \in Nat : scale = size * k
    <2>. DEFINE q == scale \div size
    <2>1. scale % size = 0
        BY DEF EvenScale, scale, size
    <2>2. q \in Int /\ scale = size * q + (scale % size)
        BY <1>1, <1>2, DivInt
    <2>. HIDE DEF q
    <2>3. scale = size * q
        BY <1>1, <2>1, <2>2
    <2>4. q >= 0
        <3> SUFFICES ASSUME q <= -1 PROVE FALSE
            BY <2>2
        <3>1. size * q <= size * (-1)
            BY <1>1, <2>2, Monotone
        <3>. QED
            BY <1>1, <1>2, <2>3, <3>1
    <2>. QED
        BY <2>2, <2>3, <2>4
<1>. USE DEF scale, size
<1>4. pad \in Int
    <2>1. FrameWidth * InputSize \in Int
        BY <1>1
    <2>2. Rounded(FrameWidth * InputSize, scale) \in Int
        BY <1>2, <2>1, RoundedInt
    <2>3. pad = InputSize - Larger(1, Rounded(FrameWidth * InputSize, scale))
        BY DEF Letterbox
    <2>. HIDE DEF pad, scale
    <2>. QED
        BY <1>1, <2>2, <2>3 DEF Larger
<1>. HIDE DEF scale, pad
<1>5. cx \in Int /\ width \in Int /\ n \in Int
    BY <1>4
<1>. HIDE DEF cx, width
<1>. DEFINE X == n * k
            W == 2 * width * k
<1>6. X \in Int /\ W \in Int
    BY <1>3, <1>5
<1>7. Rounded(n * scale, size) = X
    <2>1. n * scale = size * X
        BY <1>1, <1>3, <1>5
    <2>. HIDE DEF size, X
    <2>. QED
        BY <1>1, <1>6, <2>1, RoundedExact
<1>8. Rounded(width * scale, InputSize) = W
    <2>1. width * scale = InputSize * W
        BY <1>1, <1>3, <1>5
    <2>. HIDE DEF W
    <2>. QED
        BY <1>1, <1>6, <2>1, RoundedExact
<1>9. Unboxed(cx, width) = [x |-> Larger(0, X), width |-> Smaller(FrameWidth, X + W) - Larger(0, X)]
    BY <1>2, <1>7, <1>8 DEF Unboxed, pad
<1>10. ASSUME NEW p \in 0..(FrameWidth - 1)
       PROVE  /\ (2 * cx - width) * scale <= 2 * p * InputSize + pad * scale <=> X <= p
              /\ 2 * p * InputSize + pad * scale < (2 * cx + width) * scale <=> p < X + W
    <2>. DEFINE a == (2 * cx - width) * scale
                b == pad * scale
                c == (2 * cx + width) * scale
                d == 2 * p * InputSize
    <2>1. a = size * X + b /\ c = size * (X + W) + b /\ d = size * p
        BY <1>1, <1>3, <1>4, <1>5
    <2>2. p \in Int /\ X + W \in Int /\ b \in Int /\ size * X \in Int /\ size * p \in Int
              /\ size * (X + W) \in Int
        BY <1>1, <1>2, <1>4, <1>6
    <2>3. (size * X <= size * p <=> X <= p) /\ (size * p < size * (X + W) <=> p < X + W)
        <3>. HIDE DEF X, W, size
        <3>. QED
            BY <1>1, <1>6, <2>2, Cancelled
    <2>. DEFINE e == size * X
                f == size * p
                g == size * (X + W)
    <2>. HIDE DEF a, b, c, d, X, W, size, e, f, g
    <2>4. a = e + b /\ c = g + b /\ d = f /\ b \in Int /\ e \in Int /\ f \in Int /\ g \in Int
        BY <2>1, <2>2 DEF e, f, g
    <2>5. (a <= d + b <=> e <= f) /\ (d + b < c <=> f < g)
        BY <2>4
    <2>6. (e <= f <=> X <= p) /\ (f < g <=> p < X + W)
        BY <2>3 DEF e, f, g
    <2>7. (a <= d + b <=> X <= p) /\ (d + b < c <=> p < X + W)
        BY <2>5, <2>6
    <2>. QED
        BY <2>7 DEF a, b, c, d
<1>. HIDE DEF X, W
<1>11. ASSUME NEW p \in 0..(FrameWidth - 1)
       PROVE  /\ Larger(0, X) <= p <=> X <= p
              /\ p < Larger(0, X) + (Smaller(FrameWidth, X + W) - Larger(0, X)) <=> p < X + W
    BY <1>1, <1>6 DEF Larger, Smaller
<1>12. Pixels(Unboxed(cx, width)) =
          {p \in 0..(FrameWidth - 1) : X <= p /\ p < X + W}
    <2>1. Pixels(Unboxed(cx, width)) =
             {p \in 0..(FrameWidth - 1) :
                 /\ Larger(0, X) <= p
                 /\ p < Larger(0, X) + (Smaller(FrameWidth, X + W) - Larger(0, X))}
        BY <1>9 DEF Pixels
    <2>. QED
        BY <1>11, <2>1
<1>13. PixelsOfRow(row) = {p \in 0..(FrameWidth - 1) : X <= p /\ p < X + W}
    <2>1. PixelsOfRow(row) =
             {p \in 0..(FrameWidth - 1) :
                 /\ (2 * cx - width) * scale <= 2 * p * InputSize + pad * scale
                 /\ 2 * p * InputSize + pad * scale < (2 * cx + width) * scale}
        BY DEF PixelsOfRow, cx, width, scale, pad
    <2>. QED
        BY <1>10, <2>1
<1>. QED
    BY <1>12, <1>13 DEF cx, width

(* Suppression. *)

Labels == {"pedestrian", "bicycle", "car", "motorcycle", "bus", "truck", "trafficLight", "unknown"}
Detection == [box : InFrame, score : Int, label : Labels]

LEMMA BestClassExists ==
    ASSUME NEW m \in Nat \ {0}, NEW scores \in [1..m -> Int]
    PROVE  /\ BestClass(scores) \in 1..m
           /\ \A e \in 1..m : scores[e] <= scores[BestClass(scores)]
<1>. DEFINE First(d, k) == \A e \in 1..k : scores[e] < scores[d] \/ (scores[e] = scores[d] /\ d <= e)
            S == {k \in Nat : 1 <= k /\ k <= m => \E d \in 1..k : First(d, k)}
<1>1. 0 \in S
    OBVIOUS
<1>2. ASSUME NEW k \in Nat, k \in S PROVE k + 1 \in S
    <2> SUFFICES ASSUME k + 1 <= m PROVE \E d \in 1..(k + 1) : First(d, k + 1)
        OBVIOUS
    <2>1. \A e \in 1..(k + 1) : scores[e] \in Int /\ (e = k + 1 \/ e \in 1..k)
        OBVIOUS
    <2>2. k + 1 \in 1..(k + 1)
        OBVIOUS
    <2>3. CASE k = 0
        <3>1. First(k + 1, k + 1)
            BY <2>3
        <3>. QED
            BY <2>2, <3>1
    <2>4. CASE k # 0
        <3>1. PICK d \in 1..k : First(d, k)
            BY <1>2, <2>4
        <3>2. d \in 1..(k + 1) /\ scores[d] \in Int /\ scores[k + 1] \in Int
            OBVIOUS
        <3>3. CASE scores[d] < scores[k + 1]
            <4>1. ASSUME NEW e \in 1..(k + 1)
                  PROVE  scores[e] < scores[k + 1] \/ (scores[e] = scores[k + 1] /\ k + 1 <= e)
                <5>1. CASE e = k + 1
                    BY <5>1
                <5>2. CASE e \in 1..k
                    <6>1. scores[e] <= scores[d] /\ scores[e] \in Int
                        BY <2>1, <3>1, <3>2, <5>2
                    <6>. QED
                        BY <3>2, <3>3, <6>1
                <5>. QED
                    BY <2>1, <5>1, <5>2
            <4>. QED
                BY <2>2, <4>1
        <3>4. CASE ~ (scores[d] < scores[k + 1])
            <4>1. ASSUME NEW e \in 1..(k + 1)
                  PROVE  scores[e] < scores[d] \/ (scores[e] = scores[d] /\ d <= e)
                <5>1. CASE e = k + 1
                    BY <3>2, <3>4, <5>1
                <5>2. CASE e \in 1..k
                    BY <3>1, <5>2
                <5>. QED
                    BY <2>1, <5>1, <5>2
            <4>. QED
                BY <3>2, <4>1
        <3>. QED
            BY <3>3, <3>4
    <2>. QED
        BY <2>3, <2>4
<1>. HIDE DEF S
<1>3. m \in S
    BY <1>1, <1>2, NatSetInduction
<1>4. \E d \in 1..m : First(d, m)
    BY <1>3 DEF S
<1>5. DOMAIN scores = 1..m
    OBVIOUS
<1>6. BestClass(scores) \in 1..m /\ First(BestClass(scores), m)
    BY <1>4, <1>5 DEF BestClass
<1>. DEFINE best == BestClass(scores)
<1>. HIDE DEF best
<1>7. \A e \in 1..m : scores[e] <= scores[best]
    <2> SUFFICES ASSUME NEW e \in 1..m PROVE scores[e] <= scores[best]
        OBVIOUS
    <2>1. scores[e] \in Int /\ scores[best] \in Int
        BY <1>6 DEF best
    <2>2. scores[e] < scores[best] \/ scores[e] = scores[best]
        BY <1>6 DEF best
    <2>. QED
        BY <2>1, <2>2
<1>. QED
    BY <1>6, <1>7 DEF best

LEMMA LabelOfClass ==
    ASSUME NEW class
    PROVE  CocoToObjectClass(class) \in Labels
BY DEF CocoToObjectClass, Labels

(* Exactly one box has each rank: the boxes before one are the more, the *)
(* later it comes.                                                       *)
Ranking(ranked, c) ==
    /\ \A n \in 1..Len(c) : ranked[n] \in Detection /\ \E i \in 1..Len(c) : ranked[n] = c[i]
    /\ \A i \in 1..Len(c) : \E n \in 1..Len(c) : ranked[n] = c[i]
    /\ \A n, k \in 1..Len(c) : n < k => ranked[k].score <= ranked[n].score

LEMMA RankedProperties ==
    ASSUME NEW c \in Seq(Detection)
    PROVE  Ranking(Ranked(c), c)
<1>. DEFINE m == Len(c)
            D == 1..m
            Earlier(i) == {j \in D : Before(c, j, i)}
            rank == [i \in D |-> Cardinality(Earlier(i)) + 1]
<1>1. m \in Nat /\ DOMAIN c = D /\ \A i \in D : c[i] \in Detection /\ c[i].score \in Int
    <2>1. m \in Nat /\ DOMAIN c = D /\ \A i \in D : c[i] \in Detection
        BY LenProperties
    <2>. QED
        BY <2>1 DEF Detection
<1>. HIDE DEF m
<1>2. IsFiniteSet(D) /\ Cardinality(D) = m
    <2>1. 1 \in Int /\ m \in Int
        BY <1>1
    <2>2. IsFiniteSet(1..m) /\ Cardinality(1..m) = IF 1 > m THEN 0 ELSE m - 1 + 1
        BY <2>1, FS_Interval
    <2>. QED
        BY <1>1, <2>2
<1>3. \A i \in D : i \notin Earlier(i)
    BY <1>1 DEF Before
<1>4. ASSUME NEW i \in D, NEW j \in D, NEW k \in D, Before(c, i, j), Before(c, j, k)
      PROVE  Before(c, i, k)
    <2>1. /\ i \in Int /\ j \in Int /\ k \in Int
          /\ c[i].score \in Int /\ c[j].score \in Int /\ c[k].score \in Int
        BY <1>1
    <2>. DEFINE x == c[i].score
                y == c[j].score
                z == c[k].score
    <2>2. (x > y \/ (x = y /\ i < j)) /\ (y > z \/ (y = z /\ j < k))
        BY <1>4 DEF Before
    <2>3. x \in Int /\ y \in Int /\ z \in Int
        BY <2>1
    <2>. HIDE DEF x, y, z
    <2>4. x > z \/ (x = z /\ i < k)
        BY <2>1, <2>2, <2>3
    <2>. QED
        BY <2>4 DEF Before, x, y, z
<1>5. ASSUME NEW i \in D, NEW j \in D, i # j PROVE Before(c, i, j) \/ Before(c, j, i)
    <2>1. i \in Int /\ j \in Int /\ c[i].score \in Int /\ c[j].score \in Int
        BY <1>1
    <2>. QED
        BY <1>5, <2>1 DEF Before
<1>. HIDE DEF D
<1>6. \A i \in D : IsFiniteSet(Earlier(i)) /\ Cardinality(Earlier(i)) \in Nat
    BY <1>2, FS_Subset, FS_CardinalityType
<1>7. ASSUME NEW i \in D, NEW j \in D, Before(c, i, j)
      PROVE  Cardinality(Earlier(i)) < Cardinality(Earlier(j))
    <2>1. Earlier(i) \in SUBSET Earlier(j)
        BY <1>4, <1>7
    <2>2. Earlier(i) # Earlier(j)
        BY <1>3, <1>7
    <2>. DEFINE p == Earlier(i)
                q == Earlier(j)
    <2>3. IsFiniteSet(q) /\ Cardinality(p) \in Nat /\ Cardinality(q) \in Nat
        BY <1>6
    <2>. HIDE DEF p, q
    <2>4. p \in SUBSET q /\ p # q
        BY <2>1, <2>2 DEF p, q
    <2>5. Cardinality(p) <= Cardinality(q) /\ (Cardinality(q) = Cardinality(p) => q = p)
        BY <2>3, <2>4, FS_Subset
    <2>6. Cardinality(p) < Cardinality(q)
        BY <2>3, <2>4, <2>5
    <2>. QED
        BY <2>6 DEF p, q
<1>8. ASSUME NEW i \in D PROVE Cardinality(Earlier(i)) + 1 \in 1..m
    <2>. DEFINE p == Earlier(i)
    <2>1. p \in SUBSET D /\ p # D
        BY <1>3
    <2>2. Cardinality(p) \in Nat
        BY <1>6
    <2>. HIDE DEF p
    <2>3. Cardinality(p) <= m /\ (m = Cardinality(p) => D = p)
        BY <1>2, <2>1, FS_Subset
    <2>4. Cardinality(p) + 1 \in 1..m
        BY <1>1, <2>1, <2>2, <2>3
    <2>. QED
        BY <2>4 DEF p
<1>9. rank \in [D -> D]
    BY <1>8 DEF D
<1>10. ASSUME NEW i \in D, NEW j \in D, i # j PROVE rank[i] # rank[j]
    <2>1. Cardinality(Earlier(i)) < Cardinality(Earlier(j)) \/ Cardinality(Earlier(j)) < Cardinality(Earlier(i))
        BY <1>5, <1>7, <1>10
    <2>2. Cardinality(Earlier(i)) \in Nat /\ Cardinality(Earlier(j)) \in Nat
        BY <1>6
    <2>3. rank[i] = Cardinality(Earlier(i)) + 1 /\ rank[j] = Cardinality(Earlier(j)) + 1
        OBVIOUS
    <2>. DEFINE x == Cardinality(Earlier(i))
                y == Cardinality(Earlier(j))
    <2>. HIDE DEF x, y
    <2>4. x + 1 # y + 1
        BY <2>1, <2>2 DEF x, y
    <2>. QED
        BY <2>3, <2>4 DEF x, y
<1>. HIDE DEF rank
<1>11. rank \in Surjection(D, D)
    <2>1. rank \in Injection(D, D)
        BY <1>9, <1>10 DEF Injection, IsInjective
    <2>. QED
        BY <1>2, <2>1, FS_Injection
<1>12. ASSUME NEW n \in D, NEW i \in D, rank[i] = n PROVE Ranked(c)[n] = c[i]
    <2>2. Cardinality(Earlier(i)) = n - 1
        <3>1. Cardinality(Earlier(i)) \in Nat /\ Cardinality(Earlier(i)) + 1 = n
            BY <1>6, <1>12 DEF rank
        <3>. DEFINE x == Cardinality(Earlier(i))
        <3>. HIDE DEF x
        <3>2. x = n - 1
            BY <3>1 DEF x
        <3>. QED
            BY <3>2 DEF x
    <2>3. \E h \in DOMAIN c : Cardinality({j \in DOMAIN c : Before(c, j, h)}) = n - 1
        BY <1>1, <2>2
    <2>. DEFINE h == CHOOSE h \in DOMAIN c : Cardinality({j \in DOMAIN c : Before(c, j, h)}) = n - 1
    <2>4. h \in DOMAIN c /\ Cardinality({j \in DOMAIN c : Before(c, j, h)}) = n - 1
        BY <2>3
    <2>5. n \in DOMAIN c
        BY <1>1
    <2>6. Ranked(c)[n] = c[h]
        BY <2>5 DEF Ranked
    <2>7. h \in D /\ Cardinality(Earlier(h)) = n - 1
        BY <1>1, <2>4
    <2>. HIDE DEF h
    <2>8. rank[h] = rank[i]
        BY <2>2, <2>7 DEF rank
    <2>9. h = i
        BY <1>10, <2>7, <2>8
    <2>. QED
        BY <2>6, <2>9
<1>13. \A n \in D : \E i \in D : rank[i] = n
    BY <1>11 DEF Surjection
<1>14. \A i \in D : rank[i] \in D
    BY <1>9
<1>15. ASSUME NEW n \in D, NEW k \in D, n < k PROVE Ranked(c)[k].score <= Ranked(c)[n].score
    <2>1. PICK i \in D : rank[i] = n
        BY <1>13
    <2>2. PICK j \in D : rank[j] = k
        BY <1>13
    <2>3. Ranked(c)[n] = c[i] /\ Ranked(c)[k] = c[j]
        BY <1>12, <2>1, <2>2
    <2>4. ~ Before(c, j, i)
        <3> SUFFICES ASSUME Before(c, j, i) PROVE FALSE
            OBVIOUS
        <3>1. Cardinality(Earlier(j)) < Cardinality(Earlier(i))
            BY <1>7
        <3>2. rank[i] = Cardinality(Earlier(i)) + 1 /\ rank[j] = Cardinality(Earlier(j)) + 1
            BY DEF rank
        <3>3. Cardinality(Earlier(i)) \in Nat /\ Cardinality(Earlier(j)) \in Nat
            BY <1>6
        <3>. DEFINE x == Cardinality(Earlier(i))
                    y == Cardinality(Earlier(j))
        <3>. HIDE DEF x, y
        <3>4. y < x /\ n = x + 1 /\ k = y + 1 /\ x \in Nat /\ y \in Nat
            BY <2>1, <2>2, <3>1, <3>2, <3>3 DEF x, y
        <3>. QED
            BY <1>15, <3>4
    <2>5. ~ (c[j].score > c[i].score)
        BY <2>4 DEF Before
    <2>6. c[i].score \in Int /\ c[j].score \in Int
        BY <1>1
    <2>. QED
        BY <2>3, <2>5, <2>6
<1>16. ASSUME NEW n \in D PROVE Ranked(c)[n] \in Detection /\ \E i \in D : Ranked(c)[n] = c[i]
    <2>1. PICK i \in D : rank[i] = n
        BY <1>13
    <2>2. Ranked(c)[n] = c[i]
        BY <1>12, <2>1
    <2>. QED
        BY <1>1, <2>2
<1>17. ASSUME NEW i \in D PROVE \E n \in D : Ranked(c)[n] = c[i]
    BY <1>12, <1>14
<1>. QED
    BY <1>15, <1>16, <1>17 DEF Ranking, D, m

\* No two of the detections overlap by more than the threshold.
Apart(found) == \A i, j \in 1..Len(found) :
                    i < j => IntersectionOverUnion(found[i].box, found[j].box) <= NmsThreshold

(* The loop over the ranked boxes: one more is kept only if it is apart from *)
(* those that are kept already.                                              *)
LEMMA KeptNext ==
    ASSUME NEW kept \in Seq(Detection), Apart(kept), NEW d \in Detection,
           \A k \in DOMAIN kept : IntersectionOverUnion(kept[k].box, d.box) <= NmsThreshold
    PROVE  Append(kept, d) \in Seq(Detection) /\ Apart(Append(kept, d))
<1>. DEFINE more == Append(kept, d)
            n == Len(kept)
<1>1. n \in Nat /\ DOMAIN kept = 1..n
    BY LenProperties
<1>2. /\ more \in Seq(Detection) /\ Len(more) = n + 1 /\ \A i \in 1..n : more[i] = kept[i]
      /\ more[n + 1] = d
    BY AppendProperties
<1>. HIDE DEF more
<1>3. ASSUME NEW i \in 1..(n + 1), NEW j \in 1..(n + 1), i < j
      PROVE  IntersectionOverUnion(more[i].box, more[j].box) <= NmsThreshold
    <2>. HIDE DEF n
    <2>1. i \in 1..n /\ more[i] = kept[i]
        BY <1>1, <1>2, <1>3
    <2>2. CASE j = n + 1
        BY <1>1, <1>2, <2>1, <2>2
    <2>3. CASE j \in 1..n
        BY <1>2, <1>3, <2>1, <2>3 DEF Apart, n
    <2>. QED
        BY <1>1, <2>2, <2>3
<1>4. Apart(more)
    BY <1>2, <1>3 DEF Apart
<1>. QED
    BY <1>2, <1>4 DEF more

\* A detection that is kept speaks for one that is at most as sure: it is the
\* same or overlaps it by more than the threshold.
SpeaksFor(d, e) ==
    e.score <= d.score /\ (d = e \/ ~ (IntersectionOverUnion(d.box, e.box) <= NmsThreshold))

\* Those kept are some of the first n, and they speak for all of them that are
\* sure enough.
Sifted(kept, c, n) ==
    /\ \A i \in 1..Len(kept) : \E j \in 1..n : kept[i] = c[j] /\ c[j].score > ScoreThreshold
    /\ \A j \in 1..n : c[j].score > ScoreThreshold => \E i \in 1..Len(kept) : SpeaksFor(kept[i], c[j])

LEMMA SiftedNext ==
    ASSUME NEW kept \in Seq(Detection), NEW c, NEW n \in Nat, Sifted(kept, c, n),
           c[n + 1] \in Detection, c[n + 1].score > ScoreThreshold
    PROVE  Sifted(Append(kept, c[n + 1]), c, n + 1)
<1>. DEFINE d == c[n + 1]
            more == Append(kept, d)
            l == Len(kept)
<1>1. /\ Len(more) = l + 1 /\ l \in Nat /\ \A i \in 1..l : more[i] = kept[i]
      /\ more[l + 1] = d
    BY AppendProperties, LenProperties
<1>2. /\ \A i \in 1..(l + 1) : i \in 1..l \/ i = l + 1
      /\ \A i \in 1..l : i \in 1..(l + 1)
      /\ \A i \in 1..(n + 1) : i \in 1..n \/ i = n + 1
      /\ \A i \in 1..n : i \in 1..(n + 1)
      /\ l + 1 \in 1..(l + 1) /\ n + 1 \in 1..(n + 1)
    BY <1>1
<1>3. SpeaksFor(d, d)
    <2>1. d.score \in Int
        BY DEF Detection
    <2>. QED
        BY <2>1 DEF SpeaksFor
<1>4. /\ \A i \in 1..l : \E j \in 1..n : kept[i] = c[j] /\ c[j].score > ScoreThreshold
      /\ \A j \in 1..n : c[j].score > ScoreThreshold => \E i \in 1..l : SpeaksFor(kept[i], c[j])
    BY DEF Sifted
<1>. HIDE DEF more, l
<1>5. ASSUME NEW i \in 1..(l + 1)
      PROVE  \E j \in 1..(n + 1) : more[i] = c[j] /\ c[j].score > ScoreThreshold
    <2>1. CASE i \in 1..l
        <3>1. PICK j \in 1..n : kept[i] = c[j] /\ c[j].score > ScoreThreshold
            BY <1>4, <2>1
        <3>2. more[i] = kept[i] /\ j \in 1..(n + 1)
            BY <1>1, <1>2, <2>1
        <3>. QED
            BY <3>1, <3>2
    <2>2. CASE i = l + 1
        BY <1>1, <1>2, <2>2
    <2>. QED
        BY <1>2, <2>1, <2>2
<1>6. \A j \in 1..(n + 1) : c[j].score > ScoreThreshold => \E i \in 1..(l + 1) : SpeaksFor(more[i], c[j])
    BY <1>1, <1>2, <1>3, <1>4
<1>7. Sifted(more, c, n + 1)
    BY <1>1, <1>5, <1>6 DEF Sifted
<1>. QED
    BY <1>7 DEF more

LEMMA SiftedWithout ==
    ASSUME NEW kept, NEW c, NEW n \in Nat, Sifted(kept, c, n),
           \/ ~ (c[n + 1].score > ScoreThreshold)
           \/ \E i \in 1..Len(kept) : SpeaksFor(kept[i], c[n + 1])
    PROVE  Sifted(kept, c, n + 1)
<1>1. /\ \A i \in 1..(n + 1) : i \in 1..n \/ i = n + 1
      /\ \A i \in 1..n : i \in 1..(n + 1)
    OBVIOUS
<1>. QED
    BY <1>1 DEF Sifted

\* What the suppression leaves of the candidates speaks for all of them.
LeftOf(kept, c) ==
    /\ \A i \in 1..Len(kept) : \E j \in 1..Len(c) : kept[i] = c[j] /\ c[j].score > ScoreThreshold
    /\ \A j \in 1..Len(c) : c[j].score > ScoreThreshold => \E i \in 1..Len(kept) : SpeaksFor(kept[i], c[j])

LEMMA SiftedRanking ==
    ASSUME NEW c, NEW ranked, Ranking(ranked, c), NEW kept, Sifted(kept, ranked, Len(c))
    PROVE  LeftOf(kept, c)
<1>1. ASSUME NEW i \in 1..Len(kept)
      PROVE  \E j \in 1..Len(c) : kept[i] = c[j] /\ c[j].score > ScoreThreshold
    <2>1. PICK n \in 1..Len(c) : kept[i] = ranked[n] /\ ranked[n].score > ScoreThreshold
        BY DEF Sifted
    <2>2. PICK j \in 1..Len(c) : ranked[n] = c[j]
        BY DEF Ranking
    <2>. QED
        BY <2>1, <2>2
<1>2. ASSUME NEW j \in 1..Len(c), c[j].score > ScoreThreshold
      PROVE  \E i \in 1..Len(kept) : SpeaksFor(kept[i], c[j])
    <2>1. PICK n \in 1..Len(c) : ranked[n] = c[j]
        BY DEF Ranking
    <2>. QED
        BY <1>2, <2>1 DEF Sifted
<1>. QED
    BY <1>1, <1>2 DEF LeftOf

LEMMA SuppressedProperties ==
    ASSUME NEW c \in Seq(Detection)
    PROVE  Suppressed(c) \in Seq(Detection) /\ Apart(Suppressed(c)) /\ LeftOf(Suppressed(c), c)
<1>. DEFINE T == Seq(Detection)
            ranked == Ranked(c)
            n == Len(c)
            Stays(kept, k) == /\ ranked[k].score > ScoreThreshold
                              /\ \A i \in DOMAIN kept :
                                    IntersectionOverUnion(kept[i].box, ranked[k].box) <= NmsThreshold
            upTo[k \in 0..Len(c)] ==
                IF k = 0 THEN <<>>
                ELSE LET kept == upTo[k - 1]
                         box == ranked[k].box
                         stays == /\ ranked[k].score > ScoreThreshold
                                  /\ \A i \in DOMAIN kept :
                                        IntersectionOverUnion(kept[i].box, box) <= NmsThreshold
                     IN  IF stays THEN Append(kept, ranked[k]) ELSE kept
<1>1. Suppressed(c) = upTo[n]
    BY DEF Suppressed, NMSBoxes
<1>2. /\ n \in Nat /\ Ranking(ranked, c) /\ \A k \in 1..n : ranked[k] \in Detection
      /\ \A h, k \in 1..n : h < k => ranked[k].score <= ranked[h].score
    <2>1. n \in Nat /\ Ranking(ranked, c)
        BY LenProperties, RankedProperties
    <2>. HIDE DEF ranked
    <2>. QED
        BY <2>1 DEF Ranking
<1>3. \E g : g = [k \in 0..Len(c) |->
                     IF k = 0 THEN <<>>
                     ELSE IF Stays(g[k - 1], k) THEN Append(g[k - 1], ranked[k]) ELSE g[k - 1]]
    <2>. DEFINE step == [k \in 1..n |-> [kept \in T |-> IF Stays(kept, k) THEN Append(kept, ranked[k]) ELSE kept]]
    <2>. HIDE DEF Stays, ranked
    <2>1. step \in [1..n -> [T -> T]]
        BY <1>2, AppendProperties
    <2>2. <<>> \in T
        BY EmptySeq
    <2>. HIDE DEF step, n, T
    <2>3. PICK g \in [0..n -> T] : Steps(g, <<>>, n, step)
        BY <1>2, <2>1, <2>2, Recursion
    <2>4. ASSUME NEW k \in 0..n
          PROVE  g[k] = IF k = 0 THEN <<>>
                        ELSE IF Stays(g[k - 1], k) THEN Append(g[k - 1], ranked[k]) ELSE g[k - 1]
        <3>1. CASE k = 0
            BY <2>3, <3>1 DEF Steps
        <3>2. CASE k # 0
            <4>1. k \in 1..n /\ k - 1 \in 0..n
                BY <1>2, <3>2
            <4>2. g[k - 1] \in T
                BY <4>1
            <4>3. step[k][g[k - 1]] = IF Stays(g[k - 1], k) THEN Append(g[k - 1], ranked[k]) ELSE g[k - 1]
                BY <4>1, <4>2 DEF step
            <4>. QED
                BY <2>3, <3>2, <4>1, <4>3 DEF Steps
        <3>. QED
            BY <3>1, <3>2
    <2>5. g = [k \in 0..n |-> IF k = 0 THEN <<>>
                              ELSE IF Stays(g[k - 1], k) THEN Append(g[k - 1], ranked[k]) ELSE g[k - 1]]
        BY <2>4
    <2>. QED
        BY <2>5 DEF n
<1>4. upTo = [k \in 0..Len(c) |->
                 IF k = 0 THEN <<>>
                 ELSE IF Stays(upTo[k - 1], k) THEN Append(upTo[k - 1], ranked[k]) ELSE upTo[k - 1]]
    BY <1>3, Zenon
<1>. HIDE DEF upTo, Stays
<1>5. \A k \in 0..n : upTo[k] = IF k = 0 THEN <<>>
                                ELSE IF Stays(upTo[k - 1], k) THEN Append(upTo[k - 1], ranked[k])
                                ELSE upTo[k - 1]
    BY <1>4
<1>. HIDE DEF n, ranked
<1>. DEFINE Good(k) == upTo[k] \in Seq(Detection) /\ Apart(upTo[k]) /\ Sifted(upTo[k], ranked, k)
            S == {k \in Nat : k <= n => Good(k)}
<1>. HIDE DEF Good
<1>6. 0 \in S
    <2>1. 0 \in 0..n
        BY <1>2
    <2>2. upTo[0] = <<>> /\ <<>> \in Seq(Detection) /\ Len(<<>>) = 0
        BY <1>5, <2>1, EmptySeq, Zenon
    <2>3. 1..0 = {}
        OBVIOUS
    <2>4. Good(0)
        BY <2>2, <2>3 DEF Good, Apart, Sifted
    <2>. QED
        BY <2>4
<1>7. ASSUME NEW k \in Nat, k \in S PROVE k + 1 \in S
    <2> SUFFICES ASSUME k + 1 <= n PROVE Good(k + 1)
        OBVIOUS
    <2>1. Good(k) /\ k + 1 \in 0..n /\ k + 1 \in 1..n /\ k + 1 # 0 /\ (k + 1) - 1 = k
        BY <1>2, <1>7
    <2>2. CASE Stays(upTo[k], k + 1)
        <3>1. upTo[k + 1] = Append(upTo[k], ranked[k + 1])
            BY <1>5, <2>1, <2>2
        <3>2. ranked[k + 1] \in Detection
            BY <1>2, <2>1
        <3>3. Append(upTo[k], ranked[k + 1]) \in Seq(Detection) /\ Apart(Append(upTo[k], ranked[k + 1]))
            BY <2>1, <2>2, <3>2, KeptNext DEF Good, Stays
        <3>4. Sifted(Append(upTo[k], ranked[k + 1]), ranked, k + 1)
            BY <1>7, <2>1, <2>2, <3>2, SiftedNext DEF Good, Stays
        <3>. QED
            BY <3>1, <3>3, <3>4 DEF Good
    <2>3. CASE ~ Stays(upTo[k], k + 1)
        <3>1. upTo[k + 1] = upTo[k]
            BY <1>5, <2>1, <2>3
        <3>. DEFINE kept == upTo[k]
                    d == ranked[k + 1]
        <3>2. kept \in Seq(Detection) /\ Apart(kept) /\ Sifted(kept, ranked, k)
            BY <2>1 DEF Good
        <3>. HIDE DEF kept
        <3>3. DOMAIN kept = 1..Len(kept)
            BY <3>2, LenProperties
        <3>4. ASSUME d.score > ScoreThreshold PROVE \E i \in 1..Len(kept) : SpeaksFor(kept[i], d)
            <4>1. PICK i \in 1..Len(kept) : ~ (IntersectionOverUnion(kept[i].box, d.box) <= NmsThreshold)
                BY <2>3, <3>3, <3>4 DEF Stays, kept
            <4>2. PICK j \in 1..k : kept[i] = ranked[j]
                BY <3>2 DEF Sifted
            <4>3. j \in 1..n /\ j < k + 1
                BY <1>2, <1>7, <2>1
            <4>4. d.score <= kept[i].score
                BY <1>2, <2>1, <4>2, <4>3
            <4>. QED
                BY <4>1, <4>4 DEF SpeaksFor
        <3>5. Sifted(kept, ranked, k + 1)
            BY <1>7, <3>2, <3>4, SiftedWithout
        <3>. QED
            BY <3>1, <3>2, <3>5 DEF Good, kept
    <2>. QED
        BY <2>2, <2>3
<1>. HIDE DEF S
<1>8. n \in S
    BY <1>2, <1>6, <1>7, NatSetInduction
<1>9. Good(n)
    BY <1>2, <1>8 DEF S
<1>10. LeftOf(upTo[n], c)
    <2>1. Sifted(upTo[n], ranked, Len(c)) /\ Ranking(ranked, c)
        BY <1>2, <1>9 DEF Good, n
    <2>. QED
        BY <2>1, SiftedRanking
<1>. QED
    BY <1>1, <1>9, <1>10 DEF Good

LEMMA NothingDetected ==
    <<>> \in Seq(Detection) /\ Apart(<<>>)
<1>1. <<>> \in Seq(Detection) /\ Len(<<>>) = 0 /\ 1..0 = {}
    BY EmptySeq
<1>. QED
    BY <1>1 DEF Apart

LEMMA ValueIsInt ==
    ASSUME NEW rows \in Nat, NEW attributes \in Nat, NEW data \in [1..(rows * attributes) -> Int],
           NEW first \in BOOLEAN, NEW r \in 0..(rows - 1), NEW a \in 0..(attributes - 1)
    PROVE  ValueAt(data, rows, attributes, first, r, a) \in Int
<1>1. r * attributes + a + 1 \in 1..(rows * attributes)
    BY PlaceOfValue
<1>2. a * rows + r + 1 \in 1..(rows * attributes)
    <2>1. a * rows + r + 1 \in 1..(attributes * rows)
        BY PlaceOfValue
    <2>2. attributes * rows = rows * attributes
        OBVIOUS
    <2>. QED
        BY <2>1, <2>2
<1>. QED
    BY <1>1, <1>2 DEF ValueAt

(* What the numbers of a model decode to, whatever they are. *)
LEMMA DecodeProperties ==
    ASSUME NEW rows \in Nat, NEW attributes \in Nat, NEW data \in [1..(rows * attributes) -> Int],
           NEW first \in BOOLEAN
    PROVE  /\ DecodeYoloOutput(data, rows, attributes, first) \in Seq(Detection)
           /\ Apart(DecodeYoloOutput(data, rows, attributes, first))
<1>. DEFINE At(row, attribute) == ValueAt(data, rows, attributes, first, row, attribute)
            hasObjectness == attributes > CocoClasses + 4
            offset == IF hasObjectness THEN 5 ELSE 4
            Scores(row) == [k \in 1..(attributes - offset) |->
                              At(row, offset + k - 1) * (IF hasObjectness THEN At(row, 4) ELSE 100)]
            Candidate(row) ==
                LET scores == Scores(row)
                IN  [box |-> Unboxed(At(row, 0), At(row, 2)), score |-> scores[BestClass(scores)],
                     label |-> CocoToObjectClass(BestClass(scores) - 1)]
            Likely(c) == c.score >= ScoreThreshold /\ c.box.width > 1
            all == [r \in 1..rows |-> Candidate(r - 1)]
            places == {r \in 1..rows : Likely(all[r])}
            result == DecodeYoloOutput(data, rows, attributes, first)
<1>1. CASE rows <= 0 \/ attributes < 6
    <2>1. result = <<>>
        BY <1>1 DEF DecodeYoloOutput
    <2>. QED
        BY <2>1, NothingDetected
<1>2. CASE ~ (rows <= 0 \/ attributes < 6)
    <2>1. result = Suppressed(Picked(all, places))
        BY <1>2, Zenon DEF DecodeYoloOutput
    <2>2. rows \in Nat /\ attributes \in Nat /\ attributes >= 6 /\ offset \in {4, 5}
        BY <1>2
    <2>3. \A r \in 0..(rows - 1) : \A a \in 0..(attributes - 1) : At(r, a) \in Int
        BY ValueIsInt
    <2>. HIDE DEF At, offset, hasObjectness
    <2>4. ASSUME NEW r \in 0..(rows - 1) PROVE Candidate(r) \in Detection
        <3>. DEFINE m == attributes - offset
                    scores == Scores(r)
        <3>1. m \in Nat \ {0}
            BY <2>2
        <3>2. \A k \in 1..m : offset + k - 1 \in 0..(attributes - 1)
            BY <2>2
        <3>3. /\ 0 \in 0..(attributes - 1) /\ 2 \in 0..(attributes - 1) /\ 4 \in 0..(attributes - 1)
            BY <2>2
        <3>4. scores \in [1..m -> Int]
            <4>1. \A k \in 1..m : At(r, offset + k - 1) * (IF hasObjectness THEN At(r, 4) ELSE 100) \in Int
                <5> SUFFICES ASSUME NEW k \in 1..m
                             PROVE  At(r, offset + k - 1) * (IF hasObjectness THEN At(r, 4) ELSE 100) \in Int
                    OBVIOUS
                <5>1. At(r, offset + k - 1) \in Int /\ At(r, 4) \in Int
                    BY <2>3, <3>2, <3>3
                <5>. QED
                    BY <5>1
            <4>. QED
                BY <4>1
        <3>. HIDE DEF scores, m
        <3>5. BestClass(scores) \in 1..m
            BY <3>1, <3>4, BestClassExists
        <3>6. scores[BestClass(scores)] \in Int
            BY <3>4, <3>5
        <3>7. At(r, 0) \in Int /\ At(r, 2) \in Int
            BY <2>3, <3>3
        <3>8. Unboxed(At(r, 0), At(r, 2)) \in InFrame
            BY <3>7, UnboxedInFrame
        <3>9. CocoToObjectClass(BestClass(scores) - 1) \in Labels
            BY LabelOfClass
        <3>10. Candidate(r) = [box |-> Unboxed(At(r, 0), At(r, 2)), score |-> scores[BestClass(scores)],
                               label |-> CocoToObjectClass(BestClass(scores) - 1)]
            BY DEF scores
        <3>. HIDE DEF Candidate
        <3>. QED
            BY <3>6, <3>8, <3>9, <3>10 DEF Detection
    <2>. HIDE DEF Candidate, result
    <2>5. \A r \in 1..rows : r - 1 \in 0..(rows - 1)
        BY <2>2
    <2>6. all \in [1..rows -> Detection]
        BY <2>4, <2>5
    <2>. HIDE DEF all, places
    <2>7. all \in Seq(Detection)
        BY <2>6, SeqDef
    <2>8. Picked(all, places) \in Seq(Detection)
        BY <2>7, PickedProperties
    <2>9. Suppressed(Picked(all, places)) \in Seq(Detection) /\ Apart(Suppressed(Picked(all, places)))
        BY <2>8, SuppressedProperties
    <2>10. result \in Seq(Detection) /\ Apart(result)
        BY <2>1, <2>9
    <2>. QED
        BY <2>10 DEF result
<1>. QED
    BY <1>1, <1>2

LEMMA TransposedProperties ==
    ASSUME NEW rows \in Nat \ {0}, NEW columns \in Nat, NEW data \in [1..(rows * columns) -> Int]
    PROVE  Transposed(data, rows, columns) \in [1..(columns * rows) -> Int]
<1>1. ASSUME NEW k \in 1..(rows * columns)
      PROVE  data[((k - 1) % rows) * columns + (k - 1) \div rows + 1] \in Int
    <2>. DEFINE r == (k - 1) % rows
                c == (k - 1) \div rows
    <2>1. r \in 0..(rows - 1) /\ c \in 0..(columns - 1)
        BY ValueOfPlace
    <2>. HIDE DEF r, c
    <2>2. r * columns + c + 1 \in 1..(rows * columns)
        BY <2>1, PlaceOfValue
    <2>3. data[r * columns + c + 1] \in Int
        BY <2>2
    <2>. QED
        BY <2>3 DEF r, c
<1>2. DOMAIN data = 1..(rows * columns) /\ rows * columns = columns * rows
    OBVIOUS
<1>. QED
    BY <1>1, <1>2 DEF Transposed

\* The tensors of a model: a table of numbers, of which the shape is known.
TensorType(t) ==
    /\ t.dims \in {2, 3} /\ t.shape[1] \in Nat \ {0} /\ t.shape[2] \in Nat \ {0}
    /\ t.data \in [1..(t.shape[1] * t.shape[2]) -> Int]

LEMMA DetectImageProperties ==
    ASSUME NEW backEnd \in {"onnxRuntime", "openCv"}, NEW t, TensorType(t)
    PROVE  DetectImage(backEnd, t) \in Seq(Detection) /\ Apart(DetectImage(backEnd, t))
<1>. DEFINE rows == t.shape[1]
            columns == t.shape[2]
            data == t.data
<1>1. /\ rows \in Nat \ {0} /\ columns \in Nat \ {0} /\ rows \in Nat /\ columns \in Nat
      /\ data \in [1..(rows * columns) -> Int] /\ t.dims \in {2, 3}
      /\ rows * columns = columns * rows
    BY DEF TensorType
<1>2. OnnxRuntimeDetect(t) = IF t.dims # 3 THEN <<>>
                             ELSE IF rows < columns THEN DecodeYoloOutput(data, columns, rows, TRUE)
                                                    ELSE DecodeYoloOutput(data, rows, columns, FALSE)
    BY DEF OnnxRuntimeDetect
<1>3. OpenCvDetect(t) = IF t.dims = 3 /\ rows < columns
                          THEN DecodeYoloOutput(Transposed(data, rows, columns), columns, rows, FALSE)
                        ELSE DecodeYoloOutput(data, rows, columns, FALSE)
    BY <1>1 DEF OpenCvDetect
<1>. HIDE DEF rows, columns, data
<1>4. /\ DecodeYoloOutput(data, columns, rows, TRUE) \in Seq(Detection)
      /\ Apart(DecodeYoloOutput(data, columns, rows, TRUE))
    <2>1. data \in [1..(columns * rows) -> Int]
        BY <1>1
    <2>. QED
        BY <1>1, <2>1, DecodeProperties
<1>5. /\ DecodeYoloOutput(data, rows, columns, FALSE) \in Seq(Detection)
      /\ Apart(DecodeYoloOutput(data, rows, columns, FALSE))
    BY <1>1, DecodeProperties
<1>6. /\ DecodeYoloOutput(Transposed(data, rows, columns), columns, rows, FALSE) \in Seq(Detection)
      /\ Apart(DecodeYoloOutput(Transposed(data, rows, columns), columns, rows, FALSE))
    <2>1. Transposed(data, rows, columns) \in [1..(columns * rows) -> Int]
        BY <1>1, TransposedProperties
    <2>. QED
        BY <1>1, <2>1, DecodeProperties
<1>7. OnnxRuntimeDetect(t) \in Seq(Detection) /\ Apart(OnnxRuntimeDetect(t))
    BY <1>2, <1>4, <1>5, NothingDetected
<1>8. OpenCvDetect(t) \in Seq(Detection) /\ Apart(OpenCvDetect(t))
    BY <1>3, <1>5, <1>6
<1>. QED
    BY <1>7, <1>8 DEF DetectImage

(* Detections that are made up. *)
LEMMA MadeUpProperties ==
    /\ StandIns \in Seq(Detection)
    /\ \A index : SyntheticDetections(index) \in Seq(Detection)
<1>1. FrameWidth \in Nat /\ FrameWidth > 10
    BY PerceptionAssumption, DetectorAssumption
<1>2. ASSUME NEW label \in Labels, NEW x \in 0..8, NEW width \in 2..3
      PROVE  MadeUp(label, x, width) \in Detection
    <2>1. [x |-> x, width |-> width] \in InFrame
        BY <1>1 DEF InFrame, Strip
    <2>. QED
        BY <2>1 DEF MadeUp, Detection
<1>3. {"car", "pedestrian", "truck"} \subseteq Labels /\ {0, 4, 8} \subseteq 0..8 /\ {2, 3} \subseteq 2..3
    BY DEF Labels
<1>4. MadeUp("car", 0, 3) \in Detection
    BY <1>2, <1>3
<1>5. MadeUp("pedestrian", 4, 2) \in Detection
    BY <1>2, <1>3
<1>6. MadeUp("truck", 8, 3) \in Detection
    BY <1>2, <1>3
<1>. DEFINE one == MadeUp("car", 0, 3)
            two == MadeUp("pedestrian", 4, 2)
            three == MadeUp("truck", 8, 3)
<1>. HIDE DEF one, two, three
<1>7. /\ <<>> \in Seq(Detection) /\ <<one>> \in Seq(Detection) /\ <<two>> \in Seq(Detection)
      /\ <<three>> \in Seq(Detection) /\ <<one, two>> \in Seq(Detection)
    BY <1>4, <1>5, <1>6 DEF one, two, three
<1>8. StandIns \in Seq(Detection)
    BY <1>7 DEF StandIns, one, two
<1>9. ASSUME NEW index PROVE SyntheticDetections(index) \in Seq(Detection)
    <2>. DEFINE b == IF index > PedestrianFrom THEN <<two>> ELSE <<>>
                c == IF index > TruckFrom THEN <<three>> ELSE <<>>
    <2>1. b \in Seq(Detection) /\ c \in Seq(Detection)
        BY <1>7
    <2>2. SyntheticDetections(index) = <<one>> \o b \o c
        BY DEF SyntheticDetections, one, two, three
    <2>. HIDE DEF b, c
    <2>3. <<one>> \o b \in Seq(Detection)
        BY <1>7, <2>1, ConcatProperties
    <2>4. (<<one>> \o b) \o c \in Seq(Detection)
        BY <2>1, <2>3, ConcatProperties
    <2>. QED
        BY <2>2, <2>4
<1>. QED
    BY <1>8, <1>9

(* The rows of a model as a tensor. *)
LEMMA AttributesProperties ==
    ASSUME NEW row \in OutputRow, Len(row.scores) = CocoClasses
    PROVE  /\ Attributes(row) \in Seq(Int)
           /\ Len(Attributes(row)) = 4 + CocoClasses + (IF form.objectness THEN 1 ELSE 0)
<1>. DEFINE a == <<row.cx, 0, row.width, 0>>
            b == IF form.objectness THEN <<row.objectness>> ELSE <<>>
            c == row.scores
<1>1. row.cx \in Int /\ row.width \in Int /\ row.objectness \in Nat /\ c \in Seq(Nat)
    BY DEF OutputRow
<1>2. a \in Seq(Int) /\ Len(a) = 4
    BY <1>1
<1>3. b \in Seq(Int) /\ Len(b) = IF form.objectness THEN 1 ELSE 0
    <2>1. row.objectness \in Int
        BY <1>1
    <2>. DEFINE o == row.objectness
    <2>2. <<o>> \in Seq(Int) /\ Len(<<o>>) = 1
        BY <2>1
    <2>3. <<>> \in Seq(Int) /\ Len(<<>>) = 0
        BY EmptySeq
    <2>. QED
        BY <2>2, <2>3
<1>4. c \in Seq(Int) /\ Len(c) = CocoClasses /\ CocoClasses \in Nat
    <2>. HIDE DEF c
    <2>1. Len(c) \in Nat /\ DOMAIN c = 1..Len(c) /\ \A k \in 1..Len(c) : c[k] \in Nat
        BY <1>1, LenProperties
    <2>2. c = [k \in 1..Len(c) |-> c[k]]
        BY <1>1, LenProperties
    <2>3. c \in [1..Len(c) -> Int]
        BY <2>1, <2>2
    <2>4. c \in Seq(Int)
        BY <2>1, <2>3, SeqDef
    <2>. QED
        BY <2>4, DetectorAssumption DEF c
<1>5. Attributes(row) = a \o b \o c
    BY DEF Attributes
<1>. HIDE DEF a, b, c
<1>6. a \o b \in Seq(Int) /\ Len(a \o b) = Len(a) + Len(b)
    BY <1>2, <1>3, ConcatProperties
<1>7. (a \o b) \o c \in Seq(Int) /\ Len((a \o b) \o c) = Len(a \o b) + Len(c)
    BY <1>4, <1>6, ConcatProperties
<1>. QED
    BY <1>2, <1>3, <1>4, <1>5, <1>6, <1>7

LEMMA TensorProperties ==
    ASSUME form \in Forms, NEW rows \in Seq(OutputRow),
           \A r \in DOMAIN rows : Len(rows[r].scores) = CocoClasses
    PROVE  TensorType(Tensor(rows))
<1>. DEFINE n == 4 + CocoClasses + (IF form.objectness THEN 1 ELSE 0)
            Cell(r, a) == IF r < Len(rows) THEN Attributes(rows[r + 1])[a + 1] ELSE 0
            data == [k \in 1..(TensorRows * n) |->
                        IF form.attributesFirst THEN Cell((k - 1) % TensorRows, (k - 1) \div TensorRows)
                                                ELSE Cell((k - 1) \div n, (k - 1) % n)]
            shape == IF form.attributesFirst THEN <<n, TensorRows>> ELSE <<TensorRows, n>>
<1>1. form \in Form /\ TensorRows \in Nat \ {0} /\ CocoClasses \in Nat
    <2>1. Forms \subseteq Form /\ TensorRows \in Nat /\ TensorRows > CocoClasses + 5 /\ CocoClasses \in Nat
        BY PerceptionAssumption, DetectorAssumption
    <2>. QED
        BY <2>1
<1>2. n \in Nat \ {0} /\ form.dims \in {2, 3} /\ form.attributesFirst \in BOOLEAN
    BY <1>1 DEF Form
<1>3. Len(rows) \in Nat /\ DOMAIN rows = 1..Len(rows) /\ \A r \in 1..Len(rows) : rows[r] \in OutputRow
    BY LenProperties
<1>4. Tensor(rows) = [dims |-> form.dims, shape |-> shape, data |-> data]
    BY DEF Tensor
<1>5. \A r \in 1..Len(rows) : Attributes(rows[r]) \in Seq(Int) /\ Len(Attributes(rows[r])) = n
    BY <1>3, AttributesProperties
<1>. HIDE DEF n
<1>6. ASSUME NEW r \in Nat, NEW a \in 0..(n - 1) PROVE Cell(r, a) \in Int
    <2>1. CASE r < Len(rows)
        <3>1. r + 1 \in 1..Len(rows) /\ a + 1 \in 1..n
            BY <1>2, <1>3, <2>1
        <3>. DEFINE values == Attributes(rows[r + 1])
        <3>2. values \in Seq(Int) /\ Len(values) = n
            BY <1>5, <3>1
        <3>. HIDE DEF values
        <3>3. values[a + 1] \in Int
            BY <3>1, <3>2, LenProperties
        <3>. QED
            BY <2>1, <3>3 DEF values
    <2>2. CASE ~ (r < Len(rows))
        BY <2>2
    <2>. QED
        BY <2>1, <2>2
<1>. HIDE DEF Cell
<1>7. ASSUME NEW k \in 1..(TensorRows * n)
      PROVE  /\ Cell((k - 1) % TensorRows, (k - 1) \div TensorRows) \in Int
             /\ Cell((k - 1) \div n, (k - 1) % n) \in Int
    <2>1. /\ (k - 1) % TensorRows \in 0..(TensorRows - 1)
          /\ (k - 1) \div TensorRows \in 0..(n - 1)
        BY <1>1, <1>2, ValueOfPlace
    <2>2. (k - 1) % n \in 0..(n - 1) /\ (k - 1) \div n \in 0..(TensorRows - 1)
        <3>1. k \in 1..(n * TensorRows)
            BY <1>1, <1>2
        <3>. QED
            BY <1>1, <1>2, <3>1, ValueOfPlace
    <2>3. (k - 1) % TensorRows \in Nat /\ (k - 1) \div n \in Nat
        BY <2>1, <2>2
    <2>. QED
        BY <1>6, <2>1, <2>2, <2>3
<1>8. data \in [1..(TensorRows * n) -> Int]
    BY <1>2, <1>7
<1>. HIDE DEF data
<1>9. /\ shape[1] \in Nat \ {0} /\ shape[2] \in Nat \ {0}
      /\ data \in [1..(shape[1] * shape[2]) -> Int]
    <2>1. CASE form.attributesFirst
        <3>1. shape[1] = n /\ shape[2] = TensorRows
            BY <2>1
        <3>2. n * TensorRows = TensorRows * n
            BY <1>1, <1>2
        <3>. QED
            BY <1>1, <1>2, <1>8, <3>1, <3>2
    <2>2. CASE ~ form.attributesFirst
        <3>1. shape[1] = TensorRows /\ shape[2] = n
            BY <2>2
        <3>. QED
            BY <1>1, <1>2, <1>8, <3>1
    <2>. QED
        BY <2>1, <2>2
<1>. HIDE DEF shape
<1>. QED
    BY <1>2, <1>4, <1>9 DEF TensorType

----------------------------------------------------------------------------
(* What there is to find is found: from the rows of the model to the         *)
(* detections, for sizes that do not round.                                  *)

\* A row of a model of COCO's classes, and the attributes it takes.
ModelRow == {row \in OutputRow : Len(row.scores) = CocoClasses}
Columns == 4 + CocoClasses + (IF form.objectness THEN 1 ELSE 0)

\* A row's number at one of its attributes; a row that is left over is zero.
Cell(rows, r, a) == IF r < Len(rows) THEN Attributes(rows[r + 1])[a + 1] ELSE 0

\* The scores of a row as they are decoded, and what it is decoded to.
Weight(row) == IF form.objectness THEN row.objectness ELSE 100
RowScores(row) == [k \in 1..CocoClasses |-> row.scores[k] * Weight(row)]
Decoded(row) == [box |-> Unboxed(row.cx, row.width), score |-> RowScores(row)[BestClass(RowScores(row))],
                 label |-> CocoToObjectClass(BestClass(RowScores(row)) - 1)]

LEMMA RowTypes ==
    ASSUME NEW row \in ModelRow
    PROVE  /\ row.cx \in Int /\ row.width \in Int /\ row.objectness \in Nat /\ Weight(row) \in Nat
           /\ DOMAIN row.scores = 1..CocoClasses /\ row.scores \in [1..CocoClasses -> Nat]
           /\ CocoClasses \in Nat
<1>1. /\ row.cx \in Int /\ row.width \in Int /\ row.objectness \in Nat /\ row.scores \in Seq(Nat)
      /\ Len(row.scores) = CocoClasses
    BY DEF ModelRow, OutputRow
<1>2. /\ DOMAIN row.scores = 1..CocoClasses /\ \A k \in 1..CocoClasses : row.scores[k] \in Nat
      /\ row.scores = [k \in 1..CocoClasses |-> row.scores[k]]
    BY <1>1, LenProperties
<1>. QED
    BY <1>1, <1>2, DetectorAssumption DEF Weight

\* The best class is one with the largest score, whatever it is weighed with.
LEMMA BestOfRow ==
    ASSUME NEW row \in ModelRow, CocoClasses > 1
    PROVE  /\ Decoded(row).score = Sure(row) /\ Sure(row) \in Nat
           /\ Sure(row) > 0 => Decoded(row).label \in BestLabels(row)
<1>. DEFINE m == CocoClasses
            w == Weight(row)
            weighed == RowScores(row)
            plain == row.scores
            k == BestClass(weighed)
            b == BestClass(plain)
            best == BestScore(row)
<1>1. w \in Nat /\ DOMAIN plain = 1..m /\ plain \in [1..m -> Nat] /\ m \in Nat \ {0}
    BY RowTypes
<1>2. weighed \in [1..m -> Int] /\ plain \in [1..m -> Int] /\ \A e \in 1..m : weighed[e] = plain[e] * w
    <2>1. \A e \in 1..m : plain[e] * w \in Int
        BY <1>1
    <2>2. weighed = [e \in 1..m |-> plain[e] * w]
        BY DEF RowScores
    <2>. HIDE DEF weighed, plain, w
    <2>. QED
        BY <1>1, <2>1, <2>2
<1>3. b \in 1..m /\ \A e \in 1..m : plain[e] <= plain[b]
    <2>. HIDE DEF plain
    <2>. QED
        BY <1>1, <1>2, BestClassExists
<1>4. k \in 1..m /\ \A e \in 1..m : weighed[e] <= weighed[k]
    <2>. HIDE DEF weighed
    <2>. QED
        BY <1>1, <1>2, BestClassExists
<1>. HIDE DEF b, k
<1>5. best \in {plain[e] : e \in 1..m} /\ \A e \in 1..m : plain[e] <= best
    <2>1. plain[b] \in {plain[e] : e \in 1..m}
        BY <1>3
    <2>2. best = CHOOSE s \in {plain[e] : e \in 1..m} : \A e \in 1..m : plain[e] <= s
        BY <1>1 DEF BestScore
    <2>. HIDE DEF best, plain
    <2>. QED
        BY <1>3, <2>1, <2>2
<1>. HIDE DEF best
<1>6. PICK h \in 1..m : best = plain[h]
    BY <1>5
<1>. HIDE DEF plain, weighed, m, w
<1>7. plain[k] \in Nat /\ best \in Nat /\ plain[k] <= best
    BY <1>1, <1>4, <1>5, <1>6
<1>8. weighed[k] = plain[k] * w /\ weighed[k] = best * w
    <2>1. best * w <= weighed[k]
        BY <1>2, <1>4, <1>6
    <2>2. plain[k] * w <= best * w
        BY <1>1, <1>7, Monotone
    <2>3. weighed[k] = plain[k] * w
        BY <1>2, <1>4
    <2>4. plain[k] * w \in Int /\ best * w \in Int
        BY <1>1, <1>7
    <2>. QED
        BY <2>1, <2>2, <2>3, <2>4
<1>9. Sure(row) = best * w
    BY DEF Sure, best, w, Weight
<1>10. ASSUME best * w > 0 PROVE plain[k] = best
    <2>1. w \in Nat \ {0}
        BY <1>1, <1>7, <1>10
    <2>2. w * plain[k] = w * best
        BY <1>1, <1>7, <1>8
    <2>3. plain[k] \in Int /\ best \in Int /\ w * plain[k] \in Int
        BY <1>1, <1>7
    <2>4. w * best <= w * plain[k]
        BY <2>2, <2>3
    <2>5. best <= plain[k]
        BY <2>1, <2>3, <2>4, Cancelled
    <2>. QED
        BY <1>7, <2>5
<1>11. BestLabels(row) = {CocoToObjectClass(e - 1) : e \in {g \in 1..m : plain[g] = best}}
    BY <1>1 DEF BestLabels, plain, best
<1>12. best * w > 0 => CocoToObjectClass(k - 1) \in BestLabels(row)
    BY <1>4, <1>10, <1>11
<1>13. Decoded(row).score = weighed[k] /\ Decoded(row).label = CocoToObjectClass(k - 1)
    BY DEF Decoded, weighed, k
<1>14. best * w \in Nat
    BY <1>1, <1>7
<1>. QED
    BY <1>8, <1>9, <1>12, <1>13, <1>14

LEMMA DecodedType ==
    ASSUME NEW row \in ModelRow, CocoClasses > 1
    PROVE  Decoded(row) \in Detection
<1>1. row.cx \in Int /\ row.width \in Int
    BY RowTypes
<1>2. Unboxed(row.cx, row.width) \in InFrame
    BY <1>1, UnboxedInFrame
<1>3. Decoded(row).score \in Int
    BY BestOfRow
<1>4. CocoToObjectClass(BestClass(RowScores(row)) - 1) \in Labels
    BY LabelOfClass
<1>. QED
    BY <1>2, <1>3, <1>4 DEF Decoded, Detection

\* A box is as wide as the pixels of its row are many.
LEMMA DecodedPixels ==
    ASSUME EvenScale, NEW row \in ModelRow, CocoClasses > 1
    PROVE  /\ Pixels(Decoded(row).box) = PixelsOfRow(row)
           /\ Cardinality(PixelsOfRow(row)) > 1 <=> Decoded(row).box.width > 1
<1>. DEFINE box == Unboxed(row.cx, row.width)
<1>1. row.cx \in Int /\ row.width \in Int
    BY RowTypes
<1>2. Decoded(row).box = box
    BY DEF Decoded
<1>3. Pixels(box) = PixelsOfRow(row) /\ box \in InFrame
    BY <1>1, UnboxedPixels, UnboxedInFrame
<1>. HIDE DEF box
<1>4. Cardinality(Pixels(box)) = Larger(0, box.width) /\ box.width \in Int
    BY <1>3, PixelsOfBox
<1>. QED
    BY <1>2, <1>3, <1>4 DEF Larger

\* The row that stands for its detection, and that is sought.
LEMMA DecodedStands ==
    ASSUME ExactSizes, NEW row \in ModelRow, Decoded(row).score > ScoreThreshold
    PROVE  StandsFor(Decoded(row), row)
<1>1. ScoreThreshold \in Nat
    BY DetectorAssumption
<1>2. Decoded(row).score = Sure(row) /\ Sure(row) \in Nat /\ (Sure(row) > 0 => Decoded(row).label \in BestLabels(row))
    BY BestOfRow DEF ExactSizes
<1>3. Sure(row) > 0
    BY <1>1, <1>2
<1>4. Pixels(Decoded(row).box) = PixelsOfRow(row)
    BY DecodedPixels DEF ExactSizes
<1>. QED
    BY <1>2, <1>3, <1>4 DEF StandsFor

LEMMA SpeaksForObject ==
    ASSUME NEW d \in Detection, NEW e \in Detection, SpeaksFor(d, e), e.box.width > 0, NmsThreshold < 10000
    PROVE  OneObject(Pixels(e.box), Pixels(d.box)) /\ e.score <= d.score
<1>1. d.box \in InFrame /\ e.box \in InFrame
    BY DEF Detection
<1>2. CASE d = e
    BY <1>1, <1>2, SamePixels DEF SpeaksFor
<1>3. CASE d # e
    <2>1. OneObject(Pixels(d.box), Pixels(e.box))
        BY <1>1, <1>3, TogetherPixels DEF SpeaksFor
    <2>. DEFINE p == Pixels(d.box)
                q == Pixels(e.box)
    <2>. HIDE DEF p, q
    <2>2. OneObject(p, q)
        BY <2>1 DEF p, q
    <2>3. p \cap q = q \cap p /\ p \cup q = q \cup p
        OBVIOUS
    <2>4. OneObject(q, p)
        BY <2>2, <2>3 DEF OneObject
    <2>. QED
        BY <2>4 DEF SpeaksFor, p, q
<1>. QED
    BY <1>2, <1>3

\* The candidates are those of the rows, and of what they leave the suppression
\* leaves what speaks for the others.
LEMMA RowsDetected ==
    ASSUME ExactSizes, NEW rows \in Seq(ModelRow), NEW n \in Nat, Len(rows) <= n,
           NEW all \in [1..n -> Detection],
           \A r \in 1..Len(rows) : all[r] = Decoded(rows[r]),
           \A r \in 1..n : r > Len(rows) => ~ (all[r].box.width > 1),
           NEW places, places = {r \in 1..n : all[r].score >= ScoreThreshold /\ all[r].box.width > 1}
    PROVE  Exact(rows, Suppressed(Picked(all, places)))
<1>. DEFINE c == Picked(all, places)
            kept == Suppressed(c)
<1>1. all \in Seq(Detection) /\ Len(all) = n
    BY SeqDef, LenProperties
<1>2. c \in Seq(Detection) /\ \E at \in [1..Len(c) -> 1..n] : Selects(at, c, all, n, places)
    BY <1>1, PickedProperties
<1>. HIDE DEF c
<1>3. PICK at \in [1..Len(c) -> 1..n] : Selects(at, c, all, n, places)
    BY <1>2
<1>4. kept \in Seq(Detection) /\ LeftOf(kept, c)
    BY <1>2, SuppressedProperties
<1>. HIDE DEF kept
<1>5. /\ DOMAIN kept = 1..Len(kept) /\ DOMAIN rows = 1..Len(rows) /\ Len(rows) \in Nat
      /\ \A i \in 1..Len(kept) : kept[i] \in Detection
      /\ \A r \in 1..Len(rows) : rows[r] \in ModelRow /\ r \in 1..n
    BY <1>4, LenProperties
<1>6. ASSUME NEW i \in 1..Len(kept) PROVE \E row \in Candidates(rows) : StandsFor(kept[i], row)
    <2>1. PICK j \in 1..Len(c) : kept[i] = c[j] /\ c[j].score > ScoreThreshold
        BY <1>4 DEF LeftOf
    <2>. DEFINE r == at[j]
    <2>2. r \in places /\ c[j] = all[r]
        BY <1>3 DEF Selects
    <2>. HIDE DEF r
    <2>3. r \in 1..n /\ all[r].box.width > 1
        BY <2>2
    <2>4. r \in 1..Len(rows)
        BY <1>5, <2>3
    <2>. DEFINE row == rows[r]
    <2>5. row \in ModelRow /\ kept[i] = Decoded(row)
        BY <1>5, <2>1, <2>2, <2>4
    <2>6. row \in {rows[q] : q \in DOMAIN rows}
        BY <1>5, <2>4
    <2>. HIDE DEF row
    <2>7. Decoded(row).score > ScoreThreshold /\ Decoded(row).box.width > 1
        BY <2>1, <2>2, <2>3, <2>5
    <2>8. StandsFor(Decoded(row), row)
        BY <2>5, <2>7, DecodedStands
    <2>9. Sure(row) > ScoreThreshold
        BY <2>7, <2>8 DEF StandsFor
    <2>10. Cardinality(PixelsOfRow(row)) > 1
        BY <2>5, <2>7, DecodedPixels DEF ExactSizes
    <2>11. row \in Candidates(rows)
        BY <2>6, <2>9, <2>10 DEF Candidates
    <2>. QED
        BY <2>5, <2>8, <2>11
<1>7. ASSUME NEW row \in Candidates(rows) PROVE Detects(kept, row)
    <2>1. PICK r \in 1..Len(rows) : row = rows[r]
        BY <1>5 DEF Candidates
    <2>2. row \in ModelRow /\ Sure(row) > ScoreThreshold /\ Cardinality(PixelsOfRow(row)) > 1
        BY <1>5, <2>1 DEF Candidates
    <2>. DEFINE e == Decoded(row)
    <2>3. e.score = Sure(row) /\ Sure(row) \in Nat /\ e \in Detection
        BY <2>2, BestOfRow, DecodedType DEF ExactSizes
    <2>4. Pixels(e.box) = PixelsOfRow(row) /\ e.box.width > 1
        BY <2>2, DecodedPixels DEF ExactSizes
    <2>. HIDE DEF e
    <2>5. all[r] = e
        BY <2>1 DEF e
    <2>6. r \in places
        <3>1. e.score >= ScoreThreshold
            BY <2>2, <2>3, DetectorAssumption
        <3>. QED
            BY <1>5, <2>4, <2>5, <3>1
    <2>7. PICK j \in 1..Len(c) : at[j] = r
        BY <1>3, <1>5, <2>6 DEF Selects
    <2>8. c[j] = e /\ c[j].score > ScoreThreshold
        BY <1>3, <2>2, <2>3, <2>5, <2>7 DEF Selects
    <2>9. PICK i \in 1..Len(kept) : SpeaksFor(kept[i], c[j])
        BY <1>4, <2>8 DEF LeftOf
    <2>10. kept[i] \in Detection /\ SpeaksFor(kept[i], e)
        BY <1>5, <2>8, <2>9
    <2>11. e.box.width > 0
        <3>. DEFINE w == e.box.width
        <3>1. w \in Int /\ w > 1
            BY <2>3, <2>4 DEF Detection, InFrame, Strip
        <3>. HIDE DEF w
        <3>2. w > 0
            BY <3>1
        <3>. QED
            BY <3>2 DEF w
    <2>12. OneObject(Pixels(e.box), Pixels(kept[i].box)) /\ e.score <= kept[i].score
        BY <2>3, <2>10, <2>11, SpeaksForObject DEF ExactSizes
    <2>. QED
        BY <1>5, <2>3, <2>4, <2>12 DEF Detects
<1>8. Exact(rows, kept)
    BY <1>5, <1>6, <1>7 DEF Exact
<1>. QED
    BY <1>8 DEF kept, c

\* Where the numbers of a row are.
LEMMA AttributeValues ==
    ASSUME NEW row \in ModelRow
    PROVE  /\ Attributes(row)[1] = row.cx /\ Attributes(row)[3] = row.width
           /\ form.objectness => Attributes(row)[5] = row.objectness
           /\ \A k \in 1..CocoClasses :
                 Attributes(row)[(IF form.objectness THEN 5 ELSE 4) + k] = row.scores[k]
<1>. DEFINE a == <<row.cx, 0, row.width, 0>>
            b == IF form.objectness THEN <<row.objectness>> ELSE <<>>
            c == row.scores
            o == IF form.objectness THEN 1 ELSE 0
<1>1. /\ row.cx \in Int /\ row.width \in Int /\ row.objectness \in Nat /\ c \in Seq(Nat)
      /\ Len(c) = CocoClasses /\ CocoClasses \in Nat
    BY DetectorAssumption DEF ModelRow, OutputRow
<1>2. a \in Seq(Int) /\ Len(a) = 4 /\ a[1] = row.cx /\ a[3] = row.width
    BY <1>1
<1>3. /\ b \in Seq(Int) /\ Len(b) = o /\ o \in {0, 1}
      /\ form.objectness => o = 1 /\ b[1] = row.objectness
    <2>. DEFINE x == row.objectness
    <2>1. <<x>> \in Seq(Int) /\ Len(<<x>>) = 1 /\ <<x>>[1] = x
        BY <1>1
    <2>2. <<>> \in Seq(Int) /\ Len(<<>>) = 0
        BY EmptySeq
    <2>. QED
        BY <2>1, <2>2
<1>4. c \in Seq(Int)
    <2>. HIDE DEF c
    <2>1. c \in [1..Len(c) -> Int]
        BY <1>1, LenProperties
    <2>. QED
        BY <1>1, <2>1, SeqDef
<1>5. Attributes(row) = (a \o b) \o c
    BY DEF Attributes
<1>6. (IF form.objectness THEN 5 ELSE 4) = 4 + o
    OBVIOUS
<1>. HIDE DEF a, b, c, o
<1>7. /\ a \o b \in Seq(Int) /\ Len(a \o b) = 4 + o
      /\ \A i \in 1..(4 + o) : (a \o b)[i] = IF i <= 4 THEN a[i] ELSE b[i - 4]
    <2>1. a \in Seq(Int) /\ b \in Seq(Int) /\ Len(a) = 4 /\ Len(b) = o
        BY <1>2, <1>3
    <2>2. /\ a \o b \in Seq(Int) /\ Len(a \o b) = Len(a) + Len(b)
          /\ \A i \in 1..(Len(a) + Len(b)) : (a \o b)[i] = IF i <= Len(a) THEN a[i] ELSE b[i - Len(a)]
        BY <2>1, ConcatProperties
    <2>. QED
        BY <2>1, <2>2
<1>8. \A i \in 1..(4 + o + CocoClasses) :
         ((a \o b) \o c)[i] = IF i <= 4 + o THEN (a \o b)[i] ELSE c[i - (4 + o)]
    <2>. DEFINE d == a \o b
    <2>1. d \in Seq(Int) /\ c \in Seq(Int) /\ Len(d) = 4 + o /\ Len(c) = CocoClasses
        BY <1>1, <1>4, <1>7
    <2>. HIDE DEF d
    <2>2. \A i \in 1..(Len(d) + Len(c)) : (d \o c)[i] = IF i <= Len(d) THEN d[i] ELSE c[i - Len(d)]
        BY <2>1, ConcatProperties
    <2>3. \A i \in 1..(4 + o + CocoClasses) : (d \o c)[i] = IF i <= 4 + o THEN d[i] ELSE c[i - (4 + o)]
        BY <2>1, <2>2, Zenon
    <2>. QED
        BY <2>3 DEF d
<1>9. \A i \in 1..(4 + o) : Attributes(row)[i] = IF i <= 4 THEN a[i] ELSE b[i - 4]
    BY <1>1, <1>3, <1>5, <1>7, <1>8
<1>10. Attributes(row)[1] = row.cx /\ Attributes(row)[3] = row.width
    BY <1>2, <1>3, <1>9
<1>11. form.objectness => Attributes(row)[5] = row.objectness
    <2> SUFFICES ASSUME form.objectness PROVE Attributes(row)[5] = row.objectness
        OBVIOUS
    <2>1. 5 \in 1..(4 + o) /\ ~ (5 <= 4) /\ 5 - 4 = 1
        BY <1>3
    <2>. QED
        BY <1>3, <1>9, <2>1
<1>12. ASSUME NEW k \in 1..CocoClasses PROVE Attributes(row)[4 + o + k] = c[k]
    <2>1. 4 + o + k \in 1..(4 + o + CocoClasses) /\ ~ (4 + o + k <= 4 + o) /\ (4 + o + k) - (4 + o) = k
        BY <1>1, <1>3
    <2>. QED
        BY <1>5, <1>8, <2>1
<1>. QED
    BY <1>6, <1>10, <1>11, <1>12 DEF c

\* A row that is left over decodes to nothing.
ZeroRow == [cx |-> 0, width |-> 0, objectness |-> 0, scores |-> [k \in 1..CocoClasses |-> 0]]
RowAt(rows, r) == IF r \in 1..Len(rows) THEN rows[r] ELSE ZeroRow

LEMMA ZeroRowProperties ==
    ASSUME CocoClasses > 1
    PROVE  ZeroRow \in ModelRow /\ ~ (Decoded(ZeroRow).box.width > 1)
<1>1. /\ CocoClasses \in Nat /\ FrameWidth \in Nat \ {0} /\ FrameHeight \in Nat \ {0}
      /\ InputSize \in Nat \ {0} /\ 2 * InputSize \in Nat \ {0}
    BY DetectorAssumption
<1>2. ZeroRow \in ModelRow
    <2>. DEFINE zeros == [k \in 1..CocoClasses |-> 0]
    <2>1. zeros \in [1..CocoClasses -> Nat]
        OBVIOUS
    <2>2. zeros \in Seq(Nat) /\ Len(zeros) = CocoClasses
        <3>. HIDE DEF zeros
        <3>. QED
            BY <1>1, <2>1, SeqDef, LenProperties
    <2>. HIDE DEF zeros
    <2>3. ZeroRow = [cx |-> 0, width |-> 0, objectness |-> 0, scores |-> zeros]
        BY DEF ZeroRow, zeros
    <2>. QED
        BY <2>2, <2>3 DEF ModelRow, OutputRow
<1>. DEFINE scale == Letterbox.longSide
            x == Rounded((2 * 0 - Letterbox.pad - 0) * scale, 2 * InputSize)
<1>3. scale \in Nat \ {0} /\ Letterbox.pad \in Int
    <2>. DEFINE longSide == Larger(FrameWidth, FrameHeight)
    <2>1. longSide \in Nat \ {0} /\ FrameWidth * InputSize \in Int
        BY <1>1 DEF Larger
    <2>2. Letterbox.longSide = longSide
             /\ Letterbox.pad = InputSize - Larger(1, Rounded(FrameWidth * InputSize, longSide))
        BY DEF Letterbox
    <2>. HIDE DEF longSide
    <2>3. Rounded(FrameWidth * InputSize, longSide) \in Int
        BY <2>1, RoundedInt
    <2>. QED
        BY <1>1, <2>1, <2>2, <2>3 DEF Larger
<1>4. x \in Int
    <2>1. (2 * 0 - Letterbox.pad - 0) * scale \in Int
        BY <1>3
    <2>. QED
        BY <1>1, <2>1, RoundedInt
<1>5. Rounded(0 * scale, InputSize) = 0
    <2>1. 0 * scale = InputSize * 0
        BY <1>1, <1>3
    <2>. QED
        BY <1>1, <2>1, RoundedExact
<1>6. Decoded(ZeroRow).box = Unboxed(0, 0)
    BY DEF Decoded, ZeroRow
<1>7. Unboxed(0, 0).width = Smaller(FrameWidth, x + Rounded(0 * scale, InputSize)) - Larger(0, x)
    BY DEF Unboxed
<1>. HIDE DEF x, scale
<1>8. Unboxed(0, 0).width = Smaller(FrameWidth, x + 0) - Larger(0, x)
    BY <1>5, <1>7
<1>9. ~ (Smaller(FrameWidth, x + 0) - Larger(0, x) > 1)
    BY <1>1, <1>4 DEF Smaller, Larger
<1>. QED
    BY <1>2, <1>6, <1>8, <1>9

LEMMA CellValues ==
    ASSUME CocoClasses > 1, NEW rows \in Seq(ModelRow), NEW r \in Nat \ {0}
    PROVE  LET row == RowAt(rows, r)
           IN  /\ row \in ModelRow
               /\ Cell(rows, r - 1, 0) = row.cx /\ Cell(rows, r - 1, 2) = row.width
               /\ form.objectness => Cell(rows, r - 1, 4) = row.objectness
               /\ \A k \in 1..CocoClasses :
                     Cell(rows, r - 1, (IF form.objectness THEN 5 ELSE 4) + k - 1) = row.scores[k]
<1>. DEFINE offset == IF form.objectness THEN 5 ELSE 4
<1>1. Len(rows) \in Nat /\ r - 1 + 1 = r /\ r \in Int /\ CocoClasses \in Nat /\ offset \in {4, 5}
    BY LenProperties, DetectorAssumption
<1>. HIDE DEF offset
<1>2. \A k \in 1..CocoClasses : offset + k - 1 + 1 = offset + k
    BY <1>1
<1>3. CASE r - 1 < Len(rows)
    <2>. DEFINE row == rows[r]
    <2>1. r \in 1..Len(rows)
        BY <1>1, <1>3
    <2>2. RowAt(rows, r) = row /\ row \in ModelRow
        BY <2>1, LenProperties DEF RowAt
    <2>3. \A a : Cell(rows, r - 1, a) = Attributes(row)[a + 1]
        BY <1>1, <1>3 DEF Cell
    <2>. HIDE DEF row
    <2>4. /\ Attributes(row)[1] = row.cx /\ Attributes(row)[3] = row.width
          /\ form.objectness => Attributes(row)[5] = row.objectness
          /\ \A k \in 1..CocoClasses : Attributes(row)[offset + k] = row.scores[k]
        BY <2>2, AttributeValues DEF offset
    <2>5. 0 + 1 = 1 /\ 2 + 1 = 3 /\ 4 + 1 = 5
        OBVIOUS
    <2>6. \A k \in 1..CocoClasses : Cell(rows, r - 1, offset + k - 1) = row.scores[k]
        BY <1>2, <2>3, <2>4
    <2>7. Cell(rows, r - 1, 0) = row.cx /\ Cell(rows, r - 1, 2) = row.width
             /\ (form.objectness => Cell(rows, r - 1, 4) = row.objectness)
        BY <2>3, <2>4, <2>5
    <2>. QED
        BY <2>2, <2>6, <2>7 DEF offset
<1>4. CASE ~ (r - 1 < Len(rows))
    <2>1. RowAt(rows, r) = ZeroRow
        BY <1>1, <1>4 DEF RowAt
    <2>2. \A a : Cell(rows, r - 1, a) = 0
        BY <1>4 DEF Cell
    <2>3. ZeroRow \in ModelRow
        BY ZeroRowProperties
    <2>4. /\ ZeroRow.cx = 0 /\ ZeroRow.width = 0 /\ ZeroRow.objectness = 0
          /\ \A k \in 1..CocoClasses : ZeroRow.scores[k] = 0
        BY DEF ZeroRow
    <2>. QED
        BY <2>1, <2>2, <2>3, <2>4
<1>. QED
    BY <1>3, <1>4

\* The rows are in the tensor where the decoding looks for them.
Stored(rows, data, first) ==
    \A r \in 0..(TensorRows - 1) : \A a \in 0..(Columns - 1) :
        ValueAt(data, TensorRows, Columns, first, r, a) = Cell(rows, r, a)

LEMMA DecodeExact ==
    ASSUME ExactSizes, form \in Forms, NEW rows \in Seq(ModelRow), Len(rows) <= TensorRows,
           NEW data, NEW first \in BOOLEAN, Stored(rows, data, first)
    PROVE  Exact(rows, DecodeYoloOutput(data, TensorRows, Columns, first))
<1>. DEFINE At(row, attribute) == ValueAt(data, TensorRows, Columns, first, row, attribute)
            hasObjectness == Columns > CocoClasses + 4
            offset == IF hasObjectness THEN 5 ELSE 4
            Scores(row) == [k \in 1..(Columns - offset) |->
                              At(row, offset + k - 1) * (IF hasObjectness THEN At(row, 4) ELSE 100)]
            Candidate(row) ==
                LET scores == Scores(row)
                IN  [box |-> Unboxed(At(row, 0), At(row, 2)), score |-> scores[BestClass(scores)],
                     label |-> CocoToObjectClass(BestClass(scores) - 1)]
            Likely(c) == c.score >= ScoreThreshold /\ c.box.width > 1
            all == [r \in 1..TensorRows |-> Candidate(r - 1)]
            places == {r \in 1..TensorRows : Likely(all[r])}
<1>1. /\ form.objectness \in BOOLEAN /\ CocoClasses \in Nat /\ CocoClasses > 1
      /\ TensorRows \in Nat /\ TensorRows > CocoClasses + 5
    <2>1. form \in Form
        BY PerceptionAssumption
    <2>. QED
        BY <2>1, PerceptionAssumption, DetectorAssumption DEF Form, ExactSizes
<1>2. ~ (TensorRows <= 0 \/ Columns < 6) /\ Columns \in Nat
    BY <1>1 DEF Columns
<1>3. DecodeYoloOutput(data, TensorRows, Columns, first) = Suppressed(Picked(all, places))
    BY <1>2, Zenon DEF DecodeYoloOutput
<1>4. hasObjectness <=> form.objectness
    BY <1>1 DEF Columns
<1>5. offset = (IF form.objectness THEN 5 ELSE 4) /\ Columns - offset = CocoClasses
    BY <1>1, <1>4 DEF Columns
<1>6. ASSUME NEW r \in 1..TensorRows
      PROVE  Candidate(r - 1) = Decoded(RowAt(rows, r)) /\ RowAt(rows, r) \in ModelRow
    <2>. DEFINE row == RowAt(rows, r)
    <2>1. /\ row \in ModelRow
          /\ Cell(rows, r - 1, 0) = row.cx /\ Cell(rows, r - 1, 2) = row.width
          /\ form.objectness => Cell(rows, r - 1, 4) = row.objectness
          /\ \A k \in 1..CocoClasses :
                Cell(rows, r - 1, (IF form.objectness THEN 5 ELSE 4) + k - 1) = row.scores[k]
        <3>1. r \in Nat \ {0}
            OBVIOUS
        <3>. QED
            BY <1>1, <3>1, CellValues
    <2>2. /\ r - 1 \in 0..(TensorRows - 1)
          /\ 0 \in 0..(Columns - 1) /\ 2 \in 0..(Columns - 1) /\ 4 \in 0..(Columns - 1)
        BY <1>1, <1>2
    <2>3. \A a \in 0..(Columns - 1) : At(r - 1, a) = Cell(rows, r - 1, a)
        BY <2>2 DEF Stored
    <2>4. \A k \in 1..CocoClasses : offset + k - 1 \in 0..(Columns - 1)
        BY <1>1, <1>4 DEF Columns
    <2>. HIDE DEF At, hasObjectness, row
    <2>5. At(r - 1, 0) = row.cx /\ At(r - 1, 2) = row.width
        BY <2>1, <2>2, <2>3
    <2>6. (IF hasObjectness THEN At(r - 1, 4) ELSE 100) = Weight(row)
        BY <1>4, <2>1, <2>2, <2>3 DEF Weight
    <2>7. \A k \in 1..CocoClasses : At(r - 1, offset + k - 1) = row.scores[k]
        BY <1>5, <2>1, <2>3, <2>4
    <2>. HIDE DEF offset
    <2>8. Scores(r - 1) = RowScores(row)
        BY <1>5, <2>6, <2>7 DEF RowScores
    <2>. HIDE DEF Scores
    <2>9. Candidate(r - 1) = Decoded(row)
        BY <2>5, <2>8 DEF Decoded
    <2>. QED
        BY <2>1, <2>9 DEF row
<1>. HIDE DEF Candidate
<1>7. Len(rows) \in Nat /\ DOMAIN rows = 1..Len(rows)
    BY LenProperties
<1>8. \A r \in 1..TensorRows : all[r] = Decoded(RowAt(rows, r)) /\ all[r] \in Detection
    BY <1>1, <1>6, DecodedType
<1>9. all \in [1..TensorRows -> Detection]
    BY <1>8
<1>10. \A r \in 1..Len(rows) : all[r] = Decoded(rows[r])
    BY <1>1, <1>7, <1>8 DEF RowAt
<1>11. ASSUME NEW r \in 1..TensorRows, r > Len(rows) PROVE ~ (all[r].box.width > 1)
    <2>1. RowAt(rows, r) = ZeroRow
        BY <1>7, <1>11 DEF RowAt
    <2>. QED
        BY <1>1, <1>8, <2>1, ZeroRowProperties
<1>. HIDE DEF all
<1>12. places = {r \in 1..TensorRows : all[r].score >= ScoreThreshold /\ all[r].box.width > 1}
    OBVIOUS
<1>. HIDE DEF places
<1>13. Exact(rows, Suppressed(Picked(all, places)))
    BY <1>1, <1>9, <1>10, <1>11, <1>12, RowsDetected
<1>. QED
    BY <1>3, <1>13

\* Where the numbers of a model lie in its tensor.
LEMMA TensorLayout ==
    ASSUME form \in Forms, NEW rows \in Seq(ModelRow)
    PROVE  /\ TensorType(Tensor(rows)) /\ Tensor(rows).dims = form.dims
           /\ Tensor(rows).shape = (IF form.attributesFirst THEN <<Columns, TensorRows>>
                                                            ELSE <<TensorRows, Columns>>)
           /\ \A r \in 0..(TensorRows - 1) : \A a \in 0..(Columns - 1) :
                 Tensor(rows).data[(IF form.attributesFirst THEN a * TensorRows + r
                                                            ELSE r * Columns + a) + 1] = Cell(rows, r, a)
<1>. DEFINE data == [k \in 1..(TensorRows * Columns) |->
                        IF form.attributesFirst
                        THEN Cell(rows, (k - 1) % TensorRows, (k - 1) \div TensorRows)
                        ELSE Cell(rows, (k - 1) \div Columns, (k - 1) % Columns)]
<1>1. form \in Form /\ TensorRows \in Nat \ {0} /\ CocoClasses \in Nat
    <2>1. Forms \subseteq Form /\ TensorRows \in Nat /\ TensorRows > CocoClasses + 5 /\ CocoClasses \in Nat
        BY PerceptionAssumption, DetectorAssumption
    <2>. QED
        BY <2>1
<1>2. Columns \in Nat \ {0}
    BY <1>1 DEF Columns
<1>3. TensorType(Tensor(rows))
    <2>1. rows \in Seq(OutputRow) /\ \A r \in DOMAIN rows : Len(rows[r].scores) = CocoClasses
        <3>1. ModelRow \subseteq OutputRow /\ \A row \in ModelRow : Len(row.scores) = CocoClasses
            BY DEF ModelRow
        <3>2. \A r \in DOMAIN rows : rows[r] \in ModelRow
            BY LenProperties
        <3>3. rows \in Seq(OutputRow)
            BY <3>1, SeqDef
        <3>. QED
            BY <3>1, <3>2, <3>3
    <2>. QED
        BY <2>1, TensorProperties
<1>4. /\ Tensor(rows).dims = form.dims /\ Tensor(rows).data = data
      /\ Tensor(rows).shape = (IF form.attributesFirst THEN <<Columns, TensorRows>>
                                                       ELSE <<TensorRows, Columns>>)
    BY Zenon DEF Tensor, Columns, Cell
<1>5. ASSUME NEW r \in 0..(TensorRows - 1), NEW a \in 0..(Columns - 1)
      PROVE  data[(IF form.attributesFirst THEN a * TensorRows + r ELSE r * Columns + a) + 1]
                = Cell(rows, r, a)
    <2>1. CASE form.attributesFirst
        <3>. DEFINE k == a * TensorRows + r + 1
        <3>1. k \in 1..(Columns * TensorRows) /\ Columns * TensorRows = TensorRows * Columns
            BY <1>1, <1>2, PlaceOfValue
        <3>2. k - 1 = TensorRows * a + r
            BY <1>1, <1>2
        <3>3. (k - 1) \div TensorRows = a /\ (k - 1) % TensorRows = r
            BY <1>1, <1>2, <3>2, DivUnique
        <3>. HIDE DEF k
        <3>4. data[k] = Cell(rows, r, a)
            BY <2>1, <3>1, <3>3
        <3>. QED
            BY <2>1, <3>4 DEF k
    <2>2. CASE ~ form.attributesFirst
        <3>. DEFINE k == r * Columns + a + 1
        <3>1. k \in 1..(TensorRows * Columns)
            BY <1>1, <1>2, PlaceOfValue
        <3>2. k - 1 = Columns * r + a
            BY <1>1, <1>2
        <3>3. (k - 1) \div Columns = r /\ (k - 1) % Columns = a
            BY <1>1, <1>2, <3>2, DivUnique
        <3>. HIDE DEF k
        <3>4. data[k] = Cell(rows, r, a)
            BY <2>2, <3>1, <3>3
        <3>. QED
            BY <2>2, <3>4 DEF k
    <2>. QED
        BY <2>1, <2>2
<1>. QED
    BY <1>3, <1>4, <1>5

\* The turned matrix has the numbers of a row behind one another.
Turned(data, rows, columns) ==
    \A r \in 0..(rows - 1) : \A c \in 0..(columns - 1) :
        Transposed(data, rows, columns)[c * rows + r + 1] = data[r * columns + c + 1]

LEMMA TransposedLayout ==
    ASSUME NEW rows \in Nat \ {0}, NEW columns \in Nat \ {0}, NEW data,
           DOMAIN data = 1..(rows * columns)
    PROVE  Turned(data, rows, columns)
<1> SUFFICES ASSUME NEW r \in 0..(rows - 1), NEW c \in 0..(columns - 1)
             PROVE  Transposed(data, rows, columns)[c * rows + r + 1] = data[r * columns + c + 1]
    BY DEF Turned
<1>. DEFINE k == c * rows + r + 1
<1>1. k \in 1..(columns * rows) /\ columns * rows = rows * columns
    BY PlaceOfValue
<1>2. k - 1 = rows * c + r
    OBVIOUS
<1>3. (k - 1) \div rows = c /\ (k - 1) % rows = r
    BY <1>2, DivUnique
<1>. HIDE DEF k
<1>4. Transposed(data, rows, columns)[k] = data[r * columns + c + 1]
    BY <1>1, <1>3 DEF Transposed
<1>. QED
    BY <1>4 DEF k

\* What a back end makes of the tensor of some rows is what is to be found in them.
LEMMA DetectExact ==
    ASSUME ExactSizes, form \in Forms, NEW rows \in Seq(ModelRow), Len(rows) <= TensorRows,
           NEW backEnd \in {"onnxRuntime", "openCv"}, form.dims = 3 \/ backEnd = "openCv"
    PROVE  Exact(rows, DetectImage(backEnd, Tensor(rows)))
<1>. DEFINE t == Tensor(rows)
            data == t.data
            first == form.attributesFirst
<1>1. /\ TensorRows \in Nat \ {0} /\ Columns \in Nat \ {0} /\ Columns < TensorRows
      /\ form.dims \in {2, 3} /\ first \in BOOLEAN /\ (form.dims = 2 => ~ first)
    <2>1. /\ form \in Form /\ TensorRows \in Nat /\ TensorRows > CocoClasses + 5 /\ CocoClasses \in Nat
          /\ form.dims = 2 => ~ first
        BY PerceptionAssumption, DetectorAssumption
    <2>2. Columns \in Nat \ {0} /\ Columns < TensorRows
        BY <2>1 DEF Columns
    <2>. QED
        BY <2>1, <2>2 DEF Form
<1>2. /\ TensorType(t) /\ t.dims = form.dims
      /\ t.shape = (IF first THEN <<Columns, TensorRows>> ELSE <<TensorRows, Columns>>)
      /\ \A r \in 0..(TensorRows - 1) : \A a \in 0..(Columns - 1) :
            data[(IF first THEN a * TensorRows + r ELSE r * Columns + a) + 1] = Cell(rows, r, a)
    BY TensorLayout
<1>. HIDE DEF t
<1>3. Stored(rows, data, first)
    BY <1>2 DEF Stored, ValueAt
<1>4. first => t.shape[1] = Columns /\ t.shape[2] = TensorRows
    BY <1>2
<1>5. ~ first => t.shape[1] = TensorRows /\ t.shape[2] = Columns
    BY <1>2
<1>6. (t.shape[1] < t.shape[2]) <=> first
    <2>1. Columns < TensorRows /\ ~ (TensorRows < Columns)
        BY <1>1
    <2>. QED
        BY <1>4, <1>5, <2>1
<1>7. first => Stored(rows, Transposed(data, Columns, TensorRows), FALSE)
    <2> SUFFICES ASSUME first, NEW r \in 0..(TensorRows - 1), NEW a \in 0..(Columns - 1)
                 PROVE  Transposed(data, Columns, TensorRows)[r * Columns + a + 1] = Cell(rows, r, a)
        BY DEF Stored, ValueAt
    <2>1. DOMAIN data = 1..(Columns * TensorRows)
        BY <1>2, <1>4 DEF TensorType
    <2>2. Transposed(data, Columns, TensorRows)[r * Columns + a + 1] = data[a * TensorRows + r + 1]
        <3>1. TensorRows \in Nat \ {0} /\ Columns \in Nat \ {0}
            BY <1>1
        <3>. HIDE DEF data, first
        <3>2. Turned(data, Columns, TensorRows)
            BY <2>1, <3>1, TransposedLayout
        <3>. QED
            BY <3>2, Zenon DEF Turned
    <2>. QED
        BY <1>2, <2>2
<1>. HIDE DEF data, first
<1>8. CASE backEnd = "openCv"
    <2>1. DetectImage(backEnd, t) = OpenCvDetect(t)
        BY <1>8 DEF DetectImage
    <2>2. CASE first
        <3>1. OpenCvDetect(t)
                 = DecodeYoloOutput(Transposed(data, Columns, TensorRows), TensorRows, Columns, FALSE)
            BY <1>1, <1>2, <1>4, <1>6, <2>2, Zenon DEF OpenCvDetect, data
        <3>2. Stored(rows, Transposed(data, Columns, TensorRows), FALSE)
            BY <1>7, <2>2
        <3>. QED
            BY <2>1, <3>1, <3>2, DecodeExact DEF t
    <2>3. CASE ~ first
        <3>1. OpenCvDetect(t) = DecodeYoloOutput(data, TensorRows, Columns, FALSE)
            BY <1>1, <1>2, <1>5, <1>6, <2>3, Zenon DEF OpenCvDetect, data
        <3>2. Stored(rows, data, FALSE)
            BY <1>1, <1>3, <2>3
        <3>. QED
            BY <2>1, <3>1, <3>2, DecodeExact DEF t
    <2>. QED
        BY <2>2, <2>3
<1>9. CASE backEnd = "onnxRuntime"
    <2>1. DetectImage(backEnd, t) = OnnxRuntimeDetect(t) /\ t.dims = 3
        BY <1>2, <1>9 DEF DetectImage
    <2>2. OnnxRuntimeDetect(t) = DecodeYoloOutput(data, TensorRows, Columns, first)
        BY <1>1, <1>4, <1>5, <1>6, <2>1, Zenon DEF OnnxRuntimeDetect, data
    <2>. QED
        BY <1>1, <1>3, <2>1, <2>2, DecodeExact DEF t
<1>. QED
    BY <1>8, <1>9 DEF t

(* The overlaps that update() meets. *)
LEMMA OverlapsProperties ==
    ASSUME NEW m \in Nat, NEW predicted \in [1..m -> Predictions], NEW found \in Seq(Detection)
    PROVE  /\ Overlaps(predicted, found) \in Seq([1..Len(found) -> Nat])
           /\ Len(Overlaps(predicted, found)) = m
<1>. DEFINE n == Len(found)
            Overlap(i, d) == LET overlap == IntersectionOverUnion(predicted[i], found[d].box)
                             IN  IF overlap > MinIou THEN overlap ELSE 0
            rows == Overlaps(predicted, found)
<1>1. DOMAIN found = 1..n /\ n \in Nat /\ \A d \in 1..n : found[d] \in Detection
    BY LenProperties
<1>2. MinIou \in Nat /\ Predictions \subseteq Strip
    BY PerceptionAssumption DEF Strip
<1>3. rows = [i \in 1..m |-> [d \in 1..n |-> Overlap(i, d)]]
    BY <1>1 DEF Overlaps
<1>. HIDE DEF n
<1>4. ASSUME NEW i \in 1..m, NEW d \in 1..n PROVE Overlap(i, d) \in Nat
    <2>1. predicted[i] \in Strip
        BY <1>2
    <2>2. found[d].box \in Strip
        BY <1>1 DEF Detection, InFrame
    <2>. DEFINE overlap == IntersectionOverUnion(predicted[i], found[d].box)
    <2>3. overlap \in Int
        BY <2>1, <2>2, OverlapIsInt
    <2>. HIDE DEF overlap
    <2>4. (IF overlap > MinIou THEN overlap ELSE 0) \in Nat
        BY <1>2, <2>3
    <2>. QED
        BY <2>4 DEF overlap
<1>. HIDE DEF Overlap, rows
<1>5. rows \in [1..m -> [1..n -> Nat]]
    BY <1>3, <1>4
<1>6. rows \in Seq([1..n -> Nat]) /\ Len(rows) = m
    BY <1>5, SeqDef, LenProperties
<1>. QED
    BY <1>6 DEF rows, n
----------------------------------------------------------------------------
(* The specification. *)

\* What update() returned is about the detections of the frame.
Returned ==
    /\ {visible[v].detection : v \in DOMAIN visible} = DOMAIN detections
    /\ \A v, w \in DOMAIN visible :
          v # w => visible[v].id # visible[w].id /\ visible[v].detection # visible[w].detection

PerceptionInv ==
    /\ TrackerInv /\ Returned
    /\ detector \in {"onnxRuntime", "openCv", "synthetic"} /\ images \in BOOLEAN /\ form \in Forms
    /\ detections \in Seq(Detection)
    /\ Inferred => Apart(detections)

LEMMA InvStarts ==
    ASSUME Init
    PROVE  PerceptionInv
<1>1. TrackerInv
    BY TrackerStarts DEF Init
<1>2. detections = <<>> /\ visible = <<>> /\ form \in Forms
    BY DEF Init, TrackerInit
<1>3. detector \in {"onnxRuntime", "openCv", "synthetic"} /\ images \in BOOLEAN
    <2>1. PICK built \in {{}, {"openCv"}, {"openCv", "onnxRuntime"}}, loads \in SUBSET {"openCv", "onnxRuntime"} :
             detector = CreateDetector(built, loads) /\ images \in {FALSE, "openCv" \in built}
        BY DEF Init
    <2>2. CreateDetector(built, loads) \in {"onnxRuntime", "openCv", "synthetic"}
        BY DEF CreateDetector
    <2>3. ("openCv" \in built) \in BOOLEAN
        OBVIOUS
    <2>4. images \in BOOLEAN
        BY <2>1, <2>3
    <2>. QED
        BY <2>1, <2>2, <2>4
<1>4. Returned
    <2>1. DOMAIN <<>> = {}
        OBVIOUS
    <2>. QED
        BY <1>2, <2>1 DEF Returned
<1>. QED
    BY <1>1, <1>2, <1>3, <1>4, NothingDetected DEF PerceptionInv

\* What of a frame update() is given.
LEMMA TrackGives ==
    ASSUME PerceptionInv, NEW found \in Seq(Detection), Track(found)
    PROVE  /\ Len(found) \in Nat /\ score' \in Seq([1..Len(found) -> Nat])
           /\ Len(score') = Len(tracks) /\ Update(Len(found), score')
<1>1. Len(found) \in Nat
    BY LenProperties
<1>2. DOMAIN tracks = 1..Len(tracks) /\ Len(tracks) \in Nat
    <2>1. tracks \in Seq(TrackType)
        BY DEF PerceptionInv, TrackerInv, GoodList
    <2>. QED
        BY <2>1, LenProperties
<1>3. PICK predicted \in [1..Len(tracks) -> Predictions] : score' = Overlaps(predicted, found)
    BY <1>2 DEF Track
<1>4. score' \in Seq([1..Len(found) -> Nat]) /\ Len(score') = Len(tracks)
    BY <1>2, <1>3, OverlapsProperties
<1>. QED
    BY <1>1, <1>4 DEF Track

LEMMA TrackStep ==
    ASSUME PerceptionInv, NEW found \in Seq(Detection), Track(found)
    PROVE  /\ TrackerInv' /\ Returned'
           /\ detector' = detector /\ images' = images /\ form' = form /\ detections' = found
<1>1. /\ Len(found) \in Nat /\ score' \in Seq([1..Len(found) -> Nat])
      /\ Len(score') = Len(tracks) /\ Update(Len(found), score')
    BY TrackGives
<1>2. TrackerInv
    BY DEF PerceptionInv
<1>3. TrackerInv'
    BY <1>1, <1>2, TrackerStep
<1>4. /\ {visible'[v].detection : v \in DOMAIN visible'} = 1..Len(found)
      /\ \A v, w \in DOMAIN visible' :
            v # w => visible'[v].id # visible'[w].id /\ visible'[v].detection # visible'[w].detection
    BY <1>1, <1>2, EachShownOnce
<1>5. detections' = found /\ detector' = detector /\ images' = images /\ form' = form
    BY DEF Track
<1>6. DOMAIN found = 1..Len(found)
    BY LenProperties
<1>7. Returned'
    BY <1>4, <1>5, <1>6 DEF Returned
<1>. QED
    BY <1>3, <1>5, <1>7

\* The frame of each step, and what the detector makes of it.
LEMMA StepTracks ==
    ASSUME PerceptionInv, Next
    PROVE  \/ UNCHANGED vars
           \/ \E found \in Seq(Detection) :
                 /\ Track(found)
                 /\ images /\ detector # "synthetic" => Apart(found)
<1>1. ASSUME AnalyseImage
      PROVE  \E found \in Seq(Detection) : Track(found) /\ (images /\ detector # "synthetic" => Apart(found))
    <2>1. clock \in Nat /\ form \in Forms
        BY DEF PerceptionInv, TrackerInv, GoodList
    <2>2. Len(Outputs) \in Nat /\ clock < Len(Outputs)
        BY <1>1, PerceptionAssumption DEF AnalyseImage
    <2>3. clock + 1 \in 1..Len(Outputs)
        BY <2>1, <2>2
    <2>4. PICK rows \in Outputs[clock + 1] : Track(DetectImage(detector, Tensor(rows)))
        BY <1>1 DEF AnalyseImage
    <2>5. rows \in Seq(OutputRow) /\ \A r \in DOMAIN rows : Len(rows[r].scores) = CocoClasses
        BY <2>3, <2>4, PerceptionAssumption
    <2>. DEFINE t == Tensor(rows)
    <2>6. TensorType(t)
        BY <2>1, <2>5, TensorProperties
    <2>. HIDE DEF t
    <2>7. CASE detector \in {"onnxRuntime", "openCv"}
        <3>1. DetectImage(detector, t) \in Seq(Detection) /\ Apart(DetectImage(detector, t))
            BY <2>6, <2>7, DetectImageProperties
        <3>. QED
            BY <2>4, <3>1 DEF t
    <2>8. CASE detector = "synthetic"
        <3>1. DetectImage(detector, t) = StandIns
            BY <2>8 DEF DetectImage
        <3>2. DetectImage(detector, t) \in Seq(Detection)
            BY <3>1, MadeUpProperties
        <3>. QED
            BY <2>4, <2>8, <3>2 DEF t
    <2>. QED
        BY <2>7, <2>8 DEF PerceptionInv
<1>2. ASSUME AnalyseSynthetic
      PROVE  \E found \in Seq(Detection) : Track(found) /\ (images /\ detector # "synthetic" => Apart(found))
    <2>1. Track(SyntheticDetections(clock)) /\ ~ images
        BY <1>2 DEF AnalyseSynthetic
    <2>2. SyntheticDetections(clock) \in Seq(Detection)
        BY MadeUpProperties
    <2>. QED
        BY <2>1, <2>2
<1>. QED
    BY <1>1, <1>2 DEF Next, Done

LEMMA InvStep ==
    ASSUME PerceptionInv, [Next]_vars
    PROVE  PerceptionInv'
<1>1. CASE UNCHANGED vars
    <2>1. TrackerInv'
        <3>1. TrackerInv /\ UNCHANGED <<tracks, nextId, lastSeen, clock>>
            BY <1>1 DEF PerceptionInv, vars, trackerVars
        <3>. QED
            BY <3>1 DEF TrackerInv
    <2>2. Returned' /\ (Inferred => Apart(detections))'
        BY <1>1 DEF PerceptionInv, Returned, Inferred, vars, trackerVars
    <2>. QED
        BY <1>1, <2>1, <2>2 DEF PerceptionInv, vars
<1>2. ASSUME NEW found \in Seq(Detection), Track(found),
             images /\ detector # "synthetic" => Apart(found)
      PROVE  PerceptionInv'
    <2>1. /\ TrackerInv' /\ Returned'
          /\ detector' = detector /\ images' = images /\ form' = form /\ detections' = found
        BY <1>2, TrackStep
    <2>2. (Inferred => Apart(detections))'
        BY <1>2, <2>1 DEF Inferred
    <2>. QED
        BY <2>1, <2>2 DEF PerceptionInv
<1>. QED
    BY <1>1, <1>2, StepTracks

LEMMA Invariant == Spec => []PerceptionInv
BY InvStarts, InvStep, PTL DEF Spec

(* The bound on the trajectory holds and it ends with the last match; no     *)
(* missed track stays too long; all boxes lie in the image.  This is about   *)
(* SortTracker::update and the decoding of Detector.                         *)
THEOREM TypeCorrect == Spec => []TypeOK
<1>1. PerceptionInv => TypeOK
    <2> SUFFICES ASSUME PerceptionInv PROVE TypeOK
        OBVIOUS
    <2>1. TracksOK
        BY TrackerTypes DEF PerceptionInv
    <2>2. ASSUME NEW d \in DOMAIN detections
          PROVE  detections[d].box.x >= 0 /\ detections[d].box.x + detections[d].box.width <= FrameWidth
        <3>1. detections \in Seq(Detection)
            BY DEF PerceptionInv
        <3>2. detections[d] \in Detection
            BY <3>1, LenProperties
        <3>. QED
            BY <3>2 DEF Detection, InFrame
    <2>. QED
        BY <2>1, <2>2 DEF TypeOK, PerceptionInv
<1>. QED
    BY <1>1, Invariant, PTL

(* The tracks are those of the ids that were seen within the last MaxMissed  *)
(* frames, from the oldest to the newest, each with the number of frames it  *)
(* was missed: SortTracker::update forgets none early, keeps none too long   *)
(* and gives no id twice.                                                    *)
THEOREM KeptExactlyWhileRecentCorrect == Spec => []KeptExactlyWhileRecent
<1>1. PerceptionInv => KeptExactlyWhileRecent
    BY TrackerTypes DEF PerceptionInv
<1>. QED
    BY <1>1, Invariant, PTL

(* Each detection of a frame comes back once, under an id of its own, and no *)
(* two tracks sit on one object: what NMSBoxes leaves is never matched twice *)
(* by SortTracker::update.                                                   *)
THEOREM OneTrackPerObjectCorrect == Spec => []OneTrackPerObject
<1>1. PerceptionInv => OneTrackPerObject
    <2> SUFFICES ASSUME PerceptionInv PROVE OneTrackPerObject
        OBVIOUS
    <2>1. Returned
        BY DEF PerceptionInv
    <2>2. ASSUME NEW i \in DOMAIN visible, NEW j \in DOMAIN visible, i # j, Inferred
          PROVE  ~ OneObject(Pixels(detections[visible[i].detection].box),
                             Pixels(detections[visible[j].detection].box))
        <3>. DEFINE d == visible[i].detection
                    e == visible[j].detection
                    p == Pixels(detections[d].box)
                    q == Pixels(detections[e].box)
        <3>1. d # e /\ d \in DOMAIN detections /\ e \in DOMAIN detections
            BY <2>1, <2>2 DEF Returned
        <3>2. detections \in Seq(Detection) /\ Apart(detections)
            BY <2>2 DEF PerceptionInv
        <3>3. DOMAIN detections = 1..Len(detections) /\ Len(detections) \in Nat
            BY <3>2, LenProperties
        <3>4. ASSUME NEW h \in 1..Len(detections), NEW k \in 1..Len(detections), h < k
              PROVE  ~ OneObject(Pixels(detections[h].box), Pixels(detections[k].box))
            <4>1. IntersectionOverUnion(detections[h].box, detections[k].box) <= NmsThreshold
                BY <3>2, <3>4 DEF Apart
            <4>2. detections[h] \in Detection /\ detections[k] \in Detection
                BY <3>2, LenProperties
            <4>3. detections[h].box \in InFrame /\ detections[k].box \in InFrame
                BY <4>2 DEF Detection
            <4>. QED
                BY <4>1, <4>3, ApartPixels
        <3>. HIDE DEF d, e
        <3>5. d \in 1..Len(detections) /\ e \in 1..Len(detections)
            BY <3>1, <3>3
        <3>6. d < e \/ e < d
            BY <3>1, <3>3, <3>5
        <3>7. ~ OneObject(p, q) \/ ~ OneObject(q, p)
            BY <3>4, <3>5, <3>6
        <3>. HIDE DEF p, q
        <3>8. p \cap q = q \cap p /\ p \cup q = q \cup p
            OBVIOUS
        <3>9. ~ OneObject(p, q)
            BY <3>7, <3>8 DEF OneObject
        <3>. QED
            BY <3>9 DEF p, q, d, e
    <2>. QED
        BY <2>1, <2>2 DEF OneTrackPerObject, Returned
<1>. QED
    BY <1>1, Invariant, PTL

\* The detections are those of the rows that the model put out for the frame.
Inference ==
    images /\ clock > 0 =>
        \E n \in 1..Len(Outputs) : output \in Outputs[n] /\ detections = DetectImage(detector, Tensor(output))

\* The tensor depends on the form and the rows alone.
TensorOf(f, rows) ==
    LET attributes == 4 + CocoClasses + (IF f.objectness THEN 1 ELSE 0)
        Values(row) == <<row.cx, 0, row.width, 0>>
                          \o (IF f.objectness THEN <<row.objectness>> ELSE <<>>) \o row.scores
        At(r, a) == IF r < Len(rows) THEN Values(rows[r + 1])[a + 1] ELSE 0
    IN  [dims |-> f.dims,
         shape |-> IF f.attributesFirst THEN <<attributes, TensorRows>> ELSE <<TensorRows, attributes>>,
         data |-> [k \in 1..(TensorRows * attributes) |->
                      IF f.attributesFirst THEN At((k - 1) % TensorRows, (k - 1) \div TensorRows)
                                           ELSE At((k - 1) \div attributes, (k - 1) % attributes)]]

LEMMA TensorIsOf ==
    /\ \A rows : Tensor(rows) = TensorOf(form, rows)
    /\ Tensor(output)' = TensorOf(form', output')
<1>1. \A rows : Tensor(rows) = TensorOf(form, rows)
    BY Zenon DEF Tensor, Attributes, TensorOf
<1>2. Tensor(output)' = TensorOf(form', output')
    BY Zenon DEF Tensor, Attributes, TensorOf
<1>. QED
    BY <1>1, <1>2

LEMMA InferenceStep ==
    ASSUME PerceptionInv, Inference, [Next]_vars
    PROVE  Inference'
<1>1. CASE UNCHANGED vars
    <2>1. /\ images' = images /\ clock' = clock /\ output' = output /\ form' = form
          /\ detections' = detections /\ detector' = detector
        BY <1>1 DEF vars, trackerVars
    <2>2. Tensor(output)' = Tensor(output)
        BY <2>1, TensorIsOf
    <2>. QED
        BY <2>1, <2>2 DEF Inference
<1>2. CASE AnalyseImage
    <2>1. clock + 1 \in 1..Len(Outputs)
        <3>1. clock \in Nat /\ Len(Outputs) \in Nat /\ clock < Len(Outputs)
            BY <1>2, PerceptionAssumption DEF AnalyseImage, PerceptionInv, TrackerInv, GoodList
        <3>. QED
            BY <3>1
    <2>2. PICK rows \in Outputs[clock + 1] : output' = rows /\ Track(DetectImage(detector, Tensor(rows)))
        BY <1>2 DEF AnalyseImage
    <2>3. detections' = DetectImage(detector, Tensor(rows)) /\ detector' = detector /\ form' = form
        BY <2>2 DEF Track
    <2>4. Tensor(output)' = Tensor(rows)
        BY <2>2, <2>3, TensorIsOf
    <2>5. detections' = DetectImage(detector', Tensor(output)')
        BY <2>3, <2>4
    <2>. QED
        BY <2>1, <2>2, <2>5 DEF Inference
<1>3. CASE AnalyseSynthetic
    BY <1>3 DEF AnalyseSynthetic, Track, Inference
<1>4. CASE Done
    BY <1>1, <1>4 DEF Done
<1>. QED
    BY <1>1, <1>2, <1>3, <1>4 DEF Next

(* A detection has the pixels, the score and a best class of a row of the    *)
(* model, and each row that is sure and wide enough is detected or is about  *)
(* the object of a detection at least as sure: neither the form of the       *)
(* tensor, nor the turning of OpenCvYoloDetector, nor the letterbox, nor the *)
(* suppression loses or makes up any.  The property is about the sizes at    *)
(* which the letterbox does not round (1280 for an input of 640); at others  *)
(* the edges of a box may be a pixel off.                                    *)
THEOREM DetectionsAreExactCorrect == Spec => []DetectionsAreExact
<1>1. Init => Inference
    BY DEF Init, TrackerInit, Inference
<1>2. PerceptionInv /\ Inference => DetectionsAreExact
    <2> SUFFICES ASSUME PerceptionInv, Inference, ExactSizes, Inferred
                 PROVE  Exact(output, detections)
        BY DEF DetectionsAreExact
    <2>1. PICK n \in 1..Len(Outputs) : output \in Outputs[n] /\ detections = DetectImage(detector, Tensor(output))
        BY DEF Inference, Inferred
    <2>2. /\ output \in Seq(OutputRow) /\ Len(output) <= TensorRows
          /\ \A r \in DOMAIN output : Len(output[r].scores) = CocoClasses
        BY <2>1, PerceptionAssumption
    <2>3. output \in Seq(ModelRow)
        <3>1. Len(output) \in Nat /\ DOMAIN output = 1..Len(output)
                 /\ \A r \in 1..Len(output) : output[r] \in OutputRow
            BY <2>2, LenProperties
        <3>2. \A r \in 1..Len(output) : output[r] \in ModelRow
            BY <2>2, <3>1 DEF ModelRow
        <3>3. output = [r \in 1..Len(output) |-> output[r]]
            BY <2>2, LenProperties
        <3>4. output \in [1..Len(output) -> ModelRow]
            BY <3>2, <3>3
        <3>. QED
            BY <3>1, <3>4, SeqDef
    <2>4. form \in Forms /\ detector \in {"onnxRuntime", "openCv"} /\ (form.dims = 3 \/ detector = "openCv")
        BY DEF PerceptionInv, Inferred
    <2>5. Exact(output, DetectImage(detector, Tensor(output)))
        BY <2>2, <2>3, <2>4, DetectExact
    <2>. QED
        BY <2>1, <2>5
<1>. QED
    BY <1>1, <1>2, Invariant, InferenceStep, PTL DEF Spec

(* A track goes without a detection that overlaps it more than the one it    *)
(* took only if an older track took that, and it takes none that does not    *)
(* overlap it enough: the loops of SortTracker::update are greedy in the     *)
(* order of the tracks.                                                      *)
THEOREM MatchingIsGreedyCorrect == Spec => MatchingIsGreedy
<1>1. ASSUME PerceptionInv, Next PROVE OlderChooseFirst
    <2>1. ASSUME UNCHANGED vars PROVE OlderChooseFirst
        <3>1. clock \in Nat /\ clock' = clock
            BY <1>1, <2>1 DEF PerceptionInv, TrackerInv, GoodList, vars, trackerVars
        <3>2. ~ (clock' > clock)
            BY <3>1
        <3>. QED
            BY <3>2 DEF OlderChooseFirst
    <2>2. ASSUME NEW found \in Seq(Detection), Track(found) PROVE OlderChooseFirst
        <3>1. /\ Len(found) \in Nat /\ score' \in Seq([1..Len(found) -> Nat])
              /\ Len(score') = Len(tracks) /\ Update(Len(found), score')
            BY <1>1, <2>2, TrackGives
        <3>2. TrackerInv /\ DOMAIN tracks = 1..Len(tracks)
            BY <1>1, LenProperties DEF PerceptionInv, TrackerInv, GoodList
        <3>3. DOMAIN detections' = 1..Len(found)
            BY <2>2, LenProperties DEF Track
        <3>4. ASSUME NEW i \in 1..Len(tracks)
              PROVE  LET gains == {score'[i][d] : d \in TakenBy(i)}
                     IN  /\ 0 \notin gains
                         /\ \A d \in 1..Len(found) :
                               (\A g \in gains \cup {0} : score'[i][d] > g)
                                   => \E j \in 1..(i - 1) : d \in TakenBy(j)
            BY <3>1, <3>2, GreedyStep
        <3>. QED
            BY <3>2, <3>3, <3>4 DEF OlderChooseFirst
    <2>. QED
        BY <1>1, <2>1, <2>2, StepTracks
<1>2. ASSUME PerceptionInv, [Next]_vars PROVE [OlderChooseFirst]_vars
    BY <1>1, <1>2
<1>. QED
    BY <1>2, Invariant, PTL DEF Spec, MatchingIsGreedy
=============================================================================
