---------------------------- MODULE MCPerception ----------------------------
(* An instance of Perception for TLC: an image of 12 x 24 pixels is scaled  *)
(* to half its size and padded on both sides, so that a row at cx with      *)
(* width w stands for the pixels from 2 cx - 6 - w on, 2 w of them.         *)
EXTENDS Perception

Row(cx, width, objectness, scores) ==
    [cx |-> cx, width |-> width, objectness |-> objectness, scores |-> scores]

\* Each of the wide boxes overlaps its neighbour too much, the first and the
\* last one do not overlap too much; the narrow ones lie side by side.  The row
\* at the edge is one pixel wide, the last row not sure enough of any class.
Wide == {Row(cx, 4, 100, s) : cx \in 5..7, s \in {<<60, 30>>, <<30, 80>>}}
Unsure == {Row(cx, 4, 50, <<45, 25>>) : cx \in 5..7}
Narrow == {Row(cx, 2, 80, <<70, 0>>) : cx \in {4, 6, 8}}
Odd == {Row(1, 5, 100, <<90, 0>>), Row(6, 4, 100, <<20, 24>>)}

UpTo(n, rows) == UNION {[1..k -> rows] : k \in 0..n}
AllForms == {f \in Form : f.dims = 2 => ~f.attributesFirst}
FewOutputs == {<<>>, <<Row(5, 4, 100, <<60, 30>>)>>,
               <<Row(4, 2, 80, <<70, 0>>), Row(8, 2, 80, <<70, 0>>)>>}
SomeOutputs ==
    <<UpTo(2, Wide \cup Unsure \cup Narrow \cup Odd)
        \cup [1..3 -> {Row(cx, 4, 100, <<60, 30>>) : cx \in 5..7}] \cup [1..3 -> Narrow],
      FewOutputs, FewOutputs>>

Strip(x, width) == [x |-> x, width |-> width]
SomePredictions == {Strip(0, 8), Strip(4, 8), Strip(20, 4)}
=============================================================================
