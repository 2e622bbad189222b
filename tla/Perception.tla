----------------------------- MODULE Perception -----------------------------
(***************************************************************************)
(* From frames to tracks: a detector of Detector and the SortTracker, as   *)
(* the main loop of AnalysisPipeline::run uses them.  The model that a     *)
(* back end runs is external: it puts out rows, which are laid out as a    *)
(* tensor in one of several forms.  So is the Kalman filter: the box it    *)
(* predicts for a track is any of a few.                                   *)
(***************************************************************************)
EXTENDS SortTracker, Detector

CONSTANTS MinIou,       \* minIou_: 2500
          Predictions,  \* the boxes the Kalman filter may predict
          Forms,        \* the forms of tensors
          TensorRows,   \* bound: rows of a tensor; those left over are zero
          Outputs       \* bound: for each frame, the outputs of the model for it

\* A tensor has the batch as a first dimension or not, each attribute of all
\* rows together or each row, and an objectness or not.
Form == [dims : {2, 3}, attributesFirst : BOOLEAN, objectness : BOOLEAN]

OutputRow == [cx : Int, width : Int, objectness : Nat, scores : Seq(Nat)]

\* As in the models in use, there are more rows than attributes, the classes
\* are those of COCO, and a matrix without a batch has one row for each box.
\* A frame is wide enough for the made-up detections.
ASSUME PerceptionAssumption ==
    /\ MinIou \in Nat /\ TensorRows \in Nat /\ TensorRows > CocoClasses + 5
    /\ FrameWidth > 10 /\ Predictions \subseteq [x : Int, width : Int]
    /\ Forms \subseteq Form /\ \A f \in Forms : f.dims = 2 => ~f.attributesFirst
    /\ Len(Outputs) \in Nat /\ \A n \in 1..Len(Outputs) : \A rows \in Outputs[n] :
          /\ rows \in Seq(OutputRow) /\ Len(rows) <= TensorRows
          /\ \A r \in DOMAIN rows : Len(rows[r].scores) = CocoClasses

VARIABLES detector,    \* detector_
          images,      \* the frames have images
          form,        \* of the model's tensors
          output,      \* the rows the model put out for the frame
          detections,  \* those of the frame
          score        \* history: score[i][d], the overlaps update() met

vars == <<trackerVars, detector, images, form, output, detections, score>>

\* The builds with back ends have OpenCV, which the images need too.
Init ==
    /\ TrackerInit
    /\ \E built \in {{}, {"openCv"}, {"openCv", "onnxRuntime"}}, loads \in SUBSET {"openCv", "onnxRuntime"} :
          /\ detector = CreateDetector(built, loads)
          /\ images \in {FALSE, "openCv" \in built}
    /\ form \in Forms
    /\ output = <<>> /\ detections = <<>> /\ score = <<>>

\* What the model puts out, as the numbers of a tensor.
Attributes(row) ==
    <<row.cx, 0, row.width, 0>> \o (IF form.objectness THEN <<row.objectness>> ELSE <<>>) \o row.scores
Tensor(rows) ==
    LET attributes == 4 + CocoClasses + (IF form.objectness THEN 1 ELSE 0)
        Cell(r, a) == IF r < Len(rows) THEN Attributes(rows[r + 1])[a + 1] ELSE 0
    IN  [dims |-> form.dims,
         shape |-> IF form.attributesFirst THEN <<attributes, TensorRows>> ELSE <<TensorRows, attributes>>,
         data |-> [k \in 1..(TensorRows * attributes) |->
                      IF form.attributesFirst THEN Cell((k - 1) % TensorRows, (k - 1) \div TensorRows)
                                              ELSE Cell((k - 1) \div attributes, (k - 1) % attributes)]]

\* How much the predicted box of each track overlaps each detection.
Overlaps(predicted, found) ==
    [i \in DOMAIN predicted |-> [d \in DOMAIN found |->
        LET overlap == IntersectionOverUnion(predicted[i], found[d].box)
        IN  IF overlap > MinIou THEN overlap ELSE 0]]

\* A frame is detected in and the tracks are updated.
Track(found) ==
    /\ detections' = found
    /\ \E predicted \in [DOMAIN tracks -> Predictions] : score' = Overlaps(predicted, found)
    /\ Update(Len(found), score')
    /\ UNCHANGED <<detector, images, form>>

AnalyseImage ==
    /\ images /\ clock < Len(Outputs)
    /\ \E rows \in Outputs[clock + 1] :
          output' = rows /\ Track(DetectImage(detector, Tensor(rows)))

AnalyseSynthetic ==
    /\ ~images /\ clock < Len(Outputs)
    /\ Track(SyntheticDetections(clock))
    /\ UNCHANGED output

Done == clock = Len(Outputs) /\ UNCHANGED vars

Next == AnalyseImage \/ AnalyseSynthetic \/ Done
Spec == Init /\ [][Next]_vars
----------------------------------------------------------------------------
TypeOK ==
    /\ TracksOK
    /\ detector \in {"onnxRuntime", "openCv", "synthetic"} /\ images \in BOOLEAN /\ form \in Forms
    /\ \A d \in DOMAIN detections :
          detections[d].box.x >= 0 /\ detections[d].box.x + detections[d].box.width <= FrameWidth

\* A back end of this build has looked at an image of a tensor it takes:
\* ONNX Runtime takes none without a batch.
Inferred == images /\ clock > 0 /\ detector # "synthetic" /\ (form.dims = 3 \/ detector = "openCv")

\* The pixels a row or a detection is about, and whether two are about one object.
PixelsOfRow(row) ==
    LET scale == Larger(FrameWidth, FrameHeight)
        AtInput(p) == 2 * p * InputSize + Letterbox.pad * scale
    IN  {p \in 0..(FrameWidth - 1) : /\ (2 * row.cx - row.width) * scale <= AtInput(p)
                                     /\ AtInput(p) < (2 * row.cx + row.width) * scale}
Pixels(box) == {p \in 0..(FrameWidth - 1) : box.x <= p /\ p < box.x + box.width}
OneObject(p, q) == 10000 * Cardinality(p \cap q) > NmsThreshold * Cardinality(p \cup q)

\* The largest score of a row, how sure it makes the model, and its classes.
BestScore(row) ==
    CHOOSE s \in {row.scores[k] : k \in DOMAIN row.scores} : \A k \in DOMAIN row.scores : row.scores[k] <= s
Sure(row) == BestScore(row) * (IF form.objectness THEN row.objectness ELSE 100)
BestLabels(row) ==
    {CocoToObjectClass(k - 1) : k \in {j \in DOMAIN row.scores : row.scores[j] = BestScore(row)}}

\* What is to be found in the rows, and that it is what was found.
Candidates(rows) ==
    {row \in {rows[r] : r \in DOMAIN rows} :
        Sure(row) > ScoreThreshold /\ Cardinality(PixelsOfRow(row)) > 1}
Detects(found, row) == \E d \in DOMAIN found :
    OneObject(PixelsOfRow(row), Pixels(found[d].box)) /\ Sure(row) <= found[d].score
StandsFor(d, row) ==
    Pixels(d.box) = PixelsOfRow(row) /\ d.score = Sure(row) /\ d.label \in BestLabels(row)
Exact(rows, found) ==
    /\ \A d \in DOMAIN found : \E row \in Candidates(rows) : StandsFor(found[d], row)
    /\ \A row \in Candidates(rows) : Detects(found, row)

\* The picture is an even number of times as long as the input, as 1280 is for
\* 640: the letterbox does not round.  And a tensor has the six attributes that
\* the detector asks for; boxes that overlap completely are about one object.
EvenScale == Larger(FrameWidth, FrameHeight) % (2 * InputSize) = 0
ExactSizes == EvenScale /\ CocoClasses > 1 /\ NmsThreshold < 10000

\* At such sizes, whichever back end and form of the tensor: a detection has the
\* pixels, the score and a best class of a row of the model; and each row that is
\* sure enough and wide enough is detected, or is about the object of a detection
\* at least as sure, whatever the classes of the two.
DetectionsAreExact == ExactSizes /\ Inferred => Exact(output, detections)

\* One object, one track: each detection of a frame comes back under one id at
\* once, no id twice, and no two tracks of an image that a back end has looked at
\* sit on one object.
OneTrackPerObject ==
    /\ {visible[i].detection : i \in DOMAIN visible} = DOMAIN detections
    /\ \A i, j \in DOMAIN visible : i # j =>
          /\ visible[i].detection # visible[j].detection /\ visible[i].id # visible[j].id
          /\ Inferred => ~OneObject(Pixels(detections[visible[i].detection].box),
                                    Pixels(detections[visible[j].detection].box))

\* The detection with which a track comes back, if any.
TakenBy(i) == {visible'[v].detection : v \in {w \in DOMAIN visible' : visible'[w].id = tracks[i].id}}

OlderChooseFirst ==
    clock' > clock => \A i \in DOMAIN tracks :
        LET gains == {score'[i][d] : d \in TakenBy(i)} IN
        /\ 0 \notin gains
        /\ \A d \in DOMAIN detections' :
              (\A g \in gains \cup {0} : score'[i][d] > g) => \E j \in 1..(i - 1) : d \in TakenBy(j)

\* The older tracks choose first: a track comes back with a detection that
\* overlaps it less than another one, or with none, only if that other one went
\* to an older track; and never with one it does not overlap enough.
MatchingIsGreedy == [][OlderChooseFirst]_vars
=============================================================================
