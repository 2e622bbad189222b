------------------------------ MODULE Detector ------------------------------
(***************************************************************************)
(* vehicle::core detectors: which back end is created, what it makes of    *)
(* the numbers a YOLO model puts out, and the made-up detections.  Boxes   *)
(* are strips: they are told apart by their horizontal extent alone (the   *)
(* vertical one is treated alike).  Scores and overlaps are in             *)
(* ten-thousandths, the numbers of the model in hundredths and pixels.     *)
(***************************************************************************)
EXTENDS Integers, FiniteSets, Subsequence

CONSTANTS FrameWidth, FrameHeight,   \* of the image
          InputSize,                 \* inputWidth_ = inputHeight_
          CocoClasses,               \* 80: with more attributes there is an objectness
          ScoreThreshold,            \* scoreThreshold_: 2500
          NmsThreshold,              \* nmsThreshold_: 4500
          PedestrianFrom, TruckFrom  \* frames after which they appear: 8, 18

ASSUME DetectorAssumption ==
    /\ {FrameWidth, FrameHeight, InputSize} \subseteq Nat \ {0}
    /\ {CocoClasses, ScoreThreshold, NmsThreshold, PedestrianFrom, TruckFrom} \subseteq Nat

Larger(a, b) == IF a > b THEN a ELSE b
Smaller(a, b) == IF a < b THEN a ELSE b

\* std::round(a / b), for b > 0.
Rounded(a, b) == IF a >= 0 THEN (2 * a + b) \div (2 * b) ELSE -((b - 2 * a) \div (2 * b))

\* In ten-thousandths, rounded up: a limit is exceeded exactly as in the code.
IntersectionOverUnion(a, b) ==
    LET both == Larger(0, Smaller(a.x + a.width, b.x + b.width) - Larger(a.x, b.x))
        combined == Larger(0, a.width) + Larger(0, b.width) - both
    IN  IF combined <= 0 THEN 0 ELSE (10000 * both + combined - 1) \div combined

\* letterboxImage: the image is scaled by InputSize / longSide and centred;
\* pad is twice padX.
Letterbox ==
    LET longSide == Larger(FrameWidth, FrameHeight)
    IN  [longSide |-> longSide, pad |-> InputSize - Larger(1, Rounded(FrameWidth * InputSize, longSide))]

\* A box in the coordinates of the model's input, back in those of the image,
\* and clipped to it.
Unboxed(cx, width) ==
    LET x == Rounded((2 * cx - Letterbox.pad - width) * Letterbox.longSide, 2 * InputSize)
        right == Smaller(FrameWidth, x + Rounded(width * Letterbox.longSide, InputSize))
    IN  [x |-> Larger(0, x), width |-> right - Larger(0, x)]

\* The class with the largest score, the first of equals.
BestClass(scores) ==
    CHOOSE k \in DOMAIN scores : \A j \in DOMAIN scores :
        scores[j] < scores[k] \/ (scores[j] = scores[k] /\ k <= j)

CocoToObjectClass(class) ==
    CASE class = 0 -> "pedestrian" [] class = 1 -> "bicycle" [] class = 2 -> "car"
      [] class = 3 -> "motorcycle" [] class = 5 -> "bus" [] class = 7 -> "truck"
      [] class = 9 -> "trafficLight" [] OTHER -> "unknown"

\* cv::dnn::NMSBoxes: the boxes by falling scores, ...
Before(c, i, j) == c[i].score > c[j].score \/ (c[i].score = c[j].score /\ i < j)
Ranked(c) ==
    [n \in DOMAIN c |->
        c[CHOOSE i \in DOMAIN c : Cardinality({j \in DOMAIN c : Before(c, j, i)}) = n - 1]]

\* ... each kept unless it overlaps one that is kept already.
NMSBoxes(c) ==
    LET ranked == Ranked(c)
        upTo[n \in 0..Len(c)] ==
            IF n = 0 THEN <<>>
            ELSE LET kept == upTo[n - 1]
                     box == ranked[n].box
                     stays == /\ ranked[n].score > ScoreThreshold
                              /\ \A k \in DOMAIN kept :
                                    IntersectionOverUnion(kept[k].box, box) <= NmsThreshold
                 IN  IF stays THEN Append(kept, ranked[n]) ELSE kept
    IN  upTo[Len(c)]

\* Seeded: the attributes of all rows are taken to lie behind one another.
ValueAtFault(data, rows, attributes, attributesFirst, row, attribute) ==
    data[row * attributes + attribute + 1]

ValueAt(data, rows, attributes, attributesFirst, row, attribute) ==
    data[(IF attributesFirst THEN attribute * rows + row ELSE row * attributes + attribute) + 1]

\* Seeded: the overlapping boxes stay.
SuppressedFault(candidates) == candidates
Suppressed(candidates) == NMSBoxes(candidates)

DecodeYoloOutput(data, rows, attributes, attributesFirst) ==
    LET At(row, attribute) == ValueAt(data, rows, attributes, attributesFirst, row, attribute)
        hasObjectness == attributes > CocoClasses + 4
        offset == IF hasObjectness THEN 5 ELSE 4
        Candidate(row) ==
            LET scores == [k \in 1..(attributes - offset) |->
                              At(row, offset + k - 1) * (IF hasObjectness THEN At(row, 4) ELSE 100)]
            IN  [box |-> Unboxed(At(row, 0), At(row, 2)), score |-> scores[BestClass(scores)],
                 label |-> CocoToObjectClass(BestClass(scores) - 1)]
        Likely(c) == c.score >= ScoreThreshold /\ c.box.width > 1
        all == [r \in 1..rows |-> Candidate(r - 1)]
    IN  IF rows <= 0 \/ attributes < 6 THEN <<>>
        ELSE Suppressed(Picked(all, {r \in 1..rows : Likely(all[r])}))

Transposed(data, rows, columns) ==
    [k \in DOMAIN data |-> data[((k - 1) % rows) * columns + (k - 1) \div rows + 1]]

\* What each back end makes of a tensor: its shape after the batch and its data.
\* OpenCV turns the matrix before it is decoded, and takes one without a batch.
OpenCvDetect(t) ==
    IF t.dims = 3 /\ t.shape[1] < t.shape[2]
      THEN DecodeYoloOutput(Transposed(t.data, t.shape[1], t.shape[2]), t.shape[2], t.shape[1], FALSE)
    ELSE IF t.dims \in {2, 3} THEN DecodeYoloOutput(t.data, t.shape[1], t.shape[2], FALSE)
    ELSE <<>>

OnnxRuntimeDetect(t) ==
    LET attributesFirst == t.shape[1] < t.shape[2]
    IN  IF t.dims # 3 THEN <<>>
        ELSE IF attributesFirst THEN DecodeYoloOutput(t.data, t.shape[2], t.shape[1], TRUE)
                                ELSE DecodeYoloOutput(t.data, t.shape[1], t.shape[2], FALSE)

\* Detections without a model: those of synthetic frames, a car, then a
\* pedestrian and a truck (where they are is of no account here), and those made
\* up for an image without a back end.
MadeUp(label, x, width) == [box |-> [x |-> x, width |-> width], score |-> 9000, label |-> label]
SyntheticDetections(index) ==
    <<MadeUp("car", 0, 3)>> \o (IF index > PedestrianFrom THEN <<MadeUp("pedestrian", 4, 2)>> ELSE <<>>)
                        \o (IF index > TruckFrom THEN <<MadeUp("truck", 8, 3)>> ELSE <<>>)
StandIns == <<MadeUp("car", 0, 3), MadeUp("pedestrian", 4, 2)>>

\* createDetector: the first back end of the build that loads the model (a file
\* that is not there is loaded by none).
CreateDetector(built, loads) ==
    IF "onnxRuntime" \in built \cap loads THEN "onnxRuntime"
    ELSE IF "openCv" \in built \cap loads THEN "openCv" ELSE "synthetic"

\* detect() for an image, of which the model makes t.
DetectImage(detector, t) ==
    CASE detector = "onnxRuntime" -> OnnxRuntimeDetect(t)
      [] detector = "openCv" -> OpenCvDetect(t)
      [] OTHER -> StandIns
=============================================================================
