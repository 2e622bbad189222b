----------------------------- MODULE CommandLine -----------------------------
(***************************************************************************)
(* main.cpp: how the words of the command line become the configuration of *)
(* a run, and what VideoSource makes of the video it names.  Only the      *)
(* options that change what a run does are here.                           *)
(***************************************************************************)
EXTENDS Integers, Sequences

\* A word of the command line: its text, and what atoi makes of it.
Word(text) == [text |-> text, number |-> 0]
Number(n) == [text |-> "digits", number |-> n]

\* The options without a value, and all words that begin with "--".
Flags == {"--llm", "--display", "--print-detections", "--can", "--mqtt", "--mqtt-retain"}
Options == Flags \cup {"--frames", "--video", "--output-video", "--stream-port"}

\* parseArgs: an option takes the next word whatever it is, the last word takes
\* none, and what comes later replaces what came before.
ParseArgs(argv) ==
    LET Under(later, key, value) ==
            [k \in DOMAIN later \cup {key} |-> IF k \in DOMAIN later THEN later[k] ELSE value]
        from[i \in 1..(Len(argv) + 1)] ==
            IF i > Len(argv) THEN <<>>
            ELSE LET key == argv[i].text IN
                 CASE key \in Flags -> Under(from[i + 1], key, Word("true"))
                   [] key \in Options \ Flags /\ i < Len(argv) ->
                          Under(from[i + 2], key, argv[i + 1])
                   [] OTHER -> from[i + 1]
    IN  from[1]

IntArg(args, key, fallback) == IF key \in DOMAIN args THEN args[key].number ELSE fallback

\* VideoSource: digits are a camera, other text a file; whatever is not opened
\* becomes synthetic frames.
SourceOf(args, opens) ==
    IF "--video" \notin DOMAIN args \/ ~opens THEN "synthetic"
    ELSE IF args["--video"].text = "digits" THEN "camera" ELSE "file"

\* The configuration main() makes; opens: whether the video can be opened.
ConfigOf(argv, opens) ==
    LET args == ParseArgs(argv)
    IN  [telemetry |-> "--mqtt" \in DOMAIN args, can |-> "--can" \in DOMAIN args,
         display |-> "--display" \in DOMAIN args, record |-> "--output-video" \in DOMAIN args,
         stream |-> IntArg(args, "--stream-port", 0) > 0,
         frameCount |-> IntArg(args, "--frames", 60), source |-> SourceOf(args, opens)]
=============================================================================
