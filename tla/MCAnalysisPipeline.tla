------------------------- MODULE MCAnalysisPipeline -------------------------
(* Instances of AnalysisPipeline for TLC, given as command lines: files     *)
(* and cameras that open, and ones that do not.                             *)
EXTENDS AnalysisPipeline, CommandLine

Frames(n) == <<Word("--frames"), Number(n)>>
File == <<Word("--video"), Word("drive.mp4")>>
Camera == <<Word("--video"), Number(0)>>
Display == <<Word("--display")>>
Record == <<Word("--output-video"), Word("out.mp4")>>
Bus == <<Word("--can"), Word("--mqtt")>>
Stream == <<Word("--stream-port"), Number(8080)>>

\* The last two are endless: a camera that does not open, and an option
\* without its value that takes the next one instead.
SomeConfigs ==
    {ConfigOf(argv, TRUE) : argv \in
        {Frames(0) \o File, File \o Bus \o Stream, Frames(2) \o Camera \o Bus,
         Frames(0) \o Camera \o Display \o Record, Frames(2) \o Display \o Stream,
         Frames(2) \o File \o Display \o Record \o Bus}}
    \cup {ConfigOf(Frames(0) \o Display \o Camera, FALSE),
          ConfigOf(<<Word("--frames")>> \o Display, TRUE)}

UnopenedCamera == {ConfigOf(Frames(0) \o Display \o Camera, FALSE)}
=============================================================================
