------------------------------ MODULE MjpegView ------------------------------
(***************************************************************************)
(* MjpegView of the Qt terminal: an HTTP reply that fills a byte buffer, a *)
(* timer that takes the last complete JPEG out of it, and a timer that     *)
(* opens the stream again after it ended.  A buffer holds the starts and   *)
(* the ends of JPEG images.  All of it runs in the GUI thread.             *)
(***************************************************************************)
EXTENDS Naturals, Sequences

CONSTANTS BufferLimit,   \* 4 MB: beyond it the buffer is cut ...
          BufferKeep     \* ... down to its last 2 MB

ASSUME BufferAssumption == BufferLimit \in Nat /\ BufferKeep \in 0..BufferLimit

NoReply == 0

VARIABLES reconnectEnabled,  \* reconnectEnabled_
          timerActive,       \* reconnectTimer_ is running
          reply,             \* reply_: the connection it reads, or NoReply
          buffer,            \* buffer_
          currentFrame       \* currentFrame_, <<>> if it is null

viewVars == <<reconnectEnabled, timerActive, reply, buffer, currentFrame>>

ViewInit ==
    /\ reconnectEnabled = FALSE /\ timerActive = FALSE
    /\ reply = NoReply /\ buffer = <<>> /\ currentFrame = <<>>

----------------------------------------------------------------------------
\* start() opens the stream at once, the reconnect timer opens it again.
MayOpen == reply = NoReply /\ (~reconnectEnabled \/ timerActive)

\* openStream(): the new reply reads connection c.
OpenStream(c) ==
    /\ MayOpen
    /\ reconnectEnabled' = TRUE
    /\ timerActive' = FALSE
    /\ reply' = c
    /\ buffer' = <<>>
    /\ UNCHANGED currentFrame

\* openStream() of a reply that finishes before anything arrives.
OpenInVain ==
    /\ MayOpen
    /\ reconnectEnabled' = TRUE
    /\ timerActive' = TRUE
    /\ buffer' = <<>>
    /\ UNCHANGED <<reply, currentFrame>>

Last(s, n) == IF Len(s) > n THEN SubSeq(s, Len(s) - n + 1, Len(s)) ELSE s

\* Seeded: the buffer is not cut.
AppendBytesFault(bytes) ==
    /\ buffer' = buffer \o bytes
    /\ UNCHANGED <<reconnectEnabled, timerActive, reply, currentFrame>>

\* readyRead.
AppendBytes(bytes) ==
    LET longer == buffer \o bytes
    IN  /\ buffer' = IF Len(longer) > BufferLimit THEN Last(longer, BufferKeep) ELSE longer
        /\ UNCHANGED <<reconnectEnabled, timerActive, reply, currentFrame>>

\* Seeded: the timer is left to whoever opened the stream.
ReplyFinishedFault ==
    /\ reply # NoReply
    /\ reply' = NoReply
    /\ buffer' = <<>>
    /\ UNCHANGED <<reconnectEnabled, timerActive, currentFrame>>

\* finished: the reply goes and the reconnect timer is started.
ReplyFinished ==
    /\ reply # NoReply
    /\ reply' = NoReply
    /\ buffer' = <<>>
    /\ timerActive' = (timerActive \/ reconnectEnabled)
    /\ UNCHANGED <<reconnectEnabled, currentFrame>>

\* stop(): the reply is aborted, and what it signals later is not listened to.
StopView ==
    /\ reconnectEnabled' = FALSE /\ timerActive' = FALSE
    /\ reply' = NoReply
    /\ buffer' = <<>> /\ currentFrame' = <<>>

\* The positions of a mark in the first n places of the buffer.
Marks(mark, n) == {i \in 1..n : buffer[i].mark = mark}
LastOf(positions) == CHOOSE i \in positions : \A j \in positions : j <= i

\* Seeded: the last start in the buffer, not the last before the end.
ImageFault(end) ==
    LET starts == Marks("start", Len(buffer))
    IN  IF starts = {} THEN <<>> ELSE SubSeq(buffer, LastOf(starts), Len(buffer))

\* The bytes taken for an image: from the last start before the end.
Image(end) ==
    LET starts == Marks("start", end)
    IN  IF starts = {} THEN <<>> ELSE SubSeq(buffer, LastOf(starts), end)

\* A whole picture is decoded; of anything else the decoder makes an image
\* or nothing.
Decoded(bytes) ==
    IF bytes # <<>> /\ Len(bytes) = 2 /\ bytes[1].frame = bytes[2].frame /\ bytes[2].mark = "end"
      THEN {bytes}
      ELSE {currentFrame, bytes} \ {<<>>}

\* Seeded: only the image that is shown is taken out of the buffer.
ConsumeFramesFault ==
    LET ends == Marks("end", Len(buffer))
    IN  /\ reconnectEnabled
        /\ ends # {}
        /\ Image(LastOf(ends)) # <<>>
        /\ currentFrame' = Image(LastOf(ends))
        /\ buffer' = SubSeq(buffer, 1, LastOf(ends) - Len(currentFrame'))
                        \o SubSeq(buffer, LastOf(ends) + 1, Len(buffer))
        /\ UNCHANGED <<reconnectEnabled, timerActive, reply>>

\* consumeFrames(): the last complete image is shown, all before it is skipped.
ConsumeFrames ==
    LET ends == Marks("end", Len(buffer))
    IN  /\ reconnectEnabled
        /\ \/ /\ ends # {}
              /\ IF Image(LastOf(ends)) = <<>>
                   THEN UNCHANGED currentFrame
                   ELSE \E image \in Decoded(Image(LastOf(ends))) : currentFrame' = image
              /\ buffer' = SubSeq(buffer, LastOf(ends) + 1, Len(buffer))
           \/ /\ ends = {}
              /\ Len(buffer) > BufferKeep
              /\ buffer' = <<>>
              /\ UNCHANGED currentFrame
        /\ UNCHANGED <<reconnectEnabled, timerActive, reply>>
=============================================================================
