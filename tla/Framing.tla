-------------------------------- MODULE Framing --------------------------------
(***************************************************************************)
(* The read loop of RawClient (client.rs): bytes arrive in reads of any    *)
(* size, complete responses are split off the buffer one by one, and the   *)
(* rest waits for more.  Here no command is in flight, so every frame is   *)
(* broadcast; which command gets a frame is the subject of Dispatcher.     *)
(* The broadcast channel itself is tokio's and is left out: frames are     *)
(* those handed to it.                                                     *)
(***************************************************************************)
EXTENDS ResponseParser

CONSTANTS
    Streams,        \* what a server may send before it closes
    MaxFrame,       \* MAX_FRAME_SIZE
    MaxRead         \* bound: symbols in one read

ASSUME FramingAssumption ==
    /\ MaxFrame \in Nat /\ MaxRead \in Nat \ {0}
    /\ Streams \subseteq Seq(STRING)

VARIABLES
    stream,         \* everything the server sends
    arrived,        \* symbols of it read so far
    buffer,         \* the read buffer
    loop,           \* "read", "split", or the error all waiters were given
    frames          \* the frames broadcast, oldest first

vars == <<stream, arrived, buffer, loop, frames>>

Init ==
    /\ stream \in Streams
    /\ arrived = 0
    /\ buffer = <<>>
    /\ loop = "read"
    /\ frames = <<>>

(* read_buf returned n bytes. *)
Read(n) ==
    /\ loop = "read"
    /\ arrived + n <= Len(stream)
    /\ arrived' = arrived + n
    /\ buffer' = buffer \o SubSeq(stream, arrived + 1, arrived + n)
    /\ loop' = "split"
    /\ UNCHANGED <<stream, frames>>

(* read_buf returned 0 bytes: the server has closed. *)
ReadEof ==
    /\ loop = "read"
    /\ arrived = Len(stream)
    /\ loop' = "ConnectionClosed"
    /\ UNCHANGED <<stream, arrived, buffer, frames>>

(* read_buf failed, at any byte. *)
ReadFails ==
    /\ loop = "read"
    /\ loop' = "ConnectionClosed"
    /\ UNCHANGED <<stream, arrived, buffer, frames>>

(* Mutant: the frame is dispatched without its line break. *)
SplitFrameTrimmed(verdict) ==
    /\ verdict.st = "Ok"
    /\ frames' = Append(frames, SubSeq(buffer, 1, verdict.used - 2))
    /\ buffer' = SubSeq(buffer, verdict.used + 1, Len(buffer))
    /\ UNCHANGED loop

(* A complete response: one copy of it is dispatched. *)
SplitFrame(verdict) ==
    /\ verdict.st = "Ok"
    /\ frames' = Append(frames, SubSeq(buffer, 1, verdict.used))
    /\ buffer' = SubSeq(buffer, verdict.used + 1, Len(buffer))
    /\ UNCHANGED loop

(* Mutant: the residue is never compared with the ceiling. *)
StopSplittingUnbounded(verdict) ==
    /\ verdict.st = "Incomplete"
    /\ loop' = "read"
    /\ UNCHANGED <<buffer, frames>>

(* Mutant: the ceiling is compared with all bytes received so far. *)
StopSplittingTotal(verdict) ==
    /\ verdict.st = "Incomplete"
    /\ loop' = IF arrived > MaxFrame THEN "FrameTooLarge" ELSE "read"
    /\ UNCHANGED <<buffer, frames>>

(* The rest is one incomplete frame: wait for more unless it is too large. *)
StopSplitting(verdict) ==
    /\ verdict.st = "Incomplete"
    /\ loop' = IF Len(buffer) > MaxFrame THEN "FrameTooLarge" ELSE "read"
    /\ UNCHANGED <<buffer, frames>>

(* Mutant: after a bad frame the loop drops the buffer and reads on. *)
BadFrameSkipped(verdict) ==
    /\ verdict.st \notin {"Ok", "Incomplete"}
    /\ loop' = "read"
    /\ buffer' = <<>>
    /\ UNCHANGED frames

(* A bad frame: there is no resynchronising, the loop ends. *)
BadFrame(verdict) ==
    /\ verdict.st \notin {"Ok", "Incomplete"}
    /\ loop' = "Parse"
    /\ UNCHANGED <<buffer, frames>>

(* One turn of the inner loop.  An empty buffer is Incomplete to the       *)
(* parser, and ends the inner loop the same way.                           *)
Split ==
    /\ loop = "split"
    /\ \E verdict \in {ParseResponse(buffer)} :
          SplitFrame(verdict) \/ StopSplitting(verdict) \/ BadFrame(verdict)
    /\ UNCHANGED <<stream, arrived>>

Next ==
    \/ \E n \in 1 .. MaxRead : Read(n)
    \/ ReadEof
    \/ ReadFails
    \/ Split

Spec == Init /\ [][Next]_vars

-------------------------------------------------------------------------------
Received == SubSeq(stream, 1, arrived)

(* All the bytes received behind the first k frames. *)
Behind(k) ==
    SubSeq(Received, Len(FlattenSeq(SubSeq(frames, 1, k))) + 1, Len(Received))

(***************************************************************************)
(* However the bytes are cut into reads, the frames are those found in all *)
(* of them at once: none is missed, merged or invented at a cut, and the   *)
(* loop ends with a parse error exactly when the whole input has one there. *)
(***************************************************************************)
CutsDoNotMatter ==
    loop # "split" => \A k \in 0 .. Len(frames) :
        \E whole \in {ParseResponse(Behind(k))} :
            IF k < Len(frames)
            THEN /\ whole.st = "Ok"
                 /\ frames[k + 1] = SubSeq(Behind(k), 1, whole.used)
            ELSE /\ whole.st # "Ok"
                 /\ loop = "Parse" <=> whole.st # "Incomplete"

(***************************************************************************)
(* Every byte read is in exactly one frame or still in the buffer, in      *)
(* order, after a failure too.                                             *)
(***************************************************************************)
BytesConserved == FlattenSeq(frames) \o buffer = Received

(***************************************************************************)
(* The buffer is bounded: the ceiling is only applied to what is left of a *)
(* read, so it can be exceeded, but by one read at most.                   *)
(***************************************************************************)
BufferIsBounded == Len(buffer) <= MaxFrame + MaxRead

(* What the server sends behind the frames, the part not yet read included. *)
Unframed == SubSeq(stream, Len(FlattenSeq(frames)) + 1, Len(stream))

(***************************************************************************)
(* The ceiling never ends a connection over a response that fits: when the *)
(* loop stops with FrameTooLarge, the response it was waiting for takes    *)
(* more than MaxFrame, wherever the reads cut it, however many frames came *)
(* with it, and whatever the server has still to send.                     *)
(***************************************************************************)
RefusedFramesAreTooLarge ==
    loop = "FrameTooLarge" =>
        \E whole \in {ParseResponse(Unframed)} : whole.st = "Ok" => whole.used > MaxFrame

(***************************************************************************)
(* The comment of EVENT_CHANNEL_CAP (client.rs): "each frame may be up to  *)
(* MAX_FRAME_SIZE".                                                        *)
(***************************************************************************)
FramesWithinCeiling == \A i \in DOMAIN frames : Len(frames[i]) <= MaxFrame
================================================================================
