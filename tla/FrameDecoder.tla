---------------------------- MODULE FrameDecoder ----------------------------
(***************************************************************************)
(* FrameDecoder::push over a byte stream that recv cuts anywhere.  A frame *)
(* is its length; a byte is its position in the stream.  buf_ is appended  *)
(* to at its end only, so it always holds the last size bytes received and *)
(* buf_[i] is the byte at got - size + i.                                  *)
(***************************************************************************)
EXTENDS Integers, Sequences, FiniteSets

CONSTANTS
  Prefix,       \* bytes of the length field
  MaxFrame,     \* max_frame_size_
  Slack,        \* bytes above max_frame_size_ that may be buffered, and of one recv
  Compact,      \* consumed bytes that make push erase them
  Lens,         \* lengths that clients write into the length field
  MaxFrames     \* bound: frames of a stream

ASSUME DecoderAssumption ==
  /\ {Prefix, MaxFrame, Slack, Compact} \subseteq Nat \ {0}
  /\ Lens \subseteq Nat /\ MaxFrames \in Nat

VARIABLES
  stream,       \* lengths of the frames the client has sent so far
  start,        \* where each of them begins, and where the last of them ends
  got,          \* bytes received so far
  size,         \* buf_.size()
  read_idx, cursor,
  frames,       \* frames emitted by this call of push
  out,          \* frames the broker has handled
  pc            \* "idle", in the "loop" of push, at its "end", "fatal" (-1), "undefined"

\* What the client has sent.
sent == <<stream, start>>

decoderVars == <<stream, start, got, size, read_idx, cursor, frames, out, pc>>

DecoderInit ==
  /\ stream = <<>> /\ start = <<0>>
  /\ got = 0 /\ size = 0 /\ read_idx = 0 /\ cursor = 0
  /\ frames = <<>> /\ out = <<>> /\ pc = "idle"

StreamEnd == start[Len(start)]

\* The client sends a length field and as many bytes as it says.
Send ==
  /\ Len(stream) < MaxFrames
  /\ \E l \in Lens : stream' = Append(stream, l) /\ start' = Append(start, StreamEnd + Prefix + l)
  /\ UNCHANGED <<got, size, read_idx, cursor, frames, out, pc>>

\* Mutant: no bytes above max_frame_size_ are allowed for.
FitsTight(n) == size - read_idx + n \in 0..MaxFrame

\* The ceiling; size_t makes a negative value larger than any limit.
Fits(n) == size - read_idx + n \in 0..(MaxFrame + Slack)

\* recv and the beginning of push.
Receive ==
  \E n \in 1..Slack :
    /\ pc = "idle" /\ got + n <= StreamEnd
    /\ got' = got + n
    /\ \/ ~Fits(n) /\ pc' = "fatal" /\ UNCHANGED <<size, cursor>>
       \/ Fits(n) /\ pc' = "loop" /\ size' = size + n /\ cursor' = read_idx
    /\ UNCHANGED <<sent, read_idx, frames, out>>

Buffered == size - cursor
At == got - size + cursor

\* What the length field at the cursor says.  Away from the beginning of a frame, which
\* only a zero-length frame leads to, it may say anything.
FrameLen ==
  LET here == {i \in 1..Len(stream) : start[i] = At}
  IN  IF here = {} THEN 0..(MaxFrame + 1) ELSE {stream[i] : i \in here}

\* Less than a length field, or less than a frame.
Incomplete ==
  /\ pc = "loop"
  /\ \/ Buffered < Prefix
     \/ \E l \in FrameLen : l \in 1..MaxFrame /\ Buffered \in Prefix..(Prefix + l - 1)
  /\ pc' = "end"
  /\ UNCHANGED <<sent, got, size, read_idx, cursor, frames, out>>

\* The buffer is cleared; the cursor stays and becomes read_idx_ at the end.
ZeroLength ==
  /\ pc = "loop" /\ Buffered >= Prefix /\ 0 \in FrameLen
  /\ size' = 0 /\ pc' = "end"
  /\ UNCHANGED <<sent, got, read_idx, cursor, frames, out>>

\* The frames emitted before it in this call are dropped with the connection.
TooLong ==
  /\ pc = "loop" /\ Buffered >= Prefix /\ \E l \in FrameLen : l > MaxFrame
  /\ pc' = "fatal"
  /\ UNCHANGED <<sent, got, size, read_idx, cursor, frames, out>>

\* Mutant: the length is taken to include the length field.
EmitShort ==
  /\ pc = "loop"
  /\ \E l \in FrameLen :
       /\ l \in 1..MaxFrame /\ Buffered >= Prefix + l
       /\ frames' = Append(frames, [at |-> At, len |-> l])
       /\ cursor' = cursor + l
  /\ UNCHANGED <<sent, got, size, read_idx, out, pc>>

Emit ==
  /\ pc = "loop"
  /\ \E l \in FrameLen :
       /\ l \in 1..MaxFrame /\ Buffered >= Prefix + l
       /\ frames' = Append(frames, [at |-> At, len |-> l])
       /\ cursor' = cursor + Prefix + l
  /\ UNCHANGED <<sent, got, size, read_idx, out, pc>>

\* Mutant: consumed bytes are never erased.
EndKeeps ==
  /\ pc = "end" /\ pc' = "idle" /\ read_idx' = cursor /\ size' = size
  /\ out' = out \o frames /\ frames' = <<>>
  /\ UNCHANGED <<sent, got, cursor>>

\* The end of push and the handling of its frames.  Erasing more than the buffer holds
\* is undefined.
End ==
  /\ pc = "end"
  /\ \/ cursor < Compact /\ read_idx' = cursor /\ size' = size /\ pc' = "idle"
     \/ cursor >= Compact /\ cursor <= size /\ read_idx' = 0 /\ size' = size - cursor /\ pc' = "idle"
     \/ cursor >= Compact /\ cursor > size /\ read_idx' = 0 /\ size' = size /\ pc' = "undefined"
  /\ out' = out \o frames /\ frames' = <<>>
  /\ UNCHANGED <<sent, got, cursor>>

DecoderNext == Send \/ Receive \/ Incomplete \/ ZeroLength \/ TooLong \/ Emit \/ End

DecoderSpec == DecoderInit /\ [][DecoderNext]_decoderVars

-----------------------------------------------------------------------------
(* Properties *)

Emitted == [at : Nat, len : 1..MaxFrame]

\* Every variable has its type, and no byte is read beyond the end of buf_, also after a
\* zero-length frame has left read_idx_ past it.
DecoderTypeOK ==
  /\ stream \in Seq(Lens) /\ start \in Seq(Nat) /\ {got, size, read_idx, cursor} \subseteq Nat
  /\ frames \in Seq(Emitted) /\ out \in Seq(Emitted)
  /\ pc \in {"idle", "loop", "end", "fatal", "undefined"}

\* Frames of the stream that begin with the bytes received.
Begun == {i \in 1..Len(stream) : start[i] < got}

Legal(i) == \A j \in 1..i : stream[j] \in 1..MaxFrame

\* However recv cuts the stream, between two calls the broker has handled exactly the
\* frames that are complete, once and in order, up to the first that is malformed.
FramesExact ==
  pc = "idle" =>
    LET whole == {i \in 1..Len(stream) : Legal(i) /\ start[i + 1] <= got}
    IN  /\ \A i \in whole : i <= Len(out) /\ out[i] = [at |-> start[i], len |-> stream[i]]
        /\ (\A i \in Begun : Legal(i)) => Len(out) = Cardinality(whole)

\* The ceiling closes no connection whose frames are at least Prefix - 1 bytes below
\* max_frame_size_: only those can be pending with more than max_frame_size_ bytes.
NeverRefused ==
  pc \in {"fatal", "undefined"} =>
    \E i \in Begun : stream[i] \notin 1..(MaxFrame - (Prefix - 1))

\* Consumed bytes do not pile up: buf_ never holds more than one ceiling and what is
\* below the threshold for erasing; and the cursor of the loop stays within it, so
\* that buf_.size() - cursor does not wrap, a zero-length frame notwithstanding.
BufferBounded ==
  /\ size < Compact + MaxFrame + Slack
  /\ pc = "loop" => cursor <= size

-----------------------------------------------------------------------------
(* Why they hold *)

\* A frame begins where the one before it ends.
StreamInv ==
  /\ Len(start) = Len(stream) + 1 /\ start[1] = 0
  /\ \A i \in 1..Len(stream) : start[i + 1] = start[i] + Prefix + stream[i]
  /\ \A i, j \in 1..Len(start) : i < j => start[i] < start[j]
  /\ got <= StreamEnd

\* push keeps read_idx_ below the threshold, and its loop the cursor within buf_.
IndexInv ==
  /\ size <= got /\ read_idx < Compact /\ size < Compact + MaxFrame + Slack
  /\ pc = "loop" => cursor <= size

Done == out \o frames

\* Where push goes on reading, as an index of buf_.
Reading == IF pc = "idle" THEN read_idx ELSE cursor

\* The first k frames sent are well-formed, and are the first k emitted.
Exact(k) ==
  /\ k <= Len(stream) /\ k <= Len(Done)
  /\ \A j \in 1..k : stream[j] \in 1..MaxFrame /\ Done[j] = [at |-> start[j], len |-> stream[j]]

\* Nothing but them was emitted, and push goes on at the frame after them, which is not
\* complete when push is through.
OnTrack(k) ==
  /\ Len(Done) = k /\ Reading <= size /\ got - size + Reading = start[k + 1]
  /\ pc \in {"idle", "end"} /\ k < Len(stream) => got < start[k + 2]

\* The frame after them is malformed, and its beginning has been received.
Astray(k) == k < Len(stream) /\ stream[k + 1] \notin 1..MaxFrame /\ start[k + 1] < got

DecoderInv ==
  /\ DecoderTypeOK /\ StreamInv /\ IndexInv /\ NeverRefused
  /\ pc = "idle" => frames = <<>>
  /\ pc \in {"idle", "loop", "end"} => \E k \in 0..Len(stream) : Exact(k) /\ (OnTrack(k) \/ Astray(k))

=============================================================================
