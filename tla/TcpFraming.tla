----------------------------- MODULE TcpFraming -----------------------------
(***************************************************************************)
(* Messages over a TCP byte stream: TcpEncoder::encode puts a two-byte     *)
(* length before each message, the stream (external) delivers the bytes in *)
(* order and in pieces of any size, and TcpFramer collects them (push) and *)
(* cuts the messages out again (nextFrame).  Its user calls push when the  *)
(* socket delivers and nextFrame at any time.                              *)
(*                                                                         *)
(* A byte has ByteBase values, so that small instances reach the limit of  *)
(* a two-byte length; both ends have the same byte order.                  *)
(***************************************************************************)
EXTENDS Integers, Sequences, SequencesExt

CONSTANTS
    ByteBase,       \* the number of values of a byte
    Message,        \* the messages sent: sequences of bytes
    MaxFrameSize,   \* _maxFrameSize: the bytes the framer holds at most
    MaxPiece,       \* the bytes one receive delivers at most
    MaxMessages     \* bound: messages sent in a behaviour

Byte == 0 .. ByteBase - 1

ASSUME ByteAssumption == ByteBase \in Nat \ {0, 1} /\ Message \subseteq Seq(Byte)
ASSUME SizeAssumption == MaxFrameSize \in Nat /\ MaxPiece \in Nat /\ MaxMessages \in Nat

VARIABLES
    stream,     \* the bytes sent and not yet received
    buffer,     \* TcpFramer::_buffer
    overflow,   \* push has thrown; the connection is given up
    sent,       \* history: the messages encoded, in order
    received    \* history: the frames taken out, in order

vars == <<stream, buffer, overflow, sent, received>>

Init ==
    /\ stream = <<>> /\ buffer = <<>>
    /\ overflow = FALSE
    /\ sent = <<>> /\ received = <<>>

-----------------------------------------------------------------------------
(* TcpEncoder *)

HeaderSize == 2

\* A uint16_t in memory.
Header(len) == <<len % ByteBase, (len \div ByteBase) % ByteBase>>

EncodeLengthOfFrame(payload) == Header(Len(payload) + HeaderSize) \o payload

\* The length is cast to 16 bits: Header drops what does not fit.
Encode(payload) == Header(Len(payload)) \o payload

Send(payload) ==
    /\ ~overflow
    /\ Len(sent) < MaxMessages
    /\ stream' = stream \o Encode(payload)
    /\ sent' = Append(sent, payload)
    /\ UNCHANGED <<buffer, overflow, received>>

-----------------------------------------------------------------------------
(* TcpFramer *)

\* frameLen, read back from the first two bytes.
FrameLen == buffer[1] + ByteBase * buffer[2]

HasFrameAndMore == Len(buffer) >= HeaderSize /\ Len(buffer) > HeaderSize + FrameLen

\* The two tests of nextFrame.
HasFrame == Len(buffer) >= HeaderSize /\ Len(buffer) >= HeaderSize + FrameLen

FitsAlways(n) == TRUE

FitsBelowLimit(n) == Len(buffer) + n < MaxFrameSize

\* push's test of the limit.
Fits(n) == Len(buffer) + n <= MaxFrameSize

\* push of a piece of n bytes.
Push(n) ==
    /\ ~overflow
    /\ n \in 1 .. Len(stream)
    /\ Fits(n)
    /\ buffer' = buffer \o SubSeq(stream, 1, n)
    /\ stream' = SubSeq(stream, n + 1, Len(stream))
    /\ UNCHANGED <<overflow, sent, received>>

\* push throws and leaves the buffer alone.
PushOverflow(n) ==
    /\ ~overflow
    /\ n \in 1 .. Len(stream)
    /\ ~Fits(n)
    /\ overflow' = TRUE
    /\ UNCHANGED <<stream, buffer, sent, received>>

EraseFrameLen == SubSeq(buffer, FrameLen + 1, Len(buffer))

\* What _buffer.erase leaves: the header goes with the frame.
EraseFrame == SubSeq(buffer, HeaderSize + FrameLen + 1, Len(buffer))

\* nextFrame with a complete frame in the buffer.  Without one it returns false and
\* changes nothing.
NextFrame ==
    /\ HasFrame
    /\ received' = Append(received, SubSeq(buffer, HeaderSize + 1, HeaderSize + FrameLen))
    /\ buffer' = EraseFrame
    /\ UNCHANGED <<stream, overflow, sent>>

Receive == \E n \in 1 .. MaxPiece : Push(n) \/ PushOverflow(n)

Next == (\E payload \in Message : Send(payload)) \/ Receive \/ NextFrame

Spec == Init /\ [][Next]_vars

\* The stream delivers what was sent, and the user of the framer goes on taking out
\* complete frames.
FairSpec == Spec /\ WF_vars(Receive) /\ WF_vars(NextFrame)

-----------------------------------------------------------------------------
(* Properties. *)

\* The framer never holds more than its limit, and what it takes out are messages
\* of bytes.
TypeOK ==
    /\ stream \in Seq(Byte) /\ buffer \in Seq(Byte)
    /\ Len(buffer) <= MaxFrameSize
    /\ overflow \in BOOLEAN
    /\ sent \in Seq(Message) /\ received \in Seq(Seq(Byte))

Messages == INSTANCE BoundedFifo
    WITH Item <- Message, Limit <- MaxMessages, accepted <- sent, delivered <- received

\* Encoder, stream and framer together are a first-in first-out channel of messages:
\* each comes out once, whole and in order, however the stream was cut into pieces.
CarriesMessages == Messages!Spec

\* "Compatible with TcpFramer": what comes out is what was sent.  It does not hold
\* for messages longer than a two-byte length can say.
FramesIntact == IsPrefix(received, sent)

\* The messages sent and not yet taken out.
Pending == SubSeq(sent, Len(received) + 1, Len(sent))

\* Between frames the framer's buffer and the stream are in step: together they hold
\* exactly the encoding of the messages sent and not yet taken out.
InStep ==
    buffer \o stream = FlattenSeq([n \in DOMAIN Pending |-> Encode(Pending[n])])

\* A user who takes out complete frames before each push never makes push throw, if
\* the limit has room for an incomplete frame and a piece.
OverflowOnlyUndrained == [][overflow' # overflow => HasFrame]_vars

\* Every message sent is taken out in the end, unless push has thrown.
EveryMessageReceived ==
    \A n \in 1 .. MaxMessages : Len(sent) >= n ~> Len(received) >= n \/ overflow
=============================================================================
