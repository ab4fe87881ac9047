-------------------------- MODULE TcpFramingProofs --------------------------
(***************************************************************************)
(* The safety properties of TcpFraming, for every byte width, every set of *)
(* messages and every way to cut the stream into pieces.                   *)
(*                                                                         *)
(* That the framer delivers what was sent needs more than the two          *)
(* histories: the bytes in the buffer and in the stream are the encoding of*)
(* the messages on their way (InStep), so that the two bytes at the front  *)
(* of the buffer are a length and not part of a message.  This holds for   *)
(* messages whose length two bytes can say; TLC's run tcp_framing_long     *)
(* shows what happens to the others.                                       *)
(***************************************************************************)
EXTENDS TcpFraming, DataTheorems, TLAPS

\* The longest message is one whose length fits into the header.
LengthsFit == \A payload \in Message : Len(payload) < ByteBase * ByteBase

\* There is room for an incomplete frame and a piece, whatever the message.
RoomForFrameAndPiece ==
    \A payload \in Message : HeaderSize + Len(payload) - 1 + MaxPiece <= MaxFrameSize

-----------------------------------------------------------------------------
(* Headers and types. *)

\* A length below the square of the base has two digits.
LEMMA TwoDigits ==
  ASSUME NEW M \in Nat \ {0, 1}, NEW a \in Nat, a < M * M
  PROVE  (a % M) + M * ((a \div M) % M) = a
<1>1. a \div M \in Int /\ a % M \in 0 .. M - 1 /\ a = M * (a \div M) + (a % M)
  BY ModForm
<1>2. PICK d \in Int, r \in 0 .. M - 1 : d = a \div M /\ r = a % M
  BY <1>1
<1>3. a = M * d + r
  BY <1>1, <1>2
<1>4. d < M
  <2>1. SUFFICES ASSUME d >= M PROVE FALSE
    OBVIOUS
  <2>2. M * d >= M * M
    BY <2>1
  <2>3. M * d \in Int /\ M * M \in Int
    OBVIOUS
  <2>4. QED
    BY <1>3, <2>2, <2>3
<1>5. d >= 0
  <2>1. SUFFICES ASSUME d <= -1 PROVE FALSE
    OBVIOUS
  <2>2. M * d <= -M
    BY <2>1
  <2>3. M * d \in Int
    OBVIOUS
  <2>4. QED
    BY <1>3, <2>2, <2>3
<1>6. d % M = d
  BY <1>4, <1>5
<1>7. M * ((a \div M) % M) = M * d /\ M * d \in Int
  BY <1>2, <1>6
<1>8. QED
  BY <1>2, <1>3, <1>7

\* What the encoder puts before a message, and that the framer reads the length back.
LEMMA EncodeIs ==
  ASSUME NEW payload \in Seq(Byte)
  PROVE  /\ Encode(payload) \in Seq(Byte)
         /\ Len(Encode(payload)) = HeaderSize + Len(payload)
         /\ \A n \in 1 .. Len(payload) : Encode(payload)[HeaderSize + n] = payload[n]
         /\ Len(payload) < ByteBase * ByteBase =>
               Encode(payload)[1] + ByteBase * Encode(payload)[2] = Len(payload)
<1>0. ByteBase \in Nat \ {0, 1} /\ Len(payload) \in Nat
  BY ByteAssumption
<1>1. PICK a, b : a = Len(payload) % ByteBase /\ b = (Len(payload) \div ByteBase) % ByteBase
  OBVIOUS
<1>10. a \in Byte /\ b \in Byte
  <2>1. Len(payload) \div ByteBase \in Int
    BY <1>0
  <2>2. QED
    BY <1>0, <1>1, <2>1 DEF Byte
<1>2. PICK h \in Seq(Byte) : h = <<a, b>>
  BY <1>10, PairSeq
<1>3. Len(h) = 2 /\ h[1] = a /\ h[2] = b
  BY <1>2, <1>10, PairSeq
<1>4. Encode(payload) = h \o payload
  BY <1>1, <1>2 DEF Encode, Header
<1>5. /\ h \o payload \in Seq(Byte) /\ Len(h \o payload) = 2 + Len(payload)
      /\ \A n \in 1 .. 2 + Len(payload) :
            (h \o payload)[n] = IF n <= 2 THEN h[n] ELSE payload[n - 2]
  <2>1. /\ h \o payload \in Seq(Byte) /\ Len(h \o payload) = Len(h) + Len(payload)
        /\ \A n \in 1 .. Len(h) + Len(payload) :
              (h \o payload)[n] = IF n <= Len(h) THEN h[n] ELSE payload[n - Len(h)]
    BY ConcatProperties
  <2>2. QED
    BY <1>3, <2>1, Zenon
<1>6. (h \o payload)[1] = a /\ (h \o payload)[2] = b
  BY <1>0, <1>3, <1>5
<1>7. \A n \in 1 .. Len(payload) : (h \o payload)[2 + n] = payload[n]
  BY <1>0, <1>5
<1>8. Len(payload) < ByteBase * ByteBase => a + ByteBase * b = Len(payload)
  BY <1>0, <1>1, TwoDigits
<1>9. QED
  BY <1>4, <1>5, <1>6, <1>7, <1>8 DEF HeaderSize

\* Every step keeps the types; what is cut out of the buffer is a message of bytes.
LEMMA NextTypeOK == TypeOK /\ [Next]_vars => TypeOK'
<1>0. SUFFICES ASSUME TypeOK, [Next]_vars PROVE TypeOK'
  OBVIOUS
<1>1. ASSUME NEW payload \in Message, Send(payload) PROVE TypeOK'
  <2>1. payload \in Seq(Byte)
    BY ByteAssumption
  <2>2. Encode(payload) \in Seq(Byte)
    BY <2>1, EncodeIs
  <2>3. stream \o Encode(payload) \in Seq(Byte)
    BY <1>0, <2>2, ConcatProperties DEF TypeOK
  <2>4. Append(sent, payload) \in Seq(Message)
    BY <1>0 DEF TypeOK
  <2>5. QED
    BY <1>0, <1>1, <2>3, <2>4 DEF TypeOK, Send
<1>2. ASSUME NEW n \in 1 .. MaxPiece, Push(n) PROVE TypeOK'
  <2>1. n \in 1 .. Len(stream) /\ stream \in Seq(Byte) /\ buffer \in Seq(Byte)
    BY <1>0, <1>2 DEF TypeOK, Push
  <2>2. PICK a \in Seq(Byte) : a = SubSeq(stream, 1, n) /\ Len(a) = n
    <3>1. 1 \in Int /\ n \in Int /\ 1 <= n + 1 /\ n <= Len(stream) /\ (n - 1) + 1 = n /\ 1 <= 1
      BY <2>1
    <3>2. SubSeq(stream, 1, n) \in Seq(Byte) /\ Len(SubSeq(stream, 1, n)) = (n - 1) + 1
      BY <2>1, <3>1, CutIs, ZenonT(60)
    <3>3. QED
      BY <3>1, <3>2
  <2>3. SubSeq(stream, n + 1, Len(stream)) \in Seq(Byte)
    BY <2>1, SubSeqProperties
  <2>4. buffer \o a \in Seq(Byte) /\ Len(buffer \o a) = Len(buffer) + n
    BY <2>1, <2>2, ConcatProperties
  <2>5. QED
    BY <1>0, <1>2, <2>2, <2>3, <2>4 DEF TypeOK, Push, Fits
<1>3. ASSUME NEW n \in 1 .. MaxPiece, PushOverflow(n) PROVE TypeOK'
  BY <1>0, <1>3 DEF TypeOK, PushOverflow
<1>4. CASE NextFrame
  <2>1. /\ buffer \in Seq(Byte) /\ Len(buffer) \in Nat /\ Len(buffer) >= 2
        /\ Len(buffer) >= 2 + FrameLen /\ Len(buffer) <= MaxFrameSize
    BY <1>0, <1>4 DEF TypeOK, NextFrame, HasFrame, HeaderSize
  <2>2. FrameLen \in Nat
    <3>1. buffer[1] \in Nat /\ buffer[2] \in Nat /\ ByteBase \in Nat
      BY <2>1, ByteAssumption DEF Byte
    <3>2. QED
      BY <3>1 DEF FrameLen
  <2>3. PICK f \in Nat : f = FrameLen
    BY <2>2
  <2>4. SubSeq(buffer, 2 + 1, 2 + f) \in Seq(Byte)
    BY <2>1, <2>3, SubSeqProperties
  <2>5. PICK r \in Seq(Byte) : r = SubSeq(buffer, 2 + f + 1, Len(buffer)) /\ Len(r) <= Len(buffer)
    <3>1. PICK m \in Nat, n \in Nat : m = 2 + f + 1 /\ n = Len(buffer)
      BY <2>1
    <3>2. 1 <= m /\ m <= n + 1 /\ n <= Len(buffer) /\ (n - m) + 1 <= n
      BY <2>1, <2>3, <3>1
    <3>3. SubSeq(buffer, m, n) \in Seq(Byte) /\ Len(SubSeq(buffer, m, n)) = (n - m) + 1
      BY <2>1, <3>2, CutIs
    <3>4. QED
      BY <3>1, <3>2, <3>3
  <2>6. buffer' = r /\ received' = Append(received, SubSeq(buffer, 2 + 1, 2 + f))
    BY <1>4, <2>3, <2>5 DEF NextFrame, EraseFrame, HeaderSize
  <2>7. Len(buffer') <= MaxFrameSize /\ buffer' \in Seq(Byte)
    BY <2>1, <2>5, <2>6, SizeAssumption
  <2>8. received' \in Seq(Seq(Byte))
    BY <1>0, <2>4, <2>6 DEF TypeOK
  <2>9. QED
    BY <1>0, <1>4, <2>7, <2>8 DEF TypeOK, NextFrame
<1>5. CASE UNCHANGED vars
  BY <1>0, <1>5 DEF vars, TypeOK
<1>6. QED
  BY <1>0, <1>1, <1>2, <1>3, <1>4, <1>5 DEF Next, Receive

\* At the start there is nothing anywhere.
LEMMA FramingTypeInit == Init => TypeOK
<1>1. \A S : <<>> \in Seq(S) /\ Len(<<>>) = 0
  BY EmptySeq
<1>2. 0 <= MaxFrameSize
  BY SizeAssumption
<1>3. QED
  BY <1>1, <1>2, Zenon DEF Init, TypeOK

\* The framer never holds more than its limit, whatever it is fed, and what it takes
\* out are sequences of bytes.
THEOREM FramingTypeCorrect == Spec => []TypeOK
  BY FramingTypeInit, NextTypeOK, PTL DEF Spec

-----------------------------------------------------------------------------
(* The messages on their way. *)

\* The encodings of some messages.
FramesOf(p) == [n \in DOMAIN p |-> Encode(p[n])]

\* They are sequences of bytes, as many as there are messages.
LEMMA FramesAre ==
  ASSUME NEW p \in Seq(Message)
  PROVE  /\ FramesOf(p) \in Seq(Seq(Byte)) /\ Len(FramesOf(p)) = Len(p)
         /\ \A n \in 1 .. Len(p) : FramesOf(p)[n] = Encode(p[n])
<1>1. DOMAIN p = 1 .. Len(p) /\ Len(p) \in Nat
  OBVIOUS
<1>2. \A n \in 1 .. Len(p) : Encode(p[n]) \in Seq(Byte)
  <2>1. \A n \in 1 .. Len(p) : p[n] \in Seq(Byte)
    BY ByteAssumption
  <2>2. QED
    BY <2>1, EncodeIs
<1>3. FramesOf(p) = [n \in 1 .. Len(p) |-> Encode(p[n])]
  BY <1>1 DEF FramesOf
<1>4. FramesOf(p) \in Seq(Seq(Byte)) /\ Len(FramesOf(p)) = Len(p)
  <2>1. PICK m \in Nat : m = Len(p)
    BY <1>1
  <2>2. FramesOf(p) \in [1 .. m -> Seq(Byte)]
    BY <1>2, <1>3, <2>1
  <2>3. \A T : \A f \in [1 .. m -> T] : f \in Seq(T) /\ Len(f) = m
    OBVIOUS
  <2>4. QED
    BY <2>1, <2>2, <2>3, SMTT(30)
<1>5. QED
  BY <1>3, <1>4

\* A message more is an encoding more.
LEMMA FramesAppend ==
  ASSUME NEW p \in Seq(Message), NEW x \in Message
  PROVE  FramesOf(Append(p, x)) = Append(FramesOf(p), Encode(x))
<1>1. PICK q \in Seq(Message) : q = Append(p, x)
  BY AppendProperties
<1>2. /\ Len(q) = Len(p) + 1 /\ Len(p) \in Nat /\ q[Len(p) + 1] = x
      /\ \A n \in 1 .. Len(p) : q[n] = p[n]
  BY <1>1, AppendProperties
<1>3. PICK f \in Seq(Seq(Byte)) : f = FramesOf(p)
  BY FramesAre
<1>4. Encode(x) \in Seq(Byte)
  BY EncodeIs, ByteAssumption
<1>5. PICK g \in Seq(Seq(Byte)) : g = Append(f, Encode(x))
  BY <1>4, AppendProperties
<1>6. /\ Len(f) = Len(p) /\ Len(g) = Len(f) + 1 /\ g[Len(f) + 1] = Encode(x)
      /\ \A n \in 1 .. Len(f) : g[n] = f[n]
      /\ \A n \in 1 .. Len(p) : f[n] = Encode(p[n])
  BY <1>3, <1>4, <1>5, FramesAre, AppendProperties
<1>7. PICK h \in Seq(Seq(Byte)) : h = FramesOf(q)
  BY FramesAre
<1>8. Len(h) = Len(q) /\ \A n \in 1 .. Len(q) : h[n] = Encode(q[n])
  BY <1>7, FramesAre
<1>9. ASSUME NEW n \in 1 .. Len(q) PROVE h[n] = g[n]
  <2>1. CASE n = Len(p) + 1
    BY <1>2, <1>6, <1>8, <2>1
  <2>2. CASE n # Len(p) + 1
    <3>1. n \in 1 .. Len(p)
      BY <1>2, <2>2
    <3>2. QED
      BY <1>2, <1>6, <1>8, <3>1
  <2>3. QED
    BY <2>1, <2>2
<1>10. h = g
  <2>1. Len(h) = Len(g) /\ \A n \in 1 .. Len(h) : h[n] = g[n]
    BY <1>2, <1>6, <1>8, <1>9
  <2>2. QED
    BY <2>1, SeqEqual
<1>11. QED
  BY <1>1, <1>3, <1>5, <1>7, <1>10

\* The first message less is the first encoding less.
LEMMA FramesTail ==
  ASSUME NEW p \in Seq(Message), p # <<>>
  PROVE  /\ FramesOf(p) # <<>> /\ FramesOf(p)[1] = Encode(p[1])
         /\ Tail(FramesOf(p)) = FramesOf(Tail(p))
<1>1. PICK q \in Seq(Message) : q = Tail(p)
  BY HeadTailProperties
<1>2. Len(p) \in Nat \ {0} /\ Len(q) = Len(p) - 1 /\ \A n \in 1 .. Len(q) : q[n] = p[n + 1]
  BY <1>1, HeadTailProperties
<1>3. PICK f \in Seq(Seq(Byte)) : f = FramesOf(p)
  BY FramesAre
<1>4. Len(f) = Len(p) /\ \A n \in 1 .. Len(p) : f[n] = Encode(p[n])
  BY <1>3, FramesAre
<1>5. f # <<>> /\ f[1] = Encode(p[1])
  BY <1>2, <1>4
<1>6. PICK g \in Seq(Seq(Byte)) : g = Tail(f)
  BY <1>5, HeadTailProperties
<1>7. Len(g) = Len(f) - 1 /\ \A n \in 1 .. Len(g) : g[n] = f[n + 1]
  BY <1>5, <1>6, HeadTailProperties
<1>8. PICK h \in Seq(Seq(Byte)) : h = FramesOf(q)
  BY FramesAre
<1>9. Len(h) = Len(q) /\ \A n \in 1 .. Len(q) : h[n] = Encode(q[n])
  BY <1>8, FramesAre
<1>10. ASSUME NEW n \in 1 .. Len(q) PROVE g[n] = h[n]
  <2>1. n + 1 \in 1 .. Len(p) /\ n \in 1 .. Len(g)
    BY <1>2, <1>4, <1>7
  <2>2. QED
    BY <1>2, <1>4, <1>7, <1>9, <2>1
<1>11. g = h
  BY <1>2, <1>4, <1>7, <1>9, <1>10, SeqEqual
<1>12. QED
  BY <1>1, <1>3, <1>5, <1>6, <1>8, <1>11

-----------------------------------------------------------------------------
(* Encoder, stream and framer stay in step. *)

\* The inductive invariant.
IInv == TypeOK /\ Len(received) <= Len(sent) /\ InStep

\* InStep, with a name for the encodings.
LEMMA InStepIs == InStep <=> buffer \o stream = FlattenSeq(FramesOf(Pending))
  BY DEF InStep, FramesOf

\* The messages on their way are the last of those sent.
LEMMA PendingIs ==
  ASSUME TypeOK, Len(received) <= Len(sent)
  PROVE  /\ Len(sent) \in Nat /\ Len(received) \in Nat
         /\ Pending \in Seq(Message) /\ Len(Pending) = Len(sent) - Len(received)
         /\ \A n \in 1 .. Len(sent) - Len(received) : Pending[n] = sent[Len(received) + n]
<1>1. sent \in Seq(Message) /\ Len(sent) \in Nat /\ Len(received) \in Nat
  BY DEF TypeOK
<1>2. PICK m \in Int, k \in Int : m = Len(received) + 1 /\ k = Len(sent)
  BY <1>1
<1>3. 1 <= m /\ m <= k + 1 /\ k <= Len(sent) /\ Pending = SubSeq(sent, m, k)
  BY <1>1, <1>2 DEF Pending
<1>4. /\ Pending \in Seq(Message) /\ Len(Pending) = (k - m) + 1
      /\ \A n \in 1 .. (k - m) + 1 : Pending[n] = sent[(m + n) - 1]
  BY <1>1, <1>3, CutIs
<1>5. (k - m) + 1 = Len(sent) - Len(received)
  BY <1>1, <1>2
<1>6. ASSUME NEW n \in 1 .. Len(sent) - Len(received) PROVE Pending[n] = sent[Len(received) + n]
  <2>1. n \in 1 .. (k - m) + 1
    BY <1>5
  <2>2. (m + n) - 1 = Len(received) + n
    BY <1>1, <1>2
  <2>3. QED
    BY <1>4, <2>1, <2>2
<1>7. QED
  BY <1>1, <1>4, <1>5, <1>6

\* Sending adds a message to them.
LEMMA PendingSend ==
  ASSUME IInv, TypeOK', NEW x \in Message, Send(x)
  PROVE  Pending' = Append(Pending, x) /\ Len(received') <= Len(sent')
<1>1. TypeOK /\ Len(received) <= Len(sent) /\ sent' = Append(sent, x) /\ received' = received
  BY DEF IInv, Send
<1>2. /\ Len(sent) \in Nat /\ Len(received) \in Nat /\ Pending \in Seq(Message)
      /\ Len(Pending) = Len(sent) - Len(received)
      /\ \A n \in 1 .. Len(sent) - Len(received) : Pending[n] = sent[Len(received) + n]
  BY <1>1, PendingIs
<1>3. /\ Len(sent') = Len(sent) + 1 /\ sent'[Len(sent) + 1] = x /\ sent' \in Seq(Message)
      /\ \A n \in 1 .. Len(sent) : sent'[n] = sent[n]
  BY <1>1, AppendProperties DEF TypeOK
<1>4. PICK q \in Seq(Message) : q = Append(Pending, x)
  BY <1>2, AppendProperties
<1>5. /\ Len(q) = Len(Pending) + 1 /\ q[Len(Pending) + 1] = x
      /\ \A n \in 1 .. Len(Pending) : q[n] = Pending[n]
  BY <1>2, <1>4, AppendProperties
<1>6. PICK m \in Int, k \in Int : m = Len(received) + 1 /\ k = Len(sent')
  BY <1>2, <1>3
<1>7. 1 <= m /\ m <= k + 1 /\ k <= Len(sent') /\ Pending' = SubSeq(sent', m, k)
  BY <1>1, <1>2, <1>3, <1>6 DEF Pending
<1>8. PICK p \in Seq(Message) : p = Pending'
  BY <1>3, <1>7, CutIs
<1>9. Len(p) = (k - m) + 1 /\ \A n \in 1 .. (k - m) + 1 : p[n] = sent'[(m + n) - 1]
  BY <1>3, <1>7, <1>8, CutIs
<1>10. Len(p) = Len(q) /\ (k - m) + 1 = Len(q)
  BY <1>2, <1>3, <1>5, <1>6, <1>9
<1>14. PICK a \in Nat, b \in Nat : /\ a = Len(sent) /\ b = Len(received) /\ b <= a
                                  /\ Len(Pending) = a - b /\ Len(q) = (a - b) + 1
  BY <1>1, <1>2, <1>5
<1>11. ASSUME NEW n \in 1 .. Len(q) PROVE p[n] = q[n]
  <2>1. p[n] = sent'[Len(received) + n]
    <3>1. (m + n) - 1 = Len(received) + n
      BY <1>2, <1>6
    <3>2. QED
      BY <1>9, <1>10, <3>1
  <2>2. CASE n = Len(Pending) + 1
    <3>1. Len(received) + n = Len(sent) + 1
      BY <1>2, <2>2
    <3>2. QED
      BY <1>3, <1>5, <2>1, <2>2, <3>1
  <2>3. CASE n # Len(Pending) + 1
    <3>1. /\ n \in 1 .. Len(Pending) /\ n \in 1 .. Len(sent) - Len(received)
          /\ Len(received) + n \in 1 .. Len(sent)
      BY <1>14, <2>3
    <3>2. q[n] = Pending[n] /\ Pending[n] = sent[Len(received) + n]
      BY <1>2, <1>5, <3>1
    <3>3. sent'[Len(received) + n] = sent[Len(received) + n]
      BY <1>3, <3>1
    <3>4. QED
      BY <2>1, <3>2, <3>3
  <2>4. QED
    BY <2>2, <2>3
<1>12. p = q
  <2>1. Len(p) = Len(q) /\ \A n \in 1 .. Len(p) : p[n] = q[n]
    BY <1>10, <1>11
  <2>2. QED
    BY <2>1, SeqEqual
<1>13. QED
  BY <1>1, <1>2, <1>3, <1>4, <1>8, <1>12

\* Taking out a frame removes the first of them.
LEMMA PendingTake ==
  ASSUME IInv, TypeOK', Len(received) < Len(sent), sent' = sent, Len(received') = Len(received) + 1
  PROVE  /\ Pending \in Seq(Message) /\ Pending # <<>> /\ Pending[1] = sent[Len(received) + 1]
         /\ Pending' = Tail(Pending) /\ Len(received') <= Len(sent')
<1>1. TypeOK /\ Len(received) <= Len(sent) /\ sent \in Seq(Message)
  BY DEF IInv, TypeOK
<1>2. /\ Len(sent) \in Nat /\ Len(received) \in Nat /\ Pending \in Seq(Message)
      /\ Len(Pending) = Len(sent) - Len(received)
      /\ \A n \in 1 .. Len(sent) - Len(received) : Pending[n] = sent[Len(received) + n]
  BY <1>1, PendingIs
<1>3. Pending # <<>> /\ Pending[1] = sent[Len(received) + 1]
  BY <1>2
<1>4. PICK m \in Int, k \in Int : m = Len(received) + 1 /\ k = Len(sent)
  BY <1>2
<1>5. /\ m \in 1 .. Len(sent) /\ k \in m .. Len(sent)
      /\ Pending = SubSeq(sent, m, k) /\ Pending' = SubSeq(sent, m + 1, k)
  BY <1>2, <1>4 DEF Pending
<1>6. Tail(SubSeq(sent, m, k)) = SubSeq(sent, m + 1, k)
  BY <1>1, <1>5, HeadTailOfSubSeq
<1>7. Pending' = Tail(Pending)
  BY <1>5, <1>6, Zenon
<1>8. Len(received') <= Len(sent')
  BY <1>2
<1>9. QED
  BY <1>2, <1>3, <1>7, <1>8

\* The two bytes at the front of the buffer are the length of the next message, and
\* what follows is the message.
LEMMA FrontOfBuffer ==
  ASSUME IInv, LengthsFit, Len(buffer) >= HeaderSize
  PROVE  /\ Len(received) < Len(sent) /\ sent[Len(received) + 1] \in Message
         /\ FrameLen = Len(sent[Len(received) + 1])
<1>1. TypeOK /\ Len(received) <= Len(sent) /\ sent \in Seq(Message) /\ buffer \in Seq(Byte)
      /\ stream \in Seq(Byte)
  BY DEF IInv, TypeOK
<1>2. PICK p \in Seq(Message) : p = Pending /\ Len(p) = Len(sent) - Len(received)
  BY <1>1, PendingIs
<1>3. PICK x \in Seq(Byte) : x = buffer \o stream /\ x = FlattenSeq(FramesOf(p))
  <2>1. buffer \o stream \in Seq(Byte)
    BY <1>1, ConcatProperties
  <2>2. buffer \o stream = FlattenSeq(FramesOf(p))
    BY <1>2, InStepIs DEF IInv
  <2>3. QED
    BY <2>1, <2>2
<1>4. Len(buffer) \in Nat /\ Len(stream) \in Nat /\ Len(buffer) >= 2 /\ Len(x) >= Len(buffer)
  <2>1. Len(buffer \o stream) = Len(buffer) + Len(stream)
    BY <1>1, ConcatProperties
  <2>2. Len(buffer) \in Nat /\ Len(stream) \in Nat
    BY <1>1
  <2>3. QED
    BY <1>3, <2>1, <2>2 DEF HeaderSize
<1>5. p # <<>>
  <2>1. SUFFICES ASSUME p = <<>> PROVE FALSE
    OBVIOUS
  <2>2. FramesOf(p) \in Seq(Seq(Byte)) /\ Len(FramesOf(p)) = 0
    BY <2>1, FramesAre, EmptySeq
  <2>3. FlattenSeq(FramesOf(p)) = FramesOf(p)
    BY <2>2 DEF FlattenSeq
  <2>4. QED
    BY <1>3, <1>4, <2>2, <2>3
<1>6. Len(received) < Len(sent) /\ p[1] = sent[Len(received) + 1] /\ p[1] \in Message
  <2>1. Len(p) \in Nat \ {0}
    BY <1>5
  <2>2. p[1] \in Message /\ 1 \in 1 .. Len(p)
    BY <2>1
  <2>3. Len(sent) \in Nat /\ Len(received) \in Nat
    BY <1>1, PendingIs
  <2>4. p[1] = sent[Len(received) + 1]
    BY <1>1, <1>2, <2>2, PendingIs
  <2>5. QED
    BY <1>2, <2>1, <2>2, <2>3, <2>4
<1>7. PICK e \in Seq(Byte) : /\ e = Encode(p[1]) /\ Len(e) = 2 + Len(p[1])
                             /\ e[1] + ByteBase * e[2] = Len(p[1]) /\ Len(p[1]) \in Nat
  <2>1. p[1] \in Seq(Byte) /\ Len(p[1]) < ByteBase * ByteBase
    BY <1>6, ByteAssumption DEF LengthsFit
  <2>2. /\ Encode(p[1]) \in Seq(Byte) /\ Len(Encode(p[1])) = HeaderSize + Len(p[1])
        /\ Encode(p[1])[1] + ByteBase * Encode(p[1])[2] = Len(p[1])
    BY <2>1, EncodeIs
  <2>3. Len(p[1]) \in Nat
    BY <2>1
  <2>4. QED
    BY <2>2, <2>3, Zenon DEF HeaderSize
<1>8. PICK r \in Seq(Byte) : x = e \o r
  <2>1. PICK f \in Seq(Seq(Byte)) : f = FramesOf(p) /\ f # <<>> /\ f[1] = e
    BY <1>5, <1>7, FramesAre, FramesTail
  <2>2. Tail(f) \in Seq(Seq(Byte))
    BY <2>1, HeadTailProperties
  <2>3. FlattenSeq(Tail(f)) \in Seq(Byte)
    BY <2>2, FlattenType
  <2>4. FlattenSeq(f) = f[1] \o FlattenSeq(Tail(f))
    BY <2>1, FlattenHead
  <2>5. QED
    BY <1>3, <2>1, <2>3, <2>4
<1>9. buffer[1] = e[1] /\ buffer[2] = e[2]
  <2>1. /\ Len(x) = Len(buffer) + Len(stream)
        /\ \A n \in 1 .. Len(buffer) + Len(stream) :
              x[n] = IF n <= Len(buffer) THEN buffer[n] ELSE stream[n - Len(buffer)]
    <3>1. /\ Len(buffer \o stream) = Len(buffer) + Len(stream)
          /\ \A n \in 1 .. Len(buffer) + Len(stream) :
                (buffer \o stream)[n] =
                   IF n <= Len(buffer) THEN buffer[n] ELSE stream[n - Len(buffer)]
      BY <1>1, ConcatProperties
    <3>2. QED
      BY <1>3, <3>1, Zenon
  <2>2. \A n \in 1 .. Len(e) + Len(r) : x[n] = IF n <= Len(e) THEN e[n] ELSE r[n - Len(e)]
    BY <1>8, ConcatProperties
  <2>3. Len(r) \in Nat
    OBVIOUS
  <2>4. x[1] = buffer[1] /\ x[2] = buffer[2]
    BY <1>4, <2>1
  <2>5. x[1] = e[1] /\ x[2] = e[2]
    <3>1. /\ 1 \in 1 .. Len(e) + Len(r) /\ 1 <= Len(e)
          /\ 2 \in 1 .. Len(e) + Len(r) /\ 2 <= Len(e)
      BY <1>7, <2>3
    <3>2. QED
      BY <2>2, <3>1
  <2>6. QED
    BY <2>4, <2>5
<1>10. QED
  BY <1>6, <1>7, <1>9 DEF FrameLen

\* A message is sent: its encoding comes last.
LEMMA SendInStep ==
  ASSUME IInv, TypeOK', NEW x \in Message, Send(x)
  PROVE  IInv'
<1>1. /\ buffer \in Seq(Byte) /\ stream \in Seq(Byte) /\ buffer' = buffer
      /\ stream' = stream \o Encode(x)
  BY DEF IInv, TypeOK, Send
<1>2. PICK e \in Seq(Byte) : e = Encode(x)
  BY EncodeIs, ByteAssumption
<1>3. PICK p \in Seq(Message) : p = Pending
  BY PendingIs DEF IInv
<1>4. PICK f \in Seq(Seq(Byte)) : f = FramesOf(p)
  BY FramesAre
<1>5. FlattenSeq(f) \in Seq(Byte) /\ buffer \o stream = FlattenSeq(f)
  BY <1>3, <1>4, FlattenType, InStepIs DEF IInv
<1>6. Then(Then(buffer, stream), e) = Then(buffer, Then(stream, e))
  BY <1>1, ConcatTwice
<1>7. buffer' \o stream' = FlattenSeq(f) \o e
  BY <1>1, <1>2, <1>5, <1>6, Zenon DEF Then
<1>8. FlattenSeq(Append(f, e)) = FlattenSeq(f) \o e
  BY <1>5, FlattenAppend
<1>9. FramesOf(Pending') = Append(f, e)
  BY <1>2, <1>3, <1>4, PendingSend, FramesAppend
<1>10. InStep'
  BY <1>7, <1>8, <1>9 DEF InStep, FramesOf
<1>11. QED
  BY <1>10, PendingSend DEF IInv

\* A piece moves from the stream to the buffer: together they hold the same bytes.
LEMMA PushInStep ==
  ASSUME IInv, TypeOK', NEW n \in 1 .. MaxPiece, Push(n)
  PROVE  IInv'
<1>1. /\ buffer \in Seq(Byte) /\ stream \in Seq(Byte) /\ n \in 1 .. Len(stream)
      /\ buffer' = buffer \o SubSeq(stream, 1, n)
      /\ stream' = SubSeq(stream, n + 1, Len(stream))
      /\ UNCHANGED <<sent, received>>
  BY DEF IInv, TypeOK, Push
<1>2. PICK a \in Seq(Byte), b \in Seq(Byte) :
         a = SubSeq(stream, 1, n) /\ b = SubSeq(stream, n + 1, Len(stream)) /\ a \o b = stream
  <2>1. PICK k \in Nat : k = Len(stream) /\ n \in Int /\ 1 <= n /\ n <= k
    BY <1>1
  <2>2. 1 <= n + 1 /\ n + 1 <= k + 1 /\ 1 <= 1 /\ k <= k
    BY <2>1
  <2>3. SubSeq(stream, 1, n) \in Seq(Byte)
    BY <1>1, <2>1, <2>2, CutIs
  <2>4. SubSeq(stream, n + 1, k) \in Seq(Byte)
    BY <1>1, <2>1, <2>2, CutIs
  <2>5. SubSeq(stream, 1, n) \o SubSeq(stream, n + 1, k) = SubSeq(stream, 1, k)
    BY <1>1, <2>1, ConcatAdjacentSubSeq
  <2>6. SubSeq(stream, 1, k) = stream
    BY <1>1, <2>1, SubSeqFull
  <2>7. QED
    BY <2>1, <2>3, <2>4, <2>5, <2>6
<1>3. Then(Then(buffer, a), b) = Then(buffer, Then(a, b))
  BY <1>1, ConcatTwice
<1>4. buffer' \o stream' = buffer \o stream
  BY <1>1, <1>2, <1>3, Zenon DEF Then
<1>5. Pending' = Pending
  BY <1>1 DEF Pending
<1>6. InStep'
  BY <1>4, <1>5 DEF IInv, InStep
<1>7. QED
  BY <1>1, <1>6 DEF IInv

\* A frame is taken out: it is the next message, whole, and the buffer begins with the
\* header of the one after it.
LEMMA FrameTaken ==
  ASSUME IInv, TypeOK', LengthsFit, NextFrame
  PROVE  /\ Len(received) < Len(sent) /\ UNCHANGED sent
         /\ received' = Append(received, sent[Len(received) + 1])
         /\ IInv'
<1>1. /\ buffer \in Seq(Byte) /\ stream \in Seq(Byte) /\ received \in Seq(Seq(Byte))
      /\ Len(buffer) \in Nat /\ Len(buffer) >= 2 /\ Len(buffer) >= 2 + FrameLen
      /\ buffer' = SubSeq(buffer, 2 + FrameLen + 1, Len(buffer)) /\ UNCHANGED <<stream, sent>>
      /\ received' = Append(received, SubSeq(buffer, 2 + 1, 2 + FrameLen))
  BY DEF IInv, TypeOK, NextFrame, HasFrame, EraseFrame, HeaderSize
<1>2. PICK x \in Message : x = sent[Len(received) + 1] /\ FrameLen = Len(x) /\ Len(received) < Len(sent)
  BY <1>1, FrontOfBuffer DEF HeaderSize
<1>3. x \in Seq(Byte) /\ Len(x) \in Nat
  BY ByteAssumption
<1>4. Len(received') = Len(received) + 1
  BY <1>1
<1>5. PICK p \in Seq(Message) : p = Pending /\ p # <<>> /\ p[1] = x /\ Pending' = Tail(p)
  BY <1>1, <1>2, <1>4, PendingTake
<1>6. PICK e \in Seq(Byte) : /\ e = Encode(x) /\ Len(e) = 2 + Len(x)
                             /\ \A n \in 1 .. Len(x) : e[2 + n] = x[n]
  BY <1>3, EncodeIs DEF HeaderSize
<1>7. PICK f \in Seq(Seq(Byte)) : f = FramesOf(p) /\ f # <<>> /\ f[1] = e /\ Tail(f) = FramesOf(Pending')
  BY <1>5, <1>6, FramesAre, FramesTail
<1>8. PICK r \in Seq(Byte) : r = FlattenSeq(Tail(f))
  BY <1>7, HeadTailProperties, FlattenType
<1>9. buffer \o stream = e \o r
  <2>1. FlattenSeq(f) = f[1] \o FlattenSeq(Tail(f))
    BY <1>7, FlattenHead
  <2>2. buffer \o stream = FlattenSeq(f)
    BY <1>5, <1>7, InStepIs DEF IInv
  <2>3. QED
    BY <1>7, <1>8, <2>1, <2>2, Zenon
<1>10. Len(e) <= Len(buffer)
  BY <1>1, <1>2, <1>6
<1>11. /\ \A n \in 1 .. Len(e) : buffer[n] = e[n]
       /\ SubSeq(buffer, Len(e) + 1, Len(buffer)) \o stream = r
  <2>1. buffer \in Seq(Byte) /\ stream \in Seq(Byte)
    BY <1>1
  <2>2. QED
    BY <1>9, <1>10, <2>1, CutFront, ZenonT(60)
<1>12. InStep'
  <2>0. 2 + FrameLen = Len(e)
    BY <1>2, <1>6
  <2>1. buffer' = SubSeq(buffer, Len(e) + 1, Len(buffer))
    BY <1>1, <2>0, Zenon
  <2>2. buffer' \o stream' = FlattenSeq(FramesOf(Pending'))
    BY <1>1, <1>7, <1>8, <1>11, <2>1, Zenon
  <2>3. QED
    BY <2>2 DEF InStep, FramesOf
<1>13. SubSeq(buffer, 2 + 1, 2 + Len(x)) = x
  <2>1. PICK m \in Int, k \in Int : m = 2 + 1 /\ k = 2 + Len(x)
    BY <1>3
  <2>2. /\ 1 <= m /\ m <= k + 1 /\ k <= Len(buffer) /\ (k - m) + 1 = Len(x)
        /\ \A n \in Int : (m + n) - 1 = 2 + n
    BY <1>1, <1>2, <1>3, <2>1
  <2>3. PICK y \in Seq(Byte) : /\ y = SubSeq(buffer, m, k) /\ Len(y) = (k - m) + 1
                               /\ \A n \in 1 .. (k - m) + 1 : y[n] = buffer[(m + n) - 1]
    <3>1. /\ SubSeq(buffer, m, k) \in Seq(Byte) /\ Len(SubSeq(buffer, m, k)) = (k - m) + 1
          /\ \A n \in 1 .. (k - m) + 1 : SubSeq(buffer, m, k)[n] = buffer[(m + n) - 1]
      BY <1>1, <2>2, CutIs
    <3>2. QED
      BY <3>1, Zenon
  <2>4. ASSUME NEW n \in 1 .. Len(x) PROVE y[n] = x[n]
    <3>1. y[n] = buffer[2 + n]
      BY <2>2, <2>3
    <3>2. 2 + n \in 1 .. Len(e)
      BY <1>3, <1>6
    <3>3. QED
      BY <1>6, <1>11, <3>1, <3>2
  <2>5. Len(y) = Len(x) /\ \A n \in 1 .. Len(y) : y[n] = x[n]
    BY <2>2, <2>3, <2>4
  <2>6. y = x
    BY <1>3, <2>5, SeqEqual
  <2>7. QED
    BY <2>1, <2>3, <2>6
<1>14. received' = Append(received, sent[Len(received) + 1])
  BY <1>1, <1>2, <1>13, Zenon
<1>15. QED
  BY <1>1, <1>2, <1>4, <1>12, <1>14, PendingTake DEF IInv

\* Every step keeps the invariant.
LEMMA NextIInv == ASSUME LengthsFit PROVE IInv /\ [Next]_vars => IInv'
<1>1. SUFFICES ASSUME IInv, [Next]_vars PROVE IInv'
  OBVIOUS
<1>2. TypeOK'
  BY <1>1, NextTypeOK DEF IInv
<1>3. ASSUME UNCHANGED <<stream, buffer, sent, received>> PROVE IInv'
  <2>1. Pending' = Pending
    BY <1>3 DEF Pending
  <2>2. InStep'
    BY <1>1, <1>3, <2>1 DEF IInv, InStep
  <2>3. QED
    BY <1>1, <1>2, <1>3, <2>2 DEF IInv
<1>4. ASSUME NEW n \in 1 .. MaxPiece, PushOverflow(n) PROVE IInv'
  BY <1>3, <1>4 DEF PushOverflow
<1>5. CASE UNCHANGED vars
  BY <1>3, <1>5 DEF vars
<1>6. QED
  BY <1>1, <1>2, <1>4, <1>5, SendInStep, PushInStep, FrameTaken DEF Next, Receive

\* The invariant holds at all times.
LEMMA FramingInvariant == ASSUME LengthsFit PROVE Spec => []IInv
<1>1. Init => IInv
  <2>1. SUFFICES ASSUME Init PROVE IInv
    OBVIOUS
  <2>2. TypeOK
    BY <2>1, FramingTypeInit
  <2>3. sent = <<>> /\ received = <<>> /\ buffer = <<>> /\ stream = <<>>
    BY <2>1 DEF Init
  <2>4. Len(received) <= Len(sent) /\ Len(sent) = 0 /\ Len(received) = 0
    BY <2>3
  <2>5. Pending \in Seq(Message) /\ Len(Pending) = 0
    BY <2>2, <2>4, PendingIs
  <2>6. FramesOf(Pending) \in Seq(Seq(Byte)) /\ Len(FramesOf(Pending)) = 0
    BY <2>5, FramesAre
  <2>7. FlattenSeq(FramesOf(Pending)) = <<>>
    BY <2>6 DEF FlattenSeq
  <2>8. InStep
    BY <2>3, <2>7, InStepIs
  <2>9. QED
    BY <2>2, <2>4, <2>8 DEF IInv
<1>2. QED
  BY <1>1, NextIInv, PTL DEF Spec

\* While two bytes can say the length of every message, the buffer and the stream
\* hold exactly the encoding of the messages on their way, however they were cut.
THEOREM FramingInStep == ASSUME LengthsFit PROVE Spec => []InStep
<1>1. IInv => InStep
  BY DEF IInv
<1>2. QED
  BY <1>1, FramingInvariant, PTL

\* Encoder, stream and framer together implement a first-in first-out channel of
\* messages: each comes out once, whole and in order.
THEOREM FramingImplementsFifo == ASSUME LengthsFit PROVE Spec => CarriesMessages
<1>1. Init => Messages!Init
  BY DEF Init, Messages!Init
<1>2. IInv /\ [Next]_vars => [Messages!Next]_Messages!vars
  <2>1. SUFFICES ASSUME IInv, [Next]_vars PROVE [Messages!Next]_Messages!vars
    OBVIOUS
  <2>2. TypeOK'
    BY <2>1, NextTypeOK DEF IInv
  <2>3. ASSUME NEW x \in Message, Send(x) PROVE Messages!Put(x)
    <3>1. Len(sent) \in Nat /\ Len(received) \in Nat /\ MaxMessages \in Nat
      BY <2>1, SizeAssumption DEF IInv, TypeOK
    <3>2. QED
      BY <2>3, <3>1 DEF Send, Messages!Put
  <2>4. ASSUME NextFrame PROVE Messages!Take
    BY <2>1, <2>2, <2>4, FrameTaken DEF Messages!Take
  <2>5. ASSUME NEW n \in 1 .. MaxPiece, Push(n) \/ PushOverflow(n) PROVE UNCHANGED Messages!vars
    BY <2>5 DEF Push, PushOverflow, Messages!vars
  <2>6. CASE UNCHANGED vars
    BY <2>6 DEF vars, Messages!vars
  <2>7. QED
    BY <2>1, <2>3, <2>4, <2>5, <2>6 DEF Next, Receive, Messages!Next
<1>3. QED
  BY <1>1, <1>2, FramingInvariant, PTL DEF Spec, CarriesMessages, Messages!Spec

\* Bytes in the stream are part of some message.
LEMMA SomeMessage == ASSUME IInv, Len(stream) # 0 PROVE \E x : x \in Message
<1>1. SUFFICES ASSUME Message = {} PROVE FALSE
  OBVIOUS
<1>2. /\ buffer \in Seq(Byte) /\ stream \in Seq(Byte)
      /\ Pending \in Seq(Message)
  BY PendingIs DEF IInv, TypeOK
<1>3. Len(Pending) = 0
  BY <1>1, <1>2
<1>4. FramesOf(Pending) \in Seq(Seq(Byte)) /\ Len(FramesOf(Pending)) = 0
  BY <1>2, <1>3, FramesAre
<1>5. buffer \o stream = FramesOf(Pending)
  BY <1>4, InStepIs DEF FlattenSeq, IInv
<1>6. Len(buffer \o stream) = Len(buffer) + Len(stream) /\ Len(buffer) \in Nat /\ Len(stream) \in Nat
  BY <1>2, ConcatProperties
<1>7. QED
  BY <1>4, <1>5, <1>6

\* If the limit has room for an incomplete frame and a piece, push throws only when a
\* complete frame was left in the buffer.
THEOREM DrainedNeverOverflows ==
  ASSUME LengthsFit, RoomForFrameAndPiece PROVE Spec => OverflowOnlyUndrained
<1>1. IInv /\ [Next]_vars => [overflow' # overflow => HasFrame]_vars
  <2>1. SUFFICES ASSUME IInv, Next, overflow' # overflow, ~HasFrame PROVE FALSE
    OBVIOUS
  <2>2. PICK n \in 1 .. MaxPiece : PushOverflow(n)
    BY <2>1 DEF Next, Receive, Send, Push, NextFrame
  <2>3. /\ n \in Int /\ MaxPiece \in Int /\ MaxFrameSize \in Int /\ n <= MaxPiece
        /\ Len(buffer) \in Nat /\ n \in 1 .. Len(stream) /\ Len(stream) \in Nat
        /\ Len(buffer) + n > MaxFrameSize
    BY <2>1, <2>2, SizeAssumption DEF IInv, TypeOK, PushOverflow, Fits
  <2>4. PICK x \in Message : Len(buffer) <= HeaderSize + Len(x) - 1 /\ Len(x) \in Nat
    <3>1. CASE Len(buffer) >= HeaderSize
      <4>1. PICK x \in Message : FrameLen = Len(x)
        BY <2>1, <3>1, FrontOfBuffer
      <4>2. Len(x) \in Nat
        BY ByteAssumption
      <4>3. QED
        BY <2>1, <2>3, <3>1, <4>1, <4>2 DEF HasFrame, HeaderSize
    <3>2. CASE ~(Len(buffer) >= HeaderSize)
      <4>1. PICK x : x \in Message
        BY <2>1, <2>3, SomeMessage
      <4>2. Len(x) \in Nat
        BY <4>1, ByteAssumption
      <4>3. QED
        BY <2>3, <3>2, <4>1, <4>2 DEF HeaderSize
    <3>3. QED
      BY <3>1, <3>2
  <2>5. HeaderSize + Len(x) - 1 + MaxPiece <= MaxFrameSize
    BY DEF RoomForFrameAndPiece
  <2>6. QED
    BY <2>3, <2>4, <2>5 DEF HeaderSize
<1>2. QED
  BY <1>1, FramingInvariant, PTL DEF Spec, OverflowOnlyUndrained
=============================================================================
