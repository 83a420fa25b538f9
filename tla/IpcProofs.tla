------------------------------ MODULE IpcProofs ------------------------------
(***************************************************************************)
(* Proofs about Ipc: for every size of the ring, every set of messages and *)
(* every set of tasks, the ring implements the FIFO, keeps the messages    *)
(* whole and hands a reader neighbours of the stream.                      *)
(***************************************************************************)
EXTENDS Ipc, SequenceTheorems, TLAPS

(* Arithmetic of the ring.                                                 *)

LEMMA ModSmall == ASSUME NEW x \in 0 .. Size - 1 PROVE x % Size = x
BY IpcAssumption

LEMMA ModWraps == ASSUME NEW x \in Size .. 2 * Size - 1 PROVE x % Size = x - Size
BY IpcAssumption

\* A step to the next slot, without %.
LEMMA NextSlotWraps ==
  ASSUME NEW i \in Slots
  PROVE  NextSlot(i) = IF i + 1 < Size THEN i + 1 ELSE 0
<1>1. CASE i + 1 < Size
  BY <1>1, IpcAssumption, ModSmall DEF NextSlot, Slots
<1>2. CASE i + 1 = Size
  <2>1. Size % Size = Size - Size
    BY IpcAssumption, ModWraps
  <2> QED BY <1>2, <2>1, IpcAssumption DEF NextSlot, Slots
<1> QED BY <1>1, <1>2, IpcAssumption DEF Slots

\* The slot of the k-th byte that waits, without %.
LEMMA SlotWraps ==
  ASSUME NEW h \in Slots, NEW k \in 0 .. Size
  PROVE  (h + k) % Size = IF h + k < Size THEN h + k ELSE h + k - Size
<1>1. CASE h + k < Size
  BY <1>1, IpcAssumption, ModSmall DEF Slots
<1>2. CASE h + k >= Size
  BY <1>2, IpcAssumption, ModWraps DEF Slots
<1> QED BY <1>1, <1>2, IpcAssumption DEF Slots

-----------------------------------------------------------------------------
(* The end of a sequence, element by element.                              *)

Latest(r, s) ==
  /\ Len(r) <= Len(s)
  /\ \A i \in 1 .. Len(r) : r[i] = s[Len(s) - Len(r) + i]

LEMMA LatestIsSuffix ==
  ASSUME NEW S, NEW r \in Seq(S), NEW s \in Seq(S), Latest(r, s)
  PROVE  IsSuffix(r, s)
<1>1. /\ Len(r) \in Nat /\ Len(s) \in Nat
      /\ DOMAIN r = 1 .. Len(r) /\ DOMAIN s = 1 .. Len(s)
  BY LenProperties
<1> DEFINE rr == Reverse(r)
           rs == Reverse(s)
<1>2. /\ rr \in Seq(S) /\ Len(rr) = Len(r)
      /\ \A i \in 1 .. Len(r) : rr[i] = r[Len(r) - i + 1]
  <2>1. \A i \in 1 .. Len(r) : r[Len(r) - i + 1] \in S
    BY <1>1, ElementOfSeq
  <2> QED BY <1>1, <2>1, IsASeq DEF Reverse
<1>3. /\ rs \in Seq(S) /\ Len(rs) = Len(s)
      /\ \A i \in 1 .. Len(s) : rs[i] = s[Len(s) - i + 1]
  <2>1. \A i \in 1 .. Len(s) : s[Len(s) - i + 1] \in S
    BY <1>1, ElementOfSeq
  <2> QED BY <1>1, <2>1, IsASeq DEF Reverse
<1> HIDE DEF rr, rs
<1>4. \A i \in 1 .. Len(r) : rr[i] = rs[i]
  <2> TAKE i \in 1 .. Len(r)
  <2>1. Len(r) - i + 1 \in 1 .. Len(r) /\ i \in 1 .. Len(s)
    BY <1>1 DEF Latest
  <2>2. r[Len(r) - i + 1] = s[Len(s) - Len(r) + (Len(r) - i + 1)]
    BY <2>1 DEF Latest
  <2>3. Len(s) - Len(r) + (Len(r) - i + 1) = Len(s) - i + 1
    BY <1>1
  <2> QED BY <1>2, <1>3, <2>1, <2>2, <2>3
<1>5. Len(rr) <= Len(rs) /\ SubSeq(rr, 1, Len(rr)) = SubSeq(rs, 1, Len(rr))
  <2>1. Len(rr) <= Len(rs)
    BY <1>2, <1>3 DEF Latest
  <2>2. SubSeq(rr, 1, Len(rr)) = [i \in 1 .. Len(r) |-> rr[i]]
    BY <1>1, <1>2
  <2>3. SubSeq(rs, 1, Len(rr)) = [i \in 1 .. Len(r) |-> rs[i]]
    BY <1>1, <1>2, <1>3, <2>1
  <2> QED BY <1>4, <2>1, <2>2, <2>3
<1> QED BY <1>5 DEF IsSuffix, IsPrefix, rr, rs

\* A byte appended to both.
LEMMA LatestAppends ==
  ASSUME NEW S, NEW r \in Seq(S), NEW s \in Seq(S), NEW b \in S, Latest(r, s)
  PROVE  Latest(Append(r, b), Append(s, b))
<1>1. /\ Len(r) \in Nat /\ Len(s) \in Nat
      /\ Len(Append(r, b)) = Len(r) + 1 /\ Len(Append(s, b)) = Len(s) + 1
      /\ \A i \in 1 .. Len(r) : Append(r, b)[i] = r[i]
      /\ \A i \in 1 .. Len(s) : Append(s, b)[i] = s[i]
      /\ Append(r, b)[Len(r) + 1] = b /\ Append(s, b)[Len(s) + 1] = b
  BY AppendProperties, LenProperties
<1>2. ASSUME NEW i \in 1 .. Len(r) + 1
      PROVE  Append(r, b)[i] = Append(s, b)[Len(s) - Len(r) + i]
  <2>1. CASE i = Len(r) + 1
    <3>1. Len(s) - Len(r) + i = Len(s) + 1
      BY <1>1, <2>1
    <3> QED BY <1>1, <2>1, <3>1
  <2>2. CASE i \in 1 .. Len(r)
    <3>1. Len(s) - Len(r) + i \in 1 .. Len(s)
      BY <1>1, <2>2 DEF Latest
    <3> QED BY <1>1, <2>2, <3>1 DEF Latest
  <2>3. i = Len(r) + 1 \/ i \in 1 .. Len(r)
    BY <1>1
  <2> QED BY <2>1, <2>2, <2>3
<1> DEFINE r2 == Append(r, b)
           s2 == Append(s, b)
<1>3. /\ Len(r2) = Len(r) + 1
      /\ Len(s2) - Len(r2) = Len(s) - Len(r)
      /\ Len(r2) <= Len(s2)
  BY <1>1 DEF Latest
<1>4. \A i \in 1 .. Len(r2) : r2[i] = s2[Len(s2) - Len(r2) + i]
  BY <1>2, <1>3
<1> HIDE DEF r2, s2
<1>5. Latest(r2, s2)
  BY <1>3, <1>4 DEF Latest
<1> QED BY <1>5 DEF r2, s2

\* Three pieces of the stream may be put together in either order.
LEMMA Regroup ==
  ASSUME NEW s \in Seq(Byte), NEW t \in Seq(Byte), NEW u \in Seq(Byte)
  PROVE  (s \o t) \o u = s \o (t \o u)
BY ConcatAssociative

\* A sequence of the bytes of an instance is one of octets.
LEMMA BytesAreOctets ==
  ASSUME NEW b \in Seq(Byte)
  PROVE  b \in Seq(0 .. 255)
<1> DEFINE Octet == 0 .. 255
<1>1. Byte \subseteq Octet
  BY IpcAssumption
<1>2. b \in Seq(Octet)
  <2> HIDE DEF Octet
  <2> QED BY <1>1, SeqMonotonic, Zenon
<1> QED BY <1>2

-----------------------------------------------------------------------------
(* The inductive invariant.                                                *)

\* The two indices and the count agree, and what waits was written.
RingSound ==
  /\ end = (head + n_data) % Size
  /\ \A k \in 0 .. n_data - 1 : data[(head + k) % Size] \in Byte

\* Only the running task is in a call.
CallsMasked == \A t \in Tasks : t # cur => op[t] = "user"

\* A write in progress stands in some message, and the byte before its pointer
\* is the last one that entered the ring.
WriteInMessage ==
  op[cur] = "write" =>
    \E m \in Messages :
      /\ Latest(rest[cur], m)
      /\ Len(rest[cur]) < Len(m) =>
           Len(in) > 0 /\ in[Len(in)] = m[Len(m) - Len(rest[cur])]

\* What an unstarved read has filled is the end of the stream handed out.
ReadAtEnd ==
  \A t \in Tasks : op[t] = "read" /\ ~starved[t] => Latest(rbuf[t], out)

IInv ==
  /\ TypeOK /\ RingSound /\ CallsMasked
  /\ WriteInMessage /\ ReadAtEnd /\ MessagesUnbroken

LEMMA InitHolds == Init => IInv
<1> SUFFICES ASSUME Init PROVE IInv
  OBVIOUS
<1>1. 0 \in Slots /\ 0 \in 0 .. Size
  BY IpcAssumption DEF Slots
<1>2. TypeOK
  BY <1>1 DEF Init, TypeOK
<1>3. RingSound
  <2>1. (0 + 0) % Size = 0
    BY IpcAssumption, ModSmall
  <2>2. \A k \in 0 .. 0 - 1 : FALSE
    OBVIOUS
  <2> QED BY <2>1, <2>2 DEF Init, RingSound
<1>4. CallsMasked /\ WriteInMessage /\ ReadAtEnd
  BY DEF Init, CallsMasked, WriteInMessage, ReadAtEnd
<1>5. MessagesUnbroken
  BY DEF Init, MessagesUnbroken
<1> QED BY <1>2, <1>3, <1>4, <1>5 DEF IInv

\* The slots a ring operation touches.
LEMMA EnqueueKeepsRing ==
  ASSUME TypeOK, RingSound, NEW b \in Byte, ~QueueIsFull, Enqueue(b)
  PROVE  /\ head' \in Slots /\ end' \in Slots /\ n_data' \in 0 .. Size
         /\ data' \in [Slots -> Byte \cup {0}]
         /\ RingSound'
         /\ \A k \in 0 .. n_data - 1 : data'[(head + k) % Size] = data[(head + k) % Size]
         /\ data'[(head + n_data) % Size] = b
<1>1. /\ head \in Slots /\ end \in Slots /\ n_data \in 0 .. Size - 1
      /\ data \in [Slots -> Byte \cup {0}]
      /\ head' = head /\ n_data' = n_data + 1
      /\ data' = [data EXCEPT ![end] = b] /\ end' = NextSlot(end)
  BY IpcAssumption DEF TypeOK, QueueIsFull, Enqueue
<1>2. end = IF head + n_data < Size THEN head + n_data ELSE head + n_data - Size
  <2>1. end = (head + n_data) % Size /\ n_data \in 0 .. Size
    BY <1>1, IpcAssumption DEF RingSound
  <2> QED BY <1>1, <2>1, SlotWraps
<1>3. end' = IF end + 1 < Size THEN end + 1 ELSE 0
  BY <1>1, NextSlotWraps
<1>4. end' \in Slots /\ n_data' \in 0 .. Size /\ data' \in [Slots -> Byte \cup {0}]
  BY <1>1, <1>3, IpcAssumption DEF Slots
<1>5. (head + (n_data + 1)) % Size =
        IF head + (n_data + 1) < Size THEN head + (n_data + 1) ELSE head + (n_data + 1) - Size
  BY <1>1, SlotWraps, IpcAssumption
<1>6. end' = (head' + n_data') % Size
  BY <1>1, <1>2, <1>3, <1>5, IpcAssumption DEF Slots
<1>7. \A k \in 0 .. n_data - 1 : (head + k) % Size \in Slots /\ (head + k) % Size # end
  <2> TAKE k \in 0 .. n_data - 1
  <2>1. (head + k) % Size = IF head + k < Size THEN head + k ELSE head + k - Size
    BY <1>1, SlotWraps, IpcAssumption
  <2> QED BY <1>1, <1>2, <2>1, IpcAssumption DEF Slots
<1>8. \A k \in 0 .. n_data - 1 : data'[(head + k) % Size] = data[(head + k) % Size]
  BY <1>1, <1>7
<1>9. data'[(head + n_data) % Size] = b
  BY <1>1 DEF RingSound
<1>10. \A k \in 0 .. n_data' - 1 : data'[(head' + k) % Size] \in Byte
  <2> TAKE k \in 0 .. n_data' - 1
  <2>1. k = n_data \/ k \in 0 .. n_data - 1
    BY <1>1
  <2>2. CASE k = n_data
    BY <1>1, <1>9, <2>2
  <2>3. CASE k \in 0 .. n_data - 1
    BY <1>1, <1>8, <2>3 DEF RingSound
  <2> QED BY <2>1, <2>2, <2>3
<1> QED BY <1>1, <1>4, <1>6, <1>8, <1>9, <1>10 DEF RingSound

LEMMA DequeueKeepsRing ==
  ASSUME TypeOK, RingSound, ~QueueIsEmpty, Dequeue
  PROVE  /\ head' \in Slots /\ end' \in Slots /\ n_data' \in 0 .. Size
         /\ data' \in [Slots -> Byte \cup {0}]
         /\ RingSound'
         /\ data[head] \in Byte
         /\ \A k \in 0 .. n_data - 2 : data'[(head' + k) % Size] = data[(head + (k + 1)) % Size]
<1>1. /\ head \in Slots /\ end \in Slots /\ n_data \in 1 .. Size
      /\ data \in [Slots -> Byte \cup {0}]
      /\ end' = end /\ n_data' = n_data - 1
      /\ data' = [data EXCEPT ![head] = 0] /\ head' = NextSlot(head)
  BY IpcAssumption DEF TypeOK, QueueIsEmpty, Dequeue
<1>2. end = IF head + n_data < Size THEN head + n_data ELSE head + n_data - Size
  <2>1. end = (head + n_data) % Size /\ n_data \in 0 .. Size
    BY <1>1, IpcAssumption DEF RingSound
  <2> QED BY <1>1, <2>1, SlotWraps
<1>3. head' = IF head + 1 < Size THEN head + 1 ELSE 0
  BY <1>1, NextSlotWraps
<1>4. head' \in Slots /\ n_data' \in 0 .. Size /\ data' \in [Slots -> Byte \cup {0}]
  BY <1>1, <1>3, IpcAssumption DEF Slots
<1>5. (head' + n_data') % Size =
        IF head' + n_data' < Size THEN head' + n_data' ELSE head' + n_data' - Size
  BY <1>4, SlotWraps, IpcAssumption
<1>6. end' = (head' + n_data') % Size
  BY <1>1, <1>2, <1>3, <1>5, IpcAssumption DEF Slots
<1>7. data[head] \in Byte
  <2>1. (head + 0) % Size = head
    BY <1>1, ModSmall, IpcAssumption DEF Slots
  <2> QED BY <1>1, <2>1 DEF RingSound
<1>8. \A k \in 0 .. n_data - 2 :
        /\ (head' + k) % Size = (head + (k + 1)) % Size
        /\ (head' + k) % Size \in Slots /\ (head' + k) % Size # head
  <2> TAKE k \in 0 .. n_data - 2
  <2>1. (head' + k) % Size = IF head' + k < Size THEN head' + k ELSE head' + k - Size
    BY <1>1, <1>4, SlotWraps, IpcAssumption
  <2>2. (head + (k + 1)) % Size =
          IF head + (k + 1) < Size THEN head + (k + 1) ELSE head + (k + 1) - Size
    BY <1>1, SlotWraps, IpcAssumption
  <2> QED BY <1>1, <1>3, <2>1, <2>2, IpcAssumption DEF Slots
<1>9. \A k \in 0 .. n_data - 2 : data'[(head' + k) % Size] = data[(head + (k + 1)) % Size]
  BY <1>1, <1>8
<1>10. \A k \in 0 .. n_data' - 1 : data'[(head' + k) % Size] \in Byte
  <2> TAKE k \in 0 .. n_data' - 1
  <2>1. k \in 0 .. n_data - 2 /\ k + 1 \in 0 .. n_data - 1
    BY <1>1
  <2> QED BY <1>9, <2>1 DEF RingSound
<1> QED BY <1>1, <1>4, <1>6, <1>7, <1>9, <1>10 DEF RingSound
-----------------------------------------------------------------------------
(* One lemma per group of steps.                                           *)

\* The steps that leave the ring and the histories alone keep what is said of
\* them.
LEMMA RingUntouched ==
  ASSUME RingSound, MessagesUnbroken, UNCHANGED <<ringVars, in>>
  PROVE  RingSound' /\ MessagesUnbroken'
BY DEF RingSound, MessagesUnbroken, ringVars

LEMMA TickStep ==
  ASSUME IInv, Tick
  PROVE  IInv'
<1>1. /\ op[cur] = "user" /\ cur' \in Tasks
      /\ UNCHANGED <<ringVars, in, out, op, rest, left, rbuf, ret, starved>>
  BY DEF Tick, Unmasked, callVars
<1>2. \A t \in Tasks : op[t] = "user"
  BY <1>1 DEF IInv, CallsMasked
<1>3. TypeOK'
  BY <1>1 DEF IInv, TypeOK, ringVars
<1>4. RingSound' /\ MessagesUnbroken'
  BY <1>1, RingUntouched DEF IInv
<1>5. CallsMasked' /\ WriteInMessage' /\ ReadAtEnd'
  BY <1>1, <1>2 DEF CallsMasked, WriteInMessage, ReadAtEnd
<1> QED BY <1>3, <1>4, <1>5 DEF IInv

LEMMA StartWriteStep ==
  ASSUME IInv, NEW m \in Messages, StartWrite(m)
  PROVE  IInv'
<1>1. /\ op' = [op EXCEPT ![cur] = "write"] /\ rest' = [rest EXCEPT ![cur] = m]
      /\ UNCHANGED <<ringVars, cur, left, rbuf, ret, starved, in, out>>
  BY DEF StartWrite
<1>2. m \in Seq(Byte) /\ cur \in Tasks
  BY IpcAssumption DEF IInv, TypeOK
<1>3. TypeOK'
  BY <1>1, <1>2 DEF IInv, TypeOK, ringVars
<1>4. RingSound' /\ MessagesUnbroken'
  BY <1>1, RingUntouched DEF IInv
<1>5. CallsMasked' /\ ReadAtEnd'
  BY <1>1, <1>2 DEF IInv, TypeOK, CallsMasked, ReadAtEnd
<1>6. WriteInMessage'
  <2>1. rest'[cur'] = m
    BY <1>1, <1>2 DEF IInv, TypeOK
  <2>2. Latest(m, m) /\ ~(Len(m) < Len(m))
    BY <1>2, LenProperties DEF Latest
  <2> QED BY <2>1, <2>2 DEF WriteInMessage
<1> QED BY <1>3, <1>4, <1>5, <1>6 DEF IInv

LEMMA StartReadStep ==
  ASSUME IInv, NEW n \in ReadSizes, StartRead(n)
  PROVE  IInv'
<1>1. /\ op' = [op EXCEPT ![cur] = "read"] /\ left' = [left EXCEPT ![cur] = n]
      /\ rbuf' = [rbuf EXCEPT ![cur] = <<>>] /\ starved' = [starved EXCEPT ![cur] = FALSE]
      /\ UNCHANGED <<ringVars, cur, rest, ret, in, out>>
  BY DEF StartRead
<1>2. n \in Nat /\ cur \in Tasks /\ <<>> \in Seq(0 .. 255) /\ out \in Seq(Byte)
  BY IpcAssumption DEF IInv, TypeOK
<1>3. TypeOK'
  BY <1>1, <1>2 DEF IInv, TypeOK, ringVars
<1>4. RingSound' /\ MessagesUnbroken'
  BY <1>1, RingUntouched DEF IInv
<1>5. CallsMasked' /\ WriteInMessage'
  BY <1>1, <1>2 DEF IInv, TypeOK, CallsMasked, WriteInMessage
<1>6. ReadAtEnd'
  <2>1. Latest(<<>>, out)
    BY <1>2, LenProperties DEF Latest
  <2>2. \A t \in Tasks : rbuf'[t] = (IF t = cur THEN <<>> ELSE rbuf[t])
    BY <1>1, <1>2 DEF IInv, TypeOK
  <2>3. \A t \in Tasks : t # cur => op'[t] = "user"
    BY <1>1 DEF IInv, CallsMasked, TypeOK
  <2> QED BY <1>1, <2>1, <2>2, <2>3 DEF ReadAtEnd
<1> QED BY <1>3, <1>4, <1>5, <1>6 DEF IInv

\* The ends of the calls.
LEMMA ReturnStep ==
  ASSUME IInv, op' = [op EXCEPT ![cur] = "user"],
         NEW r \in Nat \cup {-1}, ret' = [ret EXCEPT ![cur] = r],
         UNCHANGED <<ringVars, cur, rest, left, rbuf, starved, in, out>>
  PROVE  IInv'
<1>1. TypeOK'
  BY DEF IInv, TypeOK, ringVars
<1>2. RingSound' /\ MessagesUnbroken'
  BY RingUntouched DEF IInv
<1>3. \A t \in Tasks : op'[t] = "user" \/ op'[t] = op[t]
  BY DEF IInv, TypeOK
<1>4. CallsMasked' /\ ReadAtEnd'
  BY <1>3 DEF IInv, TypeOK, CallsMasked, ReadAtEnd
<1>5. WriteInMessage'
  BY DEF IInv, TypeOK, WriteInMessage
<1> QED BY <1>1, <1>2, <1>4, <1>5 DEF IInv

LEMMA WriteByteStep ==
  ASSUME IInv, WriteByte
  PROVE  IInv'
<1> DEFINE r == rest[cur]
           b == Head(r)
<1>1. /\ op[cur] = "write" /\ r # <<>> /\ ~QueueIsFull /\ Enqueue(b)
      /\ rest' = [rest EXCEPT ![cur] = Tail(r)]
      /\ UNCHANGED <<cur, op, left, rbuf, ret, starved>>
  BY DEF WriteByte
<1>2. /\ cur \in Tasks /\ r \in Seq(Byte) /\ b \in Byte /\ Tail(r) \in Seq(Byte)
      /\ Len(r) \in Nat \ {0} /\ Len(Tail(r)) = Len(r) - 1
      /\ \A i \in 1 .. Len(r) - 1 : Tail(r)[i] = r[i + 1]
      /\ b = r[1]
  <2>1. cur \in Tasks /\ r \in Seq(Byte)
    BY DEF IInv, TypeOK
  <2> QED BY <1>1, <2>1, HeadTailProperties, LenProperties, EmptySeq
<1>3. in' = Append(in, b) /\ out' = out /\ in \in Seq(Byte)
  BY <1>1 DEF Enqueue, IInv, TypeOK
<1>4. PICK m \in Messages :
        /\ Latest(r, m)
        /\ Len(r) < Len(m) => Len(in) > 0 /\ in[Len(in)] = m[Len(m) - Len(r)]
  BY <1>1 DEF IInv, WriteInMessage
<1>5. /\ head' \in Slots /\ end' \in Slots /\ n_data' \in 0 .. Size
      /\ data' \in [Slots -> Byte \cup {0}] /\ RingSound'
  BY <1>1, <1>2, EnqueueKeepsRing DEF IInv
<1>6. /\ in' \in Seq(Byte) /\ Len(in) \in Nat /\ Len(in') = Len(in) + 1
      /\ DOMAIN in = 1 .. Len(in) /\ DOMAIN in' = 1 .. Len(in) + 1
      /\ \A i \in 1 .. Len(in) : in'[i] = in[i]
      /\ in'[Len(in) + 1] = b
  BY <1>2, <1>3, AppendProperties, LenProperties
<1>7. rest' \in [Tasks -> Seq(Byte)] /\ rest'[cur'] = Tail(r)
  BY <1>1, <1>2 DEF IInv, TypeOK
<1>8. m \in Seq(Byte) /\ Len(m) \in Nat /\ Len(r) <= Len(m)
  BY <1>4, IpcAssumption, LenProperties DEF Latest
<1> HIDE DEF r, b
<1>9. b = m[Len(m) - Len(r) + 1]
  BY <1>2, <1>4, <1>8 DEF Latest
<1>10. TypeOK'
  BY <1>1, <1>3, <1>5, <1>6, <1>7 DEF IInv, TypeOK
<1>11. CallsMasked' /\ ReadAtEnd'
  BY <1>1, <1>3 DEF IInv, CallsMasked, ReadAtEnd
<1>12. WriteInMessage'
  <2>1. Latest(Tail(r), m)
    <3>1. ASSUME NEW i \in 1 .. Len(r) - 1
          PROVE  Tail(r)[i] = m[Len(m) - (Len(r) - 1) + i]
      <4>1. i + 1 \in 1 .. Len(r) /\ Len(m) - Len(r) + (i + 1) = Len(m) - (Len(r) - 1) + i
        BY <1>2, <1>8
      <4>2. r[i + 1] = m[Len(m) - Len(r) + (i + 1)]
        BY <4>1, <1>4 DEF Latest
      <4> QED BY <1>2, <4>1, <4>2
    <3> QED BY <1>2, <1>8, <3>1 DEF Latest
  <2>2. in'[Len(in')] = m[Len(m) - Len(Tail(r))] /\ Len(in') > 0
    <3>1. Len(m) - Len(Tail(r)) = Len(m) - Len(r) + 1
      BY <1>2, <1>8
    <3>2. in'[Len(in')] = b /\ Len(in') > 0
      BY <1>6
    <3>3. m[Len(m) - Len(Tail(r))] = b
      BY <1>9, <3>1
    <3> QED BY <3>2, <3>3
  <2> QED BY <1>7, <2>1, <2>2 DEF WriteInMessage
<1>13. MessagesUnbroken'
  <2>1. Starts(b) \/ (Len(in) > 0 /\ Follows(in[Len(in)], b))
    <3>1. CASE Len(r) = Len(m)
      <4>1. m # <<>> /\ Len(m) - Len(r) + 1 = 1
        BY <1>2, <1>8, <3>1, EmptySeq
      <4> QED BY <1>9, <4>1 DEF Starts
    <3>2. CASE Len(r) < Len(m)
      <4>1. Len(m) - Len(r) \in 1 .. Len(m) - 1
        BY <1>2, <1>8, <3>2
      <4> QED BY <1>4, <1>9, <3>2, <4>1 DEF Follows
    <3> QED BY <1>2, <1>8, <3>1, <3>2
  <2>2. ASSUME NEW i \in DOMAIN in'
        PROVE  Starts(in'[i]) \/ (i > 1 /\ Follows(in'[i - 1], in'[i]))
    <3>1. CASE i \in 1 .. Len(in)
      <4>1. Starts(in[i]) \/ (i > 1 /\ Follows(in[i - 1], in[i]))
        BY <1>6, <3>1 DEF IInv, MessagesUnbroken
      <4>2. i > 1 => i - 1 \in 1 .. Len(in)
        BY <1>6, <3>1
      <4> QED BY <1>6, <3>1, <4>1, <4>2
    <3>2. CASE i = Len(in) + 1
      <4>1. Len(in) > 0 => Len(in) \in 1 .. Len(in) /\ i > 1 /\ i - 1 = Len(in)
        BY <1>6, <3>2
      <4> QED BY <1>6, <2>1, <3>2, <4>1
    <3>3. i \in 1 .. Len(in) \/ i = Len(in) + 1
      BY <1>6
    <3> QED BY <3>1, <3>2, <3>3
  <2> QED BY <2>2 DEF MessagesUnbroken, Starts, Follows
<1> QED BY <1>5, <1>10, <1>11, <1>12, <1>13 DEF IInv
LEMMA ReadByteStep ==
  ASSUME IInv, ReadByte
  PROVE  IInv'
<1>1. /\ op[cur] = "read" /\ left[cur] # 0 /\ ~QueueIsEmpty /\ Dequeue
      /\ rbuf' = [rbuf EXCEPT ![cur] = Append(rbuf[cur], data[head])]
      /\ left' = [left EXCEPT ![cur] = left[cur] - 1]
      /\ UNCHANGED <<cur, op, rest, ret, starved>>
  BY DEF ReadByte
<1>2. /\ head' \in Slots /\ end' \in Slots /\ n_data' \in 0 .. Size
      /\ data' \in [Slots -> Byte \cup {0}] /\ RingSound' /\ data[head] \in Byte
  BY <1>1, DequeueKeepsRing DEF IInv
<1>3. in' = in /\ out' = Append(out, data[head]) /\ out \in Seq(Byte) /\ cur \in Tasks
  BY <1>1 DEF Dequeue, IInv, TypeOK
<1>4. out' \in Seq(Byte)
  BY <1>2, <1>3, AppendProperties
<1>5. /\ rbuf[cur] \in Seq(0 .. 255) /\ data[head] \in 0 .. 255 /\ out \in Seq(0 .. 255)
      /\ Append(rbuf[cur], data[head]) \in Seq(0 .. 255)
  <2>1. rbuf[cur] \in Seq(0 .. 255) /\ data[head] \in 0 .. 255
    BY <1>2, <1>3, IpcAssumption DEF IInv, TypeOK
  <2>2. out \in Seq(0 .. 255)
    BY <1>3, BytesAreOctets
  <2> QED BY <2>1, <2>2, AppendProperties
<1>6. left' \in [Tasks -> Nat] /\ rbuf' \in [Tasks -> Seq(0 .. 255)]
  <2>1. left[cur] - 1 \in Nat
    BY <1>1, <1>3 DEF IInv, TypeOK
  <2> QED BY <1>1, <1>5, <2>1 DEF IInv, TypeOK
<1>7. TypeOK'
  BY <1>1, <1>2, <1>3, <1>4, <1>6 DEF IInv, TypeOK
<1>8. CallsMasked' /\ WriteInMessage' /\ MessagesUnbroken'
  BY <1>1, <1>3 DEF IInv, CallsMasked, WriteInMessage, MessagesUnbroken
<1>9. ReadAtEnd'
  <2>1. \A t \in Tasks : t # cur => op'[t] # "read"
    BY <1>1 DEF IInv, CallsMasked
  <2>2. ~starved[cur] => Latest(rbuf[cur], out)
    BY <1>1, <1>3 DEF IInv, ReadAtEnd
  <2>3. ~starved[cur] => Latest(Append(rbuf[cur], data[head]), Append(out, data[head]))
    BY <1>5, <2>2, LatestAppends
  <2>4. rbuf'[cur] = Append(rbuf[cur], data[head])
    BY <1>1, <1>3 DEF IInv, TypeOK
  <2> QED BY <1>1, <1>3, <2>1, <2>3, <2>4 DEF ReadAtEnd
<1> QED BY <1>2, <1>7, <1>8, <1>9 DEF IInv

LEMMA ReadNothingStep ==
  ASSUME IInv, ReadNothing
  PROVE  IInv'
<1>1. /\ op[cur] = "read" /\ left[cur] # 0
      /\ rbuf' = [rbuf EXCEPT ![cur] = Append(rbuf[cur], EmptyByte)]
      /\ left' = [left EXCEPT ![cur] = left[cur] - 1]
      /\ starved' = [starved EXCEPT ![cur] = TRUE]
      /\ UNCHANGED <<ringVars, cur, op, rest, ret, in, out>>
  BY DEF ReadNothing
<1>2. cur \in Tasks /\ left[cur] - 1 \in Nat
  BY <1>1 DEF IInv, TypeOK
<1>3. Append(rbuf[cur], EmptyByte) \in Seq(0 .. 255)
  <2>1. rbuf[cur] \in Seq(0 .. 255) /\ EmptyByte \in 0 .. 255
    BY <1>2 DEF IInv, TypeOK, EmptyByte
  <2> QED BY <2>1, AppendProperties
<1>4. TypeOK'
  BY <1>1, <1>2, <1>3 DEF IInv, TypeOK, ringVars
<1>5. RingSound' /\ MessagesUnbroken'
  BY <1>1, RingUntouched DEF IInv
<1>6. CallsMasked' /\ WriteInMessage'
  BY <1>1 DEF IInv, CallsMasked, WriteInMessage
<1>7. ReadAtEnd'
  <2>1. \A t \in Tasks : t # cur => op'[t] # "read"
    BY <1>1 DEF IInv, CallsMasked
  <2>2. starved'[cur]
    BY <1>1, <1>2 DEF IInv, TypeOK
  <2> QED BY <2>1, <2>2 DEF ReadAtEnd
<1> QED BY <1>4, <1>5, <1>6, <1>7 DEF IInv

\* Every step keeps the invariant.
LEMMA NextStep ==
  ASSUME IInv, [Next]_vars
  PROVE  IInv'
<1>1. CASE Tick
  BY <1>1, TickStep
<1>2. CASE \E m \in Messages : StartWrite(m)
  BY <1>2, StartWriteStep
<1>3. CASE WriteByte
  BY <1>3, WriteByteStep
<1>4. CASE WriteRefused \/ WriteReturn
  <2>1. \E r \in Nat \cup {-1} : ret' = [ret EXCEPT ![cur] = r]
    BY <1>4 DEF WriteRefused, WriteReturn
  <2>2. /\ op' = [op EXCEPT ![cur] = "user"]
        /\ UNCHANGED <<ringVars, cur, rest, left, rbuf, starved, in, out>>
    BY <1>4 DEF WriteRefused, WriteReturn
  <2> QED BY <2>1, <2>2, ReturnStep
<1>5. CASE \E n \in ReadSizes : StartRead(n)
  BY <1>5, StartReadStep
<1>6. CASE ReadByte
  BY <1>6, ReadByteStep
<1>7. CASE ReadNothing
  BY <1>7, ReadNothingStep
<1>8. CASE ReadReturn
  <2>1. Len(rbuf[cur]) \in Nat
    BY LenProperties DEF IInv, TypeOK
  <2> QED BY <1>8, <2>1, ReturnStep DEF ReadReturn
<1>9. CASE UNCHANGED vars
  BY <1>9 DEF vars, ringVars, callVars, IInv, TypeOK, RingSound, CallsMasked,
              WriteInMessage, ReadAtEnd, MessagesUnbroken
<1> QED BY <1>1, <1>2, <1>3, <1>4, <1>5, <1>6, <1>7, <1>8, <1>9 DEF Next

-----------------------------------------------------------------------------
(* The refinement.                                                         *)

\* The bytes that wait, for any value of the fields of the ring.
RingContents(h, n, d) == [i \in 1 .. n |-> d[(h + i - 1) % Size]]

LEMMA ContentsIsASeq ==
  ASSUME NEW h \in Slots, NEW n \in 0 .. Size, NEW d,
         \A k \in 0 .. n - 1 : d[(h + k) % Size] \in Byte
  PROVE  /\ RingContents(h, n, d) \in Seq(Byte) /\ Len(RingContents(h, n, d)) = n
         /\ \A i \in 1 .. n : RingContents(h, n, d)[i] = d[(h + (i - 1)) % Size]
<1> DEFINE c == RingContents(h, n, d)
<1>1. n \in Nat /\ h \in Nat
  BY IpcAssumption DEF Slots
<1>2. \A i \in 1 .. n : h + i - 1 = h + (i - 1) /\ i - 1 \in 0 .. n - 1
  BY <1>1
<1>3. \A i \in 1 .. n : c[i] = d[(h + (i - 1)) % Size]
  BY <1>2 DEF RingContents
<1>4. \A i \in 1 .. n : c[i] \in Byte
  BY <1>2, <1>3
<1>5. c = [i \in 1 .. n |-> c[i]]
  BY DEF RingContents
<1> HIDE DEF c
<1>6. c \in Seq(Byte) /\ Len(c) = n
  BY <1>1, <1>4, <1>5, IsASeq
<1> QED BY <1>3, <1>6 DEF c

LEMMA ContentsUnprimed ==
  ASSUME IInv
  PROVE  /\ Contents \in Seq(Byte) /\ Len(Contents) = n_data
         /\ \A i \in 1 .. n_data : Contents[i] = data[(head + (i - 1)) % Size]
<1>1. Contents = RingContents(head, n_data, data)
  BY DEF Contents, RingContents
<1> QED BY <1>1, ContentsIsASeq DEF IInv, TypeOK, RingSound

LEMMA ContentsPrimed ==
  ASSUME IInv'
  PROVE  /\ Contents' \in Seq(Byte) /\ Len(Contents') = n_data'
         /\ \A i \in 1 .. n_data' : Contents'[i] = data'[(head' + (i - 1)) % Size]
<1>1. Contents' = RingContents(head', n_data', data')
  BY DEF Contents, RingContents
<1> QED BY <1>1, ContentsIsASeq DEF IInv, TypeOK, RingSound

\* A byte that a write enqueues is put at the end of the queue.
LEMMA WriteBytePuts ==
  ASSUME IInv, WriteByte
  PROVE  Queue!Next
<1> DEFINE b == Head(rest[cur])
<1>1. ~QueueIsFull /\ Enqueue(b) /\ rest[cur] # <<>> /\ rest[cur] \in Seq(Byte)
  BY DEF WriteByte, IInv, TypeOK
<1>2. b \in Byte
  BY <1>1, HeadTailProperties
<1> HIDE DEF b
<1>3. /\ n_data \in 0 .. Size - 1 /\ head' = head /\ n_data' = n_data + 1
      /\ in' = Append(in, b) /\ out' = out
  BY <1>1, IpcAssumption DEF Enqueue, QueueIsFull, IInv, TypeOK
<1>4. IInv'
  BY WriteByteStep
<1>5. /\ Contents \in Seq(Byte) /\ Len(Contents) = n_data
      /\ \A i \in 1 .. n_data : Contents[i] = data[(head + (i - 1)) % Size]
  BY ContentsUnprimed
<1>6. /\ Contents' \in Seq(Byte) /\ Len(Contents') = n_data'
      /\ \A i \in 1 .. n_data' : Contents'[i] = data'[(head' + (i - 1)) % Size]
  BY <1>4, ContentsPrimed
<1>7. /\ \A k \in 0 .. n_data - 1 : data'[(head + k) % Size] = data[(head + k) % Size]
      /\ data'[(head + n_data) % Size] = b
  BY <1>1, <1>2, EnqueueKeepsRing DEF IInv
<1>8. \A i \in 1 .. n_data : Contents'[i] = Contents[i]
  <2> TAKE i \in 1 .. n_data
  <2>1. i - 1 \in 0 .. n_data - 1 /\ i \in 1 .. n_data'
    BY <1>3
  <2> QED BY <1>3, <1>5, <1>6, <1>7, <2>1
<1>9. Contents'[n_data + 1] = b
  <2>1. n_data + 1 \in 1 .. n_data' /\ (n_data + 1) - 1 = n_data
    BY <1>3
  <2> QED BY <1>3, <1>6, <1>7, <2>1
<1>10. Contents' = Append(Contents, b)
  <2> DEFINE c == Contents'
             d == Append(Contents, b)
  <2>1. /\ d \in Seq(Byte) /\ Len(d) = n_data + 1
        /\ \A i \in 1 .. n_data : d[i] = Contents[i]
        /\ d[n_data + 1] = b
    BY <1>2, <1>5, AppendProperties
  <2>2. c \in Seq(Byte) /\ Len(c) = n_data + 1
    BY <1>3, <1>6
  <2>3. \A i \in 1 .. n_data + 1 : c[i] = d[i]
    BY <1>3, <1>8, <1>9, <2>1
  <2> HIDE DEF c, d
  <2>4. c = d
    BY <2>1, <2>2, <2>3, SeqEqual
  <2> QED BY <2>4 DEF c, d
<1>11. Len(Contents) < Size
  BY <1>3, <1>5, IpcAssumption
<1> QED BY <1>2, <1>3, <1>10, <1>11 DEF Queue!Next, Queue!Put
\* A byte that a read takes is the oldest one.
LEMMA ReadByteGets ==
  ASSUME IInv, ReadByte
  PROVE  Queue!Next
<1>1. ~QueueIsEmpty /\ Dequeue
  BY DEF ReadByte
<1>2. /\ n_data \in 1 .. Size /\ n_data' = n_data - 1
      /\ in' = in /\ out' = Append(out, data[head]) /\ head \in 0 .. Size - 1
  BY <1>1, IpcAssumption DEF Dequeue, QueueIsEmpty, IInv, TypeOK, Slots
<1>3. IInv'
  BY ReadByteStep
<1>4. /\ Contents \in Seq(Byte) /\ Len(Contents) = n_data
      /\ \A i \in 1 .. n_data : Contents[i] = data[(head + (i - 1)) % Size]
  BY ContentsUnprimed
<1>5. /\ Contents' \in Seq(Byte) /\ Len(Contents') = n_data'
      /\ \A i \in 1 .. n_data' : Contents'[i] = data'[(head' + (i - 1)) % Size]
  BY <1>3, ContentsPrimed
<1>6. \A k \in 0 .. n_data - 2 : data'[(head' + k) % Size] = data[(head + (k + 1)) % Size]
  BY <1>1, DequeueKeepsRing DEF IInv
<1>7. Contents # <<>>
  BY <1>2, <1>4, EmptySeq
<1>8. Head(Contents) = data[head]
  <2>1. (head + 0) % Size = head
    BY <1>2, ModSmall
  <2>2. Contents[1] = data[(head + (1 - 1)) % Size]
    BY <1>2, <1>4
  <2>3. 1 - 1 = 0
    OBVIOUS
  <2> QED BY <1>4, <1>7, <2>1, <2>2, <2>3
<1>9. Contents' = Tail(Contents)
  <2> DEFINE c == Contents'
             d == Tail(Contents)
  <2>1. /\ d \in Seq(Byte) /\ Len(d) = n_data - 1
        /\ \A i \in 1 .. n_data - 1 : d[i] = Contents[i + 1]
    BY <1>4, <1>7, HeadTailProperties
  <2>2. c \in Seq(Byte) /\ Len(c) = n_data - 1
    BY <1>2, <1>5
  <2>3. ASSUME NEW i \in 1 .. n_data - 1
        PROVE  c[i] = d[i]
    <3>1. /\ i - 1 \in 0 .. n_data - 2 /\ i \in 1 .. n_data'
          /\ i + 1 \in 1 .. n_data /\ (i - 1) + 1 = (i + 1) - 1
      BY <1>2
    <3>2. c[i] = data[(head + ((i + 1) - 1)) % Size]
      BY <1>5, <1>6, <3>1
    <3> QED BY <1>4, <2>1, <3>1, <3>2
  <2> HIDE DEF c, d
  <2>4. c = d
    BY <2>1, <2>2, <2>3, SeqEqual
  <2> QED BY <2>4 DEF c, d
<1> QED BY <1>2, <1>7, <1>8, <1>9 DEF Queue!Next, Queue!Get

\* Every step is a step of the queue or leaves it alone.
LEMMA StepImplements ==
  ASSUME IInv, [Next]_vars
  PROVE  [Queue!Next]_(Queue!fifoVars)
<1>1. CASE UNCHANGED <<ringVars, in, out>>
  BY <1>1 DEF ringVars, Contents, Queue!fifoVars
<1>2. CASE WriteByte
  BY <1>2, WriteBytePuts
<1>3. CASE ReadByte
  BY <1>3, ReadByteGets
<1> QED BY <1>1, <1>2, <1>3
        DEF Next, Tick, StartWrite, WriteRefused, WriteReturn, StartRead, ReadNothing,
            ReadReturn, vars

\* The empty ring is the empty queue.
LEMMA InitImplements == Init => Queue!Init
<1> SUFFICES ASSUME Init PROVE Contents = <<>> /\ in = <<>> /\ out = <<>>
  BY DEF Queue!Init, Init
<1>1. IInv
  BY InitHolds
<1>2. Contents \in Seq(Byte) /\ Len(Contents) = 0
  BY <1>1, ContentsUnprimed DEF Init
<1> QED BY <1>2, EmptySeq DEF Init

-----------------------------------------------------------------------------
(* The theorems.                                                           *)

THEOREM Invariance == Spec => []IInv
<1>1. Init => IInv
  BY InitHolds
<1>2. IInv /\ [Next]_vars => IInv'
  BY NextStep
<1> QED BY <1>1, <1>2, PTL DEF Spec

\* The indices stay inside the ring and the count within its size.
THEOREM TypeCorrect == Spec => []TypeOK
<1>1. IInv => TypeOK
  BY DEF IInv
<1> QED BY <1>1, Invariance, PTL

\* The messages of two writers are never mixed.
THEOREM MessagesStayWhole == Spec => []MessagesUnbroken
<1>1. IInv => MessagesUnbroken
  BY DEF IInv
<1> QED BY <1>1, Invariance, PTL

\* An unstarved read gets a piece of the stream that nobody else took part of.
THEOREM ReadsGetNeighbours == Spec => []ReadsContiguous
<1>1. IInv => ReadsContiguous
  <2> SUFFICES ASSUME IInv, NEW t \in Tasks, op[t] = "read", ~starved[t]
               PROVE  IsSuffix(rbuf[t], out)
    BY DEF ReadsContiguous
  <2>1. rbuf[t] \in Seq(0 .. 255)
    BY DEF IInv, TypeOK
  <2>2. out \in Seq(0 .. 255)
    <3>1. out \in Seq(Byte)
      BY DEF IInv, TypeOK
    <3> QED BY <3>1, BytesAreOctets
  <2>3. Latest(rbuf[t], out)
    BY DEF IInv, ReadAtEnd
  <2> QED BY <2>1, <2>2, <2>3, LatestIsSuffix
<1> QED BY <1>1, Invariance, PTL

\* The ring implements the queue, for every size and over any number of turns.
THEOREM RingImplementsFifo == Spec => ImplementsFifo
<1>1. Init => Queue!Init
  BY InitImplements
<1>2. IInv /\ [Next]_vars => [Queue!Next]_(Queue!fifoVars)
  BY StepImplements
<1> QED BY <1>1, <1>2, Invariance, PTL DEF Spec, ImplementsFifo, Queue!Spec

\* No byte that was accepted is lost, doubled or overtaken between the writers
\* and the readers.
THEOREM NothingLost == Spec => []Queue!Conserved
<1> DEFINE Kept == in = out \o Contents
<1>1. Init => Kept
  <2> SUFFICES ASSUME Init PROVE in = out \o Contents
    OBVIOUS
  <2>1. Contents = <<>> /\ in = <<>> /\ out = <<>>
    BY InitImplements DEF Queue!Init
  <2> QED BY <2>1
<1>2. ASSUME IInv, Kept, [Next]_vars
      PROVE  Kept'
  <2>1. Contents \in Seq(Byte) /\ in \in Seq(Byte) /\ out \in Seq(Byte)
    BY <1>2, ContentsUnprimed DEF IInv, TypeOK
  <2>2. CASE Queue!Get
    <3>1. /\ Contents # <<>> /\ Contents' = Tail(Contents)
          /\ out' = Append(out, Head(Contents)) /\ in' = in
      BY <2>2 DEF Queue!Get
    <3>2. Append(out, Head(Contents)) \o Tail(Contents) = out \o Contents
      <4> DEFINE c == Contents
      <4> HIDE DEF c
      <4>1. c \in Seq(Byte) /\ c # <<>>
        BY <2>1, <3>1 DEF c
      <4>2. /\ Head(c) \in Byte /\ Tail(c) \in Seq(Byte) /\ <<Head(c)>> \in Seq(Byte)
            /\ c = <<Head(c)>> \o Tail(c)
        <5>1. Head(c) \in Byte /\ Tail(c) \in Seq(Byte)
          BY <4>1, HeadTailProperties
        <5>2. c = <<Head(c)>> \o Tail(c)
          BY <4>1, HeadTailProperties
        <5> QED BY <5>1, <5>2
      <4>3. Append(out, Head(c)) = out \o <<Head(c)>>
        BY <2>1, <4>2, AppendIsConcat
      <4>4. (out \o <<Head(c)>>) \o Tail(c) = out \o (<<Head(c)>> \o Tail(c))
        BY <2>1, <4>2, Regroup
      <4>5. Append(out, Head(c)) \o Tail(c) = out \o c
        BY <4>2, <4>3, <4>4
      <4> QED BY <4>5 DEF c
    <3> QED BY <1>2, <3>1, <3>2
  <2>3. CASE \E b \in Byte : Queue!Put(b)
    <3>1. PICK b \in Byte : Contents' = Append(Contents, b) /\ in' = Append(in, b) /\ out' = out
      BY <2>3 DEF Queue!Put
    <3>2. out \o Append(Contents, b) = Append(out \o Contents, b)
      <4> DEFINE c == Contents
      <4> HIDE DEF c
      <4>1. c \in Seq(Byte) /\ <<b>> \in Seq(Byte) /\ out \o c \in Seq(Byte)
        <5>1. c \in Seq(Byte)
          BY <2>1 DEF c
        <5>2. out \o c \in Seq(Byte)
          BY <2>1, <5>1, ConcatProperties
        <5> QED BY <5>1, <5>2
      <4>2. Append(c, b) = c \o <<b>> /\ Append(out \o c, b) = (out \o c) \o <<b>>
        BY <4>1, AppendIsConcat
      <4>3. (out \o c) \o <<b>> = out \o (c \o <<b>>)
        BY <2>1, <4>1, Regroup
      <4>4. out \o Append(c, b) = Append(out \o c, b)
        BY <4>2, <4>3
      <4> QED BY <4>4 DEF c
    <3> QED BY <1>2, <3>1, <3>2
  <2>4. CASE UNCHANGED Queue!fifoVars
    BY <1>2, <2>4 DEF Queue!fifoVars
  <2>5. [Queue!Next]_(Queue!fifoVars)
    BY <1>2, StepImplements
  <2> QED BY <2>2, <2>3, <2>4, <2>5 DEF Queue!Next
<1> HIDE DEF Kept
<1>3. Spec => []Kept
  BY <1>1, <1>2, Invariance, PTL DEF Spec
<1>4. IInv => Len(Contents) <= Size
  BY ContentsUnprimed, IpcAssumption DEF IInv, TypeOK
<1>5. Kept /\ Len(Contents) <= Size => Queue!Conserved
  BY DEF Kept, Queue!Conserved
<1> QED BY <1>3, <1>4, <1>5, Invariance, PTL
=============================================================================
