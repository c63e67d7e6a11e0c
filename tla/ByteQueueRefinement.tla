------------------------- MODULE ByteQueueRefinement -------------------------
(***************************************************************************)
(* Proof that the byte ring implements the abstract channel queue:        *)
(* Spec => ImplementsChannelQueue, for every element size, alignment and  *)
(* initial vector size, under the refinement mapping Contents.            *)
(*                                                                         *)
(* The i-th unread element starts Offset(i) bytes after read_index, at    *)
(* byte Wrap(read_index + Offset(i)) of the ring.  Under IInv (the        *)
(* inductive invariant of ByteQueueProofs) those positions are aligned,  *)
(* distinct and inside the usable bytes.  A Read moves every position by  *)
(* one element, a Write lands at write_index, which no unread element    *)
(* occupies, and Resize moves the wrapped elements to just past the old   *)
(* usable bytes, which the doubled count no longer wraps.                 *)
(***************************************************************************)
EXTENDS ByteQueueProofs, SequenceTheorems

\* The number of unread elements.
Held == Slot(bytes_used)

\* Where the i-th unread element starts, counted from read_index.
Offset(i) == (i - 1) * a

\* Wrap-around of a byte position at max_byte_count.
Wrap(y) == y % max_byte_count

-----------------------------------------------------------------------------
\* The offsets of the unread elements: aligned, and a whole element short
\* of bytes_used.
LEMMA OffsetFacts ==
  ASSUME IInv, NEW i \in 1..Held
  PROVE  /\ Offset(i) \in Nat
         /\ Offset(i) % a = 0
         /\ Offset(i) + a <= bytes_used
  <1>1. a \in Nat \ {0} /\ bytes_used \in Nat /\ bytes_used % a = 0
    BY IInvFacts DEF IInv
  <1>2. i - 1 \in Nat /\ Held \in Nat
    BY <1>1, SMT DEF Held, Slot, a
  <1>3. Offset(i) \in Nat /\ Offset(i) % a = 0
    BY <1>1, <1>2, MulMod, SMT DEF Offset
  <1>4. Held * a = bytes_used
    BY <1>1, DivMod DEF Held, Slot, a
  <1>5. i * a <= Held * a
    BY <1>1, <1>2, SMT
  <1>. QED
    BY <1>1, <1>3, <1>4, <1>5, SMT DEF Offset

\* A byte position x bytes past read_index, for x short of max_byte_count:
\* wrapped at most once, aligned, and a slot of the buffer.
LEMMA PositionFacts ==
  ASSUME IInv, NEW x \in Nat, x % a = 0, x < max_byte_count
  PROVE  /\ Wrap(read_index + x) = IF read_index + x < max_byte_count
                                    THEN read_index + x
                                    ELSE read_index + x - max_byte_count
         /\ Wrap(read_index + x) \in Nat
         /\ Wrap(read_index + x) % a = 0
         /\ Wrap(read_index + x) < max_byte_count
         /\ Slot(Wrap(read_index + x)) \in DOMAIN circular_buffer
  <1>1. /\ a \in Nat \ {0} /\ read_index \in Nat /\ bytes_used \in Nat
        /\ max_byte_count \in Nat /\ max_byte_count % a = 0
        /\ read_index % a = 0 /\ read_index < max_byte_count
        /\ bytes_used <= max_byte_count
        /\ circular_buffer \in [0..Slot(max_byte_count) - 1 -> Data]
    BY IInvFacts DEF IInv
  <1>2. max_byte_count \in Nat \ {0} /\ read_index + x \in Nat
        /\ read_index + x < 2 * max_byte_count
    BY <1>1, SMT
  <1>3. Wrap(read_index + x) = IF read_index + x < max_byte_count
                               THEN read_index + x
                               ELSE read_index + x - max_byte_count
    BY <1>1, <1>2, SMT DEF Wrap
  <1>4. (read_index + x) % a = 0
    BY <1>1, AlignedAdd
  <1>5. Wrap(read_index + x) % a = 0
    <2>1. CASE read_index + x < max_byte_count
      BY <1>3, <1>4, <2>1
    <2>2. CASE ~(read_index + x < max_byte_count)
      <3>1. max_byte_count <= read_index + x
        BY <1>1, <2>2, SMT
      <3>. QED
        BY <1>1, <1>2, <1>3, <1>4, <2>2, <3>1, AlignedSub
    <2>. QED
      BY <2>1, <2>2
  <1>6. Wrap(read_index + x) \in Nat /\ Wrap(read_index + x) < max_byte_count
    BY <1>1, <1>2, <1>3, SMT
  <1>7. Slot(Wrap(read_index + x)) \in 0..Slot(max_byte_count) - 1
    BY <1>1, <1>5, <1>6, SMT DEF Slot, a
  <1>. QED
    BY <1>1, <1>3, <1>5, <1>6, <1>7

LEMMA ContentsType ==
  ASSUME IInv
  PROVE  /\ Held \in Nat
         /\ Contents = [i \in 1..Held |->
                          circular_buffer[Slot(Wrap(read_index + Offset(i)))]]
         /\ Contents \in Seq(Data)
         /\ Len(Contents) = Held
  <1>1. Held \in Nat
    BY IInvFacts, SMT DEF Held, Slot, a
  <1>2. Contents = [i \in 1..Held |->
                      circular_buffer[Slot(Wrap(read_index + Offset(i)))]]
    BY DEF Contents, Held, Wrap, Offset, a
  <1>3. \A i \in 1..Held :
          circular_buffer[Slot(Wrap(read_index + Offset(i)))] \in Data
    <2>. SUFFICES ASSUME NEW i \in 1..Held
                  PROVE  circular_buffer[Slot(Wrap(read_index + Offset(i)))] \in Data
      OBVIOUS
    <2>1. Offset(i) \in Nat /\ Offset(i) % a = 0 /\ Offset(i) < max_byte_count
      BY OffsetFacts, IInvFacts, SMT DEF IInv
    <2>. QED
      BY <2>1, PositionFacts, IInvFacts
  <1>. QED
    BY <1>1, <1>2, <1>3

-----------------------------------------------------------------------------
(***************************************************************************)
(* Step simulation: each step of the ring is a step of ChannelQueueSpec   *)
(* on (is_single_value, Contents, out).                                    *)
(***************************************************************************)
LEMMA InitRefines == Init => Abstract!Init
  <1>. SUFFICES ASSUME Init PROVE Abstract!Init
    OBVIOUS
  <1>1. IInv
    BY InitIInv
  <1>2. Held = 0
    BY <1>1, IInvFacts, SMT DEF Init, Held, Slot, a
  <1>3. Contents = << >>
    BY <1>1, <1>2, ContentsType, SMT
  <1>. QED
    BY <1>3 DEF Init, Abstract!Init

\* The oldest unread element sits at read_index.
LEMMA HeadAtReadIndex ==
  ASSUME IInv, bytes_used > 0
  PROVE  /\ Contents # << >>
         /\ Head(Contents) = circular_buffer[Slot(read_index)]
  <1>1. /\ a \in Nat \ {0} /\ read_index \in Nat /\ bytes_used \in Nat
        /\ max_byte_count \in Nat /\ read_index < max_byte_count
        /\ bytes_used % a = 0
    BY IInvFacts DEF IInv
  <1>2. Held >= 1
    BY <1>1, SMT DEF Held, Slot, a
  <1>3. Wrap(read_index + Offset(1)) = read_index
    BY <1>1, SMT DEF Wrap, Offset
  <1>. QED
    BY <1>2, <1>3, ContentsType, SMT

LEMMA ReadRefines ==
  ASSUME IInv, Read
  PROVE  Abstract!Read
  <1>1. /\ a \in Nat \ {0} /\ read_index \in Nat /\ bytes_used \in Nat
        /\ max_byte_count \in Nat /\ read_index < max_byte_count
        /\ bytes_used <= max_byte_count
        /\ read_index % a = 0 /\ bytes_used % a = 0 /\ max_byte_count % a = 0
        /\ bytes_used > 0
    BY IInvFacts DEF IInv, Read
  <1>2. Contents # << >> /\ out' = Head(Contents)
    BY <1>1, HeadAtReadIndex DEF Read
  <1>3. UNCHANGED is_single_value
    BY DEF Read, Members
  <1>4. CASE is_single_value
    <2>1. Contents' = Contents
      BY <1>4 DEF Read, Members, Contents, Slot, a
    <2>. QED
      BY <1>2, <1>3, <1>4, <2>1 DEF Abstract!Read
  <1>5. CASE ~is_single_value
    <2>1. /\ bytes_used' = bytes_used - a
          /\ read_index' = IF read_index + a = max_byte_count
                           THEN 0 ELSE read_index + a
          /\ UNCHANGED <<circular_buffer, max_byte_count>>
          /\ a' = a
      BY <1>5 DEF Read, Members, a
    <2>2. read_index + a <= max_byte_count /\ a <= bytes_used
      <3>1. 0 \in Nat /\ 0 % a = 0 /\ 0 < bytes_used
        BY <1>1, SMT
      <3>2. 0 + a <= bytes_used
        BY <1>1, <3>1, AlignedGap, Zenon
      <3>3. read_index + a <= max_byte_count
        BY <1>1, AlignedGap, Zenon
      <3>. QED
        BY <1>1, <3>2, <3>3, SMT
    <2>3. Held \in Nat /\ Held' = Held - 1 /\ Held >= 1
      BY <1>1, <2>1, <2>2, SMT DEF Held, Slot, a
    <2>4. Contents' = [i \in 1..Held - 1 |->
                         circular_buffer[Slot(Wrap(read_index' + Offset(i)))]]
      BY <2>1, <2>3 DEF Contents, Held, Wrap, Offset, Slot, a
    <2>5. ASSUME NEW i \in 1..Held - 1
          PROVE  Wrap(read_index' + Offset(i)) = Wrap(read_index + Offset(i + 1))
      <3>1. i + 1 \in 1..Held
        BY <2>3, SMT
      <3>2. Offset(i + 1) + a <= bytes_used /\ Offset(i + 1) \in Nat
        BY <3>1, OffsetFacts
      <3>3. Offset(i + 1) = Offset(i) + a /\ Offset(i) \in Nat
        BY <1>1, <3>2, SMT DEF Offset
      <3>4. Offset(i) + a < max_byte_count
        BY <1>1, <3>2, <3>3, SMT
      <3>5. CASE read_index + a = max_byte_count
        <4>1. read_index' = 0
          BY <2>1, <3>5
        <4>2. (0 + Offset(i)) % max_byte_count = Offset(i)
          BY <1>1, <3>3, <3>4, SMT
        <4>3. (read_index + Offset(i + 1)) % max_byte_count = Offset(i)
          BY <1>1, <3>3, <3>4, <3>5, SMT
        <4>. QED
          BY <4>1, <4>2, <4>3 DEF Wrap
      <3>6. CASE read_index + a # max_byte_count
        <4>1. read_index' = read_index + a
          BY <2>1, <3>6
        <4>2. read_index' + Offset(i) = read_index + Offset(i + 1)
          BY <1>1, <3>3, <4>1, SMT
        <4>. QED
          BY <4>2 DEF Wrap
      <3>. QED
        BY <3>5, <3>6
    <2>6. Contents' = Tail(Contents)
      <3>1. Contents \in Seq(Data) /\ Len(Contents) = Held
            /\ \A i \in 1..Held :
                 Contents[i] = circular_buffer[Slot(Wrap(read_index + Offset(i)))]
        BY ContentsType
      <3>2. /\ Tail(Contents) \in Seq(Data)
            /\ Len(Tail(Contents)) = Held - 1
            /\ \A i \in 1..Held - 1 : Tail(Contents)[i] = Contents[i + 1]
        BY <1>2, <3>1, HeadTailProperties
      <3>3. Tail(Contents) = [i \in 1..Held - 1 |-> Contents[i + 1]]
        <4>1. Tail(Contents) \in [1..Held - 1 -> Data]
          BY <3>2, LenProperties
        <4>. QED
          BY <3>2, <4>1
      <3>. QED
        BY <2>3, <2>4, <2>5, <3>1, <3>3
    <2>. QED
      BY <1>2, <1>3, <1>5, <2>6 DEF Abstract!Read
  <1>. QED
    BY <1>4, <1>5

LEMMA WriteSingleValueRefines ==
  ASSUME IInv, NEW v \in Values, WriteSingleValue(v)
  PROVE  Abstract!Write(v)
  <1>1. /\ a \in Nat \ {0} /\ max_byte_count \in Nat /\ a <= max_byte_count
        /\ circular_buffer \in [0..Slot(max_byte_count) - 1 -> Data]
        /\ is_single_value /\ read_index = 0
    BY IInvFacts DEF IInv, WriteSingleValue
  <1>2. /\ circular_buffer' = [circular_buffer EXCEPT ![0] = v]
        /\ bytes_used' = a
        /\ UNCHANGED <<max_byte_count, read_index, out, is_single_value>>
        /\ a' = a
    BY DEF WriteSingleValue, Members, a
  <1>3. Slot(a) = 1 /\ 0 \in 0..Slot(max_byte_count) - 1
    BY <1>1, SMT DEF Slot, a
  <1>4. Contents' = [i \in 1..1 |->
                       circular_buffer'[Slot((0 + (i - 1) * a) % max_byte_count)]]
    BY <1>1, <1>2, <1>3 DEF Contents, Slot, a
  <1>5. Slot((0 + (1 - 1) * a) % max_byte_count) = 0
    BY <1>1, SMT DEF Slot, a
  <1>6. circular_buffer'[0] = v
    BY <1>1, <1>2, <1>3
  <1>7. Contents' = << v >>
    BY <1>4, <1>5, <1>6
  <1>. QED
    BY <1>1, <1>2, <1>7 DEF Abstract!Write

\* Appending to a sequence, as a function on its positions.
LEMMA AppendAsFunction ==
  ASSUME NEW S, NEW s \in Seq(S), NEW e \in S
  PROVE  /\ Append(s, e) \in [1..Len(s) + 1 -> S]
         /\ \A i \in 1..Len(s) : Append(s, e)[i] = s[i]
         /\ Append(s, e)[Len(s) + 1] = e
  <1>1. Append(s, e) \in Seq(S) /\ Len(Append(s, e)) = Len(s) + 1
    BY AppendProperties
  <1>2. Append(s, e) \in [1..Len(s) + 1 -> S]
    BY <1>1, LenProperties
  <1>. QED
    BY <1>2, AppendProperties

\* A write into a queue that is not full lands past every unread element.
LEMMA WriteFifoRoomRefines ==
  ASSUME IInv, NEW v \in Values, WriteFifo(v), bytes_used # max_byte_count
  PROVE  Abstract!Write(v)
  <1>1. /\ a \in Nat \ {0} /\ read_index \in Nat /\ bytes_used \in Nat
        /\ max_byte_count \in Nat /\ max_byte_count % a = 0
        /\ read_index % a = 0 /\ bytes_used % a = 0
        /\ read_index < max_byte_count /\ bytes_used < max_byte_count
        /\ ~is_single_value
        /\ write_index = IF read_index + bytes_used < max_byte_count
                         THEN read_index + bytes_used
                         ELSE read_index + bytes_used - max_byte_count
    BY IInvFacts DEF IInv, WriteFifo
  <1>2. /\ circular_buffer' = [circular_buffer EXCEPT ![Slot(write_index)] = v]
        /\ bytes_used' = bytes_used + a
        /\ UNCHANGED <<max_byte_count, read_index, out, is_single_value>>
        /\ a' = a
    BY <1>1 DEF WriteFifo, Members, a
  <1>3. Held \in Nat /\ Held' = Held + 1
    BY <1>1, <1>2, SMT DEF Held, Slot, a
  <1>4. Contents' = [i \in 1..Held + 1 |->
                       circular_buffer'[Slot(Wrap(read_index + Offset(i)))]]
    BY <1>2, <1>3 DEF Contents, Held, Wrap, Offset, Slot, a
  <1>5. /\ write_index = Wrap(read_index + bytes_used)
        /\ write_index \in Nat /\ write_index % a = 0
        /\ Slot(write_index) \in DOMAIN circular_buffer
    BY <1>1, PositionFacts
  <1>6. ASSUME NEW i \in 1..Held
        PROVE  circular_buffer'[Slot(Wrap(read_index + Offset(i)))]
                 = Contents[i]
    <2>. DEFINE x == Offset(i)
                pos == Wrap(read_index + x)
    <2>1. x \in Nat /\ x % a = 0 /\ x + a <= bytes_used
      BY OffsetFacts
    <2>2. /\ pos = IF read_index + x < max_byte_count
                   THEN read_index + x ELSE read_index + x - max_byte_count
          /\ pos \in Nat /\ pos % a = 0
          /\ Slot(pos) \in DOMAIN circular_buffer
      <3>1. x < max_byte_count
        BY <1>1, <2>1, SMT
      <3>. QED
        BY <2>1, <3>1, PositionFacts
    <2>3. pos # write_index
      BY <1>1, <2>1, <2>2, SMT
    <2>4. Slot(pos) # Slot(write_index)
      <3>1. CASE pos < write_index
        BY <1>1, <1>5, <2>2, <3>1, SlotLess, SMT DEF Slot, a
      <3>2. CASE write_index < pos
        BY <1>1, <1>5, <2>2, <3>2, SlotLess, SMT DEF Slot, a
      <3>. QED
        BY <1>1, <1>5, <2>2, <2>3, <3>1, <3>2, SMT
    <2>5. Contents[i] = circular_buffer[Slot(pos)]
      BY ContentsType
    <2>. QED
      BY <1>2, <2>2, <2>4, <2>5
  <1>7. circular_buffer'[Slot(Wrap(read_index + Offset(Held + 1)))] = v
    <2>1. Offset(Held + 1) = bytes_used
      BY <1>1, <1>3, DivMod, SMT DEF Offset, Held, Slot, a
    <2>. QED
      BY <1>2, <1>5, <2>1
  <1>8. Contents' = Append(Contents, v)
    <2>1. Contents \in Seq(Data) /\ Len(Contents) = Held /\ v \in Data
      BY ContentsType DEF Data
    <2>2. /\ Append(Contents, v) \in [1..Held + 1 -> Data]
          /\ \A i \in 1..Held : Append(Contents, v)[i] = Contents[i]
          /\ Append(Contents, v)[Held + 1] = v
      BY <2>1, AppendAsFunction
    <2>3. \A i \in 1..Held + 1 :
            circular_buffer'[Slot(Wrap(read_index + Offset(i)))]
              = Append(Contents, v)[i]
      BY <1>3, <1>6, <1>7, <2>2, SMT
    <2>. QED
      BY <1>4, <2>2, <2>3
  <1>. QED
    BY <1>1, <1>2, <1>8 DEF Abstract!Write

(***************************************************************************)
(* A write into a full queue (part_000 lines 61-78, then the write).      *)
(* The i-th unread element was at read_index + Offset(i), wrapped at the  *)
(* old max_byte_count.  The doubled count no longer wraps any of them:    *)
(* those that were not wrapped stay in place, and Resize moved the        *)
(* wrapped ones, [0, read_index), to start at the old max_byte_count,     *)
(* exactly where the unwrapped position now lies.  The new element goes   *)
(* to read_index + max_byte_count, past all of them.                       *)
(***************************************************************************)
LEMMA WriteFifoResizeRefines ==
  ASSUME IInv, NEW v \in Values, WriteFifo(v), bytes_used = max_byte_count
  PROVE  Abstract!Write(v)
  <1>. DEFINE M == max_byte_count
              RM == ResizedMaxByteCount
              r == read_index
  <1>1. /\ a \in Nat \ {0} /\ r \in Nat /\ M \in Nat /\ M % a = 0
        /\ r % a = 0 /\ r < M /\ a <= M
        /\ ~is_single_value /\ buffer_size \in Nat
        /\ M = (buffer_size \div a) * a
        /\ circular_buffer \in [0..Slot(M) - 1 -> Data]
    BY IInvFacts DEF IInv, WriteFifo, MaxByteCount, a
  <1>2. RM \in Nat /\ RM % a = 0 /\ RM >= 2 * M
    <2>1. 2 * buffer_size \in Nat
      BY <1>1, SMT
    <2>2. RM = ((2 * buffer_size) \div a) * a
      BY <1>1, SMT DEF ResizedMaxByteCount, ResizedSize, MaxByteCount, a
    <2>3. /\ (((2 * buffer_size) \div a) * a) % a = 0
          /\ ((2 * buffer_size) \div a) * a \in Nat
          /\ ((2 * buffer_size) \div a) * a >= 2 * ((buffer_size \div a) * a)
      BY <1>1, <2>1, WholeElements, Zenon
    <2>. QED
      BY <1>1, <2>2, <2>3, SMT
  <1>3. ResizedWriteIndex = r + M /\ (r + M) % a = 0 /\ r + M \in Nat
    <2>1. ResizedWriteIndex = r + M
      BY <1>1, <1>2, SMT DEF ResizedWriteIndex
    <2>2. (r + M) % a = 0
      BY <1>1, AlignedAdd, Zenon
    <2>. QED
      BY <1>1, <2>1, <2>2, SMT
  <1>4. /\ circular_buffer' = [ResizedBuffer EXCEPT ![Slot(r + M)] = v]
        /\ bytes_used' = M + a
        /\ max_byte_count' = RM
        /\ UNCHANGED <<read_index, out, is_single_value>>
        /\ a' = a
    BY <1>1, <1>3 DEF WriteFifo, Members, a
  <1>5. ResizedBuffer =
          [k \in 0..Slot(RM) - 1 |->
             IF r # 0 /\ Slot(M) <= k /\ k < Slot(M + r)
             THEN circular_buffer[k - Slot(M)]
             ELSE IF k \in DOMAIN circular_buffer THEN circular_buffer[k]
                                                  ELSE Zero]
    BY DEF ResizedBuffer
  <1>6. Held \in Nat /\ Held' = Held + 1 /\ Held * a = M
    <2>1. Held \in Nat
      BY <1>1, SMT DEF Held, Slot, a
    <2>2. Held * a = M
      BY <1>1, DivMod DEF Held, Slot, a
    <2>3. (M + a) \div a = M \div a + a \div a
      BY <1>1, SlotAdd
    <2>4. Held' = (M + a) \div a
      BY <1>4 DEF Held, Slot, a
    <2>. QED
      BY <1>1, <2>1, <2>2, <2>3, <2>4, SMT DEF Held, Slot, a
  <1>7. Contents' = [i \in 1..Held + 1 |->
                       circular_buffer'[Slot((r + Offset(i)) % RM)]]
    BY <1>4, <1>6 DEF Contents, Held, Offset, Slot, a
  <1>8. ASSUME NEW i \in 1..Held + 1
        PROVE  /\ Offset(i) \in Nat /\ Offset(i) % a = 0 /\ Offset(i) <= M
               /\ (r + Offset(i)) % RM = r + Offset(i)
    <2>1. Offset(i) \in Nat /\ Offset(i) % a = 0
      BY <1>1, MulMod, SMT DEF Offset
    <2>2. Offset(i) <= M
      BY <1>1, <1>6, SMT DEF Offset
    <2>3. r + Offset(i) \in Nat /\ r + Offset(i) < RM /\ RM \in Nat \ {0}
      BY <1>1, <1>2, <2>1, <2>2, SMT
    <2>4. (r + Offset(i)) % RM = r + Offset(i)
      BY <2>3, SMT
    <2>. QED
      BY <2>1, <2>2, <2>4
  <1>9. Slot(r + M) \in 0..Slot(RM) - 1
    BY <1>1, <1>2, <1>3, SlotLess, SMT DEF Slot, a
  <1>10. ASSUME NEW i \in 1..Held
         PROVE  circular_buffer'[Slot(r + Offset(i))] = Contents[i]
    <2>. DEFINE x == Offset(i)
                pos == r + x
                k == Slot(pos)
    <2>1. x \in Nat /\ x % a = 0 /\ x + a <= M
      BY OffsetFacts DEF IInv
    <2>2. pos \in Nat /\ pos % a = 0 /\ pos < r + M
      <3>1. (r + x) % a = 0
        BY <1>1, <2>1, AlignedAdd, Zenon
      <3>. QED
        BY <1>1, <2>1, <3>1, SMT
    <2>3. k < Slot(r + M) /\ k \in 0..Slot(RM) - 1
      <3>1. pos \div a < (r + M) \div a
        BY <1>1, <1>3, <2>2, SlotLess, Zenon
      <3>2. k \in Nat
        BY <1>1, <2>2, SMT DEF Slot, a, k
      <3>3. k < Slot(r + M)
        BY <3>1 DEF Slot, a, k
      <3>4. Slot(r + M) \in Nat /\ Slot(r + M) <= Slot(RM) - 1
        BY <1>9
      <3>5. Slot(RM) \in Nat
        BY <1>1, <1>2, SMT DEF Slot, a
      <3>. QED
        BY <3>2, <3>3, <3>4, <3>5, SMT
    <2>4. circular_buffer'[k] = ResizedBuffer[k]
      BY <1>4, <1>5, <2>3, SMT
    <2>5. /\ Wrap(pos) = IF pos < M THEN pos ELSE pos - M
          /\ Contents[i] = circular_buffer[Slot(Wrap(pos))]
      <3>1. x < M
        BY <1>1, <2>1, SMT
      <3>2. Wrap(read_index + x) = IF read_index + x < max_byte_count
                                   THEN read_index + x
                                   ELSE read_index + x - max_byte_count
        BY <2>1, <3>1, PositionFacts
      <3>3. Contents[i] = circular_buffer[Slot(Wrap(read_index + Offset(i)))]
        BY ContentsType
      <3>4. Wrap(pos) = IF pos < M THEN pos ELSE pos - M
        <4>1. read_index \in Int /\ x \in Int /\ M \in Int
          BY <1>1, <2>1
        <4>. QED
          BY ONLY <3>2, <4>1, SMT
      <3>5. Contents[i] = circular_buffer[Slot(Wrap(pos))]
        BY <3>3, Zenon
      <3>. QED
        BY <3>4, <3>5
    <2>6. CASE pos < M
      <3>1. k < Slot(M) /\ k \in DOMAIN circular_buffer
        <4>1. pos \div a < M \div a
          BY <1>1, <2>2, <2>6, SlotLess, Zenon
        <4>. QED
          BY <1>1, <2>2, <4>1, SMT DEF Slot, a
      <3>2. ResizedBuffer[k] = circular_buffer[k]
        <4>1. Slot(M) \in Nat /\ k \in Nat
          BY <1>1, <2>2, SMT DEF Slot, a
        <4>. QED
          BY <1>5, <2>3, <3>1, <4>1, SMT
      <3>3. Wrap(pos) = pos
        BY <2>5, <2>6
      <3>. QED
        BY <2>4, <2>5, <3>2, <3>3
    <2>7. CASE ~(pos < M)
      <3>1. r # 0 /\ M <= pos
        BY <1>1, <2>1, <2>7, SMT
      <3>2. pos - M \in Nat /\ (pos - M) % a = 0
        <4>1. (pos - M) % a = 0
          BY <1>1, <2>2, <3>1, AlignedSub, Zenon
        <4>. QED
          BY <1>1, <2>2, <3>1, <4>1, SMT
      <3>3. k = Slot(M) + Slot(pos - M)
        <4>1. (M + (pos - M)) \div a = M \div a + (pos - M) \div a
          BY <1>1, <3>2, SlotAdd
        <4>2. M + (pos - M) = pos
          BY <1>1, <2>2, SMT
        <4>. QED
          BY <4>1, <4>2 DEF Slot, a
      <3>4. Slot(M) <= k /\ k < Slot(M + r)
        BY <1>1, <2>3, <3>2, <3>3, SMT DEF Slot, a
      <3>5. ResizedBuffer[k] = circular_buffer[Slot(pos - M)]
        <4>1. ResizedBuffer[k] = circular_buffer[k - Slot(M)]
          BY <1>5, <2>3, <3>1, <3>4
        <4>2. k - Slot(M) = Slot(pos - M)
          BY <1>1, <3>2, <3>3, SMT DEF Slot, a
        <4>. QED
          BY <4>1, <4>2
      <3>. QED
        BY <2>4, <2>5, <2>7, <3>5
    <2>. QED
      BY <2>6, <2>7
  <1>11. circular_buffer'[Slot(r + Offset(Held + 1))] = v
    <2>1. Offset(Held + 1) = M
      BY <1>6, SMT DEF Offset
    <2>2. Slot(r + M) \in DOMAIN ResizedBuffer
      BY <1>5, <1>9
    <2>. QED
      BY <1>4, <2>1, <2>2
  <1>12. Contents' = Append(Contents, v)
    <2>1. Contents \in Seq(Data) /\ Len(Contents) = Held /\ v \in Data
      BY ContentsType DEF Data
    <2>2. /\ Append(Contents, v) \in [1..Held + 1 -> Data]
          /\ \A i \in 1..Held : Append(Contents, v)[i] = Contents[i]
          /\ Append(Contents, v)[Held + 1] = v
      BY <2>1, AppendAsFunction
    <2>3. \A i \in 1..Held + 1 :
            circular_buffer'[Slot((r + Offset(i)) % RM)] = Append(Contents, v)[i]
      <3>. SUFFICES ASSUME NEW i \in 1..Held + 1
                    PROVE  circular_buffer'[Slot((r + Offset(i)) % RM)]
                             = Append(Contents, v)[i]
        OBVIOUS
      <3>1. (r + Offset(i)) % RM = r + Offset(i)
        BY <1>8
      <3>2. CASE i \in 1..Held
        BY <2>2, <1>10, <3>1, <3>2
      <3>3. CASE i = Held + 1
        BY <2>2, <1>11, <3>1, <3>3
      <3>4. i \in 1..Held \/ i = Held + 1
        BY <1>6, SMT
      <3>. QED
        BY <3>2, <3>3, <3>4
    <2>. QED
      BY <1>7, <2>2, <2>3
  <1>. QED
    BY <1>1, <1>4, <1>12 DEF Abstract!Write

-----------------------------------------------------------------------------
LEMMA NextRefines == IInv /\ [Next]_vars => [Abstract!Next]_Abstract!vars
  <1>. SUFFICES ASSUME IInv, [Next]_vars PROVE [Abstract!Next]_Abstract!vars
    OBVIOUS
  <1>1. ASSUME NEW v \in Values, Write(v) PROVE Abstract!Next
    <2>1. Abstract!Write(v)
      <3>1. CASE WriteSingleValue(v)
        BY <3>1, WriteSingleValueRefines
      <3>2. CASE WriteFifo(v) /\ bytes_used # max_byte_count
        BY <3>2, WriteFifoRoomRefines
      <3>3. CASE WriteFifo(v) /\ bytes_used = max_byte_count
        BY <3>3, WriteFifoResizeRefines
      <3>. QED
        BY <1>1, <3>1, <3>2, <3>3 DEF Write
    <2>. QED
      BY <2>1 DEF Abstract!Next
  <1>2. CASE Read
    BY <1>2, ReadRefines DEF Abstract!Next
  <1>3. CASE UNCHANGED vars
    <2>1. Contents' = Contents
      BY <1>3 DEF vars, Contents, Slot, a
    <2>. QED
      BY <1>3, <2>1 DEF vars, Abstract!vars
  <1>. QED
    BY <1>1, <1>2, <1>3 DEF Next

(***************************************************************************)
(* The byte ring of ByteQueue implements the channel queue promised by    *)
(* spec section 3, for every element size, alignment and initial vector   *)
(* size: read off the ring from read_index, its contents start empty;     *)
(* every Write appends the element (a SingleValue queue replaces it),     *)
(* including the Write that first runs Resize (part_000 lines 61-78) on a *)
(* wrapped full ring; every Read returns the oldest unread element and,   *)
(* on a FIFO queue, consumes it.                                           *)
(***************************************************************************)
THEOREM RingImplementsChannelQueue == Spec => ImplementsChannelQueue
  <1>1. Init => Abstract!Init
    BY InitRefines
  <1>2. Init => IInv
    BY InitIInv
  <1>3. IInv /\ [Next]_vars => IInv'
    BY NextIInv
  <1>4. IInv /\ [Next]_vars => [Abstract!Next]_Abstract!vars
    BY NextRefines
  <1>. QED
    BY <1>1, <1>2, <1>3, <1>4, PTL DEF Spec, ImplementsChannelQueue, Abstract!Spec

=============================================================================
