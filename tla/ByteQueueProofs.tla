--------------------------- MODULE ByteQueueProofs ---------------------------
(***************************************************************************)
(* Proofs that the byte ring keeps its type and its representation        *)
(* invariant for every element size, alignment and initial buffer size:  *)
(* Spec => [](TypeOK /\ RepInv).  Neither is inductive alone: Read and    *)
(* Resize index the buffer, which needs the index bounds of RepInv, and   *)
(* RepInv's wrap-around arithmetic needs every index aligned.  IInv is    *)
(* their conjunction with positivity of the element size and the write    *)
(* index relation written without `%`.                                    *)
(***************************************************************************)
EXTENDS ByteQueue, TLAPS

a == allocated_element_size

(***************************************************************************)
(* Arithmetic of byte offsets that are multiples of a positive size.      *)
(***************************************************************************)
LEMMA DivMod ==
  ASSUME NEW n \in Nat \ {0}, NEW x \in Nat
  PROVE  x = (x \div n) * n + (x % n)
  BY SMT

LEMMA MulMod ==
  ASSUME NEW n \in Nat \ {0}, NEW q \in Nat
  PROVE  (q * n) % n = 0 /\ (q * n) \div n = q
  BY SMT

LEMMA AlignedAdd ==
  ASSUME NEW n \in Nat \ {0}, NEW x \in Nat, NEW y \in Nat,
         x % n = 0, y % n = 0
  PROVE  (x + y) % n = 0
  <1>1. x = (x \div n) * n /\ y = (y \div n) * n
    BY DivMod
  <1>2. x + y = ((x \div n) + (y \div n)) * n
    BY <1>1, SMT
  <1>3. (x \div n) + (y \div n) \in Nat
    BY SMT
  <1>4. (((x \div n) + (y \div n)) * n) % n = 0
    BY <1>3, MulMod, Zenon
  <1>. QED
    BY <1>2, <1>4

LEMMA AlignedSub ==
  ASSUME NEW n \in Nat \ {0}, NEW x \in Nat, NEW y \in Nat,
         x % n = 0, y % n = 0, y <= x
  PROVE  (x - y) % n = 0
  <1>1. x = (x \div n) * n /\ y = (y \div n) * n
    BY DivMod
  <1>2. (y \div n) <= (x \div n)
    BY <1>1, SMT
  <1>3. x - y = ((x \div n) - (y \div n)) * n
    BY <1>1, SMT
  <1>4. (x \div n) - (y \div n) \in Nat
    BY <1>2, SMT
  <1>5. (((x \div n) - (y \div n)) * n) % n = 0
    BY <1>4, MulMod, Zenon
  <1>. QED
    BY <1>3, <1>5

\* Two distinct multiples of n are at least n apart.
LEMMA AlignedGap ==
  ASSUME NEW n \in Nat \ {0}, NEW x \in Nat, NEW y \in Nat,
         x % n = 0, y % n = 0, x < y
  PROVE  x + n <= y
  <1>1. x = (x \div n) * n /\ y = (y \div n) * n
    BY DivMod
  <1>2. x \div n < y \div n
    BY SMT
  <1>3. ((x \div n) + 1) * n <= (y \div n) * n
    BY <1>2, SMT
  <1>. QED
    BY <1>1, <1>3, SMT

LEMMA SlotLess ==
  ASSUME NEW n \in Nat \ {0}, NEW x \in Nat, NEW y \in Nat,
         x % n = 0, y % n = 0, x < y
  PROVE  x \div n < y \div n
  BY SMT

LEMMA SlotAdd ==
  ASSUME NEW n \in Nat \ {0}, NEW x \in Nat, NEW y \in Nat, x % n = 0
  PROVE  (x + y) \div n = x \div n + y \div n
  BY SMT

\* The whole elements of a vector: aligned, at least one if the vector
\* holds one, and at least doubled when the vector doubles.
LEMMA WholeElements ==
  ASSUME NEW n \in Nat \ {0}, NEW s \in Nat
  PROVE  /\ ((s \div n) * n) % n = 0
         /\ (s \div n) * n \in Nat
         /\ s >= n => (s \div n) * n >= n
         /\ ((2 * s) \div n) * n >= 2 * ((s \div n) * n)
  BY SMT

LEMMA RoundUpPositive ==
  ASSUME NEW m \in Nat \ {0}, NEW x \in Nat \ {0}
  PROVE  ((x + m - 1) \div m) * m \in Nat \ {0}
  BY SMT

\* The constructor's vector holds at least one element.
LEMMA InitialBufferHoldsElement ==
  ASSUME NEW x \in ElementSizes
  PROVE  /\ InitialBufferSize(RoundUpToNearest(x)) \in Nat
         /\ InitialBufferSize(RoundUpToNearest(x)) >= RoundUpToNearest(x)
  <1>. DEFINE n == RoundUpToNearest(x)
              k == CeilOfLog2(n)
  <1>1. n \in Nat \ {0}
    BY RoundUpPositive, ConstantsAssumption DEF RoundUpToNearest
  <1>2. \E j \in 0..30 : 2^j >= n /\ (j = 0 \/ 2^(j - 1) < n)
    BY CeilOfLog2Assumption
  <1>3. k \in 0..30 /\ 2^k >= n
    BY <1>2 DEF CeilOfLog2
  <1>4. 2^k \in Nat
    BY <1>1, <1>3, SMT
  <1>5. InitialBufferSize(n) = IF 2^k > InitBufferSize THEN 2^k
                                                      ELSE InitBufferSize
    BY DEF InitialBufferSize
  <1>6. InitBufferSize \in Nat
    BY ConstantsAssumption
  <1>. QED
    BY <1>1, <1>3, <1>4, <1>5, <1>6, SMT

-----------------------------------------------------------------------------
IInv ==
  /\ TypeOK
  /\ a \in Nat \ {0}
  /\ max_byte_count = MaxByteCount(buffer_size)
  /\ a <= max_byte_count
  /\ read_index % a = 0
  /\ bytes_used % a = 0
  /\ read_index < max_byte_count
  /\ bytes_used <= max_byte_count
  /\ IF is_single_value
     THEN read_index = 0 /\ write_index = 0 /\ bytes_used <= a
     ELSE write_index = IF read_index + bytes_used < max_byte_count
                        THEN read_index + bytes_used
                        ELSE read_index + bytes_used - max_byte_count

LEMMA InitIInv == Init => IInv
  <1>. SUFFICES ASSUME Init PROVE IInv
    OBVIOUS
  <1>1. channel_element_size \in ElementSizes /\ a = RoundUpToNearest(channel_element_size)
    BY DEF Init, a
  <1>2. a \in Nat \ {0}
    BY <1>1, RoundUpPositive, ConstantsAssumption DEF RoundUpToNearest
  <1>3. buffer_size >= a /\ buffer_size \in Nat
    BY <1>1, <1>2, InitialBufferHoldsElement DEF Init
  <1>4. max_byte_count = MaxByteCount(buffer_size) /\ max_byte_count >= a
        /\ max_byte_count \in Nat
    BY <1>2, <1>3, WholeElements DEF Init, MaxByteCount, a
  <1>. QED
    BY <1>1, <1>2, <1>3, <1>4 DEF Init, IInv, TypeOK, a, Data

\* Facts every step proof starts from.
LEMMA IInvFacts ==
  ASSUME IInv
  PROVE  /\ a \in Nat \ {0}
         /\ read_index \in Nat /\ bytes_used \in Nat /\ write_index \in Nat
         /\ buffer_size \in Nat /\ max_byte_count \in Nat
         /\ max_byte_count % a = 0
         /\ circular_buffer \in [0..Slot(max_byte_count) - 1 -> Data]
  <1>1. a \in Nat \ {0} /\ buffer_size \in Nat
    BY DEF IInv, TypeOK
  <1>2. max_byte_count = (buffer_size \div a) * a
    BY DEF IInv, MaxByteCount, a
  <1>. QED
    BY <1>1, <1>2, WholeElements DEF IInv, TypeOK

\* Read: the slot at read_index is in the buffer; a FIFO read consumes it.
LEMMA ReadIInv ==
  ASSUME IInv, Read
  PROVE  IInv'
  <1>1. /\ a \in Nat \ {0} /\ read_index \in Nat /\ bytes_used \in Nat
        /\ max_byte_count \in Nat /\ max_byte_count % a = 0
        /\ read_index % a = 0 /\ bytes_used % a = 0
        /\ read_index < max_byte_count /\ bytes_used <= max_byte_count
        /\ bytes_used > 0
    BY IInvFacts DEF IInv, Read
  <1>2. Slot(read_index) \in 0..Slot(max_byte_count) - 1
    BY <1>1, SMT DEF Slot, a
  <1>3. out' \in Data
    BY <1>2, IInvFacts DEF Read
  <1>4. /\ UNCHANGED <<circular_buffer, buffer_size, max_byte_count,
                       write_index>>
        /\ UNCHANGED <<channel_element_size, allocated_element_size,
                       is_single_value>>
    BY DEF Read, Members
  <1>5. a' = a
    BY <1>4 DEF a
  <1>6. CASE is_single_value
    <2>1. UNCHANGED <<bytes_used, read_index>>
      BY <1>6 DEF Read
    <2>2. TypeOK'
      BY <1>3, <1>4, <2>1 DEF IInv, TypeOK, Slot
    <2>. QED
      BY <1>4, <1>5, <1>6, <2>1, <2>2 DEF IInv, MaxByteCount, a
  <1>7. CASE ~is_single_value
    <2>1. 0 \in Nat /\ 0 % a = 0 /\ a % a = 0 /\ a \in Nat
      BY <1>1, SMT
    <2>2. 0 + a <= bytes_used
      BY <1>1, <2>1, AlignedGap, Zenon
    <2>3. read_index + a <= max_byte_count
      BY <1>1, <2>1, AlignedGap, Zenon
    <2>4. (bytes_used - a) % a = 0
      <3>1. a <= bytes_used
        BY <1>1, <2>2, SMT
      <3>. QED
        BY <1>1, <2>1, <3>1, AlignedSub, Zenon
    <2>5. (read_index + a) % a = 0
      <3>1. read_index \in Nat /\ a \in Nat \ {0} /\ read_index % a = 0
        BY <1>1
      <3>. QED
        BY <3>1, <2>1, AlignedAdd
    <2>6. /\ bytes_used' = bytes_used - a
          /\ read_index' = IF read_index + a = max_byte_count
                           THEN 0 ELSE read_index + a
      BY <1>7 DEF Read, a
    <2>7. write_index = IF read_index + bytes_used < max_byte_count
                        THEN read_index + bytes_used
                        ELSE read_index + bytes_used - max_byte_count
      BY <1>7 DEF IInv
    <2>8. /\ bytes_used' \in Nat /\ read_index' \in Nat
          /\ bytes_used' % a = 0 /\ read_index' % a = 0
          /\ read_index' < max_byte_count /\ bytes_used' <= max_byte_count
          /\ write_index' = IF read_index' + bytes_used' < max_byte_count
                            THEN read_index' + bytes_used'
                            ELSE read_index' + bytes_used' - max_byte_count
      BY <1>1, <1>4, <2>1, <2>2, <2>3, <2>4, <2>5, <2>6, <2>7, SMT
    <2>9. TypeOK'
      BY <1>3, <1>4, <2>8 DEF IInv, TypeOK, Slot
    <2>. QED
      BY <1>4, <1>5, <1>7, <2>8, <2>9 DEF IInv, MaxByteCount, a
  <1>. QED
    BY <1>6, <1>7

LEMMA WriteSingleValueIInv ==
  ASSUME IInv, NEW v \in Values, WriteSingleValue(v)
  PROVE  IInv'
  <1>1. a \in Nat \ {0} /\ a <= max_byte_count /\ a % a = 0
    BY IInvFacts, SMT DEF IInv
  <1>2. /\ circular_buffer' = [circular_buffer EXCEPT ![0] = v]
        /\ bytes_used' = allocated_element_size
        /\ UNCHANGED <<buffer_size, max_byte_count, read_index, write_index,
                       out>>
        /\ UNCHANGED <<channel_element_size, allocated_element_size,
                       is_single_value>>
        /\ is_single_value
    BY DEF WriteSingleValue, Members
  <1>3. circular_buffer' \in [0..Slot(max_byte_count) - 1 -> Data]
    BY <1>2, IInvFacts DEF Data
  <1>4. TypeOK'
    BY <1>1, <1>2, <1>3 DEF IInv, TypeOK, Slot, a
  <1>. QED
    BY <1>1, <1>2, <1>4 DEF IInv, MaxByteCount, a

\* A write into a queue that is not full.
LEMMA WriteFifoRoomIInv ==
  ASSUME IInv, NEW v \in Values, WriteFifo(v), bytes_used # max_byte_count
  PROVE  IInv'
  <1>1. /\ a \in Nat \ {0} /\ read_index \in Nat /\ bytes_used \in Nat
        /\ max_byte_count \in Nat /\ max_byte_count % a = 0
        /\ read_index % a = 0 /\ bytes_used % a = 0
        /\ read_index < max_byte_count /\ bytes_used < max_byte_count
        /\ ~is_single_value
        /\ write_index = IF read_index + bytes_used < max_byte_count
                         THEN read_index + bytes_used
                         ELSE read_index + bytes_used - max_byte_count
    BY IInvFacts DEF IInv, WriteFifo
  <1>2. a \in Nat /\ a % a = 0
    BY <1>1, SMT
  <1>3. bytes_used + a <= max_byte_count
    BY <1>1, AlignedGap, Zenon
  <1>4. (bytes_used + a) % a = 0
    BY <1>1, <1>2, AlignedAdd, Zenon
  <1>5. (read_index + bytes_used) % a = 0 /\ read_index + bytes_used \in Nat
    <2>1. read_index + bytes_used \in Nat
      BY <1>1, SMT
    <2>. QED
      BY <1>1, <2>1, AlignedAdd, Zenon
  <1>6. read_index + bytes_used < max_byte_count =>
          read_index + bytes_used + a <= max_byte_count
    BY <1>1, <1>5, AlignedGap, Zenon
  <1>7. /\ circular_buffer' = [circular_buffer EXCEPT ![Slot(write_index)] = v]
        /\ bytes_used' = bytes_used + a
        /\ write_index' = IF write_index + a = max_byte_count
                          THEN 0 ELSE write_index + a
        /\ UNCHANGED <<buffer_size, max_byte_count, read_index, out>>
        /\ UNCHANGED <<channel_element_size, allocated_element_size,
                       is_single_value>>
    BY <1>1 DEF WriteFifo, Members, a
  <1>8. write_index' = IF read_index + bytes_used' < max_byte_count
                       THEN read_index + bytes_used'
                       ELSE read_index + bytes_used' - max_byte_count
    BY <1>1, <1>3, <1>6, <1>7, SMT
  <1>9. circular_buffer' \in [0..Slot(max_byte_count) - 1 -> Data]
    BY <1>7, IInvFacts DEF Data
  <1>10. TypeOK'
    <2>1. write_index' \in Nat /\ bytes_used' \in Nat
      BY <1>1, <1>8, <1>7, SMT
    <2>. QED
      BY <1>7, <1>9, <2>1 DEF IInv, TypeOK, Slot
  <1>. QED
    BY <1>1, <1>3, <1>4, <1>7, <1>8, <1>10 DEF IInv, MaxByteCount, a

\* A write into a full queue: Resize, then the write at the realigned index.
LEMMA WriteFifoResizeIInv ==
  ASSUME IInv, NEW v \in Values, WriteFifo(v), bytes_used = max_byte_count
  PROVE  IInv'
  <1>1. /\ a \in Nat \ {0} /\ read_index \in Nat /\ bytes_used \in Nat
        /\ max_byte_count \in Nat /\ max_byte_count % a = 0
        /\ read_index % a = 0 /\ bytes_used % a = 0
        /\ read_index < max_byte_count /\ a <= max_byte_count
        /\ ~is_single_value /\ buffer_size \in Nat
        /\ max_byte_count = (buffer_size \div a) * a
    BY IInvFacts DEF IInv, WriteFifo, MaxByteCount, a
  <1>2. /\ ResizedMaxByteCount \in Nat
        /\ ResizedMaxByteCount % a = 0
        /\ ResizedMaxByteCount >= 2 * max_byte_count
        /\ ResizedSize \in Nat
    <2>1. 2 * buffer_size \in Nat
      BY <1>1, SMT
    <2>2. ResizedMaxByteCount = ((2 * buffer_size) \div a) * a
      BY <1>1, SMT DEF ResizedMaxByteCount, ResizedSize, MaxByteCount, a
    <2>3. /\ (((2 * buffer_size) \div a) * a) % a = 0
          /\ ((2 * buffer_size) \div a) * a \in Nat
          /\ ((2 * buffer_size) \div a) * a >= 2 * ((buffer_size \div a) * a)
      BY <1>1, <2>1, WholeElements, Zenon
    <2>. QED
      BY <1>1, <2>1, <2>2, <2>3, SMT DEF ResizedSize
  <1>3. (read_index + bytes_used) % a = 0 /\ read_index + bytes_used \in Nat
    <2>1. read_index + bytes_used \in Nat
      BY <1>1, SMT
    <2>. QED
      BY <1>1, <2>1, AlignedAdd, Zenon
  <1>4. /\ read_index + bytes_used < ResizedMaxByteCount
        /\ ResizedWriteIndex = read_index + bytes_used
    BY <1>1, <1>2, SMT DEF ResizedWriteIndex
  <1>5. read_index + bytes_used + a <= ResizedMaxByteCount
    BY <1>1, <1>2, <1>3, <1>4, AlignedGap, Zenon
  <1>6. (bytes_used + a) % a = 0
    <2>1. a \in Nat /\ a % a = 0
      BY <1>1, SMT
    <2>. QED
      BY <1>1, <2>1, AlignedAdd, Zenon
  <1>7. /\ circular_buffer' = [ResizedBuffer EXCEPT
                                 ![Slot(read_index + bytes_used)] = v]
        /\ buffer_size' = ResizedSize
        /\ max_byte_count' = ResizedMaxByteCount
        /\ bytes_used' = bytes_used + a
        /\ write_index' = IF read_index + bytes_used + a = ResizedMaxByteCount
                          THEN 0 ELSE read_index + bytes_used + a
        /\ UNCHANGED <<read_index, out>>
        /\ UNCHANGED <<channel_element_size, allocated_element_size,
                       is_single_value>>
    BY <1>1, <1>4 DEF WriteFifo, Members, a
  \* The relocated bytes come from slots [0, Slot(read_index)) of the old buffer.
  <1>8. ResizedBuffer \in [0..Slot(ResizedMaxByteCount) - 1 -> Data]
    <2>1. ASSUME NEW k \in 0..Slot(ResizedMaxByteCount) - 1,
                 Slot(bytes_used) <= k, k < Slot(bytes_used + read_index)
          PROVE  k - Slot(bytes_used) \in 0..Slot(max_byte_count) - 1
      <3>1. (bytes_used + read_index) \div a
              = bytes_used \div a + read_index \div a
        BY <1>1, SlotAdd, Zenon
      <3>2. read_index \div a < max_byte_count \div a
        BY <1>1, SlotLess, Zenon
      <3>. QED
        BY <2>1, <3>1, <3>2, <1>1, SMT DEF Slot, a
    <2>2. circular_buffer \in [0..Slot(max_byte_count) - 1 -> Data]
      BY IInvFacts
    <2>3. Zero \in Data
      BY DEF Data
    <2>. QED
      BY <2>1, <2>2, <2>3 DEF ResizedBuffer
  <1>9. Slot(read_index + bytes_used) \in 0..Slot(ResizedMaxByteCount) - 1
    <2>1. (read_index + bytes_used) \div a < ResizedMaxByteCount \div a
      BY <1>1, <1>2, <1>3, <1>4, SlotLess, Zenon
    <2>. QED
      BY <1>1, <1>2, <2>1, SMT DEF Slot, a
  <1>10. circular_buffer' \in [0..Slot(ResizedMaxByteCount) - 1 -> Data]
    BY <1>7, <1>8, <1>9 DEF Data
  <1>11. write_index' = IF read_index + bytes_used' < ResizedMaxByteCount
                        THEN read_index + bytes_used'
                        ELSE read_index + bytes_used' - ResizedMaxByteCount
    BY <1>1, <1>2, <1>5, <1>7, SMT
  <1>12. TypeOK'
    <2>1. write_index' \in Nat /\ bytes_used' \in Nat
      BY <1>1, <1>2, <1>7, SMT
    <2>. QED
      BY <1>2, <1>7, <1>10, <2>1 DEF IInv, TypeOK, Slot
  <1>13. max_byte_count' = MaxByteCount(buffer_size')
    BY <1>7 DEF ResizedMaxByteCount
  <1>. QED
    <2>1. /\ a' \in Nat \ {0} /\ a' <= max_byte_count'
          /\ read_index' % a' = 0 /\ bytes_used' % a' = 0
          /\ read_index' < max_byte_count' /\ bytes_used' <= max_byte_count'
      BY <1>1, <1>2, <1>5, <1>6, <1>7, SMT DEF a
    <2>2. /\ ~is_single_value'
          /\ write_index' = IF read_index' + bytes_used' < max_byte_count'
                            THEN read_index' + bytes_used'
                            ELSE read_index' + bytes_used' - max_byte_count'
      BY <1>1, <1>7, <1>11
    <2>. QED
      BY <1>7, <1>12, <1>13, <2>1, <2>2 DEF IInv, MaxByteCount

LEMMA NextIInv == IInv /\ [Next]_vars => IInv'
  <1>. SUFFICES ASSUME IInv, [Next]_vars PROVE IInv'
    OBVIOUS
  <1>1. ASSUME NEW v \in Values, Write(v) PROVE IInv'
    <2>1. CASE WriteSingleValue(v)
      BY <2>1, WriteSingleValueIInv
    <2>2. CASE WriteFifo(v) /\ bytes_used # max_byte_count
      BY <2>2, WriteFifoRoomIInv
    <2>3. CASE WriteFifo(v) /\ bytes_used = max_byte_count
      BY <2>3, WriteFifoResizeIInv
    <2>. QED
      BY <1>1, <2>1, <2>2, <2>3 DEF Write
  <1>2. CASE Read
    BY <1>2, ReadIInv
  <1>3. CASE UNCHANGED vars
    BY <1>3 DEF vars, IInv, TypeOK, MaxByteCount, Slot, a
  <1>. QED
    BY <1>1, <1>2, <1>3 DEF Next

\* IInv implies the two invariants the runs check.
LEMMA IInvImpliesInvariants == IInv => TypeOK /\ RepInv
  <1>. SUFFICES ASSUME IInv PROVE RepInv
    BY DEF IInv
  <1>1. /\ a \in Nat \ {0} /\ read_index \in Nat /\ bytes_used \in Nat
        /\ max_byte_count \in Nat /\ read_index < max_byte_count
        /\ bytes_used <= max_byte_count
    BY IInvFacts DEF IInv
  <1>2. ~is_single_value =>
          write_index = (read_index + bytes_used) % max_byte_count
    BY <1>1, SMT DEF IInv
  <1>. QED
    BY <1>2 DEF IInv, RepInv, a

(***************************************************************************)
(* Every behaviour of the byte ring keeps its type and its representation *)
(* invariant, whatever the element size, alignment and initial vector     *)
(* size: in particular Resize (part_000 lines 61-78) leaves write_index  *)
(* at (read_index + bytes_used) mod max_byte_count and every index on an  *)
(* element boundary inside the usable bytes.                              *)
(***************************************************************************)
THEOREM RepInvariant == Spec => [](TypeOK /\ RepInv)
  <1>1. Init => IInv
    BY InitIInv
  <1>2. IInv /\ [Next]_vars => IInv'
    BY NextIInv
  <1>3. IInv => TypeOK /\ RepInv
    BY IInvImpliesInvariants
  <1>. QED
    BY <1>1, <1>2, <1>3, PTL DEF Spec

(***************************************************************************)
(* The byte ring's members always have their types: the indices and      *)
(* bytes_used are naturals, allocated_element_size is the element size   *)
(* rounded up to the alignment, and after every Resize (part_000 lines   *)
(* 61-78) the buffer holds one value per slot of max_byte_count.         *)
(***************************************************************************)
THEOREM ByteQueueTypeCorrect == Spec => []TypeOK
  BY RepInvariant, PTL

=============================================================================
