----------------------------- MODULE ByteQueue -----------------------------
(***************************************************************************)
(* The circular byte store behind every JIT channel queue: class ByteQueue *)
(* of xls/jit/jit_channel_queue.{h,cc}.  Its constructor and Resize() are  *)
(* in src/unnamed/part_000; Write() and Read() live in the header, which  *)
(* is not part of the sources, and are modelled from the spec (sec. 4.1).  *)
(*                                                                         *)
(* Indices and counts are kept in bytes, as in the code.  Every index the *)
(* queue uses is a multiple of the allocated element size, so the buffer   *)
(* is modelled as one slot per allocated element: slot k holds the bytes  *)
(* [k * a, (k + 1) * a).  A slot holds the element value last copied into *)
(* it, or Zero for bytes the vector value-initialised on a resize.         *)
(***************************************************************************)
EXTENDS Integers, Sequences

CONSTANTS
  ElementSizes,        \* packed element sizes of the channels queues are built for
  MaxAlign,            \* alignof(std::max_align_t)
  InitBufferSize,      \* ByteQueue::kInitBufferSize
  Values,              \* element values written to the queue
  Zero,                \* contents of freshly value-initialised bytes
  MaxElements          \* model bound: no Write beyond this many elements

\* RoundUpToNearest(x, alignof(std::max_align_t)).
RoundUpToNearest(x) == ((x + MaxAlign - 1) \div MaxAlign) * MaxAlign

\* CeilOfLog2 over the shift amounts a 32-bit `1 << k` can take.
CeilOfLog2(x) == CHOOSE k \in 0..30 : 2^k >= x /\ (k = 0 \/ 2^(k - 1) < x)

ASSUME ConstantsAssumption ==
  /\ ElementSizes \subseteq Nat \ {0}
  /\ MaxAlign \in Nat \ {0}
  /\ InitBufferSize \in Nat \ {0}
  /\ Zero \notin Values
  /\ MaxElements \in Nat

\* `1 << CeilOfLog2(allocated_element_size_)` is a 32-bit int shift: the
\* element size must leave it defined.
ASSUME CeilOfLog2Assumption ==
  \A x \in ElementSizes :
    \E k \in 0..30 : 2^k >= RoundUpToNearest(x)
                     /\ (k = 0 \/ 2^(k - 1) < RoundUpToNearest(x))

\* The vector size the constructor picks for an allocated element size.
InitialBufferSize(allocated) ==
  LET element_size_2 == 2^CeilOfLog2(allocated)
  IN  IF element_size_2 > InitBufferSize THEN element_size_2
                                         ELSE InitBufferSize

VARIABLES
  channel_element_size,    \* channel_element_size_
  allocated_element_size,  \* allocated_element_size_
  is_single_value,         \* is_single_value_
  circular_buffer,     \* slot contents, one per whole element of the vector
  buffer_size,         \* circular_buffer_.size() in bytes
  max_byte_count,      \* max_byte_count_
  read_index,          \* read_index_
  write_index,         \* write_index_
  bytes_used,          \* bytes_used_
  out                  \* the caller's buffer filled by the last Read

\* max_byte_count_ for a vector of `size` bytes: the whole elements it holds.
MaxByteCount(size) ==
  (size \div allocated_element_size) * allocated_element_size

\* The slot holding the element that starts at byte `index`.
Slot(index) == index \div allocated_element_size

Data == Values \cup {Zero}

\* The members fixed by the constructor.
Members == <<channel_element_size, allocated_element_size, is_single_value>>

vars == <<channel_element_size, allocated_element_size, is_single_value,
          circular_buffer, buffer_size, max_byte_count, read_index,
          write_index, bytes_used, out>>

(***************************************************************************)
(* ByteQueue::ByteQueue(channel_element_size, is_single_value): align the *)
(* element size, size the vector, then the usable byte count.             *)
(***************************************************************************)
Init ==
  /\ channel_element_size \in ElementSizes
  /\ allocated_element_size = RoundUpToNearest(channel_element_size)
  /\ is_single_value \in BOOLEAN
  /\ buffer_size = InitialBufferSize(allocated_element_size)
  /\ max_byte_count = MaxByteCount(buffer_size)
  /\ circular_buffer = [k \in 0..Slot(max_byte_count) - 1 |-> Zero]
  /\ read_index = 0
  /\ write_index = 0
  /\ bytes_used = 0
  /\ out = Zero

(***************************************************************************)
(* ByteQueue::Resize, called by Write on a full queue: double the vector, *)
(* recompute the usable byte count, move the bytes [0, read_index) to     *)
(* start at bytes_used so the unread elements are contiguous again, and   *)
(* realign the write index.  The results are the state Write continues in.*)
(***************************************************************************)
ResizedSize == buffer_size * 2

ResizedMaxByteCount == MaxByteCount(ResizedSize)

\* Faulty resize that grows the vector without moving the wrapped bytes.
ResizedBufferUnmoved ==
  [k \in 0..Slot(ResizedMaxByteCount) - 1 |->
     IF k \in DOMAIN circular_buffer THEN circular_buffer[k] ELSE Zero]

ResizedBuffer ==
  [k \in 0..Slot(ResizedMaxByteCount) - 1 |->
     IF /\ read_index # 0
        /\ Slot(bytes_used) <= k
        /\ k < Slot(bytes_used + read_index)
     THEN circular_buffer[k - Slot(bytes_used)]
     ELSE IF k \in DOMAIN circular_buffer THEN circular_buffer[k]
                                          ELSE Zero]

\* Faulty realignment that forgets the read offset.
ResizedWriteIndexFromZero ==
  IF bytes_used = ResizedMaxByteCount THEN 0 ELSE bytes_used

ResizedWriteIndex ==
  IF bytes_used + read_index = ResizedMaxByteCount
  THEN 0 ELSE bytes_used + read_index

(***************************************************************************)
(* ByteQueue::Write.  A SingleValue queue overwrites its one element.  A  *)
(* FIFO queue resizes first when full, copies the element to write_index  *)
(* and advances it, wrapping at max_byte_count.                           *)
(***************************************************************************)
WriteSingleValue(v) ==
  /\ is_single_value
  /\ circular_buffer' = [circular_buffer EXCEPT ![0] = v]
  /\ bytes_used' = allocated_element_size
  /\ UNCHANGED <<buffer_size, max_byte_count, read_index, write_index, out,
                 Members>>

WriteFifo(v) ==
  LET full == bytes_used = max_byte_count
      size == IF full THEN ResizedSize ELSE buffer_size
      max  == IF full THEN ResizedMaxByteCount ELSE max_byte_count
      buf  == IF full THEN ResizedBuffer ELSE circular_buffer
      wi   == IF full THEN ResizedWriteIndex ELSE write_index
  IN /\ ~is_single_value
     /\ Slot(bytes_used) < MaxElements
     /\ buffer_size' = size
     /\ max_byte_count' = max
     /\ circular_buffer' = [buf EXCEPT ![Slot(wi)] = v]
     /\ bytes_used' = bytes_used + allocated_element_size
     /\ write_index' = IF wi + allocated_element_size = max
                       THEN 0 ELSE wi + allocated_element_size
     /\ UNCHANGED <<read_index, out, Members>>

Write(v) == WriteSingleValue(v) \/ WriteFifo(v)

(***************************************************************************)
(* ByteQueue::Read.  On an empty queue it returns false and changes       *)
(* nothing (a stuttering step).  Otherwise it copies the element at       *)
(* read_index out; a FIFO queue also consumes it, wrapping the index.     *)
(***************************************************************************)
\* Faulty read without the empty check.
ReadUnchecked ==
  /\ out' = IF Slot(read_index) \in DOMAIN circular_buffer
            THEN circular_buffer[Slot(read_index)] ELSE Zero
  /\ bytes_used' = bytes_used - allocated_element_size
  /\ read_index' = IF read_index + allocated_element_size = max_byte_count
                   THEN 0 ELSE read_index + allocated_element_size
  /\ UNCHANGED <<circular_buffer, buffer_size, max_byte_count, write_index,
                 Members>>

Read ==
  /\ bytes_used > 0
  /\ out' = circular_buffer[Slot(read_index)]
  /\ IF is_single_value
     THEN UNCHANGED <<bytes_used, read_index>>
     ELSE /\ bytes_used' = bytes_used - allocated_element_size
          /\ read_index' = IF read_index + allocated_element_size = max_byte_count
                           THEN 0 ELSE read_index + allocated_element_size
  /\ UNCHANGED <<circular_buffer, buffer_size, max_byte_count, write_index,
                 Members>>

Next == (\E v \in Values : Write(v)) \/ Read

Spec == Init /\ [][Next]_vars

(***************************************************************************)
(* The elements the queue holds, oldest first, read off the ring from     *)
(* read_index with wrap-around at max_byte_count.                          *)
(***************************************************************************)
Contents ==
  [i \in 1..Slot(bytes_used) |->
     circular_buffer[Slot((read_index + (i - 1) * allocated_element_size)
                          % max_byte_count)]]

-----------------------------------------------------------------------------
TypeOK ==
  /\ channel_element_size \in ElementSizes
  /\ allocated_element_size = RoundUpToNearest(channel_element_size)
  /\ is_single_value \in BOOLEAN
  /\ buffer_size \in Nat
  /\ max_byte_count \in Nat
  /\ read_index \in Nat
  /\ write_index \in Nat
  /\ bytes_used \in Nat
  /\ circular_buffer \in [0..Slot(max_byte_count) - 1 -> Data]
  /\ out \in Data

(***************************************************************************)
(* The ring's representation invariant (spec section 3): the usable byte  *)
(* count is the whole elements of the vector and holds at least one; all  *)
(* indices lie on element boundaries inside it; bytes_used never exceeds  *)
(* it; and write_index = (read_index + bytes_used) mod max_byte_count, while *)
(* a SingleValue queue keeps one element at offset 0.                      *)
(* Resize's realignment of write_index (part_000 lines 73-77) and the    *)
(* wrap checks of Read and Write must keep the last conjunct.             *)
(***************************************************************************)
RepInv ==
  /\ max_byte_count = MaxByteCount(buffer_size)
  /\ allocated_element_size <= max_byte_count
  /\ read_index % allocated_element_size = 0
  /\ bytes_used % allocated_element_size = 0
  /\ read_index < max_byte_count
  /\ bytes_used <= max_byte_count
  /\ IF is_single_value
     THEN read_index = 0 /\ write_index = 0
          /\ bytes_used <= allocated_element_size
     ELSE write_index = (read_index + bytes_used) % max_byte_count

(***************************************************************************)
(* The byte ring implements the abstract channel queue: every Write       *)
(* appends (or, SingleValue, replaces) and every Read returns the oldest  *)
(* unread element, across resizes that relocate a wrapped region.         *)
(***************************************************************************)
Abstract == INSTANCE ChannelQueueSpec
              WITH contents <- Contents, out <- out, single <- is_single_value

ImplementsChannelQueue == Abstract!Spec

=============================================================================
