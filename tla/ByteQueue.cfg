\* Queues built for a 40-byte element (allocated 48 bytes: the 128-byte
\* vector holds 2 elements, 256 bytes hold 5, 512 hold 10) and a 130-byte
\* element (allocated 144: the vector starts at 256 bytes and holds 1, then
\* 3, then 7), each as a FIFO and as a SingleValue queue.  Six elements force
\* two resizes with the read index anywhere in the ring.
CONSTANTS
  ElementSizes = {40, 130}
  MaxAlign = 16
  InitBufferSize = 128
  v1 = v1
  v2 = v2
  Values <- MCValues
  Zero = Zero
  MaxElements = 6
SPECIFICATION Spec
INVARIANT TypeOK
INVARIANT RepInv
PROPERTY ImplementsChannelQueue
