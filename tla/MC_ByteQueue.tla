--------------------------- MODULE MC_ByteQueue ---------------------------
(***************************************************************************)
(* Model-checking instance of ByteQueue.  MaxAlign is 16, the alignment   *)
(* of std::max_align_t on x86-64; InitBufferSize is kInitBufferSize.       *)
(***************************************************************************)
EXTENDS ByteQueue

CONSTANTS v1, v2

MCValues == {v1, v2}

=============================================================================
