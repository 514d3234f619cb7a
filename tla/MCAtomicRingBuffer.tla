------------------------- MODULE MCAtomicRingBuffer -------------------------
(* Small instances of AtomicRingBuffer for TLC. *)
EXTENDS AtomicRingBuffer
=============================================================================
