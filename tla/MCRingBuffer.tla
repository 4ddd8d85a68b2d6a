----------------------------- MODULE MCRingBuffer -----------------------------
(* RingBuffer with four slots, so three elements at most: the indices wrap  *)
(* and the buffer runs full and empty.                                      *)
EXTENDS RingBuffer
===============================================================================
