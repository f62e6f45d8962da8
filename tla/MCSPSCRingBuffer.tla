--------------------------- MODULE MCSPSCRingBuffer ---------------------------
(***************************************************************************)
(* SPSCRingBuffer for TLC.  The run has no bound on the number of calls:   *)
(* the indices go round and round.  Three items tell any two slots apart.  *)
(***************************************************************************)
EXTENDS SPSCRingBuffer

CONSTANTS a, b, c

MCItems == {a, b, c}
===============================================================================
