---------------------------- MODULE MCStorageClient ----------------------------
(***************************************************************************)
(* StorageClient for TLC: two readers, so that one can be given what the   *)
(* other has just released, and fewer descriptors and addresses than the   *)
(* program would like.                                                     *)
(***************************************************************************)
EXTENDS StorageClient

MCDescriptors == {3, 4}
MCAddresses == {1, 2}
MCFileSizes == {0, 1}
===============================================================================
