----------------------------- MODULE StorageClient -----------------------------
(***************************************************************************)
(* A program that uses the libraries pqe_storage and pqe_core as it likes: *)
(* readers that are opened, closed, moved and destroyed in any order, a    *)
(* table that is loaded from them or built row by row, and a scan of it.   *)
(* Its system calls and allocations fail at any time.  The preconditions   *)
(* are those of the language: open() and load_from_mmap() are not given a  *)
(* reader that was moved from, and a new scan replaces the old.            *)
(***************************************************************************)
EXTENDS SeqScan

clientVars == <<readerVars, tableVars, scanVars>>

ClientInit == ReaderInit /\ TableInit /\ ScanInit

UseReader == ReaderNext /\ UNCHANGED <<tableVars, scanVars>>

(* Another row does not invalidate a scan; an emptied table does. *)
UseTable ==
  /\ TableNext
  /\ stale' = (stale \/ (scan.live /\ \E c \in Columns : columns'[c] < columns[c]))
  /\ UNCHANGED <<readerVars, scan>>

UseScan == ScanNext /\ UNCHANGED <<readerVars, tableVars>>

ClientNext == UseReader \/ UseTable \/ UseScan

ClientSpec == ClientInit /\ [][ClientNext]_clientVars

(* The types of the variables. *)
ClientTypeOK ==
  /\ reader \in [Readers -> ReaderStates]
  /\ fds \subseteq Descriptors /\ lostFds \subseteq Descriptors
  /\ maps \subseteq Addresses /\ lostMaps \subseteq Addresses
  /\ columns \in [Columns -> 0 .. MaxRows] /\ torn \in BOOLEAN
  /\ scan \in [live : BOOLEAN, start : 0 .. RowMod - 1, end : 0 .. RowMod - 1,
               current : 0 .. RowMod - 1]
  /\ stale \in BOOLEAN
===============================================================================
