-------------------------------- MODULE SeqScan --------------------------------
(***************************************************************************)
(* The scan of the sequential engine (seq_scan.cpp): an iterator over a    *)
(* table it refers to, with bounds it fixes when it is constructed.  Rows  *)
(* are row_id_t, which wraps at RowMod.                                    *)
(***************************************************************************)
EXTENDS ColumnarTable, CoreTypes

VARIABLES
  scan,    \* the SeqScan: start_row_, end_row_ and current_idx_
  stale    \* ghost: the table was cleared or loaded after its construction

scanVars == <<scan, stale>>

NoScan == [live |-> FALSE, start |-> 0, end |-> 0, current |-> 0]

(* A variant with a bug: the end is taken as it is given. *)
BugUnboundedEnd(start, stop) ==
  /\ scan' = [live |-> TRUE, start |-> start, end |-> stop, current |-> start]
  /\ stale' = FALSE

(* SeqScan(table, start_row, end_row), and with a morsel's bounds. *)
ScanRange(start, stop) ==
  /\ scan' = [live |-> TRUE, start |-> start,
              end |-> LET rows == RowCount % RowMod
                      IN  IF stop < rows THEN stop ELSE rows,
              current |-> start]
  /\ stale' = FALSE

(* SeqScan(table) *)
ScanTable ==
  /\ scan' = [live |-> TRUE, start |-> 0, end |-> RowCount % RowMod, current |-> 0]
  /\ stale' = FALSE

ResetScan ==
  /\ scan.live
  /\ scan' = [scan EXCEPT !.current = scan.start]
  /\ UNCHANGED stale

HasNext == scan.live /\ scan.current < scan.end

(* next(), which is called when has_next() is true. *)
NextRow ==
  /\ HasNext
  /\ scan' = [scan EXCEPT !.current = (@ + 1) % RowMod]
  /\ UNCHANGED stale

(* The rows for_each() calls back with; what next() returns is one of them. *)
Scanned == scan.start .. (scan.end - 1)

ScanInit == scan = NoScan /\ stale = FALSE

ScanNext ==
  \/ ScanTable \/ ResetScan \/ NextRow
  \/ \E start, stop \in 0 .. (RowMod - 1) : ScanRange(start, stop)

-----------------------------------------------------------------------------
(* A scan stays within its table, and next() within the rows of the scan, as
   long as the table is only added to: the bound is as old as the scan.      *)
ScanInTable ==
  scan.live =>
    /\ HasNext => scan.current \in Scanned
    /\ ~stale => \A row \in Scanned : row < RowCount
===============================================================================
