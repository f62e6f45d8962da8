---------------------------- MODULE SelectionVector ----------------------------
(***************************************************************************)
(* Selection vectors, std::vector<row_id_t>: the rows that a filter has    *)
(* found, in the order in which it met them.                               *)
(***************************************************************************)
EXTENDS Integers, Sequences, FiniteSets

(* How often row r is in s. *)
Occurrences(s, r) == Cardinality({k \in DOMAIN s : s[k] = r})

(* The vector after a loop over the rows at positions first to last, which
   appends those that satisfy a predicate, has run on found.                *)
PushMatches(found, rows, first, last, matches) ==
  LET res[k \in (first - 1) .. last] ==
        IF k = first - 1 THEN found
        ELSE IF rows[k] \in matches THEN Append(res[k - 1], rows[k])
        ELSE res[k - 1]
  IN  res[last]
===============================================================================
