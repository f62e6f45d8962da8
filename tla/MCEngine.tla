-------------------------------- MODULE MCEngine --------------------------------
(***************************************************************************)
(* Engine for TLC.  The datasets have rows on both sides of every bound    *)
(* and in every category the queries ask for, and one other; one dataset   *)
(* has a header only.                                                      *)
(***************************************************************************)
EXTENDS Engine

MCRow == [quantity : {20, 21, 50, 51, 90, 91}, category : {1, 5, 10, 20, 30}]

MCFiles ==
  {<<>>} \union {<<row>> : row \in MCRow}
    \union {<<row, [quantity |-> 91, category |-> 10],
              [quantity |-> 21, category |-> 5]>> : row \in MCRow}
===============================================================================
