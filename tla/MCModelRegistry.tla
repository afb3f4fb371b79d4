--------------------------- MODULE MCModelRegistry ---------------------------
(***************************************************************************)
(* ModelRegistry with two jobs, of which the first scores better.          *)
(***************************************************************************)
EXTENDS ModelRegistry

CONSTANTS j1, j2, o1, o2

MCScore == [j \in Job |-> IF j = j1 THEN 2 ELSE 1]
=============================================================================
