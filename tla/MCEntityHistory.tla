--------------------------- MODULE MCEntityHistory ---------------------------
(***************************************************************************)
(* Model-checking instance of EntityHistory.                               *)
(***************************************************************************)
EXTENDS EntityHistory, TLC

CONSTANTS e1, e2, f1, f2, v1, v2

\* Editors, columns and their values are interchangeable.
Interchangeable ==
    Permutations(Editors) \cup Permutations(Fields) \cup Permutations(Values)
=============================================================================
