------------------------- MODULE MCNumberedViewsBFS -------------------------
(***************************************************************************)
(* NumberedViewsBFS over the small graph; the flag combinations that select *)
(* each branch of the generated SQL at least once.                         *)
(***************************************************************************)
EXTENDS NumberedViewsBFS, SmallGraph

Flags(notExists, unionAll, adjacency, countInto) ==
  [notExists |-> notExists, unionAll |-> unionAll, adjacency |-> adjacency,
   countInto |-> countInto]
MCOptions == {Flags(TRUE, FALSE, TRUE, TRUE), Flags(FALSE, FALSE, FALSE, FALSE),
              Flags(TRUE, TRUE, FALSE, FALSE), Flags(FALSE, FALSE, TRUE, FALSE)}
=============================================================================
