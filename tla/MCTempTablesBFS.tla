-------------------------- MODULE MCTempTablesBFS --------------------------
(***************************************************************************)
(* TempTablesBFS over the small graph; the flag combinations that select   *)
(* each branch of the generated SQL at least once.                         *)
(***************************************************************************)
EXTENDS TempTablesBFS, SmallGraph

Flags(notExists, unionAll, adjacency, deferPayload, precompute, onAdj, prune) ==
  [notExists |-> notExists, unionAll |-> unionAll, adjacency |-> adjacency,
   deferPayload |-> deferPayload, barrierPrecompute |-> precompute,
   barrierOnAdjacency |-> onAdj, pruneAdjacency |-> prune]

Defaults == Flags(TRUE, FALSE, TRUE, TRUE, TRUE, FALSE, FALSE)
AllOff == Flags(FALSE, FALSE, FALSE, FALSE, FALSE, FALSE, FALSE)
MCOptions == {Defaults, AllOff,
              Flags(TRUE, TRUE, FALSE, TRUE, TRUE, TRUE, TRUE),
              Flags(FALSE, FALSE, TRUE, FALSE, TRUE, TRUE, FALSE),
              Flags(TRUE, FALSE, TRUE, TRUE, TRUE, FALSE, TRUE)}
=============================================================================
