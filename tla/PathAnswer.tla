------------------------------ MODULE PathAnswer ------------------------------
(***************************************************************************)
(* What the WITH RECURSIVE rendering of a variable-length pattern          *)
(* promises: every path of an admitted length, each as the steps it takes. *)
(* The reference answer is a set comprehension over sequences of steps; no *)
(* recursion, no working table.                                            *)
(***************************************************************************)
EXTENDS VLPQuery, Sequences

VARIABLES query,   \* the pattern of the running query
          status,  \* "running" or "answered"
          answer   \* the paths it returned

vars == <<query, status, answer>>

(* A step uses an edge row as it is stored, or against its direction.      *)
Ways(dir) == CASE dir = "forward"    -> {"out"}
               [] dir = "backward"   -> {"in"}
               [] dir = "undirected" -> {"out", "in"}
StepFrom(s) == IF s.way = "out" THEN Src[s.edge] ELSE Dst[s.edge]
StepTo(s)   == IF s.way = "out" THEN Dst[s.edge] ELSE Src[s.edge]
StepsOver(rows, dir) == [edge : rows, way : Ways(dir)]

(* A path of one step or more is the sequence of its steps; a path of none *)
(* only has a start.                                                       *)
Path(start, steps) == [start |-> start, steps |-> steps]
EndOf(p) == IF p.steps = << >> THEN p.start ELSE StepTo(p.steps[Len(p.steps)])

(* A path goes on from where it is, enters no node an earlier step left,   *)
(* leaves no barrier but its start, and stays on the admitted nodes.       *)
IsPath(q, p) ==
  /\ p.start \in q.starts \cap q.nodesOk
  /\ \A i \in DOMAIN p.steps :
       /\ StepFrom(p.steps[i]) = IF i = 1 THEN p.start ELSE StepTo(p.steps[i-1])
       /\ StepTo(p.steps[i]) \in q.nodesOk
       /\ i > 1 => StepFrom(p.steps[i]) \notin q.barriers
  /\ \A i, j \in DOMAIN p.steps :
       i < j => StepTo(p.steps[j]) # StepFrom(p.steps[i])

PathsOf(q) ==
  {p \in UNION {{Path(s, t) : s \in q.starts, t \in [1..k -> StepsOver(q.edges, q.dir)]} :
                k \in q.lo..q.hi} :
     IsPath(q, p) /\ Keeps(q, p.start, EndOf(p), Len(p.steps))}

-----------------------------------------------------------------------------
Init == query \in Queries /\ status = "running" /\ answer = {}

Answer == /\ status = "running"
          /\ status' = "answered"
          /\ answer' = PathsOf(query)
          /\ UNCHANGED query

Spec == Init /\ [][Answer]_vars
=============================================================================
