------------------------------ MODULE VLPAnswer ------------------------------
(***************************************************************************)
(* What a procedural rendering of a variable-length pattern promises,      *)
(* whatever the strategy and the optimisation flags: a script either       *)
(* answers with the minimal-depth rows, or fails loudly because its start  *)
(* filter matched several nodes, or is cancelled; it never answers with    *)
(* anything else.  A session runs one script after another.                *)
(***************************************************************************)
EXTENDS VLPQuery

VARIABLES query,    \* the pattern of the running script
          status,   \* "running", "answered", "refused" or "cancelled"
          answer    \* the rows the script returned

vars == <<query, status, answer>>

Init == /\ query \in Queries
        /\ status = "running"
        /\ answer = {}

Answer == /\ status = "running"
          /\ ~ Ambiguous(query)
          /\ status' = "answered"
          /\ answer' = Requested(query)
          /\ UNCHANGED query

Refuse == /\ status = "running"
          /\ Ambiguous(query)
          /\ status' = "refused"
          /\ UNCHANGED <<query, answer>>

Cancel == /\ status = "running"
          /\ status' = "cancelled"
          /\ UNCHANGED <<query, answer>>

NextScript == /\ status # "running"
              /\ query' \in Queries
              /\ status' = "running"
              /\ answer' = {}

Next == Answer \/ Refuse \/ Cancel \/ NextScript
Spec == Init /\ [][Next]_vars
=============================================================================
