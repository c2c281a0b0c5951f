--------------------------- MODULE SerialExecution ---------------------------
(***************************************************************************)
(* What a catalog promises about its detached runners: there is at most    *)
(* one at a time, and it executes one item at a time (README.md, "On-demand *)
(* catalog runner").  An execution ends by returning or with its runner.   *)
(***************************************************************************)
CONSTANTS Runner, Work, None

VARIABLES
  live,   \* the runners that may touch the queue
  doing   \* doing[r]: the item r executes, or None

vars == <<live, doing>>

Init == live = {} /\ doing = [r \in Runner |-> None]

Start(r) == live = {} /\ live' = {r} /\ UNCHANGED doing

Begin(r, w) ==
  /\ live = {r}
  /\ doing[r] = None
  /\ doing' = [doing EXCEPT ![r] = w]
  /\ UNCHANGED live

End(r) == doing' = [doing EXCEPT ![r] = None] /\ UNCHANGED live

Stop(r) == live' = live \ {r} /\ doing' = [doing EXCEPT ![r] = None]

Next == \E r \in Runner :
          Start(r) \/ End(r) \/ Stop(r) \/ \E w \in Work : Begin(r, w)

Spec == Init /\ [][Next]_vars
=============================================================================
