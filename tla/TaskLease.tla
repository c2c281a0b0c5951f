------------------------------ MODULE TaskLease ------------------------------
(***************************************************************************)
(* What producers promise each other about one extraction task             *)
(* (docs/lineage-architecture.md, "Git coordination"): it is leased to one *)
(* of them at a time, only the producer that leases it extracts, and it is *)
(* completed with the result of the producer that completes it, after      *)
(* which nobody leases it until the completion is forgotten.               *)
(***************************************************************************)
CONSTANT Producer

VARIABLES
  holder,      \* the producer that leases the task: a set of at most one
  done,        \* the lease says that the task is completed
  extracting,  \* the producers that extract
  result       \* the producer of the published result: a set of at most one

vars == <<holder, done, extracting, result>>

Init == holder = {} /\ done = FALSE /\ extracting = {} /\ result = {}

\* A producer that does not hear of its lease does not begin.
Grant(p) ==
  /\ ~done
  /\ extracting = {}
  /\ holder' = {p}
  /\ extracting' \in {{}, {p}}
  /\ UNCHANGED <<done, result>>

Resume(p) ==
  /\ holder = {p} /\ ~done
  /\ extracting = {}
  /\ extracting' = {p}
  /\ UNCHANGED <<holder, done, result>>

Stop(p) ==
  /\ extracting = {p}
  /\ extracting' = {}
  /\ UNCHANGED <<holder, done, result>>

Publish(p) ==
  /\ result = {}
  /\ result' = {p}
  /\ UNCHANGED <<holder, done, extracting>>

Complete(p) ==
  /\ holder = {p} /\ ~done
  /\ extracting = {}
  /\ result = {p}
  /\ done' = TRUE
  /\ UNCHANGED <<holder, extracting, result>>

\* The completion is forgotten before the result is.
Forget ==
  /\ done
  /\ done' = FALSE
  /\ holder' = {}
  /\ UNCHANGED <<extracting, result>>

Discard ==
  /\ ~done
  /\ result' = {}
  /\ UNCHANGED <<holder, done, extracting>>

Next ==
  \/ \E p \in Producer :
       Grant(p) \/ Resume(p) \/ Stop(p) \/ Publish(p) \/ Complete(p)
  \/ Forget
  \/ Discard

Spec == Init /\ [][Next]_vars
=============================================================================
