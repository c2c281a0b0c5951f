------------------------------ MODULE ChildProcess ------------------------------
(***************************************************************************)
(* run_process on POSIX (src/process.cpp) and what run_task makes of its   *)
(* outcome (src/worker.cpp).  The child opens its output files itself and  *)
(* writes while the parent polls; deadline and cancellation may come       *)
(* between any two looks at them.  Exit codes are 0, "signal" for a death  *)
(* by signal, and 1 for every other one.                                   *)
(***************************************************************************)
EXTENDS Integers

CONSTANTS
  Whole,      \* length of the child's complete output
  MaxOutput,  \* max_output_bytes
  HasDeadline \* whether options.timeout is set

ASSUME ProcessAssumption == {Whole, MaxOutput} \subseteq Nat /\ HasDeadline \in BOOLEAN

VARIABLES
  child,      \* "starting", "running", "zombie", "reaped"
  opened,     \* which output files exist: 0, 1 for stdout, 2 for both
  output,     \* bytes written to stdout
  exit,       \* how the child ended
  killed,     \* the parent has sent SIGKILL to its group
  expired,    \* the deadline has passed
  cancelled,  \* work_cancellation_requested
  parent,     \* where run_process is
  seen,       \* what it has seen in this turn of its loop
  result      \* ProcessOutput

processVars ==
  <<child, opened, output, exit, killed, expired, cancelled, parent, seen, result>>
theChild == <<child, opened, output, exit>>
signals == <<expired, cancelled>>

NotSeen == [out |-> "unread", exceeded |-> FALSE, code |-> "none"]
NoResult == [code |-> "none", cancelled |-> FALSE, timed_out |-> FALSE,
             truncated |-> FALSE, read |-> 0]

ProcessInit ==
  /\ child = "starting" /\ opened = 0 /\ output = 0 /\ exit = "none" /\ killed = FALSE
  /\ expired = FALSE /\ cancelled = FALSE
  /\ parent = "wait" /\ seen = NotSeen /\ result = NoResult
-----------------------------------------------------------------------------
(* The child: fopen of stdout, then of stderr, the program, its exit.      *)
OpenFile ==
  /\ child = "starting" /\ ~killed /\ opened' = opened + 1
  /\ child' = IF opened = 1 THEN "running" ELSE child
  /\ UNCHANGED <<output, exit, killed, signals, parent, seen, result>>

WriteOutput ==
  /\ child = "running" /\ ~killed /\ output < Whole /\ output' = output + 1
  /\ UNCHANGED <<child, opened, exit, killed, signals, parent, seen, result>>

Succeed ==
  /\ child = "running" /\ ~killed /\ output = Whole
  /\ child' = "zombie" /\ exit' = "0"
  /\ UNCHANGED <<opened, output, killed, signals, parent, seen, result>>

(* It fails at any time, or dies of the parent's signal.                   *)
EndOtherwise ==
  /\ child \in {"starting", "running"} /\ child' = "zombie"
  /\ exit' \in IF killed THEN {"signal"} ELSE {"1", "signal"}
  /\ UNCHANGED <<opened, output, killed, signals, parent, seen, result>>

Expire ==
  /\ HasDeadline /\ ~expired /\ expired' = TRUE
  /\ UNCHANGED <<theChild, killed, cancelled, parent, seen, result>>
(* A requested cancellation is not taken back while the item runs.         *)
RequestCancellation ==
  /\ ~cancelled /\ cancelled' = TRUE
  /\ UNCHANGED <<theChild, killed, expired, parent, seen, result>>
-----------------------------------------------------------------------------
Code == IF exit = "0" THEN "0" ELSE IF exit = "signal" THEN "128" ELSE "1"

(* wait4 with WNOHANG, at the head of the loop.                            *)
Poll ==
  /\ parent = "wait" /\ seen' = [NotSeen EXCEPT !.code = IF child = "zombie" THEN Code ELSE "none"]
  /\ IF child = "zombie" THEN child' = "reaped" /\ parent' = "conclude"
     ELSE child' = child /\ parent' = "stdout"
  /\ UNCHANGED <<opened, output, exit, killed, signals, result>>

(* wait4 fails: the loop is left without the child's status.               *)
PollFails ==
  /\ parent = "wait" /\ parent' = "conclude" /\ seen' = [NotSeen EXCEPT !.code = "128"]
  /\ UNCHANGED <<theChild, killed, signals, result>>

(* file_size of stdout, -1 as an unsigned number if there is none yet.     *)
SizeOfStdout ==
  /\ parent = "stdout" /\ parent' = "stderr"
  /\ seen' = [seen EXCEPT !.out = IF opened = 0 THEN "error"
                                  ELSE IF output > MaxOutput THEN "over" ELSE "within"]
  /\ UNCHANGED <<theChild, killed, signals, result>>

(* file_size of stderr: only its error counts, the one of stdout has been  *)
(* cleared before, and -1 exceeds any limit.                               *)
SizeOfStderr ==
  /\ parent = "stderr" /\ parent' = "decide"
  /\ seen' = [seen EXCEPT !.exceeded = opened = 2 /\ seen.out \in {"over", "error"}]
  /\ UNCHANGED <<theChild, killed, signals, result>>

(* Kill and wait for the end; a cancelled child has status 0 from then on. *)
Decide ==
  /\ parent = "decide"
  /\ IF expired \/ seen.exceeded \/ cancelled
     THEN killed' = TRUE /\ parent' = "reap"
          /\ seen' = [seen EXCEPT !.code = IF cancelled THEN "0" ELSE "none"]
     ELSE killed' = killed /\ parent' = "wait" /\ seen' = NotSeen
  /\ UNCHANGED <<theChild, signals, result>>

Reap ==
  /\ parent = "reap" /\ child = "zombie" /\ child' = "reaped" /\ parent' = "conclude"
  /\ seen' = [seen EXCEPT !.code = IF @ = "0" THEN "0" ELSE Code]
  /\ UNCHANGED <<opened, output, exit, killed, signals, result>>

\* Mutated form: the flags say why the child was killed, and nobody looks
\* at the cancellation again.
ConcludeFromDecision ==
  /\ parent = "conclude" /\ parent' = "done"
  /\ result' = [code |-> seen.code, cancelled |-> FALSE,
                timed_out |-> killed /\ expired /\ ~seen.exceeded,
                truncated |-> seen.exceeded \/ output > MaxOutput,
                read |-> IF output > MaxOutput THEN MaxOutput ELSE output]
  /\ UNCHANGED <<theChild, killed, signals, seen>>

(* Cancellation and deadline are looked at once more, then the files are   *)
(* read, at most max_output_bytes of each.                                 *)
Conclude ==
  /\ parent = "conclude" /\ parent' = "done"
  /\ result' = [code |-> seen.code, cancelled |-> cancelled,
                timed_out |-> expired /\ ~seen.exceeded,
                truncated |-> seen.exceeded \/ output > MaxOutput,
                read |-> IF output > MaxOutput THEN MaxOutput ELSE output]
  /\ UNCHANGED <<theChild, killed, signals, seen>>

ProcessNext ==
  \/ OpenFile \/ WriteOutput \/ Succeed \/ EndOtherwise \/ Expire \/ RequestCancellation
  \/ Poll \/ PollFails \/ SizeOfStdout \/ SizeOfStderr \/ Decide \/ Reap \/ Conclude

ProcessSpec == ProcessInit /\ [][ProcessNext]_processVars
-----------------------------------------------------------------------------
ProcessTypeOK ==
  /\ child \in {"starting", "running", "zombie", "reaped"} /\ opened \in 0 .. 2
  /\ output \in 0 .. Whole /\ exit \in {"none", "0", "1", "signal"}
  /\ {killed, expired, cancelled} \subseteq BOOLEAN
  /\ parent \in {"wait", "stdout", "stderr", "decide", "reap", "conclude", "done"}
  /\ result.read <= MaxOutput

\* run_task: what becomes of an outcome.
Verdicts ==
  IF parent # "done" THEN "none"
  ELSE IF result.cancelled THEN "cancelled"
  ELSE IF result.code = "0" /\ ~result.timed_out /\ ~result.truncated THEN "manifest"
  ELSE IF result.timed_out \/ result.truncated THEN "retried"
  ELSE "failure"

(* Output is taken for a manifest only if the child wrote all of it and    *)
(* ended with 0 by itself, and a failure is stored as the result of the    *)
(* extraction only if the child failed, not because run_process killed it: *)
(* neither a deadline, a full file nor a cancellation, at whatever time    *)
(* they come, passes a cut-off extraction off as a finished one.           *)
OutcomeIsGenuine ==
  /\ Verdicts = "manifest" => exit = "0" /\ result.read = Whole
  /\ Verdicts = "failure" /\ child = "reaped" => ~killed /\ exit # "0"

(* A child is killed only for one of the reasons run_process has.  Not so: *)
(* while the child opens its files, a missing one can pass for a full one. *)
KilledForReason == [][killed' /\ ~killed => expired \/ cancelled \/ output > MaxOutput]_processVars
=============================================================================
