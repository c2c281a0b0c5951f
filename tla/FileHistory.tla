------------------------------ MODULE FileHistory ------------------------------
(***************************************************************************)
(* file.history (src/file_history.cpp): a command follows a path back      *)
(* through the integration units of a plan, schedules the extraction of    *)
(* every endpoint in every compile context, and joins what has been        *)
(* extracted.  Commands on one catalog share its work rows and, for one    *)
(* repository and ref, the file that each of them plans into.              *)
(***************************************************************************)
EXTENDS HistoryPlan

CONSTANTS
  HeaderPath,   \* paths with the suffix of a header
  History,      \* the trees of the repository
  PrFacts,
  CommitTime,   \* committer_time of each commit: it need not be monotone
  Context,      \* revision -> its compile contexts: [id, family, tu, files, complete]
  Query,        \* commands
  QueryPath,    \* what each of them asks for
  QuerySince

(* Contexts are those of revisions: the number 0 is none.                  *)
ASSUME FileHistoryAssumption ==
  /\ IsHistory(History) /\ PullRequestsAreNamed(PrFacts)
  /\ DOMAIN Context = DOMAIN History \ {0}
  /\ QueryPath \in [Query -> Path]

VARIABLES
  planFile,  \* the plan is there
  query,     \* each command: where it is, its units, pending tasks, answer
  work,      \* work_items of the extractions: state and requested_file
  link       \* work_invocations: <<task, request>>

fileHistory == <<planFile, query, work, link>>
-----------------------------------------------------------------------------
(* Walking back from the head: the path a unit leaves behind and the one   *)
(* it found, and whether there is a file at either end.                    *)
Step(unit, path) ==
  LET touching == {ch \in unit.changes : path \in {ch.path, ch.old}}
      own == {ch \in touching : ch.path = path}
      renamed == {ch \in own : ch.status = "R"}
  IN [unit |-> unit, touched |-> touching # {}, after |-> path,
      before |-> IF renamed = {} THEN path ELSE (CHOOSE ch \in renamed : TRUE).old,
      exists_before |-> \A ch \in own : ch.status # "A",
      exists_after |-> \A ch \in own : ch.status # "D"]

\* Mutated form: a rename does not change the path that is followed.
WalkUnrenamed(units, path) == [i \in DOMAIN units |-> Step(units[i], path)]

Walk(units, path) ==
  LET at[i \in 1 .. Len(units) + 1] ==
        IF i > Len(units) THEN path ELSE Step(units[i], at[i + 1]).before
  IN [i \in DOMAIN units |-> Step(units[i], at[i + 1])]

(* The steps of a history, by the places of their units.                   *)
Selected(units, path, since) ==
  LET steps == Walk(units, path)
      chosen(s) == s.touched /\ CommitTime[s.unit.head] >= since
  IN [i \in {i \in DOMAIN steps : chosen(steps[i])} |-> steps[i]]

(* The endpoints of a history follow the content: what a unit found and    *)
(* left at its paths is what the trees hold there, and every change of a   *)
(* path that is followed is found.  Excepted is the unit that renames the  *)
(* path away before a new file takes it: the code believes it is there.    *)
EndpointsExist(steps, trees, path) ==
  LET away(s) == \E ch \in s.unit.changes : ch.old = s.after
  IN \A i \in DOMAIN steps :
       LET s == steps[i]
           before == trees[s.unit.base][s.before]
           after == trees[s.unit.head][s.after] IN
       /\ s.after = IF i = Len(steps) THEN path ELSE steps[i + 1].before
       /\ s.touched =>
            /\ s.exists_before <=> before # Absent
            /\ ~away(s) => (s.exists_after <=> after # Absent)
       /\ ~s.touched => before = after
       /\ s.before # s.after => before = after
-----------------------------------------------------------------------------
(* compile_contexts: with no revision, those of every revision.            *)
ContextsOf(path, rev) ==
  {c \in UNION {Context[r] : r \in IF rev = 0 THEN DOMAIN Context ELSE {rev}} :
     path = c.tu \/ path \in c.files}
TusOf(path, rev) == {c.tu : c \in ContextsOf(path, rev)}

(* The contexts of an endpoint; those of a header also include the units   *)
(* that compile it at the other end.                                       *)
EndpointContexts(path, rev, tus) ==
  ContextsOf(path, rev) \cup UNION {ContextsOf(tu, rev) : tu \in tus}

Ends(steps, path) ==
  LET header == path \in HeaderPath
      tus(p, rev) == IF header THEN TusOf(p, rev) ELSE {}
      end(rev, p, others) ==
        [rev |-> rev, path |-> p, contexts |-> EndpointContexts(p, rev, others)]
      unitEnds(s) ==
        (IF s.exists_before /\ s.unit.base # 0
         THEN {end(s.unit.base, s.before, tus(s.after, s.unit.head))} ELSE {})
        \cup (IF s.exists_after
              THEN {end(s.unit.head, s.after, tus(s.before, s.unit.base))} ELSE {})
  IN {end(Max(DOMAIN History), path, {})}
     \cup UNION {unitEnds(steps[i]) : i \in DOMAIN steps}

(* The row of a unit in header_observation_matrix, by context family: a    *)
(* family one side lacks is looked up through the other's unit.            *)
FamilyMissing(s, family) ==
  LET direct(p, rev, there) ==
        IF there THEN {c \in ContextsOf(p, rev) : c.family = family} ELSE {}
      early == direct(s.before, s.unit.base, s.exists_before)
      late == direct(s.after, s.unit.head, s.exists_after)
      through(cs, rev) ==
        {c \in UNION {ContextsOf(o.tu, rev) : o \in cs} : c.family = family}
      complete(own, others, rev) ==
        \E c \in IF own # {} THEN own ELSE through(others, rev) : c.complete
  IN \/ s.unit.base # 0 /\ s.exists_before /\ ~complete(early, late, s.unit.base)
     \/ s.exists_after /\ ~complete(late, early, s.unit.head)

HeaderGaps(steps, path) ==
  {i \in DOMAIN steps : path \in HeaderPath /\
     LET s == steps[i] IN
     \E c \in ContextsOf(s.before, s.unit.base) \cup ContextsOf(s.after, s.unit.head) :
       FamilyMissing(s, c.family)}
-----------------------------------------------------------------------------
Task == UNION {{<<rev, c.id>> : c \in Context[rev]} : rev \in DOMAIN Context}
TasksOf(end) == {<<end.rev, c.id>> : c \in end.contexts}

(* request_id: path and since, repository, ref, scope and extractor being  *)
(* the same for all.                                                       *)
Request(q) == <<QueryPath[q], QuerySince[q]>>
Linked(q) == {t \in Task : <<t, Request(q)>> \in link}
Open(q) == {t \in Linked(q) : work[t].state \notin {"done", "failed"}}

FileHistoryInit ==
  /\ planFile = FALSE
  /\ query = [q \in Query |-> [pc |-> "start", units |-> << >>, pending |-> 0,
                               open |-> {}, answer |-> None, complete |-> {}]]
  /\ work = [t \in Task |-> [state |-> "absent", path |-> None]]
  /\ link = {}

At(q, from, to) == query[q].pc = from /\ query' = [query EXCEPT ![q].pc = to]

(* write_history_plan writes a file of its own, then removes the plan and  *)
(* renames its file; plan_file_history reads the plan and removes it.      *)
RemovePlan(q) ==
  At(q, "start", "removed") /\ planFile' = FALSE /\ UNCHANGED <<work, link>>
RenamePlan(q) ==
  At(q, "removed", "written") /\ planFile' = TRUE /\ UNCHANGED <<work, link>>

(* A plan that is not there reads as one without units.                    *)
ReadPlan(q) ==
  /\ query[q].pc = "written"
  /\ query' = [query EXCEPT ![q].pc = "read", ![q].units =
       IF planFile THEN Selected(PlanOf(History, PrFacts, 0).units, QueryPath[q], QuerySince[q])
       ELSE << >>]
  /\ UNCHANGED <<planFile, work, link>>
DeletePlan(q) ==
  At(q, "read", "planned") /\ planFile' = FALSE /\ UNCHANGED <<work, link>>

\* Mutated form: the requested file is not stored.
RowWithoutFile(path) == [state |-> "pending", path |-> None]

(* schedule_task's new row.                                                *)
Row(path) == [state |-> "pending", path |-> path]

(* A task without a fact is scheduled and linked to the request; a row     *)
(* that exists keeps the file it was scheduled for.                        *)
Schedule(q) ==
  LET ends == Ends(query[q].units, QueryPath[q])
      missing == {t \in UNION {TasksOf(e) : e \in ends} :
                    work[t].state \notin {"done", "failed"}}
      path(t) == (CHOOSE e \in ends : t \in TasksOf(e)).path IN
  /\ At(q, "planned", "scheduled")
  /\ work' = [t \in Task |-> IF t \in missing /\ work[t].state = "absent"
                             THEN Row(path(t)) ELSE work[t]]
  /\ link' = link \cup (missing \X {Request(q)})
  /\ UNCHANGED planFile

CountPending(q) ==
  /\ query[q].pc = "scheduled"
  /\ query' = [query EXCEPT ![q].pc = "counted", ![q].pending = Cardinality(Open(q))]
  /\ UNCHANGED <<planFile, work, link>>

(* aggregate_analysis reads the open tasks of the request and then, in a   *)
(* transaction of its own, its results.                                    *)
ListOpen(q) ==
  /\ query[q].pc = "counted"
  /\ query' = [query EXCEPT
       ![q].pc = "listed",
       ![q].open = {[task |-> t, state |-> work[t].state] : t \in Open(q)}]
  /\ UNCHANGED <<planFile, work, link>>

Key(t) == <<t[1], work[t].path>>
Completed(q) == {Key(t) : t \in {t \in Linked(q) : work[t].state = "done"}}
Unavailable(q) ==
  {Key(o.task) : o \in query[q].open}
  \cup {Key(t) : t \in {t \in Linked(q) : work[t].state = "failed"}}

\* Mutated form: one result is enough for an endpoint.
ReadyWhenAny(q, rev, path) == <<rev, path>> \in Completed(q)

Ready(q, rev, path) == <<rev, path>> \in Completed(q) \ Unavailable(q)

(* A transition is complete when both its endpoints are ready, the answer  *)
(* when nothing was pending and there are no gaps.                         *)
Aggregate(q) ==
  LET steps == query[q].units
      ready(s) == /\ s.exists_before => Ready(q, s.unit.base, s.before)
                  /\ s.exists_after => Ready(q, s.unit.head, s.after)
      gap == \/ \E e \in Ends(steps, QueryPath[q]) : e.contexts = {}
             \/ \E o \in query[q].open : o.state = "quarantined"
             \/ \E t \in Linked(q) : work[t].state = "failed"
             \/ HeaderGaps(steps, QueryPath[q]) # {}
  IN /\ query[q].pc = "listed"
     /\ query' = [query EXCEPT
          ![q].pc = "answered", ![q].pending = 0, ![q].open = {},
          ![q].answer = IF query[q].pending = 0 /\ ~gap THEN "complete" ELSE "partial",
          ![q].complete = {i \in DOMAIN steps : ready(steps[i])}]
     /\ UNCHANGED <<planFile, work, link>>

(* The command is repeated.                                                *)
Repeat(q) ==
  /\ query[q].pc = "answered"
  /\ query' = [query EXCEPT ![q].pc = "start", ![q].units = << >>,
                            ![q].answer = None, ![q].complete = {}]
  /\ UNCHANGED <<planFile, work, link>>

(* The runner ends a pending task; a fact is evicted and its task is       *)
(* pending again.                                                          *)
EndTask(t) ==
  /\ work[t].state = "pending"
  /\ \E s \in {"done", "failed", "quarantined"} : work' = [work EXCEPT ![t].state = s]
  /\ UNCHANGED <<planFile, query, link>>
EvictFact(t) ==
  /\ work[t].state \in {"done", "failed"}
  /\ work' = [work EXCEPT ![t].state = "pending"]
  /\ UNCHANGED <<planFile, query, link>>

FileHistoryNext ==
  \/ \E q \in Query :
       \/ RemovePlan(q) \/ RenamePlan(q) \/ ReadPlan(q) \/ DeletePlan(q)
       \/ Schedule(q) \/ CountPending(q) \/ ListOpen(q) \/ Aggregate(q) \/ Repeat(q)
  \/ \E t \in Task : EndTask(t) \/ EvictFact(t)
-----------------------------------------------------------------------------
FileHistoryTypeOK ==
  /\ planFile \in BOOLEAN /\ link \subseteq Task \X {Request(q) : q \in Query}
  /\ \A q \in Query :
       /\ query[q].pc \in {"start", "removed", "written", "read", "planned", "scheduled",
                           "counted", "listed", "answered"}
       /\ \A o \in query[q].open : o.task \in Task
       /\ query[q].answer \in {None, "partial", "complete"}
       /\ query[q].complete \subseteq DOMAIN query[q].units
  /\ \A t \in Task : /\ work[t].state \in {"absent", "pending", "done", "failed", "quarantined"}
                     /\ work[t].path \in Path \cup {None}
                     /\ work[t].path = None <=> work[t].state = "absent"
  /\ \A l \in link : work[l[1]].state # "absent"

(* The expected contexts of a unit's ends, from the trees alone.           *)
Expected(q, s) ==
  UNION {TasksOf(e) : e \in {e \in Ends(<<s>>, QueryPath[q]) :
           \/ s.exists_before /\ <<e.rev, e.path>> = <<s.unit.base, s.before>>
           \/ s.exists_after /\ <<e.rev, e.path>> = <<s.unit.head, s.after>>}}

(* A transition is complete only when the element facts of every context   *)
(* of its ends are in it: what was unfinished when the open tasks were     *)
(* read, or whose frontend failed, leaves it pending.  Excepted is a fact  *)
(* evicted between the two reads of aggregate_analysis, which is neither   *)
(* open nor there.                                                         *)
CompleteTransitionsAreWhole ==
  [][\A q \in Query : query[q].pc = "listed" /\ query'[q].pc = "answered" =>
       \A i \in query'[q].complete : \A t \in Expected(q, query[q].units[i]) :
         \/ work[t].state = "done"
         \/ work[t].state \notin {"absent", "failed"} /\ ~ \E o \in query[q].open : o.task = t
       ]_fileHistory

(* "The first command result can be partial [...] Repeating the same       *)
(* command after the runner finishes returns [...] transition facts"       *)
(* (README.md:300-304): with every fact in the catalog, the transitions    *)
(* are complete.                                                           *)
ExtractedIsReturned ==
  [][\A q \in Query : query[q].pc = "listed" /\ query'[q].pc = "answered" =>
       LET steps == query[q].units
           tasks == UNION {TasksOf(e) : e \in Ends(steps, QueryPath[q])} IN
       (\A t \in tasks : work[t].state = "done") => query'[q].complete = DOMAIN steps]_fileHistory

(* "file.history follows the requested path backward through Git renames"  *)
(* (docs/lineage-architecture.md:56): a complete answer has the units of   *)
(* the path.  Not so when two commands share the plan file: the one that   *)
(* finds it deleted reads no units and answers.                            *)
HistoryIsWhole ==
  \A q \in Query : query[q].answer = "complete" =>
    query[q].units = Selected(PlanOf(History, PrFacts, 0).units, QueryPath[q], QuerySince[q])
=============================================================================
