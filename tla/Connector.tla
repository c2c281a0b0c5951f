------------------------------- MODULE Connector -------------------------------
(***************************************************************************)
(* Synchronization of pull requests and the issues they mention            *)
(* (src/connectors.cpp): pages of the provider's list, newest first, down  *)
(* to the cursor of the last synchronization.  The provider keeps changing *)
(* between requests, and any request can fail.                             *)
(***************************************************************************)
EXTENDS Integers, FiniteSetsExt

CONSTANTS
  PullRequest,
  Issue,
  IssuesOf,      \* issue_keys of each pull request
  Syncer,        \* processes that synchronize this connector
  PageSize,
  PerSecond,     \* changes of the provider within one second
  MaxUpdates,    \* bound on the changes
  MaxFailures,   \* bound on the failing requests
  NoSync         \* what an idle process does

ASSUME ConnectorAssumption ==
  /\ IssuesOf \in [PullRequest -> SUBSET Issue]
  /\ IsFiniteSet(PullRequest)
  /\ {PageSize, PerSecond} \subseteq Nat \ {0}
  /\ {MaxUpdates, MaxFailures} \subseteq Nat

VARIABLES
  clock,      \* the provider's, in changes
  updated,    \* updatedDate of each pull request, 0 before it exists
  fetched,    \* external_facts: versions of pull requests
  issues,     \* and the issues
  cursor,     \* of connector_status; 0 when it has none
  cursors,    \* every cursor it had
  syncing,    \* per process: its synchronization
  failures

connectorVars == <<clock, updated, fetched, issues, cursor, cursors, syncing, failures>>

Second(t) == t \div PerSecond
Open(p) == updated[p] # 0

ConnectorInit ==
  /\ clock = PerSecond /\ updated = [p \in PullRequest |-> 0]
  /\ fetched = {} /\ issues = {} /\ cursor = 0 /\ cursors = {} /\ failures = 0
  /\ syncing = [s \in Syncer |-> NoSync]
-----------------------------------------------------------------------------
(* The provider: a pull request is opened or updated, which puts it first. *)
Update(p) ==
  /\ clock < PerSecond + MaxUpdates
  /\ clock' = clock + 1 /\ updated' = [updated EXCEPT ![p] = clock']
  /\ UNCHANGED <<fetched, issues, cursor, cursors, syncing, failures>>

(* The list is ordered by what changed last; a page of it shows each of    *)
(* its pull requests with the time it had when the page was made.          *)
List == {p \in PullRequest : Open(p)}
Before(p) == Cardinality({q \in List : updated[q] > updated[p]})
Page(start) ==
  {[pr |-> p, time |-> updated[p]] :
     p \in {q \in List : Before(q) \in start .. (start + PageSize - 1)}}

(* sync: full, or down to the cursor that the last one stored.             *)
BeginSync(s, full) ==
  /\ syncing[s] = NoSync
  /\ LET initial == IF full THEN 0 ELSE cursor IN
     syncing' = [syncing EXCEPT ![s] =
       [step |-> "page", full |-> full, initial |-> initial, newest |-> initial,
        start |-> 0, page |-> {}, more |-> TRUE, found |-> {}]]
  /\ UNCHANGED <<clock, updated, fetched, issues, cursor, cursors, failures>>

After(w) == IF w.page # {} THEN "pull_request" ELSE IF w.more THEN "page" ELSE "issue"
Proceed(s, w) == syncing' = [syncing EXCEPT ![s] = [w EXCEPT !.step = After(w)]]

(* One page: what is not newer than the cursor is passed over, and ends    *)
(* the pages; whatever the page has, it counts for the new cursor.         *)
FetchPage(s) ==
  LET w == syncing[s]
      page == Page(w.start)
      old(v) == ~w.full /\ w.initial > 0 /\ Second(v.time) <= w.initial
  IN /\ w # NoSync /\ w.step = "page"
     /\ Proceed(s, [w EXCEPT
          !.page = {v \in page : ~old(v)},
          !.newest = Max({@} \cup {Second(v.time) : v \in page}),
          !.start = @ + PageSize,
          !.more = w.start + PageSize < Cardinality(List) /\ \A v \in page : ~old(v)])
     /\ UNCHANGED <<clock, updated, fetched, issues, cursor, cursors, failures>>

(* store_external_fact: versions of a pull request are told apart by their *)
(* content, and none replaces another.                                     *)
StoreVersion(v) == fetched' = fetched \cup {<<v.pr, v.time>>}

(* The next pull request of the page, with its commits, as the page showed *)
(* it.                                                                     *)
StorePullRequest(s) ==
  LET w == syncing[s] IN
  /\ w # NoSync /\ w.step = "pull_request"
  /\ \E v \in w.page :
       /\ \A u \in w.page : u.time <= v.time
       /\ StoreVersion(v)
       /\ Proceed(s, [w EXCEPT !.page = @ \ {v}, !.found = @ \cup IssuesOf[v.pr]])
  /\ UNCHANGED <<clock, updated, issues, cursor, cursors, failures>>

(* sync_jira_keys: the issues that were mentioned, one request each.       *)
StoreIssue(s, i) ==
  LET w == syncing[s] IN
  /\ w # NoSync /\ w.step = "issue" /\ i \in w.found
  /\ issues' = issues \cup {i}
  /\ syncing' = [syncing EXCEPT ![s].found = @ \ {i}]
  /\ UNCHANGED <<clock, updated, fetched, cursor, cursors, failures>>

(* store_connector_status: the cursor of the new status, 0 if it has none, *)
(* replaces the old one, whichever synchronization comes last.             *)
StoreStatus(c) == cursor' = c /\ cursors' = cursors \cup ({c} \ {0})

EndSync(s) ==
  LET w == syncing[s] IN
  /\ w # NoSync /\ w.step = "issue" /\ w.found = {}
  /\ StoreStatus(w.newest)
  /\ syncing' = [syncing EXCEPT ![s] = NoSync]
  /\ UNCHANGED <<clock, updated, fetched, issues, failures>>

\* Mutated form: what was seen so far becomes the cursor.
FailSyncKeeping(s) ==
  /\ syncing[s] # NoSync /\ failures < MaxFailures /\ failures' = failures + 1
  /\ StoreStatus(syncing[s].newest)
  /\ syncing' = [syncing EXCEPT ![s] = NoSync]
  /\ UNCHANGED <<clock, updated, fetched, issues>>

(* A request fails or its answer is malformed: the status that is stored   *)
(* then has no cursor, so the next synchronization reads everything.       *)
FailSync(s) ==
  /\ syncing[s] # NoSync /\ failures < MaxFailures /\ failures' = failures + 1
  /\ StoreStatus(0) /\ syncing' = [syncing EXCEPT ![s] = NoSync]
  /\ UNCHANGED <<clock, updated, fetched, issues>>

(* The process ends without storing a status.                              *)
DropSync(s) ==
  /\ syncing[s] # NoSync /\ failures < MaxFailures /\ failures' = failures + 1
  /\ syncing' = [syncing EXCEPT ![s] = NoSync]
  /\ UNCHANGED <<clock, updated, fetched, issues, cursor, cursors>>

ConnectorNext ==
  \/ \E p \in PullRequest : Update(p)
  \/ \E s \in Syncer :
       \/ \E full \in BOOLEAN : BeginSync(s, full)
       \/ FetchPage(s) \/ StorePullRequest(s)
       \/ \E i \in Issue : StoreIssue(s, i)
       \/ EndSync(s) \/ FailSync(s) \/ DropSync(s)

ConnectorSpec == ConnectorInit /\ [][ConnectorNext]_connectorVars
-----------------------------------------------------------------------------
\* A synchronization: its next request, and what it read and has yet to store.
Synchronization ==
  [step : {"page", "pull_request", "issue"}, full : BOOLEAN, initial : Nat, newest : Nat,
   start : Nat, page : SUBSET [pr : PullRequest, time : Nat], more : BOOLEAN,
   found : SUBSET Issue]

ConnectorTypeOK ==
  /\ clock \in Nat /\ updated \in [PullRequest -> Nat]
  /\ fetched \subseteq PullRequest \X Nat /\ issues \subseteq Issue
  /\ cursor \in Nat /\ cursors \subseteq Nat /\ failures \in 0 .. MaxFailures
  /\ syncing \in [Syncer -> Synchronization \cup {NoSync}]

(* No update is skipped for good: what the provider changed before the     *)
(* second of the stored cursor is in the catalog as it now is, with its    *)
(* issues, although pages shift while they are read, synchronizations      *)
(* overlap and requests fail.  Excepted is what changed within a second    *)
(* that was itself a cursor: `updated <= initial_cursor' passes it over.   *)
CursorCovers ==
  \A p \in PullRequest :
    /\ Open(p) /\ Second(updated[p]) < cursor /\ Second(updated[p]) \notin cursors
    => <<p, updated[p]>> \in fetched /\ IssuesOf[p] \subseteq issues
=============================================================================
