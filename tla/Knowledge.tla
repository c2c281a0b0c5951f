------------------------------- MODULE Knowledge -------------------------------
(***************************************************************************)
(* Reviewed knowledge in Git (src/git_coordination.cpp publish_* and       *)
(* import_*, the tables of src/catalog.cpp they fill).  Each producer has  *)
(* a ref of claims and a ref of lineage reviews; decisions about claims go *)
(* to one ref that everybody pushes to.  Receipts, pull requests and       *)
(* external facts are published as claims are.                             *)
(***************************************************************************)
EXTENDS Integers, Sequences, FiniteSetsExt

CONSTANTS
  Catalog,       \* catalogs: each is a producer with a clone of its own
  Publisher,     \* processes that publish
  CatalogOf,     \* the catalog of each
  Trusted,       \* trusted_producers of each catalog, itself included
  Ranking,       \* the order in which git lists the refs of producers
  Claim,         \* claim ids
  Relation,      \* relation ids, which do not include the review
  DecideUnseen,  \* whether claims the catalog does not know are decided
  MaxCommits,    \* bound on the commits of each ref
  NoWork         \* what an idle publisher does

VARIABLES
  remote,    \* the remote's refs: the records that their commits add
  tracking,  \* refs/remotes of each clone: how many of those it has
  imported,  \* imported_commits of each catalog
  known,     \* per catalog: claims, decisions and the last one of each claim,
             \* verdicts on lineage relations
  work       \* per publisher: the record it publishes and how far it is

knowledgeVars == <<remote, tracking, imported, known, work>>

Accepted == <<"accepted", 0>>  \* the configured knowledge_ref
Proposals(c) == <<"proposals", c>>
Lineage(c) == <<"lineage", c>>
KnowledgeRef == {Accepted} \cup {Proposals(c) : c \in Catalog} \cup {Lineage(c) : c \in Catalog}

ASSUME KnowledgeAssumption ==
  /\ IsFiniteSet(Catalog) /\ Ranking \in [Catalog -> Nat]
  /\ CatalogOf \in [Publisher -> Catalog] /\ Trusted \in [Catalog -> SUBSET Catalog]
  /\ \A c \in Catalog : c \in Trusted[c]
  /\ DecideUnseen \in BOOLEAN /\ MaxCommits \in [KnowledgeRef -> Nat]

Verdict == {"accepted", "rejected"}
ClaimRecord(c) == [kind : {"claim"}, of : Claim, verdict : {"none"}, by : {c}]
DecisionRecord(c) == [kind : {"decision"}, of : Claim, verdict : Verdict, by : {c}]
ReviewRecord(c) == [kind : {"review"}, of : Relation, verdict : Verdict, by : {c}]

KnowledgeInit ==
  /\ remote = [r \in KnowledgeRef |-> << >>]
  /\ tracking = [c \in Catalog |-> [r \in KnowledgeRef |-> 0]]
  /\ imported = [c \in Catalog |-> {}]
  /\ known = [c \in Catalog |-> [claims |-> {}, decisions |-> {},
                                 latest |-> [x \in Claim |-> "none"],
                                 reviews |-> [x \in Relation |-> "none"]]]
  /\ work = [p \in Publisher |-> NoWork]
-----------------------------------------------------------------------------
(* What a record does to a catalog.  A decision replaces the row of its id *)
(* and becomes the latest one; one of an unknown claim is refused.         *)
StoreClaim(k, r) == [k EXCEPT !.claims = @ \cup {r.of}]
StoreRelation(k, r) == [k EXCEPT !.reviews[r.of] = r.verdict]
StoreDecision(k, r) ==
  IF r.of \in k.claims
  THEN [k EXCEPT !.decisions = @ \cup {[of |-> r.of, verdict |-> r.verdict]},
                 !.latest[r.of] = r.verdict]
  ELSE k

Stored(k, r) ==
  CASE r.kind = "claim" -> StoreClaim(k, r)
    [] r.kind = "review" -> StoreRelation(k, r)
    [] r.kind = "decision" -> StoreDecision(k, r)

(* The trees of lineage refs have the one review; the others grow, so that *)
(* a commit that puts the same file there again differs in nothing.        *)
Changes(ref, i) ==
  LET same(j) == /\ remote[ref][j].of = remote[ref][i].of
                 /\ remote[ref][j].verdict = remote[ref][i].verdict
      prior == {j \in 1 .. i - 1 : same(j)}
  IN ref[1] = "lineage" \/ prior = {} \/ remote[ref][Max(prior)] # remote[ref][i]

Imported(c, ref, i) == <<ref, i>> \in imported[c]

(* The commits of a ref whose records an import stores, in their order, so *)
(* that the last one about a thing stays.                                  *)
New(c, ref) ==
  {i \in DOMAIN remote[ref] :
     ~Imported(c, ref, i) /\ Changes(ref, i) /\ remote[ref][i].by \in Trusted[c]}
About(c, ref, x) == {i \in New(c, ref) : remote[ref][i].of = x}
LastVerdict(c, ref, x) == remote[ref][Max(About(c, ref, x))].verdict

(* import_reviews, producer by producer.                                   *)
ReviewAfter(c, x) ==
  LET news == {d \in Catalog : About(c, Lineage(d), x) # {}}
      last == CHOOSE d \in news : \A e \in news : Ranking[e] <= Ranking[d]
  IN IF news = {} THEN known[c].reviews[x] ELSE LastVerdict(c, Lineage(last), x)

ClaimsAfter(c) ==
  known[c].claims \cup {x \in Claim : \E d \in Catalog : About(c, Proposals(d), x) # {}}

\* Mutated form: in the order git lists the refs in.
DecidableBefore(c) == known[c].claims

(* import_knowledge takes the knowledge_ref last, when the claims are      *)
(* there: it stores the decisions on these.                                *)
Decidable(c) == ClaimsAfter(c)

KnownAfter(c) ==
  LET decided == {i \in New(c, Accepted) : remote[Accepted][i].of \in Decidable(c)}
  IN [claims |-> ClaimsAfter(c),
      decisions |-> known[c].decisions \cup
        {[of |-> remote[Accepted][i].of, verdict |-> remote[Accepted][i].verdict] : i \in decided},
      latest |-> [x \in Claim |->
        IF x \in Decidable(c) /\ About(c, Accepted, x) # {}
        THEN LastVerdict(c, Accepted, x) ELSE known[c].latest[x]],
      reviews |-> [x \in Relation |-> ReviewAfter(c, x)]]

(* sync: fetch --prune, then every import; each commit is marked whatever  *)
(* became of its records.                                                  *)
Synchronize(c) ==
  /\ tracking' = [tracking EXCEPT ![c] = [r \in KnowledgeRef |-> Len(remote[r])]]
  /\ known' = [known EXCEPT ![c] = KnownAfter(c)]
  /\ imported' = [imported EXCEPT
       ![c] = @ \cup UNION {{r} \X (1 .. Len(remote[r])) : r \in KnowledgeRef}]
  /\ UNCHANGED remote

Sync(c) == Synchronize(c) /\ UNCHANGED work
-----------------------------------------------------------------------------
(* A publication synchronizes first; when it cannot, it ends there.        *)
BeginPublication(p, ref, r) ==
  /\ work[p] = NoWork /\ Len(remote[ref]) < MaxCommits[ref]
  /\ Synchronize(CatalogOf[p])
  /\ work' = [work EXCEPT ![p] = [step |-> "commit", ref |-> ref, record |-> r, base |-> 0]]

ProposeClaim(p) ==
  \E r \in ClaimRecord(CatalogOf[p]) : BeginPublication(p, Proposals(CatalogOf[p]), r)
DecideClaim(p) ==
  \E r \in DecisionRecord(CatalogOf[p]) :
    /\ DecideUnseen \/ r.of \in known[CatalogOf[p]].claims
    /\ BeginPublication(p, Accepted, r)
ReviewLineage(p) ==
  \E r \in ReviewRecord(CatalogOf[p]) : BeginPublication(p, Lineage(CatalogOf[p]), r)

(* The new commit's parent and tree are those of the tracking ref.         *)
CommitRecord(p) ==
  /\ work[p] # NoWork /\ work[p].step = "commit"
  /\ work' = [work EXCEPT ![p].step = "push",
                          ![p].base = tracking[CatalogOf[p]][work[p].ref]]
  /\ UNCHANGED <<remote, tracking, imported, known>>

\* Mutated form: with --force, as the claims of tasks are pushed.
PushForced(p) ==
  LET w == work[p]  c == CatalogOf[p] IN
  /\ w # NoWork /\ w.step = "push"
  /\ remote' = [remote EXCEPT ![w.ref] = Append(SubSeq(@, 1, w.base), w.record)]
  /\ tracking' = [tracking EXCEPT ![c][w.ref] = w.base + 1]
  /\ work' = [work EXCEPT ![p].step = "store"]
  /\ UNCHANGED <<imported, known>>

(* The remote takes a push only on top of what it has; otherwise the       *)
(* publication throws.                                                     *)
Push(p) ==
  LET w == work[p]  c == CatalogOf[p] IN
  /\ w # NoWork /\ w.step = "push"
  /\ IF w.base = Len(remote[w.ref])
     THEN /\ remote' = [remote EXCEPT ![w.ref] = Append(@, w.record)]
          /\ tracking' = [tracking EXCEPT ![c][w.ref] = w.base + 1]
          /\ work' = [work EXCEPT ![p].step = "store"]
     ELSE work' = [work EXCEPT ![p] = NoWork] /\ UNCHANGED <<remote, tracking>>
  /\ UNCHANGED <<imported, known>>

(* The catalog stores what was published; reviews also mark the commit.    *)
Store(p) ==
  LET w == work[p]  c == CatalogOf[p] IN
  /\ w # NoWork /\ w.step = "store"
  /\ known' = [known EXCEPT ![c] = Stored(@, w.record)]
  /\ imported' = IF w.record.kind = "review"
                 THEN [imported EXCEPT ![c] = @ \cup {<<w.ref, w.base + 1>>}] ELSE imported
  /\ work' = [work EXCEPT ![p] = NoWork]
  /\ UNCHANGED <<remote, tracking>>

(* The process ends, or git fails, in the middle of a publication.         *)
AbandonPublication(p) ==
  /\ work[p] # NoWork /\ work' = [work EXCEPT ![p] = NoWork]
  /\ UNCHANGED <<remote, tracking, imported, known>>

(* A candidate review is stored in the catalog alone.                      *)
SubmitCandidate(c, x) ==
  /\ known' = [known EXCEPT ![c].reviews[x] = "candidate"]
  /\ UNCHANGED <<remote, tracking, imported, work>>

KnowledgeNext ==
  \/ \E c \in Catalog : Sync(c) \/ \E x \in Relation : SubmitCandidate(c, x)
  \/ \E p \in Publisher :
       \/ ProposeClaim(p) \/ DecideClaim(p) \/ ReviewLineage(p)
       \/ CommitRecord(p) \/ Push(p) \/ Store(p) \/ AbandonPublication(p)

KnowledgeSpec == KnowledgeInit /\ [][KnowledgeNext]_knowledgeVars
-----------------------------------------------------------------------------
\* What the commits of a ref add, and what of it a publisher is at.
RecordsOf(ref) ==
  CASE ref = Accepted -> UNION {DecisionRecord(c) : c \in Catalog}
    [] ref[1] = "proposals" -> ClaimRecord(ref[2])
    [] ref[1] = "lineage" -> ReviewRecord(ref[2])
Publication(r) ==
  [step : {"commit", "push", "store"}, ref : {r}, record : RecordsOf(r), base : Nat]

Holdings ==
  [claims : SUBSET Claim, decisions : SUBSET [of : Claim, verdict : Verdict],
   latest : [Claim -> Verdict \cup {"none"}],
   reviews : [Relation -> Verdict \cup {"none", "candidate"}]]

KnowledgeTypeOK ==
  /\ DOMAIN remote = KnowledgeRef
  /\ \A r \in KnowledgeRef : remote[r] \in Seq(RecordsOf(r))
  /\ tracking \in [Catalog -> [KnowledgeRef -> Nat]]
  /\ \A c \in Catalog, r \in KnowledgeRef : tracking[c][r] <= Len(remote[r])
  /\ imported \in [Catalog -> SUBSET (KnowledgeRef \X Nat)]
  /\ known \in [Catalog -> Holdings]
  /\ DOMAIN work = Publisher
  /\ \A p \in Publisher : work[p] = NoWork \/ \E r \in KnowledgeRef : work[p] \in Publication(r)

Published(ref) ==
  {[of |-> remote[ref][i].of, verdict |-> remote[ref][i].verdict] : i \in DOMAIN remote[ref]}

\* The claims and decisions of the producers that a catalog trusts.
ClaimsInGit(c) ==
  {x \in Claim : \E d \in Trusted[c] : [of |-> x, verdict |-> "none"] \in Published(Proposals(d))}
DecisionsInGit(c) ==
  {[of |-> remote[Accepted][i].of, verdict |-> remote[Accepted][i].verdict] :
     i \in {j \in DOMAIN remote[Accepted] : remote[Accepted][j].by \in Trusted[c]}}

(* Whatever a catalog holds as a claim, a decision or a finished review    *)
(* can be restored from Git: it is on the remote, where no push of anyone  *)
(* removes it, wherever a publication was interrupted or refused; claims   *)
(* and decisions as records of producers that the catalog trusts ("Git is  *)
(* authoritative for shared immutable facts, accepted or rejected          *)
(* reviews", README.md:274).                                               *)
KnowledgeIsPublished ==
  \A c \in Catalog :
    /\ known[c].claims \subseteq ClaimsInGit(c)
    /\ known[c].decisions \subseteq DecisionsInGit(c)
    /\ \A x \in Relation : known[c].reviews[x] \in Verdict =>
         \E d \in Catalog : [of |-> x, verdict |-> known[c].reviews[x]] \in Published(Lineage(d))

(* A catalog that has imported a commit of the knowledge_ref knows its     *)
(* decision, if the producers of the decision and of its claim are         *)
(* trusted: it was not dropped for coming before its claim.                *)
DecisionsReachCatalogs ==
  \A c \in Catalog : \A i \in DOMAIN remote[Accepted] :
    LET r == remote[Accepted][i] IN
    /\ <<Accepted, i>> \in imported[c] /\ r.by \in Trusted[c]
    /\ \E d \in Trusted[c] : [of |-> r.of, verdict |-> "none"] \in Published(Proposals(d))
    => [of |-> r.of, verdict |-> r.verdict] \in known[c].decisions

(* Catalogs that trust everyone and have imported all that was published,  *)
(* with nothing under way, answer alike: Git is authoritative.             *)
CatalogsAgree ==
  LET current == {c \in Catalog : /\ Trusted[c] = Catalog
                                  /\ \A r \in KnowledgeRef : \A i \in DOMAIN remote[r] :
                                       <<r, i>> \in imported[c]}
  IN (\A p \in Publisher : work[p] = NoWork) =>
       \A c, d \in current :
         /\ \A x \in Claim : known[c].latest[x] = known[d].latest[x]
         /\ \A x \in Relation : "candidate" \notin {known[c].reviews[x], known[d].reviews[x]}
                                => known[c].reviews[x] = known[d].reviews[x]
=============================================================================
