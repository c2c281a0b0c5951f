---------------------------- MODULE KnowledgeProofs ----------------------------
(***************************************************************************)
(* What catalogs hold is in Git, and decisions reach the catalogs          *)
(* (src/git_coordination.cpp), for any number of producers, publishers and *)
(* records, whatever push is refused or interrupted.  After it the         *)
(* connectors, whose cursor skips no update (src/connectors.cpp).          *)
(***************************************************************************)
EXTENDS Knowledge, Connector, FoldLemmas

\* What a record says, and what every commit of a ref adds.
Content(r) == [of |-> r.of, verdict |-> r.verdict]
Proposed(x) == [of |-> x, verdict |-> "none"]

LEMMA RefFacts ==
  /\ Accepted \in KnowledgeRef /\ Accepted[1] = "accepted"
  /\ \A c \in Catalog :
       /\ Proposals(c) \in KnowledgeRef /\ Lineage(c) \in KnowledgeRef
       /\ Proposals(c)[1] = "proposals" /\ Proposals(c)[2] = c
       /\ Lineage(c)[1] = "lineage" /\ Lineage(c)[2] = c
       /\ Proposals(c) # Accepted /\ Lineage(c) # Accepted
       /\ \A d \in Catalog : Proposals(c) # Lineage(d)
<1>1. \A c \in Catalog : Proposals(c)[1] = "proposals" /\ Lineage(c)[1] = "lineage"
  BY DEF Proposals, Lineage
<1>2. Accepted[1] = "accepted"
  BY DEF Accepted
<1>3. \A c \in Catalog : Proposals(c)[2] = c /\ Lineage(c)[2] = c
  BY DEF Proposals, Lineage
<1>4. \A c, d \in Catalog : /\ Proposals(c) # Accepted /\ Lineage(c) # Accepted
                            /\ Proposals(c) # Lineage(d)
  BY <1>1, <1>2
<1>5. Accepted \in KnowledgeRef
      /\ \A c \in Catalog : Proposals(c) \in KnowledgeRef /\ Lineage(c) \in KnowledgeRef
  BY DEF KnowledgeRef
<1> QED  BY <1>1, <1>2, <1>3, <1>4, <1>5

LEMMA RecordFacts ==
  /\ RecordsOf(Accepted) = UNION {DecisionRecord(c) : c \in Catalog}
  /\ \A c \in Catalog : /\ RecordsOf(Proposals(c)) = ClaimRecord(c)
                        /\ RecordsOf(Lineage(c)) = ReviewRecord(c)
<1>1. RecordsOf(Accepted) = UNION {DecisionRecord(c) : c \in Catalog}
  BY RefFacts DEF RecordsOf
<1>2. ASSUME NEW c \in Catalog
      PROVE  /\ RecordsOf(Proposals(c)) = ClaimRecord(c)
             /\ RecordsOf(Lineage(c)) = ReviewRecord(c)
  BY RefFacts DEF RecordsOf
<1> QED  BY <1>1, <1>2

\* The three kinds of refs, with what the records of each are about.
LEMMA RecordTypes ==
  /\ \A r \in RecordsOf(Accepted) :
       r.kind = "decision" /\ r.of \in Claim /\ r.verdict \in Verdict /\ r.by \in Catalog
  /\ \A c \in Catalog : \A r \in RecordsOf(Proposals(c)) :
       r.kind = "claim" /\ r.of \in Claim /\ r.verdict = "none" /\ r.by = c
  /\ \A c \in Catalog : \A r \in RecordsOf(Lineage(c)) :
       r.kind = "review" /\ r.of \in Relation /\ r.verdict \in Verdict /\ r.by = c
<1>1. ASSUME NEW r \in RecordsOf(Accepted)
      PROVE  r.kind = "decision" /\ r.of \in Claim /\ r.verdict \in Verdict /\ r.by \in Catalog
  <2>1. PICK c \in Catalog : r \in DecisionRecord(c)
    BY RecordFacts
  <2> QED  BY <2>1 DEF DecisionRecord
<1>2. ASSUME NEW c \in Catalog, NEW r \in RecordsOf(Proposals(c))
      PROVE  r.kind = "claim" /\ r.of \in Claim /\ r.verdict = "none" /\ r.by = c
  <2>1. r \in ClaimRecord(c)
    BY RecordFacts
  <2> QED  BY <2>1 DEF ClaimRecord
<1>3. ASSUME NEW c \in Catalog, NEW r \in RecordsOf(Lineage(c))
      PROVE  r.kind = "review" /\ r.of \in Relation /\ r.verdict \in Verdict /\ r.by = c
  <2>1. r \in ReviewRecord(c)
    BY RecordFacts
  <2> QED  BY <2>1 DEF ReviewRecord
<1> QED  BY <1>1, <1>2, <1>3

LEMMA KindOfRef ==
  ASSUME NEW r \in KnowledgeRef
  PROVE  \/ r = Accepted
         \/ \E c \in Catalog : r = Proposals(c)
         \/ \E c \in Catalog : r = Lineage(c)
  BY DEF KnowledgeRef

\* Refs grow, so that what is published stays published.
LEMMA PublishedStays ==
  ASSUME NEW r, NEW e, remote[r] \in Seq(RecordsOf(r)), remote'[r] = Append(remote[r], e)
  PROVE  /\ Published(r) \subseteq Published(r)' /\ Content(e) \in Published(r)'
         /\ DOMAIN remote'[r] = DOMAIN remote[r] \cup {Len(remote[r]) + 1}
         /\ \A i \in DOMAIN remote[r] : remote'[r][i] = remote[r][i]
         /\ remote'[r][Len(remote[r]) + 1] = e
<1> DEFINE n == Len(remote[r])
<1>1. /\ n \in Nat /\ DOMAIN remote[r] = 1 .. n /\ DOMAIN remote'[r] = 1 .. (n + 1)
      /\ \A i \in 1 .. n : remote'[r][i] = remote[r][i]
      /\ remote'[r][n + 1] = e
  OBVIOUS
<1> HIDE DEF n
<1>2. n + 1 \in DOMAIN remote'[r] /\ DOMAIN remote'[r] = DOMAIN remote[r] \cup {n + 1}
  BY <1>1
<1>3. Published(r) \subseteq Published(r)'
  BY <1>1, <1>2 DEF Published
<1>4. Content(e) \in Published(r)'
  BY <1>1, <1>2 DEF Published, Content
<1> QED  BY <1>1, <1>2, <1>3, <1>4 DEF n

-----------------------------------------------------------------------------
(* What an import makes of a catalog.                                      *)

LEMMA ByRef ==
  ASSUME KnowledgeTypeOK, NEW r \in KnowledgeRef
  PROVE  /\ remote[r] \in Seq(RecordsOf(r)) /\ Len(remote[r]) \in Nat
         /\ DOMAIN remote[r] = 1 .. Len(remote[r])
         /\ \A i \in DOMAIN remote[r] : remote[r][i] \in RecordsOf(r)
  BY DEF KnowledgeTypeOK

LEMMA LastIsNew ==
  ASSUME KnowledgeTypeOK, NEW c \in Catalog, NEW r \in KnowledgeRef, NEW x, About(c, r, x) # {}
  PROVE  \E i \in DOMAIN remote[r] :
            /\ remote[r][i].of = x /\ remote[r][i].by \in Trusted[c]
            /\ remote[r][i].verdict = LastVerdict(c, r, x)
<1> DEFINE S == About(c, r, x)
<1>1. S \in SUBSET Nat /\ S \subseteq DOMAIN remote[r] /\ \A m \in S : m <= Len(remote[r])
  BY ByRef DEF About, New
<1>2. Max(S) \in S
  BY <1>1, ByRef, LargestOf
<1> QED  BY <1>1, <1>2 DEF About, New, LastVerdict

LEMMA LastProducer ==
  ASSUME NEW news \in SUBSET Catalog, news # {}
  PROVE  (CHOOSE d \in news : \A e \in news : Ranking[e] <= Ranking[d]) \in news
<1>1. IsFiniteSet(news) /\ \A d \in news : Ranking[d] \in Nat
  BY KnowledgeAssumption, FS_Subset
<1>2. \E d \in news : \A e \in news : Ranking[e] <= Ranking[d]
  BY <1>1, HighestRanked
<1> QED  BY <1>2, Zenon

LEMMA ImportedReviews ==
  ASSUME KnowledgeTypeOK, NEW c \in Catalog, NEW x \in Relation
  PROVE  \/ ReviewAfter(c, x) = known[c].reviews[x]
         \/ /\ ReviewAfter(c, x) \in Verdict
            /\ \E d \in Catalog : [of |-> x, verdict |-> ReviewAfter(c, x)] \in Published(Lineage(d))
<1> DEFINE news == {d \in Catalog : About(c, Lineage(d), x) # {}}
           last == CHOOSE d \in news : \A e \in news : Ranking[e] <= Ranking[d]
<1>1. CASE news = {}
  BY <1>1 DEF ReviewAfter
<1>2. CASE news # {}
  <2>1. last \in news
    BY <1>2, LastProducer
  <2>2. ReviewAfter(c, x) = LastVerdict(c, Lineage(last), x)
    BY <1>2 DEF ReviewAfter
  <2> HIDE DEF last
  <2>3. PICK i \in DOMAIN remote[Lineage(last)] :
          /\ remote[Lineage(last)][i].of = x
          /\ remote[Lineage(last)][i].verdict = LastVerdict(c, Lineage(last), x)
    BY <2>1, LastIsNew, RefFacts
  <2>4. remote[Lineage(last)][i].verdict \in Verdict
    BY <2>1, <2>3, ByRef, RefFacts, RecordTypes
  <2> QED  BY <2>1, <2>2, <2>3, <2>4 DEF Published
<1> QED  BY <1>1, <1>2

LEMMA ImportedClaims ==
  ASSUME KnowledgeTypeOK, NEW c \in Catalog, NEW x \in ClaimsAfter(c)
  PROVE  x \in Claim /\ \/ x \in known[c].claims
                        \/ \E d \in Trusted[c] : Proposed(x) \in Published(Proposals(d))
<1>1. known[c].claims \subseteq Claim
  BY DEF KnowledgeTypeOK, Holdings
<1>2. ASSUME NEW d \in Catalog, NEW i \in About(c, Proposals(d), x)
      PROVE  \E e \in Trusted[c] : Proposed(x) \in Published(Proposals(e))
  <2> DEFINE r == remote[Proposals(d)][i]
  <2>1. i \in DOMAIN remote[Proposals(d)] /\ r.of = x /\ r.by \in Trusted[c]
    BY <1>2 DEF About, New
  <2>2. r.by = d /\ r.verdict = "none"
    BY <2>1, ByRef, RefFacts, RecordTypes
  <2> QED  BY <2>1, <2>2 DEF Published, Proposed
<1> QED  BY <1>1, <1>2 DEF ClaimsAfter

LEMMA ImportNew ==
  ASSUME KnowledgeTypeOK, NEW c \in Catalog
  PROVE  /\ KnownAfter(c) \in Holdings
         /\ known[c].claims \subseteq KnownAfter(c).claims
         /\ known[c].decisions \subseteq KnownAfter(c).decisions
         /\ KnownAfter(c).decisions \subseteq known[c].decisions \cup Published(Accepted)
<1> DEFINE decided == {i \in New(c, Accepted) : remote[Accepted][i].of \in Decidable(c)}
           added == {[of |-> remote[Accepted][i].of, verdict |-> remote[Accepted][i].verdict] :
                       i \in decided}
           latest == [x \in Claim |->
             IF x \in Decidable(c) /\ About(c, Accepted, x) # {}
             THEN LastVerdict(c, Accepted, x) ELSE known[c].latest[x]]
           reviews == [x \in Relation |-> ReviewAfter(c, x)]
<1>1. known[c] \in Holdings
  BY DEF KnowledgeTypeOK
<1>2. ClaimsAfter(c) \in SUBSET Claim
  BY ImportedClaims
<1>3. \A i \in decided : /\ i \in DOMAIN remote[Accepted]
                         /\ remote[Accepted][i].of \in Claim
                         /\ remote[Accepted][i].verdict \in Verdict
  BY ByRef, RefFacts, RecordTypes DEF New
<1>4. added \in SUBSET [of : Claim, verdict : Verdict] /\ added \subseteq Published(Accepted)
  BY <1>3 DEF Published
<1>5. latest \in [Claim -> Verdict \cup {"none"}]
  <2>1. ASSUME NEW x \in Claim, About(c, Accepted, x) # {}
        PROVE  LastVerdict(c, Accepted, x) \in Verdict
    BY <2>1, LastIsNew, ByRef, RefFacts, RecordTypes
  <2> QED  BY <1>1, <2>1 DEF Holdings
<1>6. reviews \in [Relation -> Verdict \cup {"none", "candidate"}]
  BY <1>1, ImportedReviews DEF Holdings
<1>7. KnownAfter(c) = [claims |-> ClaimsAfter(c), decisions |-> known[c].decisions \cup added,
                       latest |-> latest, reviews |-> reviews]
  BY DEF KnownAfter
<1> HIDE DEF added, latest, reviews
<1>8. known[c].decisions \in SUBSET [of : Claim, verdict : Verdict]
  BY <1>1 DEF Holdings
<1>9. KnownAfter(c) \in Holdings
  BY <1>2, <1>4, <1>5, <1>6, <1>7, <1>8 DEF Holdings
<1> QED  BY <1>4, <1>7, <1>9 DEF ClaimsAfter

-----------------------------------------------------------------------------
(* The steps, in the form that the invariants need.                        *)

Own(p) == CatalogOf[p]
RefOfOwn(p, ref) == ref \in {Accepted, Proposals(Own(p)), Lineage(Own(p))}

\* A publication that may begin.
Permitted(p, ref, r) ==
  /\ RefOfOwn(p, ref) /\ r \in RecordsOf(ref) /\ r.by = Own(p)
  /\ ref = Accepted => DecideUnseen \/ r.of \in known[Own(p)].claims
Begins(p) ==
  \E ref \in KnowledgeRef : \E r \in RecordsOf(ref) :
    BeginPublication(p, ref, r) /\ Permitted(p, ref, r)

LEMMA Beginnings ==
  ASSUME NEW p \in Publisher, ProposeClaim(p) \/ DecideClaim(p) \/ ReviewLineage(p)
  PROVE  Begins(p)
<1>1. Own(p) \in Catalog
  BY KnowledgeAssumption DEF Own
<1>2. CASE ProposeClaim(p)
  <2>1. PICK r \in ClaimRecord(Own(p)) : BeginPublication(p, Proposals(Own(p)), r)
    BY <1>2 DEF ProposeClaim, Own
  <2>2. r.by = Own(p)
    BY <1>1, <2>1, RecordFacts, RecordTypes
  <2> QED  BY <1>1, <2>1, <2>2, RefFacts, RecordFacts DEF Begins, Permitted, RefOfOwn
<1>3. CASE DecideClaim(p)
  <2>1. PICK r \in DecisionRecord(Own(p)) :
          /\ DecideUnseen \/ r.of \in known[Own(p)].claims
          /\ BeginPublication(p, Accepted, r)
    BY <1>3 DEF DecideClaim, Own
  <2>2. r.by = Own(p)
    BY <2>1 DEF DecisionRecord
  <2> QED  BY <1>1, <2>1, <2>2, RefFacts, RecordFacts DEF Begins, Permitted, RefOfOwn
<1>4. CASE ReviewLineage(p)
  <2>1. PICK r \in ReviewRecord(Own(p)) : BeginPublication(p, Lineage(Own(p)), r)
    BY <1>4 DEF ReviewLineage, Own
  <2>2. r.by = Own(p)
    BY <1>1, <2>1, RecordFacts, RecordTypes
  <2> QED  BY <1>1, <2>1, <2>2, RefFacts, RecordFacts DEF Begins, Permitted, RefOfOwn
<1> QED  BY <1>2, <1>3, <1>4

LEMMA Steps ==
  ASSUME [KnowledgeNext]_knowledgeVars
  PROVE  \/ \E c \in Catalog : Synchronize(c) /\ UNCHANGED work
         \/ \E p \in Publisher : Begins(p)
         \/ \E p \in Publisher : CommitRecord(p) \/ Push(p) \/ Store(p) \/ AbandonPublication(p)
         \/ \E c \in Catalog, x \in Relation : SubmitCandidate(c, x)
         \/ UNCHANGED knowledgeVars
  BY Beginnings DEF KnowledgeNext, Sync

\* A push adds at most its record to one ref.
Pushed(p, r) ==
  /\ r = work[p].ref /\ r \in KnowledgeRef /\ work[p].record \in RecordsOf(r)
  /\ remote'[r] = Append(remote[r], work[p].record)
  /\ \A q \in KnowledgeRef \ {r} : remote'[q] = remote[q]
  /\ tracking' = [tracking EXCEPT ![Own(p)][r] = Len(remote[r]) + 1]
  /\ work' = [work EXCEPT ![p].step = "store"]

LEMMA Pushes ==
  ASSUME KnowledgeTypeOK, NEW p \in Publisher, Push(p)
  PROVE  /\ DOMAIN remote' = KnowledgeRef /\ UNCHANGED <<imported, known>>
         /\ work[p] # NoWork /\ work[p].step = "push"
         /\ \/ UNCHANGED <<remote, tracking>> /\ work' = [work EXCEPT ![p] = NoWork]
            \/ Pushed(p, work[p].ref)
<1>1. PICK r \in KnowledgeRef : work[p] \in Publication(r)
  BY DEF Push, KnowledgeTypeOK
<1>2. work[p].ref = r /\ work[p].record \in RecordsOf(r)
  BY <1>1 DEF Publication
<1>3. DOMAIN remote = KnowledgeRef
  BY DEF KnowledgeTypeOK
<1>4. CASE work[p].base = Len(remote[work[p].ref])
  BY <1>2, <1>3, <1>4 DEF Push, Pushed, Own
<1>5. CASE work[p].base # Len(remote[work[p].ref])
  BY <1>3, <1>5 DEF Push
<1> QED  BY <1>4, <1>5

LEMMA RefsGrow ==
  ASSUME KnowledgeTypeOK, [KnowledgeNext]_knowledgeVars, NEW r \in KnowledgeRef
  PROVE  /\ Published(r) \subseteq Published(r)' /\ Len(remote[r]) <= Len(remote'[r])
         /\ \A i \in DOMAIN remote[r] : i \in DOMAIN remote'[r] /\ remote'[r][i] = remote[r][i]
<1>1. CASE remote'[r] = remote[r]
  BY <1>1, ByRef DEF Published
<1>2. ASSUME NEW p \in Publisher, Pushed(p, r) PROVE remote'[r] = Append(remote[r], work[p].record)
  BY <1>2 DEF Pushed
<1>3. ASSUME NEW p \in Publisher, Push(p)
      PROVE  remote'[r] = remote[r] \/ Pushed(p, r)
  BY <1>3, Pushes DEF Pushed
<1>4. \/ remote'[r] = remote[r]
      \/ \E p \in Publisher : Pushed(p, r)
  BY <1>3, Steps DEF Synchronize, Begins, BeginPublication, CommitRecord, Store,
     AbandonPublication, SubmitCandidate, knowledgeVars
<1>5. ASSUME NEW p \in Publisher, Pushed(p, r)
      PROVE  /\ Published(r) \subseteq Published(r)' /\ Len(remote[r]) <= Len(remote'[r])
             /\ \A i \in DOMAIN remote[r] : i \in DOMAIN remote'[r] /\ remote'[r][i] = remote[r][i]
  <2>1. remote'[r] = Append(remote[r], work[p].record) /\ remote[r] \in Seq(RecordsOf(r))
    BY <1>2, <1>5, ByRef
  <2>2. Len(remote'[r]) = Len(remote[r]) + 1 /\ Len(remote[r]) \in Nat
    BY <2>1
  <2> QED  BY <2>1, <2>2, PublishedStays
<1> QED  BY <1>1, <1>4, <1>5

-----------------------------------------------------------------------------
(* Types.                                                                  *)

LEMMA StoredType ==
  ASSUME KnowledgeTypeOK, NEW k \in Holdings, NEW ref \in KnowledgeRef, NEW r \in RecordsOf(ref)
  PROVE  /\ Stored(k, r) \in Holdings
         /\ k.claims \subseteq Stored(k, r).claims /\ k.decisions \subseteq Stored(k, r).decisions
         /\ Stored(k, r).claims \subseteq k.claims \cup {r.of}
         /\ Stored(k, r).decisions \subseteq k.decisions \cup {Content(r)}
         /\ r.kind # "claim" => Stored(k, r).claims = k.claims
         /\ r.kind # "decision" => Stored(k, r).decisions = k.decisions
         /\ \A x \in Relation : Stored(k, r).reviews[x] # k.reviews[x] =>
              r.kind = "review" /\ x = r.of /\ Stored(k, r).reviews[x] = r.verdict
<1>1. CASE ref = Accepted
  <2>1. r.kind = "decision" /\ r.of \in Claim /\ r.verdict \in Verdict
    BY <1>1, RecordTypes
  <2>2. Stored(k, r) = StoreDecision(k, r)
    BY <2>1 DEF Stored
  <2>3. CASE r.of \notin k.claims
    BY <2>1, <2>2, <2>3 DEF StoreDecision
  <2>4. CASE r.of \in k.claims
    <3> DEFINE D == k.decisions \cup {Content(r)}
               L == [k.latest EXCEPT ![r.of] = r.verdict]
    <3>1. Stored(k, r) = [k EXCEPT !.decisions = D, !.latest = L]
      BY <2>2, <2>4 DEF StoreDecision, Content
    <3>2. Content(r) \in [of : Claim, verdict : Verdict]
      BY <2>1 DEF Content
    <3>3. D \in SUBSET [of : Claim, verdict : Verdict]
      BY <3>2 DEF Holdings
    <3>4. L \in [Claim -> Verdict \cup {"none"}]
      BY <2>1 DEF Holdings
    <3>5. k.decisions \subseteq D /\ D = k.decisions \cup {Content(r)}
      OBVIOUS
    <3> HIDE DEF D, L
    <3>6. /\ Stored(k, r) \in Holdings /\ Stored(k, r).claims = k.claims
          /\ Stored(k, r).reviews = k.reviews /\ Stored(k, r).decisions = D
      BY <3>1, <3>3, <3>4 DEF Holdings
    <3> QED  BY <2>1, <3>5, <3>6
  <2> QED  BY <2>3, <2>4
<1>2. ASSUME NEW c \in Catalog, ref = Proposals(c)
      PROVE  r.kind = "claim" /\ r.of \in Claim /\ Stored(k, r) = StoreClaim(k, r)
  <2>1. r.kind = "claim" /\ r.of \in Claim
    BY <1>2, RecordTypes
  <2> QED  BY <2>1 DEF Stored
<1>3. ASSUME NEW c \in Catalog, ref = Lineage(c)
      PROVE  /\ r.kind = "review" /\ r.of \in Relation /\ r.verdict \in Verdict
             /\ Stored(k, r) = StoreRelation(k, r)
  <2>1. r.kind = "review" /\ r.of \in Relation /\ r.verdict \in Verdict
    BY <1>3, RecordTypes
  <2> QED  BY <2>1 DEF Stored
<1>4. CASE \E c \in Catalog : ref = Proposals(c)
  <2>1. r.kind = "claim" /\ r.of \in Claim /\ Stored(k, r) = StoreClaim(k, r)
    BY <1>2, <1>4
  <2>2. StoreClaim(k, r) = [k EXCEPT !.claims = k.claims \cup {r.of}]
    BY DEF StoreClaim
  <2> QED  BY <2>1, <2>2 DEF Holdings
<1>5. CASE \E c \in Catalog : ref = Lineage(c)
  <2>1. /\ r.kind = "review" /\ r.of \in Relation /\ r.verdict \in Verdict
        /\ Stored(k, r) = StoreRelation(k, r)
    BY <1>3, <1>5
  <2>2. StoreRelation(k, r) = [k EXCEPT !.reviews = [k.reviews EXCEPT ![r.of] = r.verdict]]
    BY DEF StoreRelation
  <2> QED  BY <2>1, <2>2 DEF Holdings
<1> QED  BY <1>1, <1>4, <1>5, KindOfRef

LEMMA Storing ==
  ASSUME KnowledgeTypeOK, NEW p \in Publisher, Store(p)
  PROVE  /\ work[p] # NoWork /\ work[p].step = "store"
         /\ \E r \in KnowledgeRef :
              /\ work[p].ref = r /\ work[p].record \in RecordsOf(r) /\ work[p].base \in Nat
              /\ work[p] \in Publication(r)
         /\ known' = [known EXCEPT ![Own(p)] = Stored(known[Own(p)], work[p].record)]
         /\ known[Own(p)] \in Holdings /\ Own(p) \in Catalog
         /\ UNCHANGED <<remote, tracking>>
         /\ work' = [work EXCEPT ![p] = NoWork]
<1>1. PICK r \in KnowledgeRef : work[p] \in Publication(r)
  BY DEF Store, KnowledgeTypeOK
<1>2. work[p].ref = r /\ work[p].record \in RecordsOf(r) /\ work[p].base \in Nat
  BY <1>1 DEF Publication
<1>3. Own(p) \in Catalog /\ known[Own(p)] \in Holdings
  BY KnowledgeAssumption DEF Own, KnowledgeTypeOK
<1> QED  BY <1>1, <1>2, <1>3 DEF Store, Own

LEMMA SyncTypes ==
  ASSUME KnowledgeTypeOK, NEW c \in Catalog, Synchronize(c)
  PROVE  /\ UNCHANGED remote
         /\ tracking' \in [Catalog -> [KnowledgeRef -> Nat]]
         /\ \A d \in Catalog, r \in KnowledgeRef : tracking'[d][r] <= Len(remote[r])
         /\ imported' \in [Catalog -> SUBSET (KnowledgeRef \X Nat)]
         /\ known' \in [Catalog -> Holdings]
         /\ known' = [known EXCEPT ![c] = KnownAfter(c)]
         /\ imported' = [imported EXCEPT
              ![c] = @ \cup UNION {{r} \X (1 .. Len(remote[r])) : r \in KnowledgeRef}]
<1> DEFINE tips == [r \in KnowledgeRef |-> Len(remote[r])]
           all == UNION {{r} \X (1 .. Len(remote[r])) : r \in KnowledgeRef}
<1>1. tips \in [KnowledgeRef -> Nat] /\ \A r \in KnowledgeRef : tips[r] <= Len(remote[r])
  BY ByRef
<1>2. all \in SUBSET (KnowledgeRef \X Nat)
  BY ByRef
<1>3. /\ tracking' = [tracking EXCEPT ![c] = tips]
      /\ imported' = [imported EXCEPT ![c] = @ \cup all]
  BY DEF Synchronize
<1>4. /\ tracking \in [Catalog -> [KnowledgeRef -> Nat]]
      /\ \A d \in Catalog, r \in KnowledgeRef : tracking[d][r] <= Len(remote[r])
      /\ imported \in [Catalog -> SUBSET (KnowledgeRef \X Nat)]
      /\ known \in [Catalog -> Holdings]
  BY DEF KnowledgeTypeOK
<1> HIDE DEF tips, all
<1>5. /\ tracking' \in [Catalog -> [KnowledgeRef -> Nat]]
      /\ \A d \in Catalog, r \in KnowledgeRef : tracking'[d][r] <= Len(remote[r])
  BY <1>1, <1>3, <1>4
<1>6. imported' \in [Catalog -> SUBSET (KnowledgeRef \X Nat)]
  BY <1>2, <1>3, <1>4
<1>7. known' \in [Catalog -> Holdings]
  BY <1>4, ImportNew DEF Synchronize
<1> QED  BY <1>5, <1>6, <1>7 DEF Synchronize

LEMMA WorkType ==
  ASSUME KnowledgeTypeOK, [KnowledgeNext]_knowledgeVars
  PROVE  /\ DOMAIN work' = Publisher
         /\ \A p \in Publisher : work'[p] = NoWork
                                 \/ \E r \in KnowledgeRef : work'[p] \in Publication(r)
<1> DEFINE Good(v) == v = NoWork \/ \E r \in KnowledgeRef : v \in Publication(r)
<1>1. DOMAIN work = Publisher /\ \A p \in Publisher : Good(work[p])
  BY DEF KnowledgeTypeOK
<1>2. ASSUME NEW p \in Publisher, NEW v, Good(v), work' = [work EXCEPT ![p] = v]
      PROVE  DOMAIN work' = Publisher /\ \A q \in Publisher : Good(work'[q])
  BY <1>1, <1>2
<1>3. ASSUME NEW p \in Publisher, Begins(p)
      PROVE  DOMAIN work' = Publisher /\ \A q \in Publisher : Good(work'[q])
  <2>0. PICK ref \in KnowledgeRef : \E r \in RecordsOf(ref) : BeginPublication(p, ref, r)
    BY <1>3 DEF Begins
  <2>1. PICK r \in RecordsOf(ref) : BeginPublication(p, ref, r)
    BY <2>0
  <2> DEFINE v == [step |-> "commit", ref |-> ref, record |-> r, base |-> 0]
  <2>2. v \in Publication(ref)
    BY DEF Publication
  <2>3. work' = [work EXCEPT ![p] = v]
    BY <2>1 DEF BeginPublication
  <2> HIDE DEF v
  <2> QED  BY <1>2, <2>2, <2>3
<1>4. ASSUME NEW p \in Publisher, CommitRecord(p)
      PROVE  DOMAIN work' = Publisher /\ \A q \in Publisher : Good(work'[q])
  <2>1. PICK r \in KnowledgeRef : work[p] \in Publication(r)
    BY <1>1, <1>4 DEF CommitRecord
  <2>2. tracking[Own(p)][work[p].ref] \in Nat
    BY <2>1, KnowledgeAssumption DEF KnowledgeTypeOK, Publication, Own
  <2> DEFINE v == [work[p] EXCEPT !.step = "push", !.base = tracking[Own(p)][work[p].ref]]
  <2>3. v \in Publication(r)
    BY <2>1, <2>2 DEF Publication
  <2>4. work' = [work EXCEPT ![p] = v]
    BY <1>4 DEF CommitRecord, Own
  <2> HIDE DEF v
  <2> QED  BY <1>2, <2>3, <2>4
<1>5. ASSUME NEW p \in Publisher, Push(p)
      PROVE  DOMAIN work' = Publisher /\ \A q \in Publisher : Good(work'[q])
  <2>1. PICK r \in KnowledgeRef : work[p] \in Publication(r)
    BY <1>1, <1>5 DEF Push
  <2> DEFINE v == [work[p] EXCEPT !.step = "store"]
  <2>2. v \in Publication(r)
    BY <2>1 DEF Publication
  <2>3. work' = [work EXCEPT ![p] = NoWork] \/ work' = [work EXCEPT ![p] = v]
    BY <1>5, Pushes DEF Pushed
  <2> HIDE DEF v
  <2> QED  BY <1>2, <2>2, <2>3
<1>6. ASSUME NEW p \in Publisher, Store(p) \/ AbandonPublication(p)
      PROVE  DOMAIN work' = Publisher /\ \A q \in Publisher : Good(work'[q])
  BY <1>2, <1>6 DEF Store, AbandonPublication
<1>7. CASE UNCHANGED work
  BY <1>1, <1>7
<1> QED  BY <1>3, <1>4, <1>5, <1>6, <1>7, Steps DEF SubmitCandidate, knowledgeVars

LEMMA KnownType ==
  ASSUME KnowledgeTypeOK, [KnowledgeNext]_knowledgeVars
  PROVE  known' \in [Catalog -> Holdings]
<1>1. known \in [Catalog -> Holdings]
  BY DEF KnowledgeTypeOK
<1>2. ASSUME NEW c \in Catalog, Synchronize(c) PROVE known' \in [Catalog -> Holdings]
  BY <1>2, SyncTypes
<1>3. ASSUME NEW p \in Publisher, Begins(p) PROVE known' \in [Catalog -> Holdings]
  BY <1>2, <1>3, KnowledgeAssumption DEF Begins, BeginPublication
<1>4. ASSUME NEW p \in Publisher, Store(p) PROVE known' \in [Catalog -> Holdings]
  BY <1>1, <1>4, Storing, StoredType
<1>5. ASSUME NEW c \in Catalog, NEW x \in Relation, SubmitCandidate(c, x)
      PROVE  known' \in [Catalog -> Holdings]
  <2>1. known[c] \in Holdings
    BY <1>1
  <2>2. [known[c] EXCEPT !.reviews[x] = "candidate"] \in Holdings
    BY <2>1 DEF Holdings
  <2> QED  BY <1>1, <1>5, <2>2 DEF SubmitCandidate
<1>6. ASSUME NEW p \in Publisher, CommitRecord(p) \/ Push(p) \/ AbandonPublication(p)
      PROVE  UNCHANGED known
  BY <1>6 DEF CommitRecord, Push, AbandonPublication
<1> QED  BY <1>1, <1>2, <1>3, <1>4, <1>5, <1>6, Steps DEF knowledgeVars

LEMMA RemoteType ==
  ASSUME KnowledgeTypeOK, [KnowledgeNext]_knowledgeVars
  PROVE  /\ DOMAIN remote' = KnowledgeRef
         /\ \A r \in KnowledgeRef : remote'[r] \in Seq(RecordsOf(r))
         /\ tracking' \in [Catalog -> [KnowledgeRef -> Nat]]
         /\ \A c \in Catalog, r \in KnowledgeRef : tracking'[c][r] <= Len(remote'[r])
<1> DEFINE Good == /\ DOMAIN remote' = KnowledgeRef
                   /\ \A r \in KnowledgeRef : remote'[r] \in Seq(RecordsOf(r))
                   /\ tracking' \in [Catalog -> [KnowledgeRef -> Nat]]
                   /\ \A c \in Catalog, r \in KnowledgeRef : tracking'[c][r] <= Len(remote'[r])
<1>1. /\ DOMAIN remote = KnowledgeRef
      /\ \A r \in KnowledgeRef : remote[r] \in Seq(RecordsOf(r)) /\ Len(remote[r]) \in Nat
      /\ tracking \in [Catalog -> [KnowledgeRef -> Nat]]
      /\ \A c \in Catalog, r \in KnowledgeRef : tracking[c][r] <= Len(remote[r])
  BY DEF KnowledgeTypeOK
<1>2. ASSUME UNCHANGED <<remote, tracking>> PROVE Good
  BY <1>1, <1>2
<1>3. ASSUME NEW c \in Catalog, Synchronize(c) PROVE Good
  BY <1>1, <1>3, SyncTypes
<1>4. ASSUME NEW p \in Publisher, Begins(p) PROVE Good
  BY <1>3, <1>4, KnowledgeAssumption DEF Begins, BeginPublication
<1>5. ASSUME NEW p \in Publisher, NEW r \in KnowledgeRef, Pushed(p, r), DOMAIN remote' = KnowledgeRef
      PROVE  Good
  <2> DEFINE n == Len(remote[r]) + 1
  <2>1. n \in Nat /\ Own(p) \in Catalog
    BY <1>1, KnowledgeAssumption DEF Own
  <2>2. remote'[r] \in Seq(RecordsOf(r)) /\ Len(remote'[r]) = n
    BY <1>1, <1>5 DEF Pushed
  <2>3. \A q \in KnowledgeRef : remote'[q] \in Seq(RecordsOf(q)) /\ Len(remote[q]) <= Len(remote'[q])
                                /\ Len(remote'[q]) \in Nat
    <3>1. ASSUME NEW q \in KnowledgeRef, q # r
          PROVE  remote'[q] = remote[q] /\ remote[q] \in Seq(RecordsOf(q)) /\ Len(remote[q]) \in Nat
      BY <1>1, <1>5, <3>1 DEF Pushed
    <3>2. Len(remote[r]) <= Len(remote'[r])
      BY <1>1, <2>2
    <3> QED  BY <2>1, <2>2, <3>1, <3>2
  <2>4. tracking' = [tracking EXCEPT ![Own(p)][r] = n]
    BY <1>5 DEF Pushed
  <2> HIDE DEF n
  <2>5. tracking' \in [Catalog -> [KnowledgeRef -> Nat]]
    BY <1>1, <2>1, <2>4
  <2>6. \A c \in Catalog, q \in KnowledgeRef :
          tracking'[c][q] = tracking[c][q] \/ (q = r /\ tracking'[c][q] = n)
    <3>1. ASSUME NEW c \in Catalog, c # Own(p) PROVE tracking'[c] = tracking[c]
      BY <1>1, <2>4, <3>1
    <3>2. tracking'[Own(p)] = [tracking[Own(p)] EXCEPT ![r] = n]
      BY <1>1, <2>1, <2>4
    <3>3. tracking[Own(p)] \in [KnowledgeRef -> Nat]
      BY <1>1, <2>1
    <3>4. \A q \in KnowledgeRef : tracking'[Own(p)][q] = IF q = r THEN n ELSE tracking[Own(p)][q]
      BY <3>2, <3>3
    <3> QED  BY <3>1, <3>4
  <2>7. ASSUME NEW c \in Catalog, NEW q \in KnowledgeRef PROVE tracking'[c][q] <= Len(remote'[q])
    <3>1. tracking[c][q] \in Nat /\ Len(remote[q]) \in Nat /\ tracking[c][q] <= Len(remote[q])
      BY <1>1
    <3>2. Len(remote[q]) <= Len(remote'[q]) /\ Len(remote'[q]) \in Nat /\ Len(remote'[r]) = n
      BY <2>2, <2>3
    <3>3. CASE q = r /\ tracking'[c][q] = n
      BY <2>1, <3>2, <3>3
    <3>4. CASE tracking'[c][q] = tracking[c][q]
      BY <3>1, <3>2, <3>4
    <3> QED  BY <2>6, <3>3, <3>4
  <2> QED  BY <1>5, <2>3, <2>5, <2>7
<1>6. ASSUME NEW p \in Publisher, Push(p) PROVE Good
  BY <1>2, <1>5, <1>6, Pushes DEF Pushed
<1>7. ASSUME NEW p \in Publisher, CommitRecord(p) \/ Store(p) \/ AbandonPublication(p) PROVE Good
  BY <1>2, <1>7 DEF CommitRecord, Store, AbandonPublication
<1> QED  BY <1>2, <1>3, <1>4, <1>6, <1>7, Steps DEF SubmitCandidate, knowledgeVars

\* What an import, and what a review that was pushed, mark.
ImportsOf(c) ==
  imported' = [imported EXCEPT
    ![c] = @ \cup UNION {{r} \X (1 .. Len(remote[r])) : r \in KnowledgeRef}]
MarksReview(p) ==
  /\ work[p].record.kind = "review"
  /\ imported' = [imported EXCEPT ![Own(p)] = @ \cup {<<work[p].ref, work[p].base + 1>>}]

LEMMA ImportedStep ==
  ASSUME KnowledgeTypeOK, [KnowledgeNext]_knowledgeVars
  PROVE  \/ UNCHANGED imported
         \/ \E c \in Catalog : Synchronize(c) /\ ImportsOf(c)
         \/ \E p \in Publisher : Store(p) /\ MarksReview(p)
<1>1. \A p \in Publisher : Own(p) \in Catalog
  BY KnowledgeAssumption DEF Own
<1>2. ASSUME NEW p \in Publisher, Begins(p)
      PROVE  Synchronize(Own(p)) /\ ImportsOf(Own(p))
  BY <1>2 DEF Begins, BeginPublication, Own, Synchronize, ImportsOf
<1>3. ASSUME NEW c \in Catalog, Synchronize(c) PROVE ImportsOf(c)
  BY <1>3 DEF Synchronize, ImportsOf
<1>4. ASSUME NEW p \in Publisher, Store(p) PROVE UNCHANGED imported \/ MarksReview(p)
  BY <1>4 DEF Store, MarksReview, Own
<1>5. ASSUME NEW p \in Publisher, CommitRecord(p) \/ Push(p) \/ AbandonPublication(p)
      PROVE  UNCHANGED imported
  BY <1>5 DEF CommitRecord, Push, AbandonPublication
<1> QED  BY <1>1, <1>2, <1>3, <1>4, <1>5, Steps DEF SubmitCandidate, knowledgeVars

LEMMA KnowledgeTypeStep ==
  ASSUME KnowledgeTypeOK, [KnowledgeNext]_knowledgeVars
  PROVE  KnowledgeTypeOK'
<1>1. imported' \in [Catalog -> SUBSET (KnowledgeRef \X Nat)]
  <2>1. imported \in [Catalog -> SUBSET (KnowledgeRef \X Nat)]
    BY DEF KnowledgeTypeOK
  <2>2. ASSUME NEW p \in Publisher, Store(p), MarksReview(p)
        PROVE  imported' \in [Catalog -> SUBSET (KnowledgeRef \X Nat)]
    <3>1. PICK r \in KnowledgeRef : work[p].ref = r /\ work[p].base \in Nat
      BY <2>2, Storing
    <3>2. <<work[p].ref, work[p].base + 1>> \in KnowledgeRef \X Nat
      BY <3>1
    <3> QED  BY <2>1, <2>2, <3>2 DEF MarksReview
  <2> QED  BY <2>1, <2>2, ImportedStep, SyncTypes
<1> QED  BY <1>1, WorkType, KnownType, RemoteType DEF KnowledgeTypeOK

LEMMA KnowledgeTypeInit == KnowledgeInit => KnowledgeTypeOK
<1> SUFFICES ASSUME KnowledgeInit PROVE KnowledgeTypeOK
  OBVIOUS
<1>1. \A r \in KnowledgeRef : remote[r] \in Seq(RecordsOf(r)) /\ Len(remote[r]) = 0
  BY DEF KnowledgeInit
<1>2. /\ tracking \in [Catalog -> [KnowledgeRef -> Nat]]
      /\ \A c \in Catalog, r \in KnowledgeRef : tracking[c][r] <= Len(remote[r])
  BY <1>1 DEF KnowledgeInit
<1>3. known \in [Catalog -> Holdings]
  BY DEF KnowledgeInit, Holdings
<1> QED  BY <1>1, <1>2, <1>3 DEF KnowledgeTypeOK, KnowledgeInit

(* Every state of the knowledge refs and of what catalogs make of them is  *)
(* well typed: a ref has records of its kind and of its producer alone.    *)
THEOREM KnowledgeTypeCorrect == KnowledgeSpec => []KnowledgeTypeOK
  BY KnowledgeTypeInit, KnowledgeTypeStep, PTL DEF KnowledgeSpec

-----------------------------------------------------------------------------
(* What a catalog holds is published.  Only a claim that a producer the    *)
(* catalog trusts has published gets into it, which the next invariant     *)
(* needs; and what a publisher is about to store is published already.     *)

OwnWork(p) ==
  work[p] # NoWork =>
    /\ RefOfOwn(p, work[p].ref) /\ work[p].record.by = Own(p)
    /\ work[p].step = "store" => Content(work[p].record) \in Published(work[p].ref)
AllOwnWork == \A p \in Publisher : OwnWork(p)

ClaimKnown(c, x) == \E d \in Trusted[c] : Proposed(x) \in Published(Proposals(d))
Reviewed(c, x) ==
  known[c].reviews[x] \in Verdict =>
    \E d \in Catalog : [of |-> x, verdict |-> known[c].reviews[x]] \in Published(Lineage(d))
HoldsPublished(c) ==
  /\ \A x \in known[c].claims : ClaimKnown(c, x)
  /\ known[c].decisions \subseteq Published(Accepted)
  /\ \A x \in Relation : Reviewed(c, x)
AllPublished == \A c \in Catalog : HoldsPublished(c)

LEMMA OwnWorkStep ==
  ASSUME KnowledgeTypeOK, AllOwnWork, [KnowledgeNext]_knowledgeVars
  PROVE  AllOwnWork'
<1> SUFFICES ASSUME NEW q \in Publisher PROVE OwnWork(q)'
  BY DEF AllOwnWork
<1>1. OwnWork(q) /\ DOMAIN work = Publisher
  BY DEF AllOwnWork, KnowledgeTypeOK
<1>2. ASSUME work[q] # NoWork
      PROVE  \E r \in KnowledgeRef : work[q] \in Publication(r) /\ work[q].ref = r
                                     /\ work[q].record \in RecordsOf(r)
  BY <1>2 DEF KnowledgeTypeOK, Publication
<1>3. ASSUME work'[q] = work[q] PROVE OwnWork(q)'
  BY <1>1, <1>2, <1>3, RefsGrow DEF OwnWork, RefOfOwn, Own
<1>4. ASSUME work'[q] = NoWork PROVE OwnWork(q)'
  BY <1>4 DEF OwnWork
<1>5. ASSUME Begins(q) PROVE OwnWork(q)'
  <2>1. PICK ref \in KnowledgeRef : \E r \in RecordsOf(ref) :
          BeginPublication(q, ref, r) /\ Permitted(q, ref, r)
    BY <1>5 DEF Begins
  <2>2. PICK r \in RecordsOf(ref) : BeginPublication(q, ref, r) /\ Permitted(q, ref, r)
    BY <2>1
  <2>3. work'[q] = [step |-> "commit", ref |-> ref, record |-> r, base |-> 0]
    BY <1>1, <2>2 DEF BeginPublication
  <2> QED  BY <2>2, <2>3 DEF OwnWork, Permitted, RefOfOwn, Own
<1>6. ASSUME CommitRecord(q) PROVE OwnWork(q)'
  <2>1. work[q] # NoWork
    BY <1>6 DEF CommitRecord
  <2>2. PICK r \in KnowledgeRef : work[q] \in Publication(r) /\ work[q].ref = r
    BY <1>2, <2>1
  <2>3. work'[q].ref = work[q].ref /\ work'[q].record = work[q].record /\ work'[q].step = "push"
    BY <1>1, <1>6, <2>2 DEF CommitRecord, Publication
  <2> QED  BY <1>1, <2>1, <2>3 DEF OwnWork, RefOfOwn, Own
<1>7. ASSUME Pushed(q, work[q].ref), work[q] # NoWork PROVE OwnWork(q)'
  <2>1. PICK r \in KnowledgeRef : work[q] \in Publication(r) /\ work[q].ref = r
    BY <1>2, <1>7
  <2>2. work'[q].ref = r /\ work'[q].record = work[q].record
    BY <1>1, <1>7, <2>1 DEF Pushed, Publication
  <2>3. Content(work[q].record) \in Published(r)'
    BY <1>7, <2>1, ByRef, PublishedStays DEF Pushed
  <2> QED  BY <1>1, <1>7, <2>1, <2>2, <2>3 DEF OwnWork, RefOfOwn, Own, Content
<1>8. ASSUME Push(q) PROVE OwnWork(q)'
  BY <1>1, <1>4, <1>7, <1>8, Pushes
<1>9. ASSUME Store(q) \/ AbandonPublication(q) PROVE OwnWork(q)'
  BY <1>1, <1>4, <1>9 DEF Store, AbandonPublication
<1>10. ASSUME NEW p \in Publisher, p # q,
             \/ Begins(p) \/ CommitRecord(p) \/ Push(p) \/ Store(p) \/ AbandonPublication(p)
       PROVE  work'[q] = work[q]
  BY <1>1, <1>10, Pushes DEF Begins, BeginPublication, CommitRecord, Pushed, Store, AbandonPublication
<1>11. ASSUME UNCHANGED work PROVE OwnWork(q)'
  BY <1>3, <1>11
<1> QED  BY <1>3, <1>5, <1>6, <1>8, <1>9, <1>10, <1>11, Steps DEF SubmitCandidate, knowledgeVars

LEMMA TrustFacts ==
  \A c \in Catalog : Trusted[c] \subseteq Catalog /\ c \in Trusted[c]
  BY KnowledgeAssumption

LEMMA HoldingsKept ==
  ASSUME KnowledgeTypeOK, [KnowledgeNext]_knowledgeVars, NEW c \in Catalog, HoldsPublished(c),
         known'[c].claims = known[c].claims, known'[c].decisions = known[c].decisions,
         \A x \in Relation : \/ known'[c].reviews[x] = known[c].reviews[x]
                             \/ known'[c].reviews[x] \notin Verdict
  PROVE  HoldsPublished(c)'
<1>1. Published(Accepted) \subseteq Published(Accepted)'
  BY RefsGrow, RefFacts
<1>2. \A d \in Catalog : /\ Published(Proposals(d)) \subseteq Published(Proposals(d))'
                         /\ Published(Lineage(d)) \subseteq Published(Lineage(d))'
  BY RefsGrow, RefFacts
<1>3. \A x \in known'[c].claims : ClaimKnown(c, x)'
  BY <1>2, TrustFacts DEF HoldsPublished, ClaimKnown, Proposed
<1>4. known'[c].decisions \subseteq Published(Accepted)'
  BY <1>1 DEF HoldsPublished
<1>5. \A x \in Relation : Reviewed(c, x)'
  BY <1>2 DEF HoldsPublished, Reviewed
<1> QED  BY <1>3, <1>4, <1>5 DEF HoldsPublished

LEMMA HoldsImported ==
  ASSUME KnowledgeTypeOK, NEW c \in Catalog, HoldsPublished(c), Synchronize(c)
  PROVE  HoldsPublished(c)'
<1>1. known'[c] = KnownAfter(c) /\ UNCHANGED remote
  BY SyncTypes DEF KnowledgeTypeOK
<1>2. \A r : Published(r)' = Published(r)
  BY <1>1 DEF Published
<1>3. /\ known'[c].claims = ClaimsAfter(c)
      /\ \A x \in Relation : known'[c].reviews[x] = ReviewAfter(c, x)
  BY <1>1 DEF KnownAfter
<1>4. \A x \in known'[c].claims : ClaimKnown(c, x)'
  BY <1>2, <1>3, ImportedClaims DEF HoldsPublished, ClaimKnown, Proposed
<1>5. known'[c].decisions \subseteq Published(Accepted)'
  BY <1>1, <1>2, ImportNew DEF HoldsPublished
<1>6. \A x \in Relation : Reviewed(c, x)'
  BY <1>2, <1>3, ImportedReviews DEF HoldsPublished, Reviewed
<1> QED  BY <1>4, <1>5, <1>6 DEF HoldsPublished

\* What a store of a decision, a claim or a review leaves published.
LEMMA HoldsAfter ==
  ASSUME NEW c \in Catalog, HoldsPublished(c), \A r : Published(r)' = Published(r),
         \A x \in known'[c].claims : x \in known[c].claims \/ ClaimKnown(c, x),
         \A d \in known'[c].decisions : d \in known[c].decisions \/ d \in Published(Accepted),
         \A x \in Relation :
           \/ known'[c].reviews[x] = known[c].reviews[x]
           \/ [of |-> x, verdict |-> known'[c].reviews[x]] \in Published(Lineage(c))
  PROVE  HoldsPublished(c)'
<1>1. \A x \in known'[c].claims : ClaimKnown(c, x)'
  BY DEF HoldsPublished, ClaimKnown, Proposed
<1>2. known'[c].decisions \subseteq Published(Accepted)'
  BY DEF HoldsPublished
<1>3. ASSUME NEW x \in Relation PROVE Reviewed(c, x)'
  <2>1. CASE known'[c].reviews[x] = known[c].reviews[x]
    BY <2>1 DEF HoldsPublished, Reviewed
  <2>2. CASE [of |-> x, verdict |-> known'[c].reviews[x]] \in Published(Lineage(c))
    BY <2>2 DEF Reviewed
  <2> QED  BY <2>1, <2>2
<1> QED  BY <1>1, <1>2, <1>3 DEF HoldsPublished

LEMMA HoldsStored ==
  ASSUME KnowledgeTypeOK, AllOwnWork, AllPublished, NEW p \in Publisher, NEW c \in Catalog,
         c = Own(p), Store(p)
  PROVE  HoldsPublished(c)'
<1> DEFINE e == work[p].record
<1>1. PICK ref \in KnowledgeRef : work[p].ref = ref /\ e \in RecordsOf(ref)
  BY Storing
<1>2. /\ known'[c] = Stored(known[c], e) /\ known[c] \in Holdings
      /\ work[p] # NoWork /\ work[p].step = "store" /\ UNCHANGED remote
  BY Storing DEF KnowledgeTypeOK
<1>3. RefOfOwn(p, ref) /\ Content(e) \in Published(ref) /\ HoldsPublished(c)
  BY <1>1, <1>2 DEF AllOwnWork, OwnWork, AllPublished
<1>4. \A r : Published(r)' = Published(r)
  BY <1>2 DEF Published
<1> HIDE DEF e
<1>5. CASE ref = Accepted
  <2>1. e.kind = "decision"
    BY <1>1, <1>5, RecordTypes
  <2>2. /\ known'[c].claims = known[c].claims
        /\ known'[c].decisions \subseteq known[c].decisions \cup {Content(e)}
        /\ \A x \in Relation : known'[c].reviews[x] = known[c].reviews[x]
    BY <1>1, <1>2, <2>1, StoredType
  <2> QED  BY <1>3, <1>4, <1>5, <2>2, HoldsAfter
<1>6. CASE ref = Proposals(c)
  <2>1. e.kind = "claim" /\ e.verdict = "none"
    BY <1>1, <1>6, RecordTypes
  <2>2. /\ known'[c].claims \subseteq known[c].claims \cup {e.of}
        /\ known'[c].decisions = known[c].decisions
        /\ \A x \in Relation : known'[c].reviews[x] = known[c].reviews[x]
    BY <1>1, <1>2, <2>1, StoredType
  <2>3. ClaimKnown(c, e.of)
    BY <1>3, <1>6, <2>1, TrustFacts DEF ClaimKnown, Proposed, Content
  <2> QED  BY <1>3, <1>4, <2>2, <2>3, HoldsAfter
<1>7. CASE ref = Lineage(c)
  <2>1. e.kind = "review"
    BY <1>1, <1>7, RecordTypes
  <2>2. /\ known'[c].claims = known[c].claims /\ known'[c].decisions = known[c].decisions
        /\ \A x \in Relation : \/ known'[c].reviews[x] = known[c].reviews[x]
                               \/ x = e.of /\ known'[c].reviews[x] = e.verdict
    BY <1>1, <1>2, <2>1, StoredType
  <2>3. [of |-> e.of, verdict |-> e.verdict] \in Published(Lineage(c))
    BY <1>3, <1>7 DEF Content
  <2> QED  BY <1>3, <1>4, <2>2, <2>3, HoldsAfter
<1> QED  BY <1>3, <1>5, <1>6, <1>7 DEF RefOfOwn

LEMMA PublishedStep ==
  ASSUME KnowledgeTypeOK, AllOwnWork, AllPublished, [KnowledgeNext]_knowledgeVars
  PROVE  AllPublished'
<1> SUFFICES ASSUME NEW c \in Catalog PROVE HoldsPublished(c)'
  BY DEF AllPublished
<1>1. HoldsPublished(c) /\ known \in [Catalog -> Holdings]
  BY DEF AllPublished, KnowledgeTypeOK
<1>2. ASSUME known'[c] = known[c] PROVE HoldsPublished(c)'
  BY <1>1, <1>2, HoldingsKept
<1>3. ASSUME NEW d \in Catalog, Synchronize(d) PROVE HoldsPublished(c)'
  <2>1. CASE c = d
    BY <1>1, <1>3, <2>1, HoldsImported
  <2>2. CASE c # d
    BY <1>2, <1>3, <2>2, SyncTypes
  <2> QED  BY <2>1, <2>2
<1>4. ASSUME NEW p \in Publisher, Begins(p) PROVE HoldsPublished(c)'
  BY <1>3, <1>4, KnowledgeAssumption DEF Begins, BeginPublication
<1>5. ASSUME NEW p \in Publisher, Store(p) PROVE HoldsPublished(c)'
  <2>1. CASE c = Own(p)
    BY <1>5, <2>1, HoldsStored
  <2>2. CASE c # Own(p)
    BY <1>1, <1>2, <1>5, <2>2, Storing
  <2> QED  BY <2>1, <2>2
<1>6. ASSUME NEW d \in Catalog, NEW x \in Relation, SubmitCandidate(d, x) PROVE HoldsPublished(c)'
  <2>1. CASE c = d
    <3>1. known'[c] = [known[c] EXCEPT !.reviews[x] = "candidate"] /\ known[c] \in Holdings
      BY <1>1, <1>6, <2>1 DEF SubmitCandidate
    <3>2. /\ known'[c].claims = known[c].claims /\ known'[c].decisions = known[c].decisions
          /\ known'[c].reviews = [known[c].reviews EXCEPT ![x] = "candidate"]
          /\ DOMAIN known[c].reviews = Relation
      BY <3>1 DEF Holdings
    <3>3. \A y \in Relation : known'[c].reviews[y] = known[c].reviews[y]
                              \/ known'[c].reviews[y] \notin Verdict
      BY <3>2 DEF Verdict
    <3> QED  BY <1>1, <3>2, <3>3, HoldingsKept
  <2>2. CASE c # d
    BY <1>1, <1>2, <1>6, <2>2 DEF SubmitCandidate
  <2> QED  BY <2>1, <2>2
<1>7. ASSUME NEW p \in Publisher, CommitRecord(p) \/ Push(p) \/ AbandonPublication(p)
      PROVE  HoldsPublished(c)'
  BY <1>2, <1>7 DEF CommitRecord, Push, AbandonPublication
<1> QED  BY <1>2, <1>3, <1>4, <1>5, <1>6, <1>7, Steps DEF knowledgeVars

LEMMA PublishedInit == KnowledgeInit => AllOwnWork /\ AllPublished
<1> SUFFICES ASSUME KnowledgeInit PROVE AllOwnWork /\ AllPublished
  OBVIOUS
<1>1. \A p \in Publisher : work[p] = NoWork
  BY DEF KnowledgeInit
<1>2. \A c \in Catalog : /\ known[c].claims = {} /\ known[c].decisions = {}
                         /\ \A x \in Relation : known[c].reviews[x] = "none"
  BY DEF KnowledgeInit
<1>3. "none" \notin Verdict
  BY DEF Verdict
<1>4. AllOwnWork
  BY <1>1 DEF AllOwnWork, OwnWork
<1>5. AllPublished
  BY <1>2, <1>3 DEF AllPublished, HoldsPublished, Reviewed
<1> QED  BY <1>4, <1>5

KnowledgeInv == KnowledgeTypeOK /\ AllOwnWork /\ AllPublished

LEMMA KnowledgeInvariant == KnowledgeSpec => []KnowledgeInv
<1>1. KnowledgeInit => KnowledgeInv
  BY KnowledgeTypeInit, PublishedInit DEF KnowledgeInv
<1>2. KnowledgeInv /\ [KnowledgeNext]_knowledgeVars => KnowledgeInv'
  BY KnowledgeTypeStep, OwnWorkStep, PublishedStep DEF KnowledgeInv
<1> QED  BY <1>1, <1>2, PTL DEF KnowledgeSpec

-----------------------------------------------------------------------------
(* Decisions reach the catalogs.  A decision is about a claim that its     *)
(* producer holds, which is published before the decision is: a catalog    *)
(* that imports the decision imports the claim, with it or before, if it   *)
(* trusts the claim's producer.                                            *)

Grounded(r) == \E d \in Trusted[r.by] : Proposed(r.of) \in Published(Proposals(d))
AllGrounded ==
  /\ \A i \in DOMAIN remote[Accepted] : Grounded(remote[Accepted][i])
  /\ \A p \in Publisher :
       work[p] # NoWork /\ work[p].ref = Accepted => Grounded(work[p].record)

ImportsHeld(c) ==
  /\ \A d \in Trusted[c], i \in Nat : <<Proposals(d), i>> \in imported[c] =>
       i \in DOMAIN remote[Proposals(d)] /\ remote[Proposals(d)][i].of \in known[c].claims
  /\ \A i \in Nat : <<Accepted, i>> \in imported[c] =>
       /\ i \in DOMAIN remote[Accepted]
       /\ remote[Accepted][i].by \in Trusted[c] => Content(remote[Accepted][i]) \in known[c].decisions
AllImportsHeld == \A c \in Catalog : ImportsHeld(c)

TrustIsTransitive == \A c \in Catalog : \A d \in Trusted[c] : Trusted[d] \subseteq Trusted[c]

\* The first commit with a record changes the tree.
LEMMA FirstChanges ==
  ASSUME KnowledgeTypeOK, NEW ref \in KnowledgeRef, NEW i \in DOMAIN remote[ref]
  PROVE  \E j \in DOMAIN remote[ref] : remote[ref][j] = remote[ref][i] /\ Changes(ref, j)
<1> DEFINE T == {k \in DOMAIN remote[ref] : remote[ref][k] = remote[ref][i]}
<1>1. T \in SUBSET Nat /\ T # {} /\ DOMAIN remote[ref] = 1 .. Len(remote[ref])
      /\ Len(remote[ref]) \in Nat
  BY ByRef
<1>2. PICK j \in T : \A k \in T : j <= k
  BY <1>1, LeastNumber
<1> DEFINE prior == {k \in 1 .. j - 1 : /\ remote[ref][k].of = remote[ref][j].of
                                        /\ remote[ref][k].verdict = remote[ref][j].verdict}
<1>3. ASSUME prior # {} PROVE remote[ref][Max(prior)] # remote[ref][j]
  <2>1. prior \in SUBSET Nat /\ j - 1 \in Nat /\ \A m \in prior : m <= j - 1
    BY <1>1, <1>2, <1>3
  <2>2. Max(prior) \in prior
    BY <1>3, <2>1, LargestOf
  <2>3. Max(prior) \in 1 .. j - 1
    BY <2>2
  <2>4. Max(prior) \in DOMAIN remote[ref] /\ ~(j <= Max(prior))
    BY <1>1, <1>2, <2>3
  <2> QED  BY <1>2, <2>4
<1>4. Changes(ref, j)
  BY <1>3 DEF Changes
<1> QED  BY <1>2, <1>4

LEMMA KnownGrows ==
  ASSUME KnowledgeTypeOK, [KnowledgeNext]_knowledgeVars, NEW c \in Catalog
  PROVE  known[c].claims \subseteq known'[c].claims /\ known[c].decisions \subseteq known'[c].decisions
<1> DEFINE Grows == /\ known[c].claims \subseteq known'[c].claims
                    /\ known[c].decisions \subseteq known'[c].decisions
<1>1. known \in [Catalog -> Holdings]
  BY DEF KnowledgeTypeOK
<1>2. ASSUME known'[c] = known[c] PROVE Grows
  BY <1>2
<1>3. ASSUME NEW d \in Catalog, Synchronize(d) PROVE Grows
  BY <1>1, <1>2, <1>3, SyncTypes, ImportNew
<1>4. ASSUME NEW p \in Publisher, Begins(p) PROVE Grows
  BY <1>3, <1>4, KnowledgeAssumption DEF Begins, BeginPublication
<1>5. ASSUME NEW p \in Publisher, Store(p) PROVE Grows
  <2>1. PICK r \in KnowledgeRef : work[p].ref = r /\ work[p].record \in RecordsOf(r)
    BY <1>5, Storing
  <2>2. CASE c = Own(p)
    BY <1>1, <1>5, <2>1, <2>2, Storing, StoredType
  <2>3. CASE c # Own(p)
    BY <1>1, <1>2, <1>5, <2>3, Storing
  <2> QED  BY <2>2, <2>3
<1>6. ASSUME NEW d \in Catalog, NEW x \in Relation, SubmitCandidate(d, x) PROVE Grows
  <2>1. known[d] \in Holdings
    BY <1>1
  <2>2. [known[d] EXCEPT !.reviews[x] = "candidate"].claims = known[d].claims
        /\ [known[d] EXCEPT !.reviews[x] = "candidate"].decisions = known[d].decisions
    BY <2>1 DEF Holdings
  <2> QED  BY <1>1, <1>2, <1>6, <2>2 DEF SubmitCandidate
<1>7. ASSUME NEW p \in Publisher, CommitRecord(p) \/ Push(p) \/ AbandonPublication(p) PROVE Grows
  BY <1>2, <1>7 DEF CommitRecord, Push, AbandonPublication
<1> QED  BY <1>2, <1>3, <1>4, <1>5, <1>6, <1>7, Steps DEF knowledgeVars

LEMMA GroundedStays ==
  ASSUME KnowledgeTypeOK, [KnowledgeNext]_knowledgeVars, NEW r, r.by \in Catalog, Grounded(r)
  PROVE  Grounded(r)'
<1>1. \A d \in Catalog : Published(Proposals(d)) \subseteq Published(Proposals(d))'
  BY RefsGrow, RefFacts
<1> QED  BY <1>1, TrustFacts DEF Grounded, Proposed

LEMMA GroundedStep ==
  ASSUME ~DecideUnseen, KnowledgeInv, AllGrounded, [KnowledgeNext]_knowledgeVars
  PROVE  AllGrounded'
<1>1. KnowledgeTypeOK /\ AllOwnWork /\ AllPublished /\ DOMAIN work = Publisher
  BY DEF KnowledgeInv, KnowledgeTypeOK
<1>2. \A p \in Publisher : Own(p) \in Catalog
  BY KnowledgeAssumption DEF Own
<1>3. ASSUME NEW p \in Publisher, work[p] # NoWork, work[p].ref = Accepted
      PROVE  Grounded(work[p].record) /\ work[p].record.by \in Catalog
  BY <1>1, <1>2, <1>3, GroundedStays DEF AllGrounded, AllOwnWork, OwnWork
<1>4. ASSUME NEW i \in DOMAIN remote'[Accepted] PROVE Grounded(remote[Accepted][i])'
  <2>1. CASE i \in DOMAIN remote[Accepted]
    <3>1. remote'[Accepted][i] = remote[Accepted][i] /\ remote[Accepted][i].by \in Catalog
      BY <1>1, <2>1, RefsGrow, RefFacts, ByRef, RecordTypes
    <3>2. Grounded(remote[Accepted][i])
      BY <2>1 DEF AllGrounded
    <3>3. \A r : r = remote[Accepted][i] => Grounded(r)'
      BY <1>1, <3>1, <3>2, GroundedStays
    <3> QED  BY <3>1, <3>3
  <2>2. CASE i \notin DOMAIN remote[Accepted]
    <3>1. \E p \in Publisher : Push(p) /\ Pushed(p, Accepted)
      <4>1. remote'[Accepted] # remote[Accepted]
        BY <2>2
      <4>2. \A p \in Publisher : Push(p) => remote'[Accepted] = remote[Accepted] \/ Pushed(p, Accepted)
        BY <1>1, Pushes, RefFacts DEF Pushed
      <4> QED  BY <4>1, <4>2, Steps DEF Synchronize, Begins, BeginPublication, CommitRecord, Store,
               AbandonPublication, SubmitCandidate, knowledgeVars
    <3>2. PICK p \in Publisher : Push(p) /\ Pushed(p, Accepted)
      BY <3>1
    <3>3. work[p] # NoWork /\ work[p].ref = Accepted
      BY <1>1, <3>2, Pushes DEF Pushed
    <3>4. remote'[Accepted] = Append(remote[Accepted], work[p].record)
      BY <3>2 DEF Pushed
    <3>5. remote'[Accepted][i] = work[p].record
      BY <1>1, <2>2, <3>4, ByRef, RefFacts, PublishedStays
    <3>6. \A r : r = work[p].record => Grounded(r)'
      <4>1. \A r : r = work[p].record => Grounded(r) /\ r.by \in Catalog
        BY <1>3, <3>3
      <4> QED  BY <1>1, <4>1, GroundedStays
    <3> QED  BY <3>5, <3>6
  <2> QED  BY <2>1, <2>2
<1>5. ASSUME NEW q \in Publisher, work'[q] # NoWork, work'[q].ref = Accepted
      PROVE  Grounded(work[q].record)'
  <2>1. ASSUME work[q] # NoWork, work'[q].ref = work[q].ref, work'[q].record = work[q].record
        PROVE  Grounded(work[q].record)'
    <3>1. \A r : r = work[q].record => Grounded(r) /\ r.by \in Catalog
      BY <1>3, <1>5, <2>1
    <3>2. \A r : r = work[q].record => Grounded(r)'
      BY <1>1, <3>1, GroundedStays
    <3> QED  BY <2>1, <3>2
  <2>2. ASSUME Begins(q) PROVE Grounded(work[q].record)'
    <3>1. PICK ref \in KnowledgeRef : \E r \in RecordsOf(ref) :
            BeginPublication(q, ref, r) /\ Permitted(q, ref, r)
      BY <2>2 DEF Begins
    <3>2. PICK r \in RecordsOf(ref) : BeginPublication(q, ref, r) /\ Permitted(q, ref, r)
      BY <3>1
    <3>3. work'[q] = [step |-> "commit", ref |-> ref, record |-> r, base |-> 0]
      BY <1>1, <3>2 DEF BeginPublication
    <3>4. ref = Accepted /\ r.by = Own(q) /\ r.of \in known[Own(q)].claims
      BY <1>5, <3>2, <3>3 DEF Permitted
    <3>5. Grounded(r) /\ r.by \in Catalog
      BY <1>1, <1>2, <3>4 DEF AllPublished, HoldsPublished, ClaimKnown, Grounded
    <3>6. Grounded(r)'
      BY <1>1, <3>5, GroundedStays
    <3> QED  BY <3>3, <3>6
  <2>3. ASSUME work'[q] = work[q] PROVE Grounded(work[q].record)'
    BY <1>5, <2>1, <2>3
  <2>4. ASSUME CommitRecord(q) \/ Pushed(q, work[q].ref), work[q] # NoWork
        PROVE  Grounded(work[q].record)'
    <3>1. PICK r \in KnowledgeRef : work[q] \in Publication(r)
      BY <1>1, <2>4 DEF KnowledgeTypeOK
    <3>2. work'[q].ref = work[q].ref /\ work'[q].record = work[q].record
      BY <1>1, <2>4, <3>1 DEF CommitRecord, Pushed, Publication
    <3> QED  BY <2>1, <2>4, <3>2
  <2>5. ASSUME CommitRecord(q) \/ Push(q) PROVE Grounded(work[q].record)'
    <3>1. work[q] # NoWork
      BY <2>5 DEF CommitRecord, Push
    <3>2. CASE Push(q)
      BY <1>1, <1>5, <2>4, <3>1, <3>2, Pushes
    <3> QED  BY <2>4, <2>5, <3>1, <3>2
  <2>6. ASSUME Store(q) \/ AbandonPublication(q) PROVE FALSE
    BY <1>1, <1>5, <2>6 DEF Store, AbandonPublication
  <2>7. ASSUME NEW p \in Publisher, p # q,
               Begins(p) \/ CommitRecord(p) \/ Push(p) \/ Store(p) \/ AbandonPublication(p)
        PROVE  work'[q] = work[q]
    BY <1>1, <2>7, Pushes DEF Begins, BeginPublication, CommitRecord, Pushed, Store, AbandonPublication
  <2> QED  BY <2>2, <2>3, <2>5, <2>6, <2>7, Steps DEF SubmitCandidate, knowledgeVars
<1> QED  BY <1>4, <1>5 DEF AllGrounded

\* What a step marks of the refs that have claims and decisions.
LEMMA MarksOf ==
  ASSUME KnowledgeTypeOK, [KnowledgeNext]_knowledgeVars, NEW c \in Catalog, NEW i \in Nat,
         NEW ref \in KnowledgeRef, ref = Accepted \/ (\E d \in Catalog : ref = Proposals(d)),
         <<ref, i>> \in imported'[c]
  PROVE  <<ref, i>> \in imported[c] \/ (Synchronize(c) /\ i \in DOMAIN remote[ref])
<1>1. imported \in [Catalog -> SUBSET (KnowledgeRef \X Nat)]
  BY DEF KnowledgeTypeOK
<1>2. ASSUME NEW d \in Catalog, Synchronize(d), ImportsOf(d)
      PROVE  <<ref, i>> \in imported[c] \/ (Synchronize(c) /\ i \in DOMAIN remote[ref])
  <2>1. CASE c # d
    BY <1>1, <1>2, <2>1 DEF ImportsOf
  <2>2. CASE c = d
    <3>1. imported'[c] = imported[c] \cup UNION {{r} \X (1 .. Len(remote[r])) : r \in KnowledgeRef}
      BY <1>1, <1>2, <2>2 DEF ImportsOf
    <3>2. ASSUME <<ref, i>> \notin imported[c] PROVE i \in DOMAIN remote[ref]
      <4>1. PICK r \in KnowledgeRef : <<ref, i>> \in {r} \X (1 .. Len(remote[r]))
        BY <3>1, <3>2
      <4>2. r = ref /\ i \in 1 .. Len(remote[ref])
        BY <4>1
      <4> QED  BY <4>2, ByRef
    <3> QED  BY <1>2, <2>2, <3>2
  <2> QED  BY <2>1, <2>2
<1>3. ASSUME NEW p \in Publisher, Store(p), MarksReview(p)
      PROVE  <<ref, i>> \in imported[c]
  <2>1. PICK r \in KnowledgeRef : work[p].ref = r /\ work[p].record \in RecordsOf(r)
    BY <1>3, Storing
  <2>2. r # ref
    <3>1. work[p].record.kind = "review"
      BY <1>3 DEF MarksReview
    <3> QED  BY <2>1, <3>1, RecordTypes
  <2>3. <<ref, i>> # <<work[p].ref, work[p].base + 1>>
    BY <2>1, <2>2
  <2> QED  BY <1>1, <1>3, <2>3 DEF MarksReview
<1> QED  BY <1>2, <1>3, ImportedStep

\* After an import of its own every claim and decision that counts is held.
LEMMA SynchronizedHeld ==
  ASSUME KnowledgeTypeOK, NEW c \in Catalog, ImportsHeld(c), Synchronize(c), AllGrounded,
         TrustIsTransitive
  PROVE  /\ \A d \in Trusted[c] : \A i \in DOMAIN remote[Proposals(d)] :
              remote[Proposals(d)][i].of \in known'[c].claims
         /\ \A i \in DOMAIN remote[Accepted] : remote[Accepted][i].by \in Trusted[c] =>
              Content(remote[Accepted][i]) \in known'[c].decisions
<1>1. known'[c] = KnownAfter(c)
  BY SyncTypes DEF KnowledgeTypeOK
<1>2. /\ known'[c].claims = ClaimsAfter(c)
      /\ known[c].claims \subseteq known'[c].claims
      /\ known[c].decisions \subseteq known'[c].decisions
  BY <1>1, ImportNew DEF KnownAfter
<1>3. ASSUME NEW d \in Trusted[c], NEW i \in DOMAIN remote[Proposals(d)]
      PROVE  remote[Proposals(d)][i].of \in known'[c].claims
  <2>1. d \in Catalog /\ Proposals(d) \in KnowledgeRef
    BY TrustFacts, RefFacts
  <2>2. PICK j \in DOMAIN remote[Proposals(d)] :
          remote[Proposals(d)][j] = remote[Proposals(d)][i] /\ Changes(Proposals(d), j)
    BY <2>1, FirstChanges
  <2>3. /\ remote[Proposals(d)][j] \in RecordsOf(Proposals(d)) /\ j \in Nat
        /\ remote[Proposals(d)][j].by = d /\ remote[Proposals(d)][j].of \in Claim
    BY <2>1, ByRef, RecordTypes
  <2>4. CASE Imported(c, Proposals(d), j)
    BY <1>2, <2>2, <2>3, <2>4 DEF ImportsHeld, Imported
  <2>5. CASE ~Imported(c, Proposals(d), j)
    <3>1. j \in About(c, Proposals(d), remote[Proposals(d)][i].of)
      BY <2>2, <2>3, <2>5 DEF About, New
    <3> QED  BY <1>2, <2>1, <2>2, <2>3, <3>1 DEF ClaimsAfter
  <2> QED  BY <2>4, <2>5
<1>4. ASSUME NEW i \in DOMAIN remote[Accepted], remote[Accepted][i].by \in Trusted[c]
      PROVE  Content(remote[Accepted][i]) \in known'[c].decisions
  <2>1. PICK j \in DOMAIN remote[Accepted] :
          remote[Accepted][j] = remote[Accepted][i] /\ Changes(Accepted, j)
    BY RefFacts, FirstChanges
  <2>2. j \in Nat
    BY ByRef, RefFacts
  <2>3. CASE Imported(c, Accepted, j)
    BY <1>2, <1>4, <2>1, <2>2, <2>3 DEF ImportsHeld, Imported
  <2>4. CASE ~Imported(c, Accepted, j)
    <3>1. PICK d \in Trusted[remote[Accepted][i].by] :
            Proposed(remote[Accepted][i].of) \in Published(Proposals(d))
      BY DEF AllGrounded, Grounded
    <3>2. d \in Trusted[c]
      BY <1>4, <3>1 DEF TrustIsTransitive
    <3>3. PICK k \in DOMAIN remote[Proposals(d)] :
            remote[Proposals(d)][k].of = remote[Accepted][i].of
      BY <3>1 DEF Published, Proposed
    <3>4. remote[Accepted][j].of \in Decidable(c)
      BY <1>2, <1>3, <2>1, <3>2, <3>3 DEF Decidable
    <3>5. j \in {m \in New(c, Accepted) : remote[Accepted][m].of \in Decidable(c)}
      BY <1>4, <2>1, <2>4, <3>4 DEF New
    <3>6. Content(remote[Accepted][j]) \in KnownAfter(c).decisions
      BY <3>5 DEF KnownAfter, Content
    <3> QED  BY <1>1, <2>1, <3>6
  <2> QED  BY <2>3, <2>4
<1> QED  BY <1>3, <1>4

LEMMA ImportsHeldStep ==
  ASSUME TrustIsTransitive, KnowledgeTypeOK, AllGrounded, AllImportsHeld,
         [KnowledgeNext]_knowledgeVars
  PROVE  AllImportsHeld'
<1> SUFFICES ASSUME NEW c \in Catalog PROVE ImportsHeld(c)'
  BY DEF AllImportsHeld
<1>1. ImportsHeld(c) /\ \A d \in Trusted[c] : d \in Catalog /\ Proposals(d) \in KnowledgeRef
  BY TrustFacts, RefFacts DEF AllImportsHeld
<1>2. ASSUME NEW d \in Trusted[c], NEW i \in Nat, <<Proposals(d), i>> \in imported'[c]
      PROVE  i \in DOMAIN remote'[Proposals(d)]
             /\ remote'[Proposals(d)][i].of \in known'[c].claims
  <2>1. i \in DOMAIN remote[Proposals(d)] /\ remote[Proposals(d)][i].of \in known'[c].claims
    <3>1. CASE <<Proposals(d), i>> \in imported[c]
      BY <1>1, <3>1, KnownGrows DEF ImportsHeld
    <3>2. CASE Synchronize(c) /\ i \in DOMAIN remote[Proposals(d)]
      BY <1>1, <3>2, SynchronizedHeld
    <3> QED  BY <1>1, <1>2, <3>1, <3>2, MarksOf
  <2> QED  BY <1>1, <2>1, RefsGrow
<1>3. ASSUME NEW i \in Nat, <<Accepted, i>> \in imported'[c]
      PROVE  /\ i \in DOMAIN remote'[Accepted]
             /\ remote'[Accepted][i].by \in Trusted[c] =>
                  Content(remote'[Accepted][i]) \in known'[c].decisions
  <2>1. /\ i \in DOMAIN remote[Accepted]
        /\ remote[Accepted][i].by \in Trusted[c] =>
             Content(remote[Accepted][i]) \in known'[c].decisions
    <3>1. CASE <<Accepted, i>> \in imported[c]
      BY <1>1, <3>1, KnownGrows DEF ImportsHeld
    <3>2. CASE Synchronize(c) /\ i \in DOMAIN remote[Accepted]
      BY <1>1, <3>2, SynchronizedHeld
    <3> QED  BY <1>3, <3>1, <3>2, MarksOf, RefFacts
  <2> QED  BY <2>1, RefsGrow, RefFacts
<1> QED  BY <1>2, <1>3 DEF ImportsHeld, Content

(* A catalog that has imported a commit of the knowledge_ref knows its     *)
(* decision, if it trusts the producers of the decision and of the claim,  *)
(* in whatever order the refs come and the publications end: provided that *)
(* nobody decides what he does not hold, and that whoever is trusted by a  *)
(* trusted producer is trusted too.                                        *)
THEOREM DecisionsArrive ==
  ASSUME ~DecideUnseen, TrustIsTransitive
  PROVE  KnowledgeSpec => []DecisionsReachCatalogs
<1>1. KnowledgeInit => AllGrounded /\ AllImportsHeld
  <2> SUFFICES ASSUME KnowledgeInit PROVE AllGrounded /\ AllImportsHeld
    OBVIOUS
  <2>1. /\ DOMAIN remote[Accepted] = {} /\ \A p \in Publisher : work[p] = NoWork
        /\ \A c \in Catalog : imported[c] = {}
    BY RefFacts DEF KnowledgeInit
  <2> QED  BY <2>1 DEF AllGrounded, AllImportsHeld, ImportsHeld
<1>2. KnowledgeInv /\ AllGrounded /\ AllImportsHeld /\ [KnowledgeNext]_knowledgeVars
        => AllGrounded' /\ AllImportsHeld'
  BY GroundedStep, ImportsHeldStep DEF KnowledgeInv
<1>3. KnowledgeTypeOK /\ AllImportsHeld => DecisionsReachCatalogs
  <2> SUFFICES ASSUME KnowledgeTypeOK, AllImportsHeld, NEW c \in Catalog,
                      NEW i \in DOMAIN remote[Accepted], <<Accepted, i>> \in imported[c],
                      remote[Accepted][i].by \in Trusted[c]
               PROVE  Content(remote[Accepted][i]) \in known[c].decisions
    BY DEF DecisionsReachCatalogs, Content
  <2>1. i \in Nat
    BY ByRef, RefFacts
  <2> QED  BY <2>1 DEF AllImportsHeld, ImportsHeld
<1> QED  BY <1>1, <1>2, <1>3, KnowledgeInvariant, PTL DEF KnowledgeSpec, KnowledgeInv

-----------------------------------------------------------------------------
(* A catalog mirrors Git.  What it decided itself it has pushed: the       *)
(* decisions it holds are those of producers it trusts.  With the imports  *)
(* that are held, a catalog that has imported everything differs from Git  *)
(* in nothing.                                                             *)

IsPushed(ref, r) == \E i \in DOMAIN remote[ref] : remote[ref][i] = r
OwnPushed(p) ==
  work[p] # NoWork /\ work[p].step = "store" => IsPushed(work[p].ref, work[p].record)
AllOwnPushed == \A p \in Publisher : OwnPushed(p)
AllDecidedInGit == \A c \in Catalog : known[c].decisions \subseteq DecisionsInGit(c)

LEMMA InGit ==
  ASSUME NEW c, NEW i \in DOMAIN remote[Accepted], remote[Accepted][i].by \in Trusted[c]
  PROVE  Content(remote[Accepted][i]) \in DecisionsInGit(c)
  BY DEF Content, DecisionsInGit

LEMMA PushedStays ==
  ASSUME KnowledgeTypeOK, [KnowledgeNext]_knowledgeVars, NEW ref \in KnowledgeRef, NEW r,
         IsPushed(ref, r)
  PROVE  \E i \in DOMAIN remote'[ref] : remote'[ref][i] = r
<1>1. PICK i \in DOMAIN remote[ref] : remote[ref][i] = r
  BY DEF IsPushed
<1> QED  BY <1>1, RefsGrow

LEMMA OwnPushedStep ==
  ASSUME KnowledgeTypeOK, AllOwnPushed, [KnowledgeNext]_knowledgeVars
  PROVE  AllOwnPushed'
<1> SUFFICES ASSUME NEW q \in Publisher PROVE OwnPushed(q)'
  BY DEF AllOwnPushed
<1>1. OwnPushed(q) /\ DOMAIN work = Publisher
  BY DEF AllOwnPushed, KnowledgeTypeOK
<1>2. ASSUME work[q] # NoWork
      PROVE  \E r \in KnowledgeRef : work[q] \in Publication(r) /\ work[q].ref = r
                                     /\ work[q].record \in RecordsOf(r)
  BY <1>2 DEF KnowledgeTypeOK, Publication
<1>3. ASSUME work'[q] = work[q] PROVE OwnPushed(q)'
  <2> SUFFICES ASSUME work[q] # NoWork, work[q].step = "store"
               PROVE  \E i \in DOMAIN remote'[work[q].ref] :
                        remote'[work[q].ref][i] = work[q].record
    BY <1>3 DEF OwnPushed, IsPushed
  <2> QED  BY <1>1, <1>2, PushedStays DEF OwnPushed
<1>4. ASSUME work'[q] = NoWork \/ work'[q].step # "store" PROVE OwnPushed(q)'
  BY <1>4 DEF OwnPushed
<1>5. ASSUME Begins(q) PROVE work'[q].step = "commit"
  BY <1>1, <1>5 DEF Begins, BeginPublication
<1>6. ASSUME CommitRecord(q) PROVE work'[q].step = "push"
  <2>1. PICK r \in KnowledgeRef : work[q] \in Publication(r)
    BY <1>2, <1>6 DEF CommitRecord
  <2> QED  BY <1>1, <1>6, <2>1 DEF CommitRecord, Publication
<1>7. ASSUME Pushed(q, work[q].ref), work[q] # NoWork PROVE OwnPushed(q)'
  <2>1. PICK r \in KnowledgeRef : work[q] \in Publication(r) /\ work[q].ref = r
    BY <1>2, <1>7
  <2>2. work'[q].ref = r /\ work'[q].record = work[q].record
    BY <1>1, <1>7, <2>1 DEF Pushed, Publication
  <2>3. /\ Len(remote[r]) + 1 \in DOMAIN remote'[r]
        /\ remote'[r][Len(remote[r]) + 1] = work[q].record
    BY <1>7, <2>1, ByRef, PublishedStays DEF Pushed
  <2> QED  BY <2>2, <2>3 DEF OwnPushed, IsPushed
<1>8. ASSUME Push(q) PROVE OwnPushed(q)'
  BY <1>1, <1>4, <1>7, <1>8, Pushes
<1>9. ASSUME Store(q) \/ AbandonPublication(q) PROVE work'[q] = NoWork
  BY <1>1, <1>9 DEF Store, AbandonPublication
<1>10. ASSUME NEW p \in Publisher, p # q,
             \/ Begins(p) \/ CommitRecord(p) \/ Push(p) \/ Store(p) \/ AbandonPublication(p)
       PROVE  work'[q] = work[q]
  BY <1>1, <1>10, Pushes DEF Begins, BeginPublication, CommitRecord, Pushed, Store, AbandonPublication
<1> QED  BY <1>3, <1>4, <1>5, <1>6, <1>8, <1>9, <1>10, Steps DEF SubmitCandidate, knowledgeVars

LEMMA DecisionsStayInGit ==
  ASSUME KnowledgeTypeOK, [KnowledgeNext]_knowledgeVars, NEW c \in Catalog
  PROVE  DecisionsInGit(c) \subseteq DecisionsInGit(c)'
<1>1. \A i \in DOMAIN remote[Accepted] :
        i \in DOMAIN remote'[Accepted] /\ remote'[Accepted][i] = remote[Accepted][i]
  BY RefsGrow, RefFacts
<1> QED  BY <1>1 DEF DecisionsInGit

LEMMA ImportedDecisions ==
  ASSUME NEW c \in Catalog
  PROVE  KnownAfter(c).decisions \subseteq known[c].decisions \cup DecisionsInGit(c)
<1> DEFINE decided == {i \in New(c, Accepted) : remote[Accepted][i].of \in Decidable(c)}
           added == {[of |-> remote[Accepted][i].of, verdict |-> remote[Accepted][i].verdict] :
                       i \in decided}
<1>1. KnownAfter(c).decisions = known[c].decisions \cup added
  BY DEF KnownAfter
<1>2. added \subseteq DecisionsInGit(c)
  BY DEF DecisionsInGit, New
<1> QED  BY <1>1, <1>2

LEMMA StoredDecisions ==
  ASSUME KnowledgeTypeOK, AllOwnWork, AllOwnPushed, NEW p \in Publisher, Store(p)
  PROVE  Stored(known[Own(p)], work[p].record).decisions
           \subseteq known[Own(p)].decisions \cup DecisionsInGit(Own(p))
<1> DEFINE e == work[p].record
           k == known[Own(p)]
<1>1. PICK ref \in KnowledgeRef : work[p].ref = ref /\ e \in RecordsOf(ref)
  BY Storing
<1>2. work[p] # NoWork /\ work[p].step = "store" /\ k \in Holdings /\ Own(p) \in Catalog
  BY Storing
<1>3. e.by = Own(p) /\ IsPushed(ref, e) /\ RefOfOwn(p, ref)
  BY <1>1, <1>2 DEF AllOwnWork, OwnWork, AllOwnPushed, OwnPushed
<1> HIDE DEF e, k
<1>4. /\ Stored(k, e).decisions \subseteq k.decisions \cup {Content(e)}
      /\ e.kind # "decision" => Stored(k, e).decisions = k.decisions
  BY <1>1, <1>2, StoredType
<1>5. CASE ref = Accepted
  <2>1. PICK i \in DOMAIN remote[Accepted] : remote[Accepted][i] = e
    BY <1>3, <1>5 DEF IsPushed
  <2>2. Content(e) \in DecisionsInGit(Own(p))
    BY <1>2, <1>3, <2>1, TrustFacts, InGit
  <2> QED  BY <1>4, <2>2 DEF e, k
<1>6. CASE ref # Accepted
  <2>1. e.kind # "decision"
    BY <1>1, <1>2, <1>3, <1>6, RecordTypes DEF RefOfOwn
  <2> QED  BY <1>4, <2>1 DEF e, k
<1> QED  BY <1>5, <1>6

LEMMA DecidedInGitStep ==
  ASSUME KnowledgeTypeOK, AllOwnWork, AllOwnPushed, AllDecidedInGit, [KnowledgeNext]_knowledgeVars
  PROVE  AllDecidedInGit'
<1> SUFFICES ASSUME NEW c \in Catalog PROVE known'[c].decisions \subseteq DecisionsInGit(c)'
  BY DEF AllDecidedInGit
<1> DEFINE Good == known'[c].decisions \subseteq known[c].decisions \cup DecisionsInGit(c)
<1>1. known \in [Catalog -> Holdings]
  BY DEF KnowledgeTypeOK
<1>2. ASSUME known'[c] = known[c] PROVE Good
  BY <1>2
<1>3. ASSUME NEW d \in Catalog, Synchronize(d) PROVE Good
  BY <1>1, <1>2, <1>3, SyncTypes, ImportedDecisions
<1>4. ASSUME NEW p \in Publisher, Begins(p) PROVE Good
  BY <1>3, <1>4, KnowledgeAssumption DEF Begins, BeginPublication
<1>5. ASSUME NEW p \in Publisher, Store(p) PROVE Good
  <2>1. CASE c = Own(p)
    BY <1>1, <1>5, <2>1, Storing, StoredDecisions
  <2>2. CASE c # Own(p)
    BY <1>1, <1>2, <1>5, <2>2, Storing
  <2> QED  BY <2>1, <2>2
<1>6. ASSUME NEW d \in Catalog, NEW x \in Relation, SubmitCandidate(d, x) PROVE Good
  <2>1. [known[d] EXCEPT !.reviews[x] = "candidate"].decisions = known[d].decisions
    BY <1>1 DEF Holdings
  <2> QED  BY <1>1, <1>2, <1>6, <2>1 DEF SubmitCandidate
<1>7. ASSUME NEW p \in Publisher, CommitRecord(p) \/ Push(p) \/ AbandonPublication(p) PROVE Good
  BY <1>2, <1>7 DEF CommitRecord, Push, AbandonPublication
<1>8. Good
  BY <1>2, <1>3, <1>4, <1>5, <1>6, <1>7, Steps DEF knowledgeVars
<1> QED  BY <1>8, DecisionsStayInGit DEF AllDecidedInGit

LEMMA HeldClaims ==
  ASSUME KnowledgeTypeOK, NEW c \in Catalog, HoldsPublished(c)
  PROVE  known[c].claims \subseteq ClaimsInGit(c)
<1>1. known[c] \in Holdings
  BY DEF KnowledgeTypeOK
<1> QED  BY <1>1 DEF HoldsPublished, ClaimKnown, Proposed, ClaimsInGit, Holdings

(* Whatever a catalog holds as a claim, a decision or a finished review is *)
(* on the remote, for every number of producers and whichever publications *)
(* are refused or interrupted: the remote is pushed to before the catalog  *)
(* stores, and no push replaces what is there.  What it holds as claims    *)
(* and decisions are records of producers that it trusts.                  *)
THEOREM HeldKnowledgeIsPublished == KnowledgeSpec => []KnowledgeIsPublished
<1>1. KnowledgeInit => AllOwnPushed /\ AllDecidedInGit
  <2> SUFFICES ASSUME KnowledgeInit PROVE AllOwnPushed /\ AllDecidedInGit
    OBVIOUS
  <2>1. /\ \A p \in Publisher : work[p] = NoWork
        /\ \A c \in Catalog : known[c].decisions = {}
    BY DEF KnowledgeInit
  <2> QED  BY <2>1 DEF AllOwnPushed, OwnPushed, AllDecidedInGit
<1>2. KnowledgeInv /\ AllOwnPushed /\ AllDecidedInGit /\ [KnowledgeNext]_knowledgeVars
        => AllOwnPushed' /\ AllDecidedInGit'
  BY OwnPushedStep, DecidedInGitStep DEF KnowledgeInv
<1>3. KnowledgeInv /\ AllDecidedInGit => KnowledgeIsPublished
  <2> SUFFICES ASSUME KnowledgeInv, AllDecidedInGit, NEW c \in Catalog
               PROVE  /\ known[c].claims \subseteq ClaimsInGit(c)
                      /\ known[c].decisions \subseteq DecisionsInGit(c)
                      /\ \A x \in Relation : Reviewed(c, x)
    BY DEF KnowledgeIsPublished, Reviewed
  <2>1. HoldsPublished(c)
    BY DEF KnowledgeInv, AllPublished
  <2> QED  BY <2>1, HeldClaims DEF HoldsPublished, AllDecidedInGit, KnowledgeInv
<1> QED  BY <1>1, <1>2, <1>3, KnowledgeInvariant, PTL DEF KnowledgeSpec

\* A catalog that has imported every claim and decision there is.
Current(c) ==
  \A r \in {Accepted} \cup {Proposals(d) : d \in Catalog} :
    \A i \in DOMAIN remote[r] : Imported(c, r, i)

(* Such a catalog holds what its trusted producers published, no less and  *)
(* no more, as if its tables were made again from Git                      *)
(* (git_coordination.cpp sync, import_knowledge).                          *)
CurrentCatalogsMirrorGit ==
  \A c \in Catalog : Current(c) =>
    known[c].claims = ClaimsInGit(c) /\ known[c].decisions = DecisionsInGit(c)

LEMMA CurrentMirrors ==
  ASSUME KnowledgeInv, AllImportsHeld, AllDecidedInGit, NEW c \in Catalog, Current(c)
  PROVE  known[c].claims = ClaimsInGit(c) /\ known[c].decisions = DecisionsInGit(c)
<1>1. KnowledgeTypeOK /\ HoldsPublished(c) /\ ImportsHeld(c)
  BY DEF KnowledgeInv, AllPublished, AllImportsHeld
<1>2. known[c].claims \subseteq ClaimsInGit(c)
  BY <1>1, HeldClaims
<1>3. ASSUME NEW x \in ClaimsInGit(c) PROVE x \in known[c].claims
  <2>1. PICK d \in Trusted[c] : Proposed(x) \in Published(Proposals(d))
    BY DEF ClaimsInGit, Proposed
  <2>2. d \in Catalog /\ Proposals(d) \in KnowledgeRef
    BY <2>1, TrustFacts, RefFacts
  <2>3. PICK i \in DOMAIN remote[Proposals(d)] : remote[Proposals(d)][i].of = x
    BY <2>1 DEF Published, Proposed
  <2>4. i \in Nat
    BY <1>1, <2>2, ByRef
  <2>5. <<Proposals(d), i>> \in imported[c]
    BY <2>2, <2>3 DEF Current, Imported
  <2> QED  BY <1>1, <2>3, <2>4, <2>5 DEF ImportsHeld
<1>4. ASSUME NEW i \in DOMAIN remote[Accepted], remote[Accepted][i].by \in Trusted[c]
      PROVE  Content(remote[Accepted][i]) \in known[c].decisions
  <2>1. i \in Nat /\ <<Accepted, i>> \in imported[c]
    BY <1>1, ByRef, RefFacts DEF Current, Imported
  <2> QED  BY <1>1, <1>4, <2>1 DEF ImportsHeld
<1>5. DecisionsInGit(c) \subseteq known[c].decisions
  BY <1>4 DEF DecisionsInGit, Content
<1> QED  BY <1>2, <1>3, <1>5 DEF AllDecidedInGit

(* A catalog that has imported every claim and decision there is holds     *)
(* exactly those of the producers it trusts, for any number of producers,  *)
(* however its imports and its own publications came between one another   *)
(* and wherever they were refused or interrupted; provided, as above, that *)
(* nobody decides what he does not hold and that trust is transitive.      *)
THEOREM CurrentCatalogsEqualGit ==
  ASSUME ~DecideUnseen, TrustIsTransitive
  PROVE  KnowledgeSpec => []CurrentCatalogsMirrorGit
<1> DEFINE Inv == AllGrounded /\ AllImportsHeld /\ AllOwnPushed /\ AllDecidedInGit
<1>1. KnowledgeInit => Inv
  <2> SUFFICES ASSUME KnowledgeInit PROVE Inv
    OBVIOUS
  <2>1. /\ DOMAIN remote[Accepted] = {} /\ \A p \in Publisher : work[p] = NoWork
        /\ \A c \in Catalog : imported[c] = {} /\ known[c].decisions = {}
    BY RefFacts DEF KnowledgeInit
  <2> QED  BY <2>1 DEF AllGrounded, AllImportsHeld, ImportsHeld, AllOwnPushed, OwnPushed,
           AllDecidedInGit
<1>2. KnowledgeInv /\ Inv /\ [KnowledgeNext]_knowledgeVars => Inv'
  <2> SUFFICES ASSUME KnowledgeInv, Inv, [KnowledgeNext]_knowledgeVars PROVE Inv'
    OBVIOUS
  <2>1. KnowledgeTypeOK /\ AllOwnWork
    BY DEF KnowledgeInv
  <2>2. AllGrounded' /\ AllImportsHeld'
    BY <2>1, GroundedStep, ImportsHeldStep
  <2>3. AllOwnPushed' /\ AllDecidedInGit'
    BY <2>1, OwnPushedStep, DecidedInGitStep
  <2> QED  BY <2>2, <2>3
<1>3. KnowledgeInv /\ Inv => CurrentCatalogsMirrorGit
  BY CurrentMirrors DEF CurrentCatalogsMirrorGit
<1> HIDE DEF Inv
<1> QED  BY <1>1, <1>2, <1>3, KnowledgeInvariant, PTL DEF KnowledgeSpec

-----------------------------------------------------------------------------
(* The connector.  A cursor stands for what it passed                      *)
(* (src/connectors.cpp), for any number of pull requests and of            *)
(* synchronizations that overlap, and whatever the provider changes while  *)
(* its pages are read.                                                     *)

\* The time of seconds is that of changes, more coarsely.
LEMMA SecondsAreOrdered ==
  ASSUME NEW x \in Nat, NEW y \in Nat, x <= y
  PROVE  Second(x) \in Nat /\ Second(y) \in Nat /\ Second(x) <= Second(y)
<1>1. PerSecond \in Nat /\ PerSecond > 0
  BY ConnectorAssumption
<1>2. \A z \in Nat : /\ z \div PerSecond \in Nat
                     /\ PerSecond * (z \div PerSecond) <= z
                     /\ z < PerSecond * (z \div PerSecond) + PerSecond
  BY <1>1, SMTT(30)
<1> DEFINE a == x \div PerSecond
           b == y \div PerSecond
<1>3. ~(a >= b + 1)
  <2> SUFFICES ASSUME a >= b + 1 PROVE FALSE
    OBVIOUS
  <2>1. a \in Nat /\ b \in Nat
    BY <1>2
  <2> HIDE DEF a, b
  <2>2. PerSecond * a >= PerSecond * b + PerSecond
    BY <1>1, <2>1, SMTT(30)
  <2>3. PerSecond * a \in Nat /\ PerSecond * b \in Nat
    BY <1>1, <2>1
  <2>4. PerSecond * a <= x /\ y < PerSecond * b + PerSecond
    BY <1>2 DEF a, b
  <2> QED  BY <1>1, <2>2, <2>3, <2>4
<1> QED  BY <1>2, <1>3 DEF Second

\* Where a pull request stands in the provider's list: behind all that
\* changed after it, and before the end.
LEMMA PlacesInTheList ==
  ASSUME ConnectorTypeOK, NEW p \in List
  PROVE  /\ Before(p) \in Nat /\ Cardinality(List) \in Nat /\ Before(p) < Cardinality(List)
         /\ \A q \in PullRequest : updated[q] <= updated[p] =>
              Before(q) \in Nat /\ Before(p) <= Before(q)
<1> DEFINE Ahead(q) == {r \in List : updated[r] > updated[q]}
<1>1. List \subseteq PullRequest /\ IsFiniteSet(List)
  BY ConnectorAssumption, FS_Subset DEF List
<1>2. \A q \in PullRequest : updated[q] \in Nat
  BY DEF ConnectorTypeOK
<1>3. \A q : Ahead(q) \subseteq List /\ IsFiniteSet(Ahead(q)) /\ Before(q) \in Nat
  BY <1>1, FS_Subset, FS_CardinalityType DEF Before
<1>4. \A q \in PullRequest : updated[q] <= updated[p] => Ahead(p) \subseteq Ahead(q)
  BY <1>1, <1>2
<1>5. p \notin Ahead(p)
  BY <1>1, <1>2
<1>6. Before(p) < Cardinality(List)
  <2>1. Ahead(p) # List
    BY <1>5
  <2>2. Cardinality(Ahead(p)) < Cardinality(List)
    <3> HIDE DEF Ahead
    <3> QED  BY <1>1, <1>3, <2>1, FS_Subset, FS_CardinalityType
  <2> QED  BY <2>2 DEF Before
<1>7. \A q \in PullRequest : updated[q] <= updated[p] => Before(p) <= Before(q)
  <2> SUFFICES ASSUME NEW q \in PullRequest, updated[q] <= updated[p]
               PROVE  Cardinality(Ahead(p)) <= Cardinality(Ahead(q))
    BY DEF Before
  <2>1. Ahead(p) \subseteq Ahead(q) /\ IsFiniteSet(Ahead(q))
    BY <1>3, <1>4
  <2> HIDE DEF Ahead
  <2> QED  BY <2>1, FS_Subset
<1> QED  BY <1>1, <1>3, <1>6, <1>7, FS_CardinalityType

-----------------------------------------------------------------------------
(* The inductive invariant.  What a pull request is owed once its last     *)
(* change lies before a second t that is, or may become, the cursor.       *)
Passed(p, t) == Open(p) /\ Second(updated[p]) < t /\ Second(updated[p]) \notin cursors
Known(p, mentioned) == <<p, updated[p]>> \in fetched /\ IssuesOf[p] \subseteq mentioned

\* The synchronization w has not come to p yet: its page shows p as it is, or
\* p stands where further pages begin.
Awaited(w, p) ==
  \/ [pr |-> p, time |-> updated[p]] \in w.page
  \/ w.more /\ w.start <= Before(p)

\* A synchronization began at a cursor, which covers what is behind it, and
\* will cover what is behind the newest second that it saw.
SyncCovers(w) ==
  /\ w.initial \in cursors \cup {0}
  /\ w.initial <= w.newest /\ w.newest <= Second(clock)
  /\ w.step = "page" => w.page = {} /\ w.more
  /\ w.step = "issue" => w.page = {} /\ ~w.more
  /\ \A p \in PullRequest : Passed(p, w.initial) => Known(p, issues)
  /\ \A p \in PullRequest :
       Passed(p, w.newest) => Known(p, issues \cup w.found) \/ Awaited(w, p)

ConnectorInv ==
  /\ ConnectorTypeOK
  /\ \A p \in PullRequest : updated[p] <= clock
  /\ cursor \in cursors \cup {0} /\ cursor <= Second(clock)
  /\ CursorCovers
  /\ \A s \in Syncer : syncing[s] # NoSync => SyncCovers(syncing[s])

-----------------------------------------------------------------------------
\* What is stored is never lost, so a synchronization that takes no step
\* itself covers what it covered.
LEMMA OthersCover ==
  ASSUME ConnectorInv, UNCHANGED <<clock, updated>>, fetched \subseteq fetched',
         issues \subseteq issues', cursors \subseteq cursors',
         NEW t \in Syncer, syncing[t] # NoSync, syncing'[t] = syncing[t]
  PROVE  SyncCovers(syncing[t])'
<1> DEFINE w == syncing[t]
<1>1. SyncCovers(w)
  BY DEF ConnectorInv
<1>2. \A p \in PullRequest : Passed(p, w.initial)' => Known(p, issues)'
  <2> SUFFICES ASSUME NEW p \in PullRequest, Passed(p, w.initial)'
               PROVE  Known(p, issues)'
    OBVIOUS
  <2>1. Passed(p, w.initial)
    BY DEF Passed, Open, Second
  <2>2. Known(p, issues)
    BY <1>1, <2>1 DEF SyncCovers
  <2> QED  BY <2>2 DEF Known
<1>3. \A p \in PullRequest :
        Passed(p, w.newest)' => Known(p, issues \cup w.found)' \/ Awaited(w, p)'
  <2> SUFFICES ASSUME NEW p \in PullRequest, Passed(p, w.newest)'
               PROVE  Known(p, issues \cup w.found)' \/ Awaited(w, p)'
    OBVIOUS
  <2>1. Passed(p, w.newest)
    BY DEF Passed, Open, Second
  <2>2. Known(p, issues \cup w.found) => Known(p, issues \cup w.found)'
    BY DEF Known
  <2>3. Awaited(w, p) => Awaited(w, p)'
    BY DEF Awaited, Before, List, Open
  <2> QED  BY <1>1, <2>1, <2>2, <2>3 DEF SyncCovers
<1>4. /\ w.initial \in cursors' \cup {0}
      /\ w.initial <= w.newest /\ w.newest <= Second(clock')
      /\ w.step = "page" => w.page = {} /\ w.more
      /\ w.step = "issue" => w.page = {} /\ ~w.more
  BY <1>1 DEF SyncCovers
<1> HIDE DEF w
<1> QED  BY <1>2, <1>3, <1>4 DEF SyncCovers, w

\* The seconds of a page are those of the provider's changes until then, and
\* the newest second that a synchronization saw is one that it saw.
LEMMA NewestIsSeen ==
  ASSUME ConnectorInv, NEW s \in Syncer, syncing[s] # NoSync
  PROVE  LET w == syncing[s]
             S == {w.newest} \cup {Second(v.time) : v \in Page(w.start)}
         IN /\ w \in Synchronization /\ Page(w.start) \subseteq [pr : PullRequest, time : Nat]
            /\ Max(S) \in S /\ Max(S) \in Nat /\ Max(S) <= Second(clock)
            /\ \A m \in S : m <= Max(S)
<1> DEFINE w == syncing[s]
           S == {w.newest} \cup {Second(v.time) : v \in Page(w.start)}
<1>1. w \in Synchronization /\ w.newest \in Nat /\ w.newest <= Second(clock)
  BY DEF ConnectorInv, ConnectorTypeOK, Synchronization, SyncCovers
<1>2. clock \in Nat /\ \A p \in PullRequest : updated[p] \in Nat /\ updated[p] <= clock
  BY DEF ConnectorInv, ConnectorTypeOK
<1>3. \A v \in Page(w.start) : \E p \in PullRequest : v = [pr |-> p, time |-> updated[p]]
  BY DEF Page, List
<1>4. Page(w.start) \subseteq [pr : PullRequest, time : Nat]
  BY <1>2, <1>3
<1>5. \A v \in Page(w.start) : Second(v.time) \in Nat /\ Second(v.time) <= Second(clock)
  <2> SUFFICES ASSUME NEW v \in Page(w.start)
               PROVE  Second(v.time) \in Nat /\ Second(v.time) <= Second(clock)
    OBVIOUS
  <2>1. v.time \in Nat /\ v.time <= clock
    BY <1>2, <1>3
  <2> QED  BY <1>2, <2>1, SecondsAreOrdered
<1>6. Second(clock) \in Nat
  BY <1>2, SecondsAreOrdered
<1>7. S \in SUBSET Nat /\ S # {} /\ \A m \in S : m <= Second(clock)
  BY <1>1, <1>5
<1> HIDE DEF S
<1>8. Max(S) \in S /\ \A m \in S : m <= Max(S)
  BY <1>6, <1>7, LargestOf
<1>9. Max(S) \in Nat /\ Max(S) <= Second(clock)
  BY <1>7, <1>8
<1> QED  BY <1>1, <1>4, <1>8, <1>9 DEF S

\* Changes move what they do not touch towards the end of the list.
LEMMA ChangesComeFirst ==
  ASSUME ConnectorInv, NEW q \in PullRequest, Update(q), NEW p \in PullRequest, p # q
  PROVE  /\ updated'[p] = updated[p] /\ Before(p) \in Nat /\ Before(p)' \in Nat
         /\ Before(p) <= Before(p)'
<1> DEFINE Ahead == {r \in List : updated[r] > updated[p]}
           Ahead2 == {r \in List' : updated'[r] > updated'[p]}
<1>1. /\ clock \in Nat /\ updated \in [PullRequest -> Nat]
      /\ \A r \in PullRequest : updated[r] \in Nat /\ updated[r] <= clock
  BY DEF ConnectorInv, ConnectorTypeOK
<1>2. /\ updated'[q] = clock + 1
      /\ \A r \in PullRequest : r # q => updated'[r] = updated[r]
  BY <1>1 DEF Update
<1>3. Ahead \subseteq Ahead2
  <2> SUFFICES ASSUME NEW r \in Ahead PROVE r \in Ahead2
    OBVIOUS
  <2>1. r \in PullRequest /\ updated[r] # 0 /\ updated[r] > updated[p]
    BY DEF List, Open
  <2>2. CASE r = q
    <3>1. updated'[q] # 0 /\ updated'[q] > updated'[p]
      BY <1>1, <1>2
    <3> QED  BY <2>2, <3>1 DEF List, Open
  <2>3. CASE r # q
    BY <1>2, <2>1, <2>3 DEF List, Open
  <2> QED  BY <2>2, <2>3
<1>4. Ahead2 \subseteq PullRequest
  BY DEF List
<1>5. IsFiniteSet(Ahead2) /\ IsFiniteSet(Ahead)
  BY <1>3, <1>4, ConnectorAssumption, FS_Subset
<1> HIDE DEF Ahead, Ahead2
<1>6. Cardinality(Ahead) \in Nat /\ Cardinality(Ahead2) \in Nat
      /\ Cardinality(Ahead) <= Cardinality(Ahead2)
  BY <1>3, <1>5, FS_Subset, FS_CardinalityType
<1> QED  BY <1>2, <1>6 DEF Before, Ahead, Ahead2

\* An update is newer than the cursor and what any synchronization saw.
LEMMA UpdateCovers ==
  ASSUME ConnectorInv, NEW q \in PullRequest, Update(q)
  PROVE  ConnectorInv'
<1>1. /\ clock \in Nat /\ updated \in [PullRequest -> Nat]
      /\ \A r \in PullRequest : updated[r] \in Nat /\ updated[r] <= clock
  BY DEF ConnectorInv, ConnectorTypeOK
<1>2. /\ clock' = clock + 1 /\ updated'[q] = clock + 1
      /\ \A r \in PullRequest : r # q => updated'[r] = updated[r]
      /\ updated' \in [PullRequest -> Nat]
      /\ UNCHANGED <<fetched, issues, cursor, cursors, syncing, failures>>
  BY <1>1 DEF Update
<1>3. ConnectorTypeOK'
  BY <1>1, <1>2 DEF ConnectorInv, ConnectorTypeOK
<1>4. \A p \in PullRequest : updated'[p] <= clock'
  BY <1>1, <1>2
<1>5. /\ Second(clock) \in Nat /\ Second(clock') \in Nat /\ Second(clock) <= Second(clock')
      /\ Second(updated'[q]) = Second(clock')
  <2>1. clock + 1 \in Nat /\ clock <= clock + 1
    BY <1>1
  <2> QED  BY <1>1, <1>2, <2>1, SecondsAreOrdered
<1>6. \A n \in Nat : n <= Second(clock) => ~Passed(q, n)'
  BY <1>5 DEF Passed, Second
<1>7. \A n : \A p \in PullRequest : p # q /\ Passed(p, n)' => Passed(p, n)
  BY <1>2 DEF Passed, Open, Second
<1>8. cursor \in Nat /\ cursor <= Second(clock) /\ cursor' = cursor /\ cursor \in cursors \cup {0}
  BY <1>2 DEF ConnectorInv, ConnectorTypeOK
<1>9. CursorCovers'
  <2> SUFFICES ASSUME NEW p \in PullRequest, Passed(p, cursor)'
               PROVE  Known(p, issues)'
    BY DEF CursorCovers, Passed, Known
  <2>1. p # q
    BY <1>2, <1>6, <1>8
  <2>2. Passed(p, cursor)
    BY <1>7, <1>8, <2>1 DEF Passed, Open, Second
  <2>3. Known(p, issues)
    BY <2>2 DEF ConnectorInv, CursorCovers, Passed, Known
  <2> QED  BY <1>2, <2>1, <2>3 DEF Known
<1>10. ASSUME NEW s \in Syncer, syncing[s] # NoSync PROVE SyncCovers(syncing[s])'
  <2> DEFINE w == syncing[s]
  <2>1. SyncCovers(w) /\ w \in Synchronization /\ w' = w
    BY <1>2, <1>10 DEF ConnectorInv, ConnectorTypeOK
  <2>2. w.initial \in Nat /\ w.newest \in Nat /\ w.start \in Nat
        /\ w.initial <= w.newest /\ w.newest <= Second(clock)
    BY <2>1 DEF Synchronization, SyncCovers
  <2> HIDE DEF w
  <2>3. w.initial <= Second(clock) /\ w.newest <= Second(clock')
    BY <1>5, <2>2
  <2>4. ASSUME NEW p \in PullRequest, Passed(p, w.initial)' PROVE Known(p, issues)'
    <3>1. p # q
      BY <1>6, <2>1, <2>2, <2>3, <2>4
    <3>2. Passed(p, w.initial)
      BY <1>2, <2>1, <2>4, <3>1 DEF Passed, Open, Second
    <3> QED  BY <1>2, <2>1, <3>1, <3>2 DEF SyncCovers, Known
  <2>5. ASSUME NEW p \in PullRequest, Passed(p, w.newest)'
        PROVE  (Known(p, issues \cup w.found) \/ Awaited(w, p))'
    <3>1. p # q
      BY <1>6, <2>1, <2>2, <2>5
    <3>2. Passed(p, w.newest)
      BY <1>2, <2>1, <2>5, <3>1 DEF Passed, Open, Second
    <3>3. Known(p, issues \cup w.found) \/ Awaited(w, p)
      BY <2>1, <3>2 DEF SyncCovers
    <3>4. Known(p, issues \cup w.found) => Known(p, issues \cup w.found)'
      BY <1>2, <2>1, <3>1 DEF Known
    <3>5. Awaited(w, p) => Awaited(w, p)'
      <4>1. /\ updated'[p] = updated[p] /\ Before(p) \in Nat /\ Before(p)' \in Nat
            /\ Before(p) <= Before(p)'
        BY <3>1, ChangesComeFirst
      <4> QED  BY <2>1, <2>2, <4>1 DEF Awaited
    <3> QED  BY <3>3, <3>4, <3>5
  <2> QED  BY <1>2, <2>1, <2>3, <2>4, <2>5 DEF SyncCovers, w
<1> QED  BY <1>2, <1>3, <1>4, <1>5, <1>8, <1>9, <1>10 DEF ConnectorInv

\* A step of one synchronization leaves the others and the provider alone:
\* what remains is its own part.
LEMMA OneSyncSteps ==
  ASSUME ConnectorInv, ConnectorTypeOK', UNCHANGED <<clock, updated>>,
         fetched \subseteq fetched', issues \subseteq issues', cursors \subseteq cursors',
         NEW s \in Syncer, \A t \in Syncer : t # s => syncing'[t] = syncing[t],
         \/ UNCHANGED cursor
         \/ cursor' \in cursors' \cup {0} /\ cursor' <= Second(clock) /\ CursorCovers',
         syncing'[s] # NoSync => SyncCovers(syncing[s])'
  PROVE  ConnectorInv'
<1>1. \A p \in PullRequest : updated'[p] <= clock'
  BY DEF ConnectorInv
<1>2. cursor' \in cursors' \cup {0} /\ cursor' <= Second(clock')
  BY DEF ConnectorInv, Second
<1>3. CursorCovers'
  <2>1. ASSUME UNCHANGED cursor, NEW p \in PullRequest, Passed(p, cursor)'
        PROVE  Known(p, issues)'
    <3>1. Passed(p, cursor)
      BY <2>1 DEF Passed, Open, Second
    <3>2. Known(p, issues)
      BY <3>1 DEF ConnectorInv, CursorCovers, Passed, Known
    <3> QED  BY <3>2 DEF Known
  <2> QED  BY <2>1 DEF CursorCovers, Passed, Known
<1>4. ASSUME NEW t \in Syncer, syncing'[t] # NoSync PROVE SyncCovers(syncing[t])'
  <2>1. CASE t = s
    BY <1>4, <2>1
  <2>2. CASE t # s
    <3>1. syncing'[t] = syncing[t] /\ syncing[t] # NoSync
      BY <1>4, <2>2
    <3> QED  BY <3>1, OthersCover
  <2> QED  BY <2>1, <2>2
<1> QED  BY <1>1, <1>2, <1>3, <1>4 DEF ConnectorInv

\* A synchronization starts with the cursor, and what the cursor covers.
LEMMA BeginCovers ==
  ASSUME ConnectorInv, NEW s \in Syncer, NEW full \in BOOLEAN, BeginSync(s, full)
  PROVE  ConnectorInv'
<1>0. PICK initial : initial = IF full THEN 0 ELSE cursor
  OBVIOUS
<1> DEFINE w == [step |-> "page", full |-> full, initial |-> initial, newest |-> initial,
                 start |-> 0, page |-> {}, more |-> TRUE, found |-> {}]
<1>1. /\ clock \in Nat /\ updated \in [PullRequest -> Nat] /\ cursor \in Nat
      /\ cursor \in cursors \cup {0} /\ cursor <= Second(clock)
      /\ syncing \in [Syncer -> Synchronization \cup {NoSync}]
  BY DEF ConnectorInv, ConnectorTypeOK
<1>2. initial \in Nat /\ initial \in cursors \cup {0} /\ initial <= Second(clock)
  BY <1>0, <1>1, SecondsAreOrdered
<1>3. /\ syncing'[s] = w /\ \A t \in Syncer : t # s => syncing'[t] = syncing[t]
      /\ UNCHANGED <<clock, updated, fetched, issues, cursor, cursors, failures>>
  BY <1>0, <1>1 DEF BeginSync
<1>4. ConnectorTypeOK'
  <2>1. w \in Synchronization
    BY <1>2 DEF Synchronization
  <2>2. syncing' = [syncing EXCEPT ![s] = w]
    BY <1>0 DEF BeginSync
  <2> HIDE DEF w
  <2>3. syncing' \in [Syncer -> Synchronization \cup {NoSync}]
    BY <1>1, <2>1, <2>2
  <2> QED  BY <1>3, <2>3 DEF ConnectorInv, ConnectorTypeOK
<1>5. ASSUME NEW p \in PullRequest, Passed(p, initial)' PROVE Known(p, issues)'
  <2>1. Second(updated[p]) \in Nat
    BY <1>1, SecondsAreOrdered
  <2>2. Passed(p, initial)
    BY <1>3, <1>5 DEF Passed, Open, Second
  <2>3. initial = cursor
    BY <1>0, <2>1, <2>2 DEF Passed
  <2>4. Known(p, issues)
    BY <2>2, <2>3 DEF ConnectorInv, CursorCovers, Passed, Known
  <2> QED  BY <1>3, <2>4 DEF Known
<1>6. ASSUME NEW p \in PullRequest, Passed(p, initial)'
      PROVE  Known(p, issues \cup {})'
  BY <1>5, <1>6 DEF Known
<1>7. SyncCovers(syncing[s])'
  <2>1. /\ w.step = "page" /\ w.initial = initial /\ w.newest = initial
        /\ w.page = {} /\ w.more /\ w.found = {}
    OBVIOUS
  <2> HIDE DEF w
  <2> QED  BY <1>2, <1>3, <1>5, <1>6, <2>1 DEF SyncCovers, Second
<1> QED  BY <1>3, <1>4, <1>7, OneSyncSteps

\* What is stored of a page is no longer awaited but known, as soon as the
\* issues it mentions are.
LEMMA StorePullRequestCovers ==
  ASSUME ConnectorInv, NEW s \in Syncer, StorePullRequest(s)
  PROVE  ConnectorInv'
<1>0. PICK w : w = syncing[s]
  OBVIOUS
<1>1. w # NoSync /\ w.step = "pull_request"
      /\ UNCHANGED <<clock, updated, issues, cursor, cursors, failures>>
  BY <1>0 DEF StorePullRequest
<1>2. PICK v \in w.page :
        /\ fetched' = fetched \cup {<<v.pr, v.time>>}
        /\ Proceed(s, [w EXCEPT !.page = @ \ {v}, !.found = @ \cup IssuesOf[v.pr]])
  BY <1>0 DEF StorePullRequest, StoreVersion
<1> DEFINE x == [w EXCEPT !.page = @ \ {v}, !.found = @ \cup IssuesOf[v.pr]]
           y == [x EXCEPT !.step = After(x)]
<1>3. w \in Synchronization /\ SyncCovers(w)
      /\ syncing \in [Syncer -> Synchronization \cup {NoSync}]
  BY <1>0, <1>1 DEF ConnectorInv, ConnectorTypeOK
<1>4. /\ v \in [pr : PullRequest, time : Nat] /\ w.page \subseteq [pr : PullRequest, time : Nat]
      /\ w.found \subseteq Issue /\ w.more \in BOOLEAN
  BY <1>3 DEF Synchronization
<1>5. IssuesOf[v.pr] \subseteq Issue
  BY <1>4, ConnectorAssumption
<1>6. x \in Synchronization
  BY <1>3, <1>4, <1>5 DEF Synchronization
<1>7. After(x) \in {"page", "pull_request", "issue"}
  BY DEF After
<1>8. y \in Synchronization
  BY <1>6, <1>7 DEF Synchronization
<1>9. syncing' = [syncing EXCEPT ![s] = y]
  BY <1>2 DEF Proceed
<1>10. /\ y.initial = w.initial /\ y.newest = w.newest /\ y.start = w.start
       /\ y.page = w.page \ {v} /\ y.more = w.more /\ y.found = w.found \cup IssuesOf[v.pr]
       /\ y.step = After(x)
       /\ x.page = y.page /\ x.more = y.more
  BY <1>3 DEF Synchronization
<1> HIDE DEF y, x
<1>11. /\ y.step = "page" => y.page = {} /\ y.more
       /\ y.step = "issue" => y.page = {} /\ ~y.more
  BY <1>10 DEF After
<1>12. syncing'[s] = y /\ \A t \in Syncer : t # s => syncing'[t] = syncing[t]
  BY <1>3, <1>9
<1>13. ConnectorTypeOK'
  <2>1. syncing' \in [Syncer -> Synchronization \cup {NoSync}]
    BY <1>3, <1>8, <1>9
  <2>2. fetched' \subseteq PullRequest \X Nat
    BY <1>2, <1>4 DEF ConnectorInv, ConnectorTypeOK
  <2> QED  BY <1>1, <2>1, <2>2 DEF ConnectorInv, ConnectorTypeOK
<1>14. ASSUME NEW p \in PullRequest, Passed(p, w.initial)' PROVE Known(p, issues)'
  <2>1. Passed(p, w.initial)
    BY <1>1, <1>14 DEF Passed, Open, Second
  <2>2. Known(p, issues)
    BY <1>3, <2>1 DEF SyncCovers
  <2> QED  BY <1>1, <1>2, <2>2 DEF Known
<1>15. ASSUME NEW p \in PullRequest, Passed(p, y.newest)'
       PROVE  (Known(p, issues \cup y.found) \/ Awaited(y, p))'
  <2>1. Passed(p, w.newest)
    BY <1>1, <1>15, <1>10 DEF Passed, Open, Second
  <2>2. Known(p, issues \cup w.found) \/ Awaited(w, p)
    BY <1>3, <2>1 DEF SyncCovers
  <2>3. CASE Known(p, issues \cup w.found)
    BY <1>1, <1>2, <1>10, <2>3 DEF Known
  <2>4. CASE [pr |-> p, time |-> updated[p]] \in w.page
    <3>1. CASE v = [pr |-> p, time |-> updated[p]]
      <4>1. <<p, updated[p]>> \in fetched' /\ IssuesOf[p] \subseteq y.found
        BY <1>2, <1>10, <3>1
      <4> QED  BY <1>1, <4>1 DEF Known
    <3>2. CASE v # [pr |-> p, time |-> updated[p]]
      BY <1>1, <1>10, <2>4, <3>2 DEF Awaited
    <3> QED  BY <3>1, <3>2
  <2>5. CASE w.more /\ w.start <= Before(p)
    BY <1>1, <1>10, <2>5 DEF Awaited, Before, List, Open
  <2> QED  BY <2>2, <2>3, <2>4, <2>5 DEF Awaited
<1>16. SyncCovers(syncing[s])'
  <2>1. /\ y.initial \in cursors' \cup {0}
        /\ y.initial <= y.newest /\ y.newest <= Second(clock)'
    BY <1>1, <1>3, <1>10 DEF SyncCovers, Second
  <2> QED  BY <1>10, <1>11, <1>12, <1>14, <1>15, <2>1 DEF SyncCovers
<1> QED  BY <1>1, <1>2, <1>12, <1>13, <1>16, OneSyncSteps

\* A page is what stands where it starts, up to its size: what is neither on
\* it nor old comes further down, and nothing that was passed over stands
\* before it.
LEMMA FetchPageCovers ==
  ASSUME ConnectorInv, NEW s \in Syncer, FetchPage(s)
  PROVE  ConnectorInv'
<1>0. PICK w : w = syncing[s]
  OBVIOUS
<1>1. PICK page : page = Page(w.start)
  OBVIOUS
<1> DEFINE old(v) == ~w.full /\ w.initial > 0 /\ Second(v.time) <= w.initial
           S == {w.newest} \cup {Second(v.time) : v \in page}
<1>2. PICK rest : rest = {v \in page : ~old(v)}
  OBVIOUS
<1>3. PICK newest : newest = Max(S)
  OBVIOUS
<1>4. PICK more : more = (w.start + PageSize < Cardinality(List) /\ \A v \in page : ~old(v))
  OBVIOUS
<1> DEFINE x == [w EXCEPT !.page = rest, !.newest = newest, !.start = w.start + PageSize,
                          !.more = more]
           y == [x EXCEPT !.step = After(x)]
<1>5. /\ w # NoSync /\ w.step = "page"
      /\ UNCHANGED <<clock, updated, fetched, issues, cursor, cursors, failures>>
  BY <1>0 DEF FetchPage
<1>6. syncing' = [syncing EXCEPT ![s] = y]
  BY <1>0, <1>1, <1>2, <1>3, <1>4 DEF FetchPage, Proceed
<1>7. /\ w \in Synchronization /\ SyncCovers(w) /\ w.page = {} /\ w.more
      /\ syncing \in [Syncer -> Synchronization \cup {NoSync}]
      /\ ConnectorTypeOK
  BY <1>0, <1>5 DEF ConnectorInv, ConnectorTypeOK, SyncCovers
<1>8. /\ page \subseteq [pr : PullRequest, time : Nat]
      /\ newest \in S /\ newest \in Nat /\ newest <= Second(clock)
      /\ \A m \in S : m <= newest
  BY <1>0, <1>1, <1>3, <1>5, NewestIsSeen
<1>9. /\ w.initial \in Nat /\ w.newest \in Nat /\ w.start \in Nat /\ w.start + PageSize \in Nat
      /\ PageSize \in Nat /\ more \in BOOLEAN /\ rest \subseteq page
      /\ w.initial <= w.newest /\ w.newest <= newest
  <2>1. PageSize \in Nat
    BY ConnectorAssumption
  <2>2. w.initial \in Nat /\ w.newest \in Nat /\ w.start \in Nat
    BY <1>7 DEF Synchronization
  <2>3. w.initial <= w.newest /\ w.newest <= newest
    BY <1>7, <1>8 DEF SyncCovers
  <2> QED  BY <2>1, <2>2, <2>3, <1>2, <1>4
<1> HIDE DEF S
<1>10. x \in Synchronization
  BY <1>7, <1>8, <1>9 DEF Synchronization
<1>11. After(x) \in {"page", "pull_request", "issue"}
  BY DEF After
<1>12. y \in Synchronization
  BY <1>10, <1>11 DEF Synchronization
<1>13. /\ y.initial = w.initial /\ y.newest = newest /\ y.start = w.start + PageSize
       /\ y.page = rest /\ y.more = more /\ y.found = w.found
       /\ y.step = After(x)
       /\ x.page = y.page /\ x.more = y.more
  BY <1>7 DEF Synchronization
<1> HIDE DEF y, x
<1>14. /\ y.step = "page" => y.page = {} /\ y.more
       /\ y.step = "issue" => y.page = {} /\ ~y.more
  BY <1>13 DEF After
<1>15. syncing'[s] = y /\ \A t \in Syncer : t # s => syncing'[t] = syncing[t]
  BY <1>6, <1>7
<1>16. ConnectorTypeOK'
  <2>1. syncing' \in [Syncer -> Synchronization \cup {NoSync}]
    BY <1>6, <1>7, <1>12
  <2> QED  BY <1>5, <1>7, <2>1 DEF ConnectorTypeOK
<1>17. ASSUME NEW p \in PullRequest, Passed(p, w.initial) PROVE Known(p, issues)
  BY <1>7, <1>17 DEF SyncCovers
<1>18. \A q \in PullRequest : updated[q] \in Nat /\ Second(updated[q]) \in Nat
  BY <1>7, SecondsAreOrdered DEF ConnectorTypeOK
<1>19. ASSUME NEW p \in PullRequest, Passed(p, newest), ~Known(p, issues \cup w.found)
       PROVE  p \in List /\ w.start <= Before(p)
  <2>1. p \in List
    BY <1>19 DEF Passed, List
  <2>2. CASE Passed(p, w.newest)
    <3>1. Known(p, issues \cup w.found) \/ Awaited(w, p)
      BY <1>7, <2>2 DEF SyncCovers
    <3> QED  BY <1>7, <1>19, <2>1, <3>1 DEF Awaited
  <2>3. CASE ~Passed(p, w.newest)
    <3>1. newest # w.newest
      BY <1>19, <2>3
    <3>2. PICK v \in page : newest = Second(v.time)
      BY <1>8, <3>1 DEF S
    <3>3. PICK q \in PullRequest : /\ q \in List /\ v.time = updated[q]
                                   /\ Before(q) \in w.start .. (w.start + PageSize - 1)
      BY <1>1, <3>2 DEF Page, List
    <3>4. Second(updated[p]) < Second(updated[q])
      BY <1>19, <3>2, <3>3 DEF Passed
    <3>5. updated[p] <= updated[q]
      <4>1. ~(updated[q] <= updated[p])
        BY <1>18, <3>4, SecondsAreOrdered
      <4> QED  BY <1>18, <4>1
    <3>6. Before(q) \in Nat /\ Before(p) \in Nat /\ Before(q) <= Before(p)
      BY <1>7, <3>3, <3>5, PlacesInTheList
    <3> QED  BY <1>9, <2>1, <3>3, <3>6
  <2> QED  BY <2>2, <2>3
<1>20. ASSUME NEW p \in PullRequest, Passed(p, newest), NEW v \in page,
              v.time >= updated[p], old(v)
       PROVE  Known(p, issues \cup w.found)
  <2>1. v.time \in Nat /\ Second(updated[p]) <= Second(v.time) /\ Second(v.time) \in Nat
    BY <1>8, <1>18, <1>20, SecondsAreOrdered
  <2>2. Second(updated[p]) <= w.initial
    BY <1>9, <1>18, <1>20, <2>1
  <2>3. w.initial \in cursors
    BY <1>7, <1>20 DEF SyncCovers
  <2>4. Second(updated[p]) # w.initial
    BY <1>20, <2>3 DEF Passed
  <2>5. Passed(p, w.initial)
    BY <1>9, <1>18, <1>20, <2>2, <2>4 DEF Passed
  <2> QED  BY <1>17, <2>5 DEF Known
<1>21. ASSUME NEW p \in PullRequest, Passed(p, newest), ~Known(p, issues \cup w.found)
       PROVE  \/ [pr |-> p, time |-> updated[p]] \in rest
              \/ more /\ w.start + PageSize <= Before(p)
  <2>1. p \in List /\ w.start <= Before(p)
    BY <1>19, <1>21
  <2>2. Before(p) \in Nat /\ Cardinality(List) \in Nat /\ Before(p) < Cardinality(List)
    BY <1>7, <2>1, PlacesInTheList
  <2>3. CASE Before(p) < w.start + PageSize
    <3>1. Before(p) \in w.start .. (w.start + PageSize - 1)
      BY <1>9, <2>1, <2>2, <2>3
    <3> DEFINE v == [pr |-> p, time |-> updated[p]]
    <3>2. v \in page
      BY <1>1, <2>1, <3>1 DEF Page
    <3>3. v.time = updated[p] /\ v.time >= updated[p]
      BY <1>18
    <3> HIDE DEF v
    <3>4. ~old(v)
      BY <1>20, <1>21, <3>2, <3>3
    <3> QED  BY <1>2, <3>2, <3>4 DEF v
  <2>4. CASE ~(Before(p) < w.start + PageSize)
    <3>1. w.start + PageSize <= Before(p) /\ w.start + PageSize < Cardinality(List)
      BY <1>9, <2>2, <2>4
    <3>2. ASSUME NEW v \in page PROVE ~old(v)
      <4>1. PICK q \in PullRequest : /\ q \in List /\ v.time = updated[q]
                                     /\ Before(q) \in w.start .. (w.start + PageSize - 1)
        BY <1>1, <3>2 DEF Page, List
      <4>2. Before(q) < Before(p)
        BY <1>9, <2>2, <3>1, <4>1
      <4>3. ~(updated[q] <= updated[p])
        BY <1>7, <2>1, <2>2, <4>1, <4>2, PlacesInTheList
      <4>4. v.time >= updated[p]
        BY <1>18, <4>1, <4>3
      <4> QED  BY <1>20, <1>21, <4>4
    <3> QED  BY <1>4, <3>1, <3>2
  <2> QED  BY <2>3, <2>4
<1>22. SyncCovers(syncing[s])'
  <2>1. /\ y.initial \in cursors' \cup {0}
        /\ y.initial <= y.newest /\ y.newest <= Second(clock)'
    BY <1>5, <1>7, <1>8, <1>9, <1>13 DEF SyncCovers, Second
  <2>2. ASSUME NEW p \in PullRequest, Passed(p, y.initial)' PROVE Known(p, issues)'
    <3>1. Passed(p, w.initial)
      BY <1>5, <1>13, <2>2 DEF Passed, Open, Second
    <3> QED  BY <1>5, <1>17, <3>1 DEF Known
  <2>3. ASSUME NEW p \in PullRequest, Passed(p, y.newest)'
        PROVE  (Known(p, issues \cup y.found) \/ Awaited(y, p))'
    <3>1. Passed(p, newest)
      BY <1>5, <1>13, <2>3 DEF Passed, Open, Second
    <3>2. CASE Known(p, issues \cup w.found)
      BY <1>5, <1>13, <3>2 DEF Known
    <3>3. CASE ~Known(p, issues \cup w.found)
      <4>1. \/ [pr |-> p, time |-> updated[p]] \in y.page
            \/ y.more /\ y.start <= Before(p)
        BY <1>13, <1>21, <3>1, <3>3
      <4> QED  BY <1>5, <4>1 DEF Awaited, Before, List, Open
    <3> QED  BY <3>2, <3>3
  <2> QED  BY <1>13, <1>14, <1>15, <2>1, <2>2, <2>3 DEF SyncCovers
<1> QED  BY <1>5, <1>15, <1>16, <1>22, OneSyncSteps

\* An issue is stored before it is no longer looked for.
LEMMA StoreIssueCovers ==
  ASSUME ConnectorInv, NEW s \in Syncer, NEW i \in Issue, StoreIssue(s, i)
  PROVE  ConnectorInv'
<1>0. PICK w : w = syncing[s]
  OBVIOUS
<1> DEFINE y == [w EXCEPT !.found = @ \ {i}]
<1>1. /\ w # NoSync /\ w.step = "issue" /\ issues' = issues \cup {i}
      /\ UNCHANGED <<clock, updated, fetched, cursor, cursors, failures>>
  BY <1>0 DEF StoreIssue
<1>2. /\ w \in Synchronization /\ SyncCovers(w) /\ ConnectorTypeOK
      /\ syncing \in [Syncer -> Synchronization \cup {NoSync}]
  BY <1>0, <1>1 DEF ConnectorInv, ConnectorTypeOK
<1>3. syncing' = [syncing EXCEPT ![s] = y]
  BY <1>0, <1>2 DEF StoreIssue
<1>4. /\ y \in Synchronization
      /\ y.initial = w.initial /\ y.newest = w.newest /\ y.start = w.start /\ y.step = w.step
      /\ y.page = w.page /\ y.more = w.more /\ y.found = w.found \ {i}
  BY <1>2 DEF Synchronization
<1> HIDE DEF y
<1>5. syncing'[s] = y /\ \A t \in Syncer : t # s => syncing'[t] = syncing[t]
  BY <1>2, <1>3
<1>6. ConnectorTypeOK'
  <2>1. syncing' \in [Syncer -> Synchronization \cup {NoSync}]
    BY <1>2, <1>3, <1>4
  <2> QED  BY <1>1, <1>2, <2>1 DEF ConnectorTypeOK
<1>7. SyncCovers(syncing[s])'
  <2>1. /\ y.initial \in cursors' \cup {0}
        /\ y.initial <= y.newest /\ y.newest <= Second(clock)'
        /\ y.step = "page" => y.page = {} /\ y.more
        /\ y.step = "issue" => y.page = {} /\ ~y.more
    BY <1>1, <1>2, <1>4 DEF SyncCovers, Second
  <2>2. ASSUME NEW p \in PullRequest, Passed(p, y.initial)' PROVE Known(p, issues)'
    <3>1. Passed(p, w.initial)
      BY <1>1, <1>4, <2>2 DEF Passed, Open, Second
    <3> QED  BY <1>1, <1>2, <3>1 DEF SyncCovers, Known
  <2>3. ASSUME NEW p \in PullRequest, Passed(p, y.newest)'
        PROVE  (Known(p, issues \cup y.found) \/ Awaited(y, p))'
    <3>1. Passed(p, w.newest)
      BY <1>1, <1>4, <2>3 DEF Passed, Open, Second
    <3>2. Known(p, issues \cup w.found)
      BY <1>1, <1>2, <3>1 DEF SyncCovers, Awaited
    <3> QED  BY <1>1, <1>4, <3>2 DEF Known
  <2> QED  BY <1>5, <2>1, <2>2, <2>3 DEF SyncCovers
<1> QED  BY <1>1, <1>5, <1>6, <1>7, OneSyncSteps

\* Only a synchronization that has nothing left to read or to store leaves
\* its newest second as the cursor.
LEMMA EndSyncCovers ==
  ASSUME ConnectorInv, NEW s \in Syncer, EndSync(s)
  PROVE  ConnectorInv'
<1>0. PICK w : w = syncing[s]
  OBVIOUS
<1>1. /\ w # NoSync /\ w.step = "issue" /\ w.found = {}
      /\ cursor' = w.newest /\ cursors' = cursors \cup ({w.newest} \ {0})
      /\ syncing' = [syncing EXCEPT ![s] = NoSync]
      /\ UNCHANGED <<clock, updated, fetched, issues, failures>>
  BY <1>0 DEF EndSync, StoreStatus
<1>2. /\ w \in Synchronization /\ SyncCovers(w) /\ ConnectorTypeOK
      /\ syncing \in [Syncer -> Synchronization \cup {NoSync}]
  BY <1>0, <1>1 DEF ConnectorInv, ConnectorTypeOK
<1>3. w.newest \in Nat /\ w.newest <= Second(clock) /\ w.page = {} /\ ~w.more
  BY <1>1, <1>2 DEF Synchronization, SyncCovers
<1>4. syncing'[s] = NoSync /\ \A t \in Syncer : t # s => syncing'[t] = syncing[t]
  BY <1>1, <1>2
<1>5. ConnectorTypeOK'
  BY <1>1, <1>2, <1>3 DEF ConnectorTypeOK
<1>6. CursorCovers'
  <2> SUFFICES ASSUME NEW p \in PullRequest, Passed(p, cursor)'
               PROVE  Known(p, issues)'
    BY DEF CursorCovers, Passed, Known
  <2>1. Passed(p, w.newest)
    BY <1>1 DEF Passed, Open, Second
  <2>2. Known(p, issues \cup w.found)
    BY <1>2, <1>3, <2>1 DEF SyncCovers, Awaited
  <2> QED  BY <1>1, <2>2 DEF Known
<1>7. cursor' \in cursors' \cup {0} /\ cursor' <= Second(clock)
  BY <1>1, <1>3
<1> QED  BY <1>1, <1>4, <1>5, <1>6, <1>7, OneSyncSteps

\* Without a cursor nothing is claimed, and the next synchronization reads all.
LEMMA FailSyncCovers ==
  ASSUME ConnectorInv, NEW s \in Syncer, FailSync(s) \/ DropSync(s)
  PROVE  ConnectorInv'
<1>1. /\ syncing' = [syncing EXCEPT ![s] = NoSync]
      /\ failures < MaxFailures /\ failures' = failures + 1
      /\ UNCHANGED <<clock, updated, fetched, issues>>
      /\ cursors' = cursors /\ cursor' \in {0, cursor}
  BY DEF FailSync, DropSync, StoreStatus
<1>2. /\ ConnectorTypeOK /\ syncing \in [Syncer -> Synchronization \cup {NoSync}]
      /\ clock \in Nat /\ updated \in [PullRequest -> Nat] /\ cursor \in Nat
  BY DEF ConnectorInv, ConnectorTypeOK
<1>3. syncing'[s] = NoSync /\ \A t \in Syncer : t # s => syncing'[t] = syncing[t]
  BY <1>1, <1>2
<1>4. failures' \in 0 .. MaxFailures
  BY <1>1, <1>2, ConnectorAssumption DEF ConnectorTypeOK
<1>5. ConnectorTypeOK'
  BY <1>1, <1>2, <1>4 DEF ConnectorTypeOK
<1>6. CASE cursor' = cursor
  BY <1>1, <1>3, <1>5, <1>6, OneSyncSteps
<1>7. CASE cursor' = 0
  <2>1. \A p \in PullRequest : Second(updated[p]) \in Nat
    BY <1>2, SecondsAreOrdered
  <2>2. \A p \in PullRequest : ~Passed(p, cursor)'
    BY <1>1, <1>7, <2>1 DEF Passed, Second
  <2>3. CursorCovers'
    BY <2>2 DEF CursorCovers, Passed
  <2>4. cursor' <= Second(clock)
    BY <1>2, <1>7, SecondsAreOrdered
  <2> QED  BY <1>1, <1>3, <1>5, <1>7, <2>3, <2>4, OneSyncSteps
<1> QED  BY <1>1, <1>6, <1>7
-----------------------------------------------------------------------------
LEMMA ConnectorInvariant == ConnectorSpec => []ConnectorInv
<1>1. ConnectorInit => ConnectorInv
  <2> SUFFICES ASSUME ConnectorInit PROVE ConnectorInv
    OBVIOUS
  <2>1. clock \in Nat /\ updated = [p \in PullRequest |-> 0]
        /\ cursor = 0 /\ cursors = {} /\ syncing = [s \in Syncer |-> NoSync]
    BY ConnectorAssumption DEF ConnectorInit
  <2>2. ConnectorTypeOK
    BY <2>1, ConnectorAssumption DEF ConnectorInit, ConnectorTypeOK
  <2>3. Second(clock) \in Nat
    BY <2>1, SecondsAreOrdered
  <2> QED  BY <2>1, <2>2, <2>3 DEF ConnectorInv, CursorCovers, Open
<1>2. ConnectorInv /\ [ConnectorNext]_connectorVars => ConnectorInv'
  <2> SUFFICES ASSUME ConnectorInv, [ConnectorNext]_connectorVars PROVE ConnectorInv'
    OBVIOUS
  <2>1. ASSUME NEW p \in PullRequest, Update(p) PROVE ConnectorInv'
    BY <2>1, UpdateCovers
  <2>2. ASSUME NEW s \in Syncer, NEW full \in BOOLEAN, BeginSync(s, full)
        PROVE  ConnectorInv'
    BY <2>2, BeginCovers
  <2>3. ASSUME NEW s \in Syncer, FetchPage(s) PROVE ConnectorInv'
    BY <2>3, FetchPageCovers
  <2>4. ASSUME NEW s \in Syncer, StorePullRequest(s) PROVE ConnectorInv'
    BY <2>4, StorePullRequestCovers
  <2>5. ASSUME NEW s \in Syncer, NEW i \in Issue, StoreIssue(s, i) PROVE ConnectorInv'
    BY <2>5, StoreIssueCovers
  <2>6. ASSUME NEW s \in Syncer, EndSync(s) PROVE ConnectorInv'
    BY <2>6, EndSyncCovers
  <2>7. ASSUME NEW s \in Syncer, FailSync(s) \/ DropSync(s) PROVE ConnectorInv'
    BY <2>7, FailSyncCovers
  <2>8. ASSUME UNCHANGED connectorVars PROVE ConnectorInv'
    BY <2>8 DEF connectorVars, ConnectorInv, ConnectorTypeOK, CursorCovers, SyncCovers,
       Passed, Known, Awaited, Before, List, Open, Second
  <2> QED  BY <2>1, <2>2, <2>3, <2>4, <2>5, <2>6, <2>7, <2>8 DEF ConnectorNext
<1> QED  BY <1>1, <1>2, PTL DEF ConnectorSpec

(* The variables of the connector have their types.                        *)
THEOREM ConnectorTypeCorrect == ConnectorSpec => []ConnectorTypeOK
<1>1. ConnectorInv => ConnectorTypeOK
  BY DEF ConnectorInv
<1> QED  BY <1>1, ConnectorInvariant, PTL

(* No update is skipped for good, in any number of pull requests, changes, *)
(* failures and synchronizations at once: `newest_cursor' is the maximum   *)
(* over pages that shift while they are read, and what is behind it was    *)
(* read (sync, src/connectors.cpp:164-290).                                *)
THEOREM NoUpdateIsSkipped == ConnectorSpec => []CursorCovers
<1>1. ConnectorInv => CursorCovers
  BY DEF ConnectorInv
<1> QED  BY <1>1, ConnectorInvariant, PTL
============================================================================
