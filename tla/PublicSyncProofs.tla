-------------------------- MODULE PublicSyncProofs --------------------------
(***************************************************************************)
(* The VPS keeps its releases in order (ReleaseStore), and the publisher   *)
(* keeps HOME and the VPS together (PublicSync), for any number of         *)
(* companies, requests and releases, wherever the publisher dies and       *)
(* whatever becomes of its commands.                                       *)
(*                                                                         *)
(* What holds under every circumstance is carried by SyncInv.  Its heart   *)
(* is CandidatesInv: while a request that owns a candidate is active, HOME *)
(* has published exactly the companies of the candidate's parent.  It is   *)
(* why the rows written at the end of an attempt (BaselineOf), which look  *)
(* at the candidate and its parent only, describe every company.  It holds *)
(* because nobody else may write the rows meanwhile: one request at a time *)
(* is busy (OneBusy), which in turn rests on what the normalization of the *)
(* queue left for the claim (ClaimInv).                                    *)
(***************************************************************************)
EXTENDS PublicSync, FiniteSetTheorems, WellFoundedInduction, SequenceTheorems, TLAPS

-----------------------------------------------------------------------------
(* The release tables keep their promises for any number of releases and   *)
(* any order of commands.                                                  *)
(*                                                                         *)
(* What makes a rollback safe is a fact about the whole history that no    *)
(* row states: the releases that are live or would become live again by    *)
(* rolling back form one chain of parents that ends in the pointer, and    *)
(* all but its end are staged.  StoreInv says that such a chain exists; a  *)
(* promotion lengthens it at its end, a rollback shortens it there.        *)

\* C is the chain that ends in release p: closed under parents, staged below
\* its end, and without gaps, that is, a member that comes before x is at or
\* before the parent of x.
IsChain(C, p) ==
    /\ C \subseteq Releases
    /\ p # NoRelease => p \in C
    /\ \A x \in C : /\ x <= p
                    /\ x # p => store[x].status = "staged"
                    /\ store[x].parent # NoRelease => store[x].parent \in C
    /\ \A x, y \in C : y < x => y <= store[x].parent

\* The inductive invariant.
StoreInv ==
    /\ StoreTypeOK
    /\ PointerNamesActive
    /\ \A r \in Releases : store[r].parent < r
    /\ \E C \in SUBSET Releases : IsChain(C, pointer)

-----------------------------------------------------------------------------

LEMMA StoreInitInv == StoreInit => StoreInv
<1> SUFFICES ASSUME StoreInit PROVE StoreInv
  OBVIOUS
<1> USE ReleaseAssumption DEF StoreInit, Releases, NoRelease
<1>1. StoreTypeOK
  BY DEF StoreTypeOK, ReleaseStatus
<1>2. PointerNamesActive
  BY DEF PointerNamesActive
<1>3. \A r \in Releases : store[r].parent < r
  OBVIOUS
<1>4. IsChain({}, pointer)
  BY DEF IsChain
<1> QED
  BY <1>1, <1>2, <1>3, <1>4 DEF StoreInv

\* Staging adds a child of the live release; the chain stays as it is.
LEMMA StageInv ==
    ASSUME StoreInv, NEW r \in Releases, NEW parent \in 0..(r - 1),
           Stage(r, parent)
    PROVE  StoreInv'
<1> USE ReleaseAssumption DEF Releases, NoRelease
<1> store \in [Releases -> [status : ReleaseStatus, parent : 0..NumReleases]]
  BY DEF StoreInv, StoreTypeOK
<1>1. StoreTypeOK'
  BY DEF StoreInv, StoreTypeOK, Stage, ReleaseStatus
<1>2. PointerNamesActive'
  BY DEF StoreInv, PointerNamesActive, Stage
<1>3. (\A s \in Releases : store[s].parent < s)'
  BY DEF StoreInv, Stage
<1>4. PICK C \in SUBSET Releases : IsChain(C, pointer)
  BY DEF StoreInv
<1>5. r \notin C
  <2>1. store[r].status # "staged" /\ store[r].status # "active"
    BY DEF Stage
  <2>2. r # pointer
    BY <2>1 DEF StoreInv, PointerNamesActive
  <2> QED
    BY <1>4, <2>1, <2>2 DEF IsChain
<1>6. IsChain(C, pointer)'
  BY <1>4, <1>5 DEF IsChain, Stage
<1> QED
  BY <1>1, <1>2, <1>3, <1>6 DEF StoreInv

\* A promotion lengthens the chain by the promoted release.
LEMMA PromoteInv ==
    ASSUME StoreInv, NEW r \in Releases, Promote(r)
    PROVE  StoreInv'
<1> USE ReleaseAssumption DEF Releases, NoRelease
<1> store \in [Releases -> [status : ReleaseStatus, parent : 0..NumReleases]]
  BY DEF StoreInv, StoreTypeOK
<1>1. pointer' = r /\ store[r].status = "staged" /\ store[r].parent = pointer
  BY DEF Promote, Promotable
<1>2. \A s \in Releases : store'[s].parent = store[s].parent
  BY DEF Promote
<1>3. \A s \in Releases : store'[s].status =
          IF s = r THEN "active"
          ELSE IF s = pointer THEN "staged" ELSE store[s].status
  BY DEF Promote
<1>4. StoreTypeOK'
  BY DEF StoreInv, StoreTypeOK, Promote, ReleaseStatus
<1>5. PointerNamesActive'
  BY <1>1, <1>3 DEF StoreInv, PointerNamesActive
<1>6. (\A s \in Releases : store[s].parent < s)'
  BY <1>2 DEF StoreInv
<1>7. PICK C \in SUBSET Releases : IsChain(C, pointer)
  BY DEF StoreInv
<1>8. pointer < r /\ pointer \in 0..NumReleases
  BY <1>1 DEF StoreInv, StoreTypeOK
<1>9. \A x \in C : x <= pointer /\ x # r
  BY <1>7, <1>8 DEF IsChain
<1> DEFINE D == C \cup {r}
<1>10. (D \subseteq Releases) /\ (r \in D)
  OBVIOUS
<1>11. \A x \in D : /\ x <= r
                    /\ x # r => store'[x].status = "staged"
                    /\ store'[x].parent # NoRelease => store'[x].parent \in D
  <2> TAKE x \in D
  <2>1. CASE x \in C
    BY <2>1, <1>2, <1>3, <1>7, <1>8, <1>9, SMTT(30) DEF IsChain
  <2>2. CASE x = r
    BY <2>2, <1>1, <1>2, <1>7 DEF IsChain
  <2> QED
    BY <2>1, <2>2
<1>12. \A x, y \in D : y < x => y <= store'[x].parent
  <2> SUFFICES ASSUME NEW x \in D, NEW y \in D, y < x
               PROVE  y <= store[x].parent
    BY <1>2
  <2>1. CASE x = r
    BY <2>1, <1>1, <1>9
  <2>2. CASE x \in C
    <3>1. y \in C
      BY <2>2, <1>8, <1>9
    <3> QED
      BY <2>2, <3>1, <1>7 DEF IsChain
  <2> QED
    BY <2>1, <2>2
<1>13. IsChain(D, pointer)'
  BY <1>1, <1>10, <1>11, <1>12 DEF IsChain
<1> QED
  BY <1>4, <1>5, <1>6, <1>10, <1>13 DEF StoreInv

\* The target of a rollback is in the chain below its end, hence staged.
LEMMA RollbackTarget ==
    ASSUME StoreInv, NEW target \in Releases, Rollback(target)
    PROVE  /\ pointer \in Releases
           /\ target < pointer
           /\ store[target].status = "staged"
<1> USE ReleaseAssumption DEF Releases, NoRelease
<1>1. pointer \in Releases /\ target = store[pointer].parent
  BY DEF StoreInv, StoreTypeOK, Rollback
<1>2. target < pointer
  BY <1>1 DEF StoreInv
<1>3. PICK C \in SUBSET Releases : IsChain(C, pointer)
  BY DEF StoreInv
<1>4. target \in C
  BY <1>1, <1>3 DEF IsChain
<1> QED
  BY <1>1, <1>2, <1>3, <1>4 DEF IsChain

\* A rollback takes the end off the chain.
LEMMA RollbackInv ==
    ASSUME StoreInv, NEW target \in Releases, Rollback(target)
    PROVE  StoreInv'
<1> USE ReleaseAssumption DEF Releases, NoRelease
<1> store \in [Releases -> [status : ReleaseStatus, parent : 0..NumReleases]]
  BY DEF StoreInv, StoreTypeOK
<1>1. pointer' = target /\ target = store[pointer].parent
  BY DEF Rollback
<1>2. \A s \in Releases : store'[s].parent = store[s].parent
  BY DEF Rollback
<1>3. \A s \in Releases : store'[s].status =
          IF s = pointer THEN "rolled_back"
          ELSE IF s = target THEN "active" ELSE store[s].status
  BY DEF Rollback
<1>4. pointer \in Releases /\ target < pointer /\ store[target].status = "staged"
  BY RollbackTarget
<1>5. StoreTypeOK'
  BY <1>1 DEF StoreInv, StoreTypeOK, Rollback, ReleaseStatus
<1>6. PointerNamesActive'
  BY <1>1, <1>3, <1>4 DEF StoreInv, PointerNamesActive
<1>7. (\A s \in Releases : store[s].parent < s)'
  BY <1>2 DEF StoreInv
<1>8. PICK C \in SUBSET Releases : IsChain(C, pointer)
  BY DEF StoreInv
<1>9. PICK D \in SUBSET Releases : D = C \ {pointer}
  OBVIOUS
<1>10. /\ target \in D
       /\ \A x \in D : x < pointer /\ x <= target
  BY <1>1, <1>4, <1>8, <1>9 DEF IsChain
<1>11. \A x \in D : /\ x # target => store'[x].status = "staged"
                    /\ store'[x].parent # NoRelease => store'[x].parent \in D
  <2> TAKE x \in D
  <2>1. x # target => store'[x].status = "staged"
    BY <1>3, <1>8, <1>9 DEF IsChain
  <2>2. store[x].parent < x
    BY DEF StoreInv
  <2>3. store[x].parent # pointer
    BY <2>2, <1>4, <1>10
  <2> QED
    BY <2>1, <2>3, <1>2, <1>8, <1>9 DEF IsChain
<1>12. \A x, y \in D : y < x => y <= store'[x].parent
  BY <1>2, <1>8, <1>9 DEF IsChain
<1>13. IsChain(D, pointer)'
  BY <1>1, <1>9, <1>10, <1>11, <1>12 DEF IsChain
<1> QED
  BY <1>5, <1>6, <1>7, <1>13 DEF StoreInv

LEMMA StoreStep == StoreInv /\ [StoreNext]_storeVars => StoreInv'
<1> SUFFICES ASSUME StoreInv, [StoreNext]_storeVars PROVE StoreInv'
  OBVIOUS
<1>1. ASSUME NEW r \in Releases, NEW parent \in 0..(r - 1), Stage(r, parent)
      PROVE  StoreInv'
  BY <1>1, StageInv
<1>2. ASSUME NEW r \in Releases, Promote(r) PROVE StoreInv'
  BY <1>2, PromoteInv
<1>3. ASSUME NEW target \in Releases, Rollback(target) PROVE StoreInv'
  BY <1>3, RollbackInv
<1>4. CASE UNCHANGED storeVars
  BY <1>4 DEF storeVars, StoreInv, StoreTypeOK, PointerNamesActive, IsChain
<1> QED
  BY <1>1, <1>2, <1>3, <1>4 DEF StoreNext

-----------------------------------------------------------------------------

\* The chain exists and the tables agree with the pointer in every state.
THEOREM StoreInductive == StoreSpec => []StoreInv
BY StoreInitInv, StoreStep, PTL DEF StoreSpec

\* The tables keep their shape.
THEOREM StoreTypes == StoreSpec => []StoreTypeOK
<1>1. StoreInv => StoreTypeOK
  BY DEF StoreInv
<1> QED
  BY <1>1, StoreInductive, PTL

\* Exactly the release that the pointer names is active.
THEOREM OneActiveRelease == StoreSpec => []PointerNamesActive
<1>1. StoreInv => PointerNamesActive
  BY DEF StoreInv
<1> QED
  BY <1>1, StoreInductive, PTL

\* What one command may do to the pointer.
LEMMA MovesStep ==
    ASSUME StoreInv, [StoreNext]_storeVars
    PROVE  [pointer' # pointer =>
              \/ store'[pointer'].parent = pointer
              \/ pointer' = store[pointer].parent]_storeVars
<1> DEFINE Moves == pointer' # pointer =>
                        \/ store'[pointer'].parent = pointer
                        \/ pointer' = store[pointer].parent
<1>1. ASSUME NEW r \in Releases, NEW parent \in 0..(r - 1), Stage(r, parent)
      PROVE  Moves
  BY <1>1 DEF Stage
<1>2. ASSUME NEW r \in Releases, Promote(r) PROVE Moves
  <2>1. pointer' = r /\ store'[r].parent = store[r].parent
    BY <1>2 DEF Promote, StoreInv, StoreTypeOK
  <2>2. store[r].parent = pointer
    BY <1>2 DEF Promote, Promotable
  <2> QED
    BY <2>1, <2>2
<1>3. ASSUME NEW target \in Releases, Rollback(target) PROVE Moves
  BY <1>3 DEF Rollback
<1> QED
  BY <1>1, <1>2, <1>3 DEF StoreNext

\* The pointer moves only along the edge between a release and its parent.
THEOREM PointerFollowsParents == StoreSpec => MovesAlongParents
BY MovesStep, StoreInductive, PTL DEF StoreSpec, MovesAlongParents

\* What no command does.
LEMMA RolledBackStep ==
    ASSUME StoreInv, [StoreNext]_storeVars
    PROVE  [\A r \in Releases :
              store[r].status = "rolled_back" => store'[r] = store[r]]_storeVars
<1> DEFINE Stays == \A r \in Releases :
                        store[r].status = "rolled_back" => store'[r] = store[r]
<1> store \in [Releases -> [status : ReleaseStatus, parent : 0..NumReleases]]
  BY DEF StoreInv, StoreTypeOK
<1>1. ASSUME NEW r \in Releases, NEW parent \in 0..(r - 1), Stage(r, parent)
      PROVE  Stays
  BY <1>1 DEF Stage
<1>2. ASSUME NEW r \in Releases, Promote(r) PROVE Stays
  BY <1>2 DEF Promote, Promotable, StoreInv, PointerNamesActive
<1>3. ASSUME NEW target \in Releases, Rollback(target) PROVE Stays
  <2>1. store[target].status = "staged" /\ pointer \in Releases
    BY <1>3, RollbackTarget
  <2>2. store[pointer].status = "active"
    BY <2>1 DEF StoreInv, PointerNamesActive
  <2> QED
    BY <1>3, <2>1, <2>2 DEF Rollback
<1> QED
  BY <1>1, <1>2, <1>3 DEF StoreNext

\* A release that was rolled back keeps that status for ever.
THEOREM RollbackIsFinal == StoreSpec => RolledBackStays
BY RolledBackStep, StoreInductive, PTL DEF StoreSpec, RolledBackStays

-----------------------------------------------------------------------------
(* The publisher.                                                          *)

\* The steps of an attempt whose request is in hand, and those in which it
\* owns a candidate.
Built == {"upload", "stage", "accept", "promote", "verify", "persist", "error"}
Working == Built \cup {"build"}
Steps == Working \cup {"idle", "recover", "normalize", "claim", "cleanup"}

Keys == [kind : {"run", "withdrawal"}, company : Companies, number : Nat]
        \cup [kind : {"rebase"}]
Statuses == Settled \cup {"PENDING", "RUNNING", "RETRY_SCHEDULED"}
RequestRows ==
    [status : Statuses, key : Keys, candidate : 0..NumReleases,
     parent : 0..NumReleases, sha : Nat, heirOf : Nat]
Bundles == [parent : 0..NumReleases, content : [Companies -> Nat]]
Rows == [published : BOOLEAN, version : Nat, release : 1..NumReleases]
Commands == [kind : {"stage", "promote", "rollback"}, release : 1..NumReleases]

HomeOK ==
    /\ truth \in [Companies -> [run : Nat, version : Nat]]
    /\ baseline \in [Companies -> Rows]
    /\ seen \subseteq Keys
    /\ {sha, changes, faults} \subseteq Nat
RequestsOK == req \in Seq(RequestRows)
BundlesOK == bundle \in Seq(Bundles)
PublisherOK ==
    pub \in [pc : Steps, req : Nat, error : {"none", "fatal", "transient"}]

\* A bundle names an earlier one as its parent, all but the first do.
BundleInv ==
    /\ Len(bundle) \in 1..NumReleases
    /\ \A r \in DOMAIN bundle : /\ bundle[r].parent < r
                                /\ r # 1 => bundle[r].parent # NoRelease

\* The VPS knows only bundles that were built, and knows their parents.
StoredInv ==
    /\ pointer \in DOMAIN bundle
    /\ \A r \in Releases : store[r].status # "absent" =>
          r \in DOMAIN bundle /\ store[r].parent = bundle[r].parent

WireInv == wire \subseteq Commands /\ \A w \in wire : w.release \in DOMAIN bundle

\* The requests at work.
Busy == {i \in Active : \/ req[i].status = "RUNNING"
                        \/ req[i].candidate # NoRelease}
OneBusy == \A i, j \in Busy : i = j

\* The rows of HOME describe the companies that release r contains.
PublishedIs(r) == Published = Members(r)

\* What is known of a request that owns a candidate.
Owns(i) ==
    /\ req[i].candidate \in DOMAIN bundle \ {1}
    /\ req[i].parent = bundle[req[i].candidate].parent
    /\ i \in Active => PublishedIs(req[i].parent)

CandidatesInv ==
    \A i \in DOMAIN req : req[i].candidate # NoRelease => Owns(i)

\* The request in hand.
PublisherInv ==
    /\ pub.pc \in Working => /\ pub.req \in DOMAIN req
                             /\ req[pub.req].status = "RUNNING"
    /\ pub.pc = "build" => req[pub.req].candidate = NoRelease
    /\ pub.pc \in Built => req[pub.req].candidate # NoRelease

\* A single active request, or several that have not started.
Normal ==
    \/ \A i, j \in Active : i = j
    \/ \A i \in Active : req[i].candidate = NoRelease /\ req[i].status = "PENDING"

ClaimInv == pub.pc = "claim" => Normal

RowsInv ==
    /\ \A c \in Companies : baseline[c].release \in DOMAIN bundle
    /\ BaselineFaithful

\* The inductive invariant.
SyncInv ==
    /\ HomeOK /\ RequestsOK /\ BundlesOK /\ PublisherOK
    /\ StoreInv
    /\ BundleInv /\ StoredInv /\ WireInv
    /\ OneBusy /\ CandidatesInv
    /\ PublisherInv /\ ClaimInv
    /\ RowsInv

-----------------------------------------------------------------------------
(* Operators of the model.                                                 *)

LEMMA SeqOfFunction ==
    ASSUME NEW S, NEW n \in Nat, NEW f \in [1..n -> S]
    PROVE  f \in Seq(S) /\ Len(f) = n
<1>1. f \in Seq(S)
  BY SeqDef
<1> QED
  BY <1>1, LenProperties

\* A request keeps everything but its status when it is marked.
LEMMA MarkFacts ==
    ASSUME NEW rows \in Seq(RequestRows), NEW I, NEW status \in Statuses
    PROVE  /\ Mark(rows, I, status) \in Seq(RequestRows)
           /\ Len(Mark(rows, I, status)) = Len(rows)
           /\ \A i \in 1..Len(rows) :
                /\ Mark(rows, I, status)[i].status =
                      IF i \in I THEN status ELSE rows[i].status
                /\ Mark(rows, I, status)[i].candidate = rows[i].candidate
                /\ Mark(rows, I, status)[i].parent = rows[i].parent
<1> DEFINE marked == Mark(rows, I, status)
<1>1. /\ Len(rows) \in Nat /\ DOMAIN rows = 1..Len(rows)
      /\ \A i \in 1..Len(rows) : rows[i] \in RequestRows
  BY LenProperties
<1>2. \A i \in 1..Len(rows) :
          marked[i] = IF i \in I THEN [rows[i] EXCEPT !.status = status]
                      ELSE rows[i]
  BY <1>1 DEF Mark
<1>3. \A i \in 1..Len(rows) : [rows[i] EXCEPT !.status = status] \in RequestRows
  BY <1>1 DEF RequestRows
<1>4. marked \in [1..Len(rows) -> RequestRows]
  BY <1>1, <1>2, <1>3 DEF Mark
<1>5. marked \in Seq(RequestRows) /\ Len(marked) = Len(rows)
  BY <1>1, <1>4, SeqOfFunction
<1> HIDE DEF marked
<1>6. \A i \in 1..Len(rows) :
          /\ marked[i].status = IF i \in I THEN status ELSE rows[i].status
          /\ marked[i].candidate = rows[i].candidate
          /\ marked[i].parent = rows[i].parent
  BY <1>1, <1>2 DEF RequestRows
<1> QED
  BY <1>5, <1>6 DEF marked

LEMMA RequestType ==
    ASSUME HomeOK, NEW key \in Keys, NEW status \in Statuses, NEW heir \in Nat
    PROVE  Request(key, status, heir) \in RequestRows
BY ReleaseAssumption DEF HomeOK, Request, RequestRows, NoRelease

LEMMA RebaseKey == [kind |-> "rebase"] \in Keys
BY DEF Keys

\* A set of numbers that is not empty has a least element.
LEMMA LeastElement ==
    ASSUME NEW S \in SUBSET Nat, S # {}
    PROVE  Min(S) \in S
<1>1. PICK m \in S : \A n \in S : <<n, m>> \notin OpToRel(<, Nat)
  BY WFMin, NatLessThanWellFounded
<1>2. \A n \in S : m <= n
  <2> TAKE n \in S
  <2>1. <<n, m>> \notin OpToRel(<, Nat)
    BY <1>1
  <2>2. ~(n < m)
    BY <2>1 DEF OpToRel
  <2> QED
    BY <2>2
<1> QED
  BY <1>2 DEF Min

\* A bounded one has a greatest.
LEMMA GreatestElement ==
    ASSUME NEW bound \in Nat, NEW S \in SUBSET (1..bound), S # {}
    PROVE  Max(S) \in S
<1> DEFINE Above == {n \in Nat : \A k \in S : k <= n}
<1>1. Above \in SUBSET Nat /\ bound \in Above
  OBVIOUS
<1>2. PICK m \in Above : \A n \in Above : <<n, m>> \notin OpToRel(<, Nat)
  BY <1>1, WFMin, NatLessThanWellFounded
<1>3. \A n \in Above : m <= n
  <2> TAKE n \in Above
  <2>1. ~(n < m)
    BY <1>2 DEF OpToRel
  <2> QED
    BY <2>1
<1>4. m \in S
  <2> SUFFICES ASSUME m \notin S PROVE FALSE
    OBVIOUS
  <2>1. m \in Nat /\ \A k \in S : k <= m
    BY <1>2
  <2>2. \A k \in S : k \in Nat /\ k # m /\ k >= 1
    OBVIOUS
  <2>3. \A k \in S : k <= m - 1
    BY <2>1, <2>2
  <2>4. m - 1 \in Nat
    <3>1. PICK k \in S : TRUE
      OBVIOUS
    <3> QED
      BY <3>1, <2>1, <2>2, <2>3
  <2>5. m - 1 \in Above
    BY <2>3, <2>4
  <2> QED
    BY <2>1, <2>5, <1>3
<1>5. \A k \in S : m >= k
  BY <1>2
<1> QED
  BY <1>4, <1>5 DEF Max

\* At most one element: by counting, or by comparing.
LEMMA AtMostOne ==
    ASSUME NEW S, IsFiniteSet(S)
    PROVE  Cardinality(S) <= 1 <=> \A x, y \in S : x = y
<1>1. Cardinality(S) \in Nat
  BY FS_CardinalityType
<1>2. ASSUME Cardinality(S) <= 1 PROVE \A x, y \in S : x = y
  <2>1. CASE Cardinality(S) = 0
    BY <2>1, FS_EmptySet
  <2>2. CASE Cardinality(S) = 1
    BY <2>2, FS_Singleton
  <2> QED
    BY <1>1, <1>2, <2>1, <2>2
<1>3. ASSUME \A x, y \in S : x = y PROVE Cardinality(S) <= 1
  <2>1. CASE S = {}
    BY <2>1, FS_EmptySet
  <2>2. CASE S # {}
    <3>1. PICK x \in S : S = {x}
      BY <1>3, <2>2
    <3> QED
      BY <3>1, FS_Singleton
  <2> QED
    BY <2>1, <2>2
<1> QED
  BY <1>2, <1>3

\* The scan lists the companies it found.
LEMMA ListFacts ==
    ASSUME NEW S \in SUBSET Companies
    PROVE  /\ SetToSeq(S) \in Seq(S)
           /\ DOMAIN SetToSeq(S) = 1..Len(SetToSeq(S))
<1>1. IsFiniteSet(S)
  BY SyncAssumption, FS_Subset
<1>2. /\ Cardinality(S) \in Nat
      /\ \E f \in [1..Cardinality(S) -> S] : IsInjective(f)
  BY <1>1, FS_CardinalityType DEF ExistsBijection, Bijection, Injection, IsInjective
<1>3. SetToSeq(S) \in [1..Cardinality(S) -> S]
  BY <1>2 DEF SetToSeq
<1> QED
  BY <1>2, <1>3, SeqOfFunction, LenProperties

-----------------------------------------------------------------------------
(* The initial state.                                                      *)

LEMMA SyncInitInv == SyncInit => SyncInv
<1> SUFFICES ASSUME SyncInit PROVE SyncInv
  OBVIOUS
<1> USE SyncAssumption, ReleaseAssumption DEF NoRelease, Releases
<1>1. bundle \in Seq(Bundles) /\ Len(bundle) = 1 /\ DOMAIN bundle = {1}
      /\ bundle[1].parent = 0
      /\ bundle[1].content = [c \in Companies |-> 1]
  <2>1. [parent |-> 0, content |-> [c \in Companies |-> 1]] \in Bundles
    BY DEF Bundles
  <2> QED
    BY <2>1 DEF SyncInit, InitialVersion
<1>2. req \in Seq(RequestRows) /\ Len(req) = 0 /\ DOMAIN req = {}
  BY DEF SyncInit
<1>3. HomeOK
  BY DEF SyncInit, HomeOK, Rows, Keys, InitialVersion
<1>4. PublisherOK
  BY DEF SyncInit, PublisherOK, Resting, Steps
<1>5. StoreInv
  <2>1. StoreTypeOK
    BY DEF SyncInit, StoreTypeOK, ReleaseStatus
  <2>2. PointerNamesActive
    BY DEF SyncInit, PointerNamesActive
  <2>3. IsChain({1}, pointer)
    BY DEF SyncInit, IsChain
  <2> QED
    BY <2>1, <2>2, <2>3 DEF SyncInit, StoreInv
<1>6. BundleInv /\ StoredInv /\ WireInv
  BY <1>1 DEF SyncInit, BundleInv, StoredInv, WireInv
<1>7. OneBusy /\ CandidatesInv
  BY <1>2 DEF OneBusy, CandidatesInv, Busy, Active
<1>8. PublisherInv /\ ClaimInv
  BY DEF SyncInit, PublisherInv, ClaimInv, Resting, Working, Built
<1>9. RowsInv
  BY <1>1 DEF SyncInit, RowsInv, BaselineFaithful, Published, Members, InitialVersion
<1> QED
  BY <1>1, <1>2, <1>3, <1>4, <1>5, <1>6, <1>7, <1>8, <1>9
     DEF SyncInv, RequestsOK, BundlesOK

-----------------------------------------------------------------------------
(* Steps that leave the rows and the bundles alone.                        *)

\* Requests are added without a candidate, keep what they were built from and
\* never become active again.
RequestsKept ==
    /\ req' \in Seq(RequestRows)
    /\ Len(req) <= Len(req')
    /\ \A i \in DOMAIN req : /\ req'[i].candidate = req[i].candidate
                             /\ req'[i].parent = req[i].parent
                             /\ i \in Active' => i \in Active
    /\ \A i \in DOMAIN req' \ DOMAIN req : req'[i].candidate = NoRelease

\* No request starts that was not busy.
NothingStarts ==
    \A i \in DOMAIN req' : req'[i].status = "RUNNING" => i \in Busy

LEMMA RequestDomain ==
    ASSUME RequestsOK
    PROVE  /\ Len(req) \in Nat
           /\ DOMAIN req = 1..Len(req)
           /\ \A i \in DOMAIN req : req[i] \in RequestRows
BY LenProperties DEF RequestsOK

LEMMA RequestDomainNext ==
    ASSUME RequestsOK'
    PROVE  /\ Len(req') \in Nat
           /\ DOMAIN req' = 1..Len(req')
           /\ \A i \in DOMAIN req' : req'[i] \in RequestRows
BY LenProperties DEF RequestsOK

LEMMA KeptRequests ==
    ASSUME SyncInv, RequestsKept
    PROVE  RequestsOK' /\ DOMAIN req \subseteq DOMAIN req'
<1>1. RequestsOK'
  BY DEF RequestsKept, RequestsOK
<1>2. RequestsOK
  BY DEF SyncInv
<1>3. DOMAIN req = 1..Len(req) /\ DOMAIN req' = 1..Len(req')
      /\ Len(req) \in Nat /\ Len(req') \in Nat
  BY <1>1, <1>2, RequestDomain, RequestDomainNext
<1> QED
  BY <1>1, <1>3 DEF RequestsKept

LEMMA KeptCandidates ==
    ASSUME SyncInv, RequestsKept, UNCHANGED <<baseline, bundle>>
    PROVE  CandidatesInv'
<1> SUFFICES ASSUME NEW i \in DOMAIN req', req'[i].candidate # NoRelease
             PROVE  Owns(i)'
  BY DEF CandidatesInv
<1>1. i \in DOMAIN req /\ req[i].candidate = req'[i].candidate
      /\ req[i].parent = req'[i].parent /\ (i \in Active' => i \in Active)
  BY DEF RequestsKept
<1>2. Owns(i)
  BY <1>1 DEF SyncInv, CandidatesInv
<1> QED
  BY <1>1, <1>2 DEF Owns, PublishedIs, Published, Members

LEMMA KeptBusy ==
    ASSUME SyncInv, RequestsKept, NothingStarts
    PROVE  OneBusy'
<1>1. \A i \in Busy' : i \in Busy
  <2> TAKE i \in Busy'
  <2>1. i \in DOMAIN req' /\ i \in Active'
    BY DEF Busy, Active
  <2>2. CASE req'[i].status = "RUNNING"
    BY <2>1, <2>2 DEF NothingStarts
  <2>3. CASE req'[i].candidate # NoRelease
    BY <2>1, <2>3 DEF RequestsKept, Busy
  <2> QED
    BY <2>2, <2>3 DEF Busy
<1> QED
  BY <1>1 DEF SyncInv, OneBusy

LEMMA KeptRows ==
    ASSUME SyncInv, UNCHANGED <<baseline, bundle>>
    PROVE  BundlesOK' /\ BundleInv' /\ RowsInv'
BY DEF SyncInv, BundlesOK, BundleInv, RowsInv, BaselineFaithful, Published, Members

\* A step of the queue.
LEMMA QueueStep ==
    ASSUME SyncInv, RequestsKept, UNCHANGED <<baseline, bundle>>,
           HomeOK', PublisherOK', StoreInv', StoredInv', WireInv',
           OneBusy', PublisherInv', ClaimInv'
    PROVE  SyncInv'
BY KeptRequests, KeptCandidates, KeptRows DEF SyncInv

\* The VPS and the commands under way are as they were.
LEMMA RemoteKept ==
    ASSUME SyncInv, UNCHANGED <<bundle, wire, storeVars>>
    PROVE  StoreInv' /\ StoredInv' /\ WireInv'
<1>1. StoreInv'
  BY StoreStep DEF SyncInv
<1> QED
  BY <1>1 DEF SyncInv, StoredInv, WireInv, storeVars

\* A step of the publisher between requests.
LEMMA PublisherStep ==
    ASSUME SyncInv, UNCHANGED <<baseline, bundle, req, wire, storeVars>>,
           HomeOK', PublisherOK', PublisherInv', ClaimInv'
    PROVE  SyncInv'
<1>1. RequestsKept /\ NothingStarts
  <2>1. RequestsOK
    BY DEF SyncInv
  <2>2. DOMAIN req = DOMAIN req' /\ Len(req) = Len(req') /\ Len(req) \in Nat
    BY <2>1, RequestDomain
  <2>3. \A i \in DOMAIN req : req[i].status = "RUNNING" => i \in Busy
    BY DEF Busy, Active, Settled
  <2> QED
    BY <2>1, <2>2, <2>3 DEF RequestsKept, NothingStarts, RequestsOK, Active
<1>2. OneBusy'
  BY <1>1, KeptBusy
<1> QED
  BY <1>1, <1>2, RemoteKept, QueueStep

\* A publisher at rest has nothing in hand.
LEMMA AtRest ==
    ASSUME Rest
    PROVE  PublisherOK' /\ PublisherInv' /\ ClaimInv'
<1>1. pub' = Resting
  BY DEF Rest
<1> QED
  BY <1>1 DEF Resting, PublisherOK, PublisherInv, ClaimInv, Steps, Working, Built

LEMMA FaultType ==
    ASSUME HomeOK, NEW circumstance, Fault(circumstance)
    PROVE  faults' \in Nat
BY DEF HomeOK, Fault

-----------------------------------------------------------------------------
(* What the rest of the system does, and steps that only move the          *)
(* publisher.                                                              *)

LEMMA ChangeTruthInv ==
    ASSUME SyncInv, NEW c \in Companies, ChangeTruth(c)
    PROVE  SyncInv'
<1>1. HomeOK'
  <2>1. \A next \in [run : Nat, version : Nat] :
            [truth EXCEPT ![c] = next] \in [Companies -> [run : Nat, version : Nat]]
    BY DEF SyncInv, HomeOK
  <2>2. truth[c].run \in Nat
    BY DEF SyncInv, HomeOK
  <2>3. truth' \in [Companies -> [run : Nat, version : Nat]]
    BY <2>1, <2>2 DEF ChangeTruth
  <2> QED
    BY <2>3 DEF SyncInv, HomeOK, ChangeTruth
<1> QED
  BY <1>1, PublisherStep
     DEF ChangeTruth, SyncInv, PublisherOK, PublisherInv, ClaimInv, Normal, Active

LEMMA DeployInv ==
    ASSUME SyncInv, Deploy
    PROVE  SyncInv'
<1>1. HomeOK'
  BY DEF Deploy, homeVars, SyncInv, HomeOK
<1> QED
  BY <1>1, PublisherStep
     DEF Deploy, homeVars, SyncInv, PublisherOK, PublisherInv, ClaimInv, Normal, Active

\* The publisher rests, and HOME, VPS and wire are as they were.
LEMMA RestStep ==
    ASSUME SyncInv, Rest, UNCHANGED <<homeVars, wire, sha, changes, storeVars>>,
           faults' \in Nat
    PROVE  SyncInv'
<1>1. HomeOK'
  BY DEF homeVars, SyncInv, HomeOK
<1> QED
  BY <1>1, AtRest, PublisherStep DEF homeVars

LEMMA CycleFailsInv ==
    ASSUME SyncInv, CycleFails
    PROVE  SyncInv'
BY RestStep DEF CycleFails, SyncInv, HomeOK

LEMMA CycleUnavailableInv ==
    ASSUME SyncInv, CycleUnavailable
    PROVE  SyncInv'
BY RestStep, FaultType DEF CycleUnavailable, SyncInv

LEMMA NothingDueInv ==
    ASSUME SyncInv, NothingDue
    PROVE  SyncInv'
BY RestStep DEF NothingDue, SyncInv, HomeOK

LEMMA CrashInv ==
    ASSUME SyncInv, Crash
    PROVE  SyncInv'
<1>1. faults' \in Nat
  BY FaultType DEF Crash, SyncInv
<1> QED
  BY <1>1, RestStep DEF Crash

\* The publisher goes on with its request.
LEMMA AdvanceStep ==
    ASSUME SyncInv, NEW pc \in Steps, Advance(pc),
           UNCHANGED <<homeVars, wire, sha, changes, faults, storeVars>>,
           pc \in Working => pub.pc \in Built /\ pc \in Built,
           pc = "claim" => Normal
    PROVE  SyncInv'
<1>1. HomeOK'
  BY DEF homeVars, SyncInv, HomeOK
<1>2. PublisherOK' /\ pub'.pc = pc /\ pub'.req = pub.req
  BY DEF Advance, SyncInv, PublisherOK
<1>3. PublisherInv'
  BY <1>2 DEF SyncInv, PublisherInv, homeVars, Working, Built
<1>4. ClaimInv'
  BY <1>2 DEF ClaimInv, Normal, Active, homeVars
<1> QED
  BY <1>1, <1>2, <1>3, <1>4, PublisherStep DEF homeVars

LEMMA NothingToRecoverInv ==
    ASSUME SyncInv, NothingToRecover
    PROVE  SyncInv'
BY AdvanceStep DEF NothingToRecover, Steps, Working, Built

LEMMA ActiveFinite ==
    ASSUME RequestsOK
    PROVE  IsFiniteSet(Active) /\ Active \subseteq DOMAIN req
<1>1. DOMAIN req = 1..Len(req) /\ Len(req) \in Nat
  BY RequestDomain
<1>2. IsFiniteSet(1..Len(req))
  BY <1>1, FS_Interval
<1> QED
  BY <1>1, <1>2, FS_Subset DEF Active

\* What the normalization leaves alone is fit to be claimed.
LEMMA NormalizeKeepsInv ==
    ASSUME SyncInv, NormalizeKeeps
    PROVE  SyncInv'
<1>1. Normal
  <2>1. IsFiniteSet(Active)
    BY ActiveFinite DEF SyncInv
  <2>2. Cardinality(Active) \in Nat
    BY <2>1, FS_CardinalityType
  <2>3. CASE Cardinality(Active) <= 1
    BY <2>1, <2>3, AtMostOne DEF Normal
  <2>4. CASE ~(Cardinality(Active) <= 1)
    BY <2>2, <2>4 DEF NormalizeKeeps, Overgrown, Normal
  <2> QED
    BY <2>3, <2>4
<1> QED
  BY <1>1, AdvanceStep DEF NormalizeKeeps, Steps, Working, Built

LEMMA UploadInv ==
    ASSUME SyncInv, Upload
    PROVE  SyncInv'
BY AdvanceStep DEF Upload, Steps, Working, Built

LEMMA AcceptRemotelyInv ==
    ASSUME SyncInv, AcceptRemotely
    PROVE  SyncInv'
BY AdvanceStep DEF AcceptRemotely, Steps, Working, Built

LEMMA VerifyInv ==
    ASSUME SyncInv, Verify
    PROVE  SyncInv'
BY AdvanceStep DEF Verify, Steps, Working, Built

\* The attempt fails after the promotion was attempted.
LEMMA ErrorStep ==
    ASSUME SyncInv, NEW error \in {"fatal", "transient"}, Fails(error),
           pub.pc \in Built,
           UNCHANGED <<homeVars, sha, changes>>, faults' \in Nat,
           StoreInv', StoredInv', WireInv'
    PROVE  SyncInv'
<1>1. HomeOK'
  BY DEF homeVars, SyncInv, HomeOK
<1>2. PublisherOK' /\ pub'.pc = "error" /\ pub'.req = pub.req
  BY DEF Fails, SyncInv, PublisherOK, Steps, Working, Built
<1>3. PublisherInv' /\ ClaimInv'
  BY <1>2 DEF SyncInv, PublisherInv, ClaimInv, homeVars, Working, Built
<1>4. RequestsKept /\ NothingStarts
  <2>1. RequestsOK
    BY DEF SyncInv
  <2>2. DOMAIN req = DOMAIN req' /\ Len(req) = Len(req') /\ Len(req) \in Nat
    BY <2>1, RequestDomain DEF homeVars
  <2> QED
    BY <2>1, <2>2
       DEF RequestsKept, NothingStarts, RequestsOK, Busy, Active, Settled, homeVars
<1>5. OneBusy'
  BY <1>4, KeptBusy
<1> QED
  BY <1>1, <1>2, <1>3, <1>4, <1>5, QueueStep DEF homeVars

LEMMA VerifyFailsInv ==
    ASSUME SyncInv, VerifyFails
    PROVE  SyncInv'
<1>1. faults' \in Nat
  BY FaultType DEF VerifyFails, SyncInv, HomeOK
<1>2. StoreInv' /\ StoredInv' /\ WireInv'
  BY RemoteKept DEF VerifyFails, homeVars
<1> QED
  BY <1>1, <1>2, ErrorStep DEF VerifyFails, Built

LEMMA PersistFailsInv ==
    ASSUME SyncInv, PersistFails
    PROVE  SyncInv'
<1>1. faults' \in Nat
  BY FaultType DEF PersistFails, SyncInv
<1>2. StoreInv' /\ StoredInv' /\ WireInv'
  BY RemoteKept DEF PersistFails, homeVars
<1> QED
  BY <1>1, <1>2, ErrorStep DEF PersistFails, Built

-----------------------------------------------------------------------------
(* Remote commands.                                                        *)

LEMMA BundleFacts ==
    ASSUME BundlesOK, BundleInv
    PROVE  /\ Len(bundle) \in 1..NumReleases
           /\ DOMAIN bundle = 1..Len(bundle)
           /\ \A r \in DOMAIN bundle : /\ bundle[r] \in Bundles
                                       /\ bundle[r].parent \in 0..(r - 1)
                                       /\ r # 1 => bundle[r].parent \in DOMAIN bundle
<1> USE ReleaseAssumption DEF NoRelease
<1>1. /\ Len(bundle) \in 1..NumReleases
      /\ DOMAIN bundle = 1..Len(bundle)
      /\ \A r \in DOMAIN bundle : bundle[r] \in Bundles
  BY LenProperties, ElementOfSeq DEF BundlesOK, BundleInv
<1>2. \A r \in DOMAIN bundle : bundle[r].parent \in 0..NumReleases
  BY <1>1 DEF Bundles
<1>3. \A r \in DOMAIN bundle : bundle[r].parent \in 0..(r - 1)
  BY <1>1, <1>2 DEF BundleInv
<1>4. \A r \in DOMAIN bundle : r # 1 => bundle[r].parent \in DOMAIN bundle
  BY <1>1, <1>3 DEF BundleInv
<1> QED
  BY <1>1, <1>3, <1>4

\* Whatever becomes of a command, the VPS makes a step of the release store.
LEMMA EffectKeeps ==
    ASSUME SyncInv, NEW command \in Commands, command.release \in DOMAIN bundle,
           Effect(command), UNCHANGED bundle
    PROVE  [StoreNext]_storeVars /\ StoreInv' /\ StoredInv'
<1> DEFINE r == command.release
<1> USE ReleaseAssumption DEF Releases, NoRelease
<1>1. r \in Releases /\ bundle[r].parent \in 0..(r - 1)
  BY BundleFacts DEF SyncInv, Commands
<1> store \in [Releases -> [status : ReleaseStatus, parent : 0..NumReleases]]
  BY DEF SyncInv, StoreInv, StoreTypeOK
<1>2. CASE UNCHANGED storeVars
  <2>1. StoreInv'
    BY <1>2, StoreStep DEF SyncInv
  <2> QED
    BY <1>2, <2>1 DEF SyncInv, StoredInv, storeVars
<1>3. CASE Stage(r, bundle[r].parent)
  <2>1. StoreNext
    BY <1>1, <1>3 DEF StoreNext
  <2>2. StoreInv'
    BY <2>1, StoreStep DEF SyncInv
  <2>3. StoredInv'
    BY <1>1, <1>3 DEF Stage, SyncInv, StoredInv
  <2> QED
    BY <2>1, <2>2, <2>3
<1>4. CASE Promote(r)
  <2>1. StoreNext
    BY <1>1, <1>4 DEF StoreNext
  <2>2. StoreInv'
    BY <2>1, StoreStep DEF SyncInv
  <2>3. pointer' = r /\ store[r].status = "staged" /\ store[pointer].status = "active"
    BY <1>1, <1>4 DEF Promote, Promotable, SyncInv, StoreInv, PointerNamesActive,
       StoreTypeOK, StoredInv, BundleInv
  <2>4. \A s \in Releases : /\ store'[s].parent = store[s].parent
                            /\ store'[s].status # "absent" => store[s].status # "absent"
    BY <1>4, <2>3 DEF Promote
  <2>5. StoredInv'
    BY <2>3, <2>4 DEF SyncInv, StoredInv
  <2> QED
    BY <2>1, <2>2, <2>5
<1>5. CASE Rollback(r)
  <2>1. StoreNext
    BY <1>1, <1>5 DEF StoreNext
  <2>2. StoreInv'
    BY <2>1, StoreStep DEF SyncInv
  <2>3. pointer' = r /\ store[r].status = "staged" /\ store[pointer].status = "active"
    BY <1>1, <1>5, RollbackTarget DEF Rollback, SyncInv, StoreInv, PointerNamesActive
  <2>4. \A s \in Releases : /\ store'[s].parent = store[s].parent
                            /\ store'[s].status # "absent" => store[s].status # "absent"
    BY <1>5, <2>3 DEF Rollback
  <2>5. StoredInv'
    BY <2>3, <2>4 DEF SyncInv, StoredInv
  <2> QED
    BY <2>1, <2>2, <2>5
<1>6. command.kind \in {"stage", "promote", "rollback"}
  BY DEF Commands
<1> QED
  BY <1>2, <1>3, <1>4, <1>5, <1>6 DEF Effect

\* The commands of the request in hand name bundles that were built.
LEMMA CommandFacts ==
    ASSUME SyncInv, pub.pc \in Built
    PROVE  /\ {StageCommand, PromoteCommand, RollbackCommand} \subseteq Commands
           /\ Candidate \in DOMAIN bundle
           /\ req[pub.req].parent \in DOMAIN bundle
<1> USE ReleaseAssumption DEF NoRelease
<1>1. pub.req \in DOMAIN req /\ req[pub.req].candidate # NoRelease
  BY DEF SyncInv, PublisherInv, Working, Built
<1>2. Owns(pub.req)
  BY <1>1 DEF SyncInv, CandidatesInv
<1>3. /\ Candidate \in DOMAIN bundle \ {1}
      /\ req[pub.req].parent = bundle[Candidate].parent
  BY <1>2 DEF Owns, Candidate
<1>4. req[pub.req].parent \in DOMAIN bundle
  BY <1>3, BundleFacts DEF SyncInv
<1>5. Candidate \in 1..NumReleases /\ req[pub.req].parent \in 1..NumReleases
  BY <1>3, <1>4, BundleFacts DEF SyncInv
<1> QED
  BY <1>3, <1>4, <1>5 DEF StageCommand, PromoteCommand, RollbackCommand, Commands

LEMMA CommandEffects ==
    ASSUME SyncInv, pub.pc \in Built, UNCHANGED bundle,
           NEW command \in {StageCommand, PromoteCommand, RollbackCommand}
    PROVE  /\ Effect(command) => [StoreNext]_storeVars /\ StoreInv' /\ StoredInv'
           /\ wire' = wire => WireInv'
           /\ wire' = wire \cup {command} => WireInv'
<1>1. command \in Commands /\ command.release \in DOMAIN bundle
  BY CommandFacts DEF StageCommand, PromoteCommand, RollbackCommand
<1> QED
  BY <1>1, EffectKeeps DEF SyncInv, WireInv

\* A command of the request in hand has its effect and the publisher goes on.
LEMMA CommandStep ==
    ASSUME SyncInv, pub.pc \in Built,
           NEW command \in {StageCommand, PromoteCommand}, Effect(command),
           NEW pc \in Built, Advance(pc),
           UNCHANGED <<homeVars, wire, sha, changes, faults>>
    PROVE  SyncInv'
<1>1. HomeOK'
  BY DEF homeVars, SyncInv, HomeOK
<1>2. PublisherOK' /\ pub'.pc = pc /\ pub'.req = pub.req
  BY DEF Advance, SyncInv, PublisherOK, Steps, Working
<1>3. PublisherInv' /\ ClaimInv'
  BY <1>2 DEF SyncInv, PublisherInv, ClaimInv, homeVars, Working, Built
<1>4. RequestsKept /\ NothingStarts
  <2>1. RequestsOK
    BY DEF SyncInv
  <2>2. DOMAIN req = DOMAIN req' /\ Len(req) = Len(req') /\ Len(req) \in Nat
    BY <2>1, RequestDomain DEF homeVars
  <2> QED
    BY <2>1, <2>2
       DEF RequestsKept, NothingStarts, RequestsOK, Busy, Active, Settled, homeVars
<1>5. OneBusy'
  BY <1>4, KeptBusy
<1>6. StoreInv' /\ StoredInv' /\ WireInv'
  BY CommandEffects DEF homeVars
<1> QED
  BY <1>1, <1>2, <1>3, <1>4, <1>5, <1>6, QueueStep DEF homeVars

LEMMA StageRemotelyInv ==
    ASSUME SyncInv, StageRemotely
    PROVE  SyncInv'
BY CommandStep DEF StageRemotely, Built

LEMMA PromoteRemotelyInv ==
    ASSUME SyncInv, PromoteRemotely
    PROVE  SyncInv'
BY CommandStep DEF PromoteRemotely, Built

LEMMA PromotionFailsInv ==
    ASSUME SyncInv, PromotionFails
    PROVE  SyncInv'
<1>1. pub.pc \in Built /\ UNCHANGED bundle
  BY DEF PromotionFails, Built, homeVars
<1>2. faults' \in Nat
  BY FaultType DEF PromotionFails, SyncInv, HomeOK
<1>3. StoreInv' /\ StoredInv' /\ WireInv'
  <2>1. CASE UNCHANGED <<wire, storeVars>>
    BY <1>1, <2>1, RemoteKept
  <2>2. CASE Effect(PromoteCommand) /\ UNCHANGED wire
    BY <1>1, <2>2, CommandEffects
  <2>3. CASE wire' = wire \cup {PromoteCommand} /\ UNCHANGED storeVars
    <3>1. WireInv'
      BY <1>1, <2>3, CommandEffects
    <3>2. StoreInv'
      BY <2>3, StoreStep DEF SyncInv
    <3> QED
      BY <1>1, <2>3, <3>1, <3>2 DEF SyncInv, StoredInv, storeVars
  <2> QED
    BY <2>1, <2>2, <2>3 DEF PromotionFails
<1> QED
  BY <1>1, <1>2, <1>3, ErrorStep DEF PromotionFails

LEMMA StraggleInv ==
    ASSUME SyncInv, NEW command \in wire, Straggle(command)
    PROVE  SyncInv'
<1>1. command \in Commands /\ command.release \in DOMAIN bundle /\ UNCHANGED bundle
  BY DEF SyncInv, WireInv, Straggle, homeVars
<1>2. StoreInv' /\ StoredInv'
  <2>1. CASE Effect(command)
    BY <1>1, <2>1, EffectKeeps
  <2>2. CASE UNCHANGED storeVars
    <3>1. StoreInv'
      BY <2>2, StoreStep DEF SyncInv
    <3> QED
      BY <1>1, <2>2, <3>1 DEF SyncInv, StoredInv, storeVars
  <2> QED
    BY <2>1, <2>2 DEF Straggle
<1>3. WireInv'
  BY <1>1 DEF SyncInv, WireInv, Straggle
<1>4. RequestsKept /\ NothingStarts
  <2>1. RequestsOK
    BY DEF SyncInv
  <2>2. DOMAIN req = DOMAIN req' /\ Len(req) = Len(req') /\ Len(req) \in Nat
    BY <2>1, RequestDomain DEF Straggle, homeVars
  <2> QED
    BY <2>1, <2>2 DEF RequestsKept, NothingStarts, RequestsOK, Busy, Active, Settled,
       Straggle, homeVars
<1>5. OneBusy'
  BY <1>4, KeptBusy
<1>6. HomeOK' /\ PublisherOK' /\ PublisherInv' /\ ClaimInv'
  BY DEF Straggle, homeVars, SyncInv, HomeOK, PublisherOK, PublisherInv, ClaimInv,
     Normal, Active
<1> QED
  BY <1>2, <1>3, <1>4, <1>5, <1>6, QueueStep DEF Straggle, homeVars

-----------------------------------------------------------------------------
(* Steps that change the statuses of requests.                             *)

\* Requests are given a status that is not RUNNING; the settled ones keep a
\* settled one.
LEMMA MarkedRequests ==
    ASSUME SyncInv, NEW I, NEW status \in Statuses \ {"RUNNING"},
           req' = Mark(req, I, status),
           status \in Settled \/ I \cap DOMAIN req \subseteq Active
    PROVE  RequestsKept /\ NothingStarts
<1>1. RequestsOK
  BY DEF SyncInv
<1>2. /\ Len(req) \in Nat /\ DOMAIN req = 1..Len(req)
      /\ req' \in Seq(RequestRows) /\ Len(req') = Len(req)
      /\ DOMAIN req' = 1..Len(req)
      /\ \A i \in DOMAIN req :
            /\ req'[i].status = IF i \in I THEN status ELSE req[i].status
            /\ req'[i].candidate = req[i].candidate
            /\ req'[i].parent = req[i].parent
  BY <1>1, RequestDomain, MarkFacts, LenProperties DEF RequestsOK
<1>3. \A i \in DOMAIN req : i \in Active' => i \in Active
  BY <1>2 DEF Active
<1>4. RequestsKept
  BY <1>2, <1>3 DEF RequestsKept
<1>5. NothingStarts
  BY <1>2 DEF NothingStarts, Busy, Active, Settled
<1> QED
  BY <1>4, <1>5

\* The attempt ends.
LEMMA EndStep ==
    ASSUME SyncInv, pub.pc \in Working,
           NEW status \in {"SUPERSEDED", "FAILED", "RETRY_SCHEDULED"},
           SetStatus(status), Rest,
           UNCHANGED <<truth, baseline, seen, bundle, sha, changes>>,
           faults' \in Nat, StoreInv', StoredInv', WireInv'
    PROVE  SyncInv'
<1>1. pub.req \in Active
  BY DEF SyncInv, PublisherInv, Active, Settled
<1>2. RequestsKept /\ NothingStarts
  BY <1>1, MarkedRequests DEF SetStatus, Statuses, Settled
<1>3. OneBusy'
  BY <1>2, KeptBusy
<1>4. HomeOK'
  BY DEF SyncInv, HomeOK
<1> QED
  BY <1>2, <1>3, <1>4, AtRest, QueueStep

LEMMA BuildFindsNoChangeInv ==
    ASSUME SyncInv, BuildFindsNoChange
    PROVE  SyncInv'
<1>1. pub.pc \in Working /\ faults' \in Nat
  BY DEF BuildFindsNoChange, Working, SyncInv, HomeOK
<1>2. StoreInv' /\ StoredInv' /\ WireInv'
  BY RemoteKept DEF BuildFindsNoChange
<1> QED
  BY <1>1, <1>2, EndStep DEF BuildFindsNoChange

LEMMA BuildFailsInv ==
    ASSUME SyncInv, BuildFails
    PROVE  SyncInv'
<1>1. pub.pc \in Working /\ faults' \in Nat
  BY DEF BuildFails, Working, SyncInv, HomeOK
<1>2. StoreInv' /\ StoredInv' /\ WireInv'
  BY RemoteKept DEF BuildFails
<1> QED
  BY <1>1, <1>2, EndStep DEF BuildFails

\* A command of the request in hand that HOME gives up.
LEMMA GivenUp ==
    ASSUME SyncInv, pub.pc \in Built, UNCHANGED bundle,
           NEW command \in {StageCommand, PromoteCommand, RollbackCommand},
           \/ UNCHANGED <<wire, storeVars>>
           \/ Effect(command) /\ UNCHANGED wire
           \/ wire' = wire \cup {command} /\ UNCHANGED storeVars
    PROVE  StoreInv' /\ StoredInv' /\ WireInv'
<1>1. CASE UNCHANGED <<wire, storeVars>>
  BY <1>1, RemoteKept
<1>2. CASE Effect(command) /\ UNCHANGED wire
  BY <1>2, CommandEffects
<1>3. CASE wire' = wire \cup {command} /\ UNCHANGED storeVars
  <2>1. WireInv'
    BY <1>3, CommandEffects
  <2>2. StoreInv'
    BY <1>3, StoreStep DEF SyncInv
  <2> QED
    BY <1>3, <2>1, <2>2 DEF SyncInv, StoredInv, storeVars
<1> QED
  BY <1>1, <1>2, <1>3

LEMMA InterruptedInv ==
    ASSUME SyncInv, Interrupted
    PROVE  SyncInv'
<1>1. pub.pc \in Working /\ UNCHANGED bundle
  BY DEF Interrupted, GiveUp, Working, Built
<1>2. faults' \in Nat
  BY FaultType DEF Interrupted, SyncInv
<1>3. StoreInv' /\ StoredInv' /\ WireInv'
  <2>1. CASE UNCHANGED <<wire, storeVars>>
    BY <1>1, <2>1, RemoteKept
  <2>2. CASE ~ UNCHANGED <<wire, storeVars>>
    <3>1. pub.pc \in Built
      BY <2>2 DEF Interrupted, Built
    <3> QED
      BY <1>1, <2>2, <3>1, GivenUp DEF Interrupted
  <2> QED
    BY <2>1, <2>2
<1> QED
  BY <1>1, <1>2, <1>3, EndStep DEF Interrupted, GiveUp

LEMMA RefusedInv ==
    ASSUME SyncInv, Refused
    PROVE  SyncInv'
<1>1. pub.pc \in Working
  BY DEF Refused, Working, Built
<1>2. faults' \in Nat
  BY FaultType DEF Refused, SyncInv, HomeOK
<1>3. StoreInv' /\ StoredInv' /\ WireInv'
  BY RemoteKept DEF Refused, GiveUp
<1> QED
  BY <1>1, <1>2, <1>3, EndStep DEF Refused, GiveUp

LEMMA HandleErrorInv ==
    ASSUME SyncInv, HandleError
    PROVE  SyncInv'
<1>1. PICK answered \in BOOLEAN :
          /\ IF answered THEN UNCHANGED faults ELSE Fault("network")
          /\ RetryOrFail(answered) \/ RollBack(answered)
  BY DEF HandleError
<1>2. pub.pc \in Working /\ pub.pc \in Built
  BY DEF HandleError, Working, Built
<1>3. faults' \in Nat
  BY <1>1, FaultType DEF SyncInv, HomeOK
<1>4. StoreInv' /\ StoredInv' /\ WireInv'
  <2>1. UNCHANGED bundle
    BY DEF HandleError
  <2>2. CASE RetryOrFail(answered)
    BY <1>2, <2>1, <2>2, RemoteKept DEF RetryOrFail
  <2>3. CASE RollBack(answered)
    BY <1>2, <2>1, <2>3, GivenUp DEF RollBack
  <2> QED
    BY <1>1, <2>2, <2>3
<1>5. \E status \in {"FAILED", "RETRY_SCHEDULED"} : SetStatus(status)
  BY <1>1 DEF RetryOrFail, RollBack
<1> QED
  BY <1>2, <1>3, <1>4, <1>5, EndStep DEF HandleError

-----------------------------------------------------------------------------
(* Steps that rebuild the queue or take a request from it.                 *)

\* Everything active gives way to one fresh request.
LEMMA Replaced ==
    ASSUME SyncInv, NEW status \in {"PENDING", "RUNNING"},
           req' = Append(Mark(req, Active, "SUPERSEDED"),
                         Request([kind |-> "rebase"], status, 0))
    PROVE  /\ RequestsKept /\ OneBusy'
           /\ Len(req) + 1 \in DOMAIN req'
           /\ req'[Len(req) + 1].status = status
           /\ req'[Len(req) + 1].candidate = NoRelease
<1> DEFINE last == Len(req) + 1
           new == Request([kind |-> "rebase"], status, 0)
           old == Mark(req, Active, "SUPERSEDED")
<1>1. RequestsOK /\ Len(req) \in Nat /\ DOMAIN req = 1..Len(req)
  BY RequestDomain DEF SyncInv
<1>2. new \in RequestRows /\ new.status = status /\ new.candidate = NoRelease
  <2>1. new \in RequestRows
    BY RequestType, RebaseKey DEF SyncInv, Statuses
  <2> QED
    BY <2>1 DEF Request
<1>3. /\ old \in Seq(RequestRows) /\ Len(old) = Len(req)
      /\ \A i \in 1..Len(req) :
            /\ old[i].status = IF i \in Active THEN "SUPERSEDED" ELSE req[i].status
            /\ old[i].candidate = req[i].candidate
            /\ old[i].parent = req[i].parent
  BY <1>1, MarkFacts DEF RequestsOK, Statuses, Settled
<1> HIDE DEF new, old
<1>4. /\ req' \in Seq(RequestRows) /\ Len(req') = last
      /\ \A i \in 1..Len(req) : req'[i] = old[i]
      /\ req'[last] = new
      /\ DOMAIN req' = 1..last
  <2>1. req' = Append(old, new)
    BY DEF old, new
  <2>2. Len(old) + 1 = last /\ old \in Seq(RequestRows) /\ new \in RequestRows
    BY <1>2, <1>3
  <2>3. /\ Append(old, new) \in Seq(RequestRows) /\ Len(Append(old, new)) = Len(old) + 1
        /\ \A i \in 1..Len(old) : Append(old, new)[i] = old[i]
        /\ Append(old, new)[Len(old) + 1] = new
    BY <2>2, AppendProperties
  <2>4. req' \in Seq(RequestRows) /\ Len(req') = last
    BY <2>1, <2>2, <2>3
  <2>5. DOMAIN req' = 1..last
    BY <2>4, LenProperties
  <2> QED
    BY <1>3, <2>1, <2>2, <2>3, <2>4, <2>5
<1>5. ASSUME NEW i \in 1..Len(req) PROVE i \notin Active'
  <2>1. req'[i].status = IF i \in Active THEN "SUPERSEDED" ELSE req[i].status
    BY <1>3, <1>4
  <2>2. i \notin Active => req[i].status \in Settled
    BY <1>1 DEF Active
  <2>3. req'[i].status \in Settled
    BY <2>1, <2>2 DEF Settled
  <2> QED
    BY <2>3 DEF Active
<1>6. RequestsKept
  BY <1>1, <1>2, <1>3, <1>4, <1>5 DEF RequestsKept
<1>7. OneBusy'
  <2>1. Busy' \subseteq Active'
    BY DEF Busy, Active, Settled
  <2>2. Active' \subseteq 1..last
    BY <1>4 DEF Active
  <2>3. \A i \in 1..last : i = last \/ i \in 1..Len(req)
    BY <1>1
  <2>4. \A i \in Active' : i = last
    BY <1>5, <2>2, <2>3
  <2> QED
    BY <2>1, <2>4 DEF OneBusy
<1> QED
  BY <1>1, <1>2, <1>4, <1>6, <1>7

\* The same with Active' nothing but superseded requests.
LEMMA Superseded ==
    ASSUME SyncInv, req' = Mark(req, Active, "SUPERSEDED")
    PROVE  RequestsKept /\ OneBusy'
<1>1. RequestsKept /\ NothingStarts
  BY MarkedRequests DEF Statuses, Settled
<1> QED
  BY <1>1, KeptBusy

LEMMA CollapseFacts ==
    ASSUME SyncInv, Collapse
    PROVE  /\ RequestsKept /\ OneBusy'
           /\ Dirty # {} => /\ Len(req) + 1 \in DOMAIN req'
                            /\ req'[Len(req) + 1].status = "RUNNING"
                            /\ req'[Len(req) + 1].candidate = NoRelease
<1>1. CASE Dirty = {}
  BY <1>1, Superseded DEF Collapse
<1>2. CASE Dirty # {}
  BY <1>2, Replaced DEF Collapse
<1> QED
  BY <1>1, <1>2

LEMMA NormalizeRebuildsInv ==
    ASSUME SyncInv, NormalizeRebuilds
    PROVE  SyncInv'
<1>1. HomeOK'
  BY DEF NormalizeRebuilds, SyncInv, HomeOK
<1>2. StoreInv' /\ StoredInv' /\ WireInv'
  BY RemoteKept DEF NormalizeRebuilds
<1>3. RequestsKept /\ OneBusy'
  BY CollapseFacts DEF NormalizeRebuilds
<1>4. PublisherOK' /\ PublisherInv' /\ ClaimInv'
  <2>1. CASE Dirty = {}
    BY <2>1, AtRest DEF NormalizeRebuilds, Rest
  <2>2. CASE Dirty # {}
    <3>1. Len(req) + 1 \in Nat
      BY RequestDomain DEF SyncInv
    <3>2. PublisherOK' /\ pub'.pc = "build" /\ pub'.req = Len(req) + 1
      BY <2>2, <3>1 DEF NormalizeRebuilds, SyncInv, PublisherOK, Steps, Working
    <3> QED
      BY <2>2, <3>2, CollapseFacts
         DEF NormalizeRebuilds, PublisherInv, ClaimInv, Working, Built
  <2> QED
    BY <2>1, <2>2
<1> QED
  BY <1>1, <1>2, <1>3, <1>4, QueueStep DEF NormalizeRebuilds

LEMMA RebaseInv ==
    ASSUME SyncInv, Rebase
    PROVE  SyncInv'
<1>1. faults' \in Nat
  BY FaultType DEF Rebase, SyncInv, HomeOK
<1>2. CASE UNCHANGED req
  BY <1>1, <1>2, RestStep DEF Rebase, homeVars
<1>3. CASE Collapse
  <2>1. HomeOK'
    BY <1>1 DEF Rebase, SyncInv, HomeOK
  <2>2. StoreInv' /\ StoredInv' /\ WireInv'
    BY RemoteKept DEF Rebase
  <2> QED
    BY <1>3, <2>1, <2>2, CollapseFacts, AtRest, QueueStep DEF Rebase
<1> QED
  BY <1>2, <1>3 DEF Rebase

LEMMA CleanupInv ==
    ASSUME SyncInv, Cleanup
    PROVE  SyncInv'
<1>1. HomeOK' /\ faults' \in Nat
  BY DEF Cleanup, SyncInv, HomeOK
<1>2. CASE UNCHANGED req
  BY <1>1, <1>2, RestStep DEF Cleanup, homeVars
<1>3. CASE ~ UNCHANGED req
  <2>1. StoreInv' /\ StoredInv' /\ WireInv'
    BY RemoteKept DEF Cleanup
  <2>2. RequestsKept /\ OneBusy'
    <3>1. CASE Dirty = {}
      BY <1>3, <3>1, Superseded DEF Cleanup
    <3>2. CASE Dirty # {}
      BY <1>3, <3>2, Replaced DEF Cleanup
    <3> QED
      BY <3>1, <3>2
  <2> QED
    BY <1>1, <2>1, <2>2, AtRest, QueueStep DEF Cleanup
<1> QED
  BY <1>2, <1>3

LEMMA RecoverFailedInv ==
    ASSUME SyncInv, RecoverFailed
    PROVE  SyncInv'
<1>1. PICK i \in Recoverable :
          req' = Append(req, Request([kind |-> "rebase"], "PENDING", i))
  BY DEF RecoverFailed
<1> DEFINE last == Len(req) + 1
           new == Request([kind |-> "rebase"], "PENDING", i)
<1>2. RequestsOK /\ Len(req) \in Nat /\ DOMAIN req = 1..Len(req)
  BY RequestDomain DEF SyncInv
<1>3. i \in Nat /\ Active = {}
  <2> DEFINE failed == {k \in DOMAIN req : req[k].status = "FAILED"}
  <2>1. Active = {} /\ failed # {} /\ i = Max(failed)
    BY DEF Recoverable
  <2>2. Max(failed) \in failed
    BY <1>2, <2>1, GreatestElement
  <2> QED
    BY <1>2, <2>1, <2>2
<1>4. new \in RequestRows /\ new.status = "PENDING" /\ new.candidate = NoRelease
  <2>1. new \in RequestRows
    BY <1>3, RequestType, RebaseKey DEF SyncInv, Statuses
  <2> QED
    BY <2>1 DEF Request
<1> HIDE DEF new
<1>5. /\ req' \in Seq(RequestRows) /\ Len(req') = last /\ DOMAIN req' = 1..last
      /\ \A k \in 1..Len(req) : req'[k] = req[k]
      /\ req'[last] = new
  <2>1. req' = Append(req, new) /\ req \in Seq(RequestRows)
    BY <1>1, <1>2 DEF new, RequestsOK
  <2>2. req' \in Seq(RequestRows)
    BY <1>4, <2>1, AppendProperties
  <2> QED
    BY <1>4, <2>1, <2>2, AppendProperties, LenProperties
<1>6. Active' \subseteq {last}
  BY <1>2, <1>3, <1>5 DEF Active
<1>7. RequestsKept
  BY <1>2, <1>3, <1>4, <1>5, <1>6 DEF RequestsKept, Active
<1>8. OneBusy' /\ Normal'
  BY <1>6 DEF OneBusy, Busy, Normal
<1>9. PublisherOK' /\ PublisherInv' /\ ClaimInv'
  BY <1>8 DEF RecoverFailed, Advance, SyncInv, PublisherOK, PublisherInv, ClaimInv,
     Steps, Working, Built
<1>10. HomeOK'
  BY DEF RecoverFailed, SyncInv, HomeOK
<1>11. StoreInv' /\ StoredInv' /\ WireInv'
  BY RemoteKept DEF RecoverFailed
<1> QED
  BY <1>7, <1>8, <1>9, <1>10, <1>11, QueueStep DEF RecoverFailed

\* One request starts and no other active one is busy.
LEMMA ClaimedStep ==
    ASSUME SyncInv, Claim, NEW i \in Active, NEW rows \in Seq(RequestRows),
           Claimed(i, rows), Len(rows) = Len(req),
           \A k \in DOMAIN req : /\ rows[k].candidate = req[k].candidate
                                 /\ rows[k].parent = req[k].parent
                                 /\ rows[k].status \in Settled \/ k = i
                                 /\ rows[k].status = req[k].status \/ k \in Active
    PROVE  SyncInv'
<1>1. RequestsOK /\ Len(req) \in Nat /\ DOMAIN req = 1..Len(req) /\ i \in DOMAIN req
  BY RequestDomain DEF SyncInv, Active
<1>2. /\ req' \in Seq(RequestRows) /\ Len(req') = Len(req) /\ DOMAIN req' = DOMAIN req
      /\ \A k \in DOMAIN req :
            /\ req'[k].status = IF k = i THEN "RUNNING" ELSE rows[k].status
            /\ req'[k].candidate = req[k].candidate
            /\ req'[k].parent = req[k].parent
  <2>1. req' = Mark(rows, {i}, "RUNNING")
    BY DEF Claimed
  <2>2. "RUNNING" \in Statuses
    BY DEF Statuses
  <2>3. /\ req' \in Seq(RequestRows) /\ Len(req') = Len(req)
        /\ \A k \in 1..Len(req) :
              /\ req'[k].status = IF k \in {i} THEN "RUNNING" ELSE rows[k].status
              /\ req'[k].candidate = rows[k].candidate
              /\ req'[k].parent = rows[k].parent
    BY <1>1, <2>1, <2>2, MarkFacts
  <2>4. DOMAIN req' = 1..Len(req)
    BY <2>3, LenProperties
  <2> QED
    BY <1>1, <2>3, <2>4
<1>3. Active' \subseteq {i}
  BY <1>1, <1>2 DEF Active
<1>4. RequestsKept
  BY <1>1, <1>2, <1>3 DEF RequestsKept
<1>5. OneBusy'
  BY <1>3 DEF OneBusy, Busy
<1>6. PublisherOK' /\ PublisherInv' /\ ClaimInv'
  <2> DEFINE pc == IF req[i].candidate = NoRelease THEN "build" ELSE "upload"
  <2>1. i \in Nat /\ pc \in Steps
    BY <1>1 DEF Steps, Working, Built
  <2>2. pub' = [pub EXCEPT !.req = i, !.pc = pc]
    BY DEF Claimed
  <2>3. pub'.pc = pc /\ pub'.req = i /\ PublisherOK'
    BY <2>1, <2>2 DEF SyncInv, PublisherOK
  <2> QED
    BY <1>1, <1>2, <2>3 DEF PublisherInv, ClaimInv, Working, Built
<1>7. HomeOK'
  BY DEF Claim, SyncInv, HomeOK
<1>8. StoreInv' /\ StoredInv' /\ WireInv'
  BY RemoteKept DEF Claim
<1> QED
  BY <1>4, <1>5, <1>6, <1>7, <1>8, QueueStep DEF Claim

LEMMA ClaimInvariant ==
    ASSUME SyncInv, Claim
    PROVE  SyncInv'
<1> DEFINE pending == {i \in Active : req[i].status = "PENDING"}
<1>1. Normal /\ RequestsOK
  BY DEF SyncInv, ClaimInv, Claim
<1>2. Len(req) \in Nat /\ DOMAIN req = 1..Len(req)
  BY <1>1, RequestDomain
<1>3. ASSUME NEW i \in Active, req[i].status = "RETRY_SCHEDULED", Claimed(i, req)
      PROVE  SyncInv'
  <2>1. \A k \in Active : k = i
    BY <1>1, <1>3 DEF Normal
  <2>2. \A k \in DOMAIN req : req[k].status \in Settled \/ k = i
    BY <2>1 DEF Active
  <2> QED
    BY <1>1, <1>3, <2>2, ClaimedStep DEF RequestsOK
<1>4. ASSUME pending # {}, Claimed(Min(pending), Mark(req, pending, "COALESCED"))
      PROVE  SyncInv'
  <2> DEFINE m == Min(pending)
             rows == Mark(req, pending, "COALESCED")
  <2>1. pending \in SUBSET Nat
    BY <1>2 DEF Active
  <2>2. m \in pending
    BY <1>4, <2>1, LeastElement
  <2>3. "COALESCED" \in Statuses /\ "COALESCED" \in Settled
    BY DEF Statuses, Settled
  <2>4. /\ rows \in Seq(RequestRows) /\ Len(rows) = Len(req)
        /\ \A k \in 1..Len(req) :
              /\ rows[k].status = IF k \in pending THEN "COALESCED" ELSE req[k].status
              /\ rows[k].candidate = req[k].candidate
              /\ rows[k].parent = req[k].parent
    BY <1>1, <2>3, MarkFacts DEF RequestsOK
  <2> HIDE DEF m, rows
  <2>5. \A k \in DOMAIN req : rows[k].status \in Settled \/ k = m
    BY <1>1, <1>2, <2>2, <2>3, <2>4 DEF Normal, Active
  <2>6. \A k \in DOMAIN req : /\ rows[k].candidate = req[k].candidate
                              /\ rows[k].parent = req[k].parent
                              /\ rows[k].status = req[k].status \/ k \in Active
    BY <1>2, <2>4
  <2>7. Claimed(m, rows) /\ m \in Active
    BY <1>4, <2>2 DEF m, rows
  <2> QED
    BY <2>4, <2>5, <2>6, <2>7, ClaimedStep
<1> QED
  BY <1>3, <1>4 DEF Claim

\* What the scan records.
LEMMA TriggerKeys == ASSUME HomeOK, NEW c \in Companies PROVE TriggerKey(c) \in Keys
<1>1. RunKey(c) \in Keys
  BY DEF HomeOK, RunKey, Keys
<1>2. BaselineRelease \in Nat
  <2> DEFINE releases == {baseline[k].release : k \in Companies}
  <2>1. releases # {} /\ releases \subseteq Nat
    BY SyncAssumption DEF HomeOK, Rows
  <2>2. (CHOOSE r \in releases : TRUE) \in Nat
    BY <2>1
  <2> QED
    BY <2>2 DEF BaselineRelease, NoRelease
<1>3. WithdrawalKey(c) \in Keys
  BY <1>2 DEF WithdrawalKey, Keys
<1> QED
  BY <1>1, <1>3 DEF TriggerKey

LEMMA RecoverAndScanInv ==
    ASSUME SyncInv, RecoverAndScan
    PROVE  SyncInv'
<1> DEFINE work == SetToSeq(Unscanned \cap Dirty)
           old == Recovered(req)
           fresh == [k \in DOMAIN work |-> Request(TriggerKey(work[k]), "PENDING", 0)]
<1>1. RequestsOK /\ Len(req) \in Nat /\ DOMAIN req = 1..Len(req)
  BY RequestDomain DEF SyncInv
<1>2. /\ old \in Seq(RequestRows) /\ Len(old) = Len(req)
      /\ \A i \in DOMAIN req :
            /\ old[i].status = IF req[i].status = "RUNNING" THEN "RETRY_SCHEDULED"
                               ELSE req[i].status
            /\ old[i].candidate = req[i].candidate
            /\ old[i].parent = req[i].parent
  <2>1. "RETRY_SCHEDULED" \in Statuses
    BY DEF Statuses
  <2> QED
    BY <1>1, <2>1, MarkFacts DEF Recovered, RequestsOK
<1>3. work \in Seq(Companies) /\ DOMAIN work = 1..Len(work) /\ Len(work) \in Nat
  <2>1. Unscanned \cap Dirty \in SUBSET Companies
    BY DEF Dirty
  <2>2. /\ work \in Seq(Unscanned \cap Dirty) /\ DOMAIN work = 1..Len(work)
        /\ Len(work) \in Nat
    BY <2>1, ListFacts, LenProperties
  <2> QED
    BY <2>1, <2>2, SeqMonotonic
<1> HIDE DEF work
<1>4. \A k \in DOMAIN work : /\ fresh[k] \in RequestRows
                             /\ fresh[k].status = "PENDING"
                             /\ fresh[k].candidate = NoRelease
  <2> TAKE k \in DOMAIN work
  <2>1. work[k] \in Companies
    BY <1>3, ElementOfSeq
  <2>2. TriggerKey(work[k]) \in Keys
    BY <2>1, TriggerKeys DEF SyncInv
  <2>3. Request(TriggerKey(work[k]), "PENDING", 0) \in RequestRows
    BY <2>2, RequestType DEF SyncInv, Statuses
  <2> QED
    BY <2>3 DEF Request
<1>5. fresh \in Seq(RequestRows) /\ Len(fresh) = Len(work)
  <2>1. fresh \in [1..Len(work) -> RequestRows]
    BY <1>3, <1>4
  <2> QED
    BY <1>3, <2>1, SeqOfFunction
<1>6. req' = old \o fresh
  BY DEF RecoverAndScan, work
<1> HIDE DEF old, fresh
<1>7. /\ req' \in Seq(RequestRows) /\ Len(req') = Len(req) + Len(work)
      /\ DOMAIN req' = 1..(Len(req) + Len(work))
      /\ \A i \in DOMAIN req' :
            req'[i] = IF i <= Len(req) THEN old[i] ELSE fresh[i - Len(req)]
  <2>1. /\ req' \in Seq(RequestRows)
        /\ Len(req') = Len(old) + Len(fresh)
        /\ \A i \in 1..(Len(old) + Len(fresh)) :
              req'[i] = IF i <= Len(old) THEN old[i] ELSE fresh[i - Len(old)]
    <3>1. old \in Seq(RequestRows) /\ fresh \in Seq(RequestRows)
      BY <1>2, <1>5
    <3>2. /\ old \o fresh \in Seq(RequestRows)
          /\ Len(old \o fresh) = Len(old) + Len(fresh)
          /\ \A i \in 1..(Len(old) + Len(fresh)) :
                (old \o fresh)[i] =
                   IF i <= Len(old) THEN old[i] ELSE fresh[i - Len(old)]
      BY <3>1, ConcatProperties, Zenon
    <3> QED
      BY <1>6, <3>2, Zenon
  <2>2. DOMAIN req' = 1..Len(req')
    BY <2>1, LenProperties
  <2> QED
    BY <1>2, <1>5, <2>1, <2>2
<1>8. \A i \in DOMAIN req' \ DOMAIN req : i - Len(req) \in DOMAIN work
  BY <1>1, <1>3, <1>7
<1>9. RequestsKept
  <2>1. \A i \in DOMAIN req : req'[i] = old[i] /\ i \in DOMAIN req'
    BY <1>1, <1>3, <1>7
  <2>2. \A i \in DOMAIN req' \ DOMAIN req : req'[i] = fresh[i - Len(req)]
    BY <1>1, <1>7
  <2>3. \A i \in DOMAIN req : i \in Active' => i \in Active
    BY <1>2, <2>1 DEF Active, Settled
  <2>4. \A i \in DOMAIN req' \ DOMAIN req : req'[i].candidate = NoRelease
    BY <1>4, <1>8, <2>2
  <2>5. Len(req) <= Len(req')
    BY <1>1, <1>3, <1>7
  <2> QED
    BY <1>2, <1>7, <2>1, <2>3, <2>4, <2>5 DEF RequestsKept
<1>10. NothingStarts
  BY <1>1, <1>2, <1>4, <1>7, <1>8 DEF NothingStarts
<1>11. OneBusy'
  BY <1>9, <1>10, KeptBusy
<1>12. PublisherOK' /\ PublisherInv' /\ ClaimInv'
  BY DEF RecoverAndScan, Advance, SyncInv, PublisherOK, PublisherInv, ClaimInv,
     Steps, Working, Built
<1>13. HomeOK'
  <2>1. seen' \subseteq Keys
    <3>1. Unscanned \subseteq Companies
      BY DEF Unscanned, Target, Published
    <3> QED
      BY <3>1, TriggerKeys DEF RecoverAndScan, SyncInv, HomeOK
  <2> QED
    BY <2>1 DEF RecoverAndScan, SyncInv, HomeOK
<1>14. StoreInv' /\ StoredInv' /\ WireInv'
  BY RemoteKept DEF RecoverAndScan
<1> QED
  BY <1>9, <1>11, <1>12, <1>13, <1>14, QueueStep DEF RecoverAndScan

-----------------------------------------------------------------------------
(* The steps that build a bundle and record a release.                     *)

LEMMA BuildInv ==
    ASSUME SyncInv, Build
    PROVE  SyncInv'
<1> DEFINE r == Len(bundle) + 1
           i == pub.req
           new == [parent |-> pointer, content |-> [c \in Companies |-> truth[c].version]]
<1> USE ReleaseAssumption DEF NoRelease, Releases
<1>1. /\ RequestsOK /\ Len(req) \in Nat /\ DOMAIN req = 1..Len(req)
      /\ i \in DOMAIN req /\ req[i].status = "RUNNING" /\ req[i] \in RequestRows
  BY RequestDomain DEF SyncInv, PublisherInv, Build, Working
<1>2. /\ Len(bundle) \in 1..NumReleases /\ DOMAIN bundle = 1..Len(bundle)
      /\ pointer \in DOMAIN bundle
  BY BundleFacts DEF SyncInv, StoredInv
<1>3. /\ bundle' \in Seq(Bundles) /\ Len(bundle') = r /\ DOMAIN bundle' = 1..r
      /\ \A n \in DOMAIN bundle : bundle'[n] = bundle[n] /\ n \in DOMAIN bundle'
      /\ bundle'[r] = new /\ r \in Releases /\ r # 1
  <2>1. new \in Bundles
    BY <1>2 DEF SyncInv, HomeOK, Bundles
  <2>2. bundle' = Append(bundle, new) /\ bundle \in Seq(Bundles) /\ r \in Releases
    BY DEF Build, SyncInv, BundlesOK
  <2> HIDE DEF new
  <2>3. bundle' \in Seq(Bundles) /\ Len(bundle') = r
    BY <2>1, <2>2, AppendProperties
  <2>4. (\A n \in 1..Len(bundle) : bundle'[n] = bundle[n]) /\ bundle'[r] = new
    BY <2>1, <2>2, AppendProperties
  <2>5. DOMAIN bundle' = 1..r
    BY <2>3, LenProperties
  <2> QED
    BY <1>2, <2>2, <2>3, <2>4, <2>5
<1> HIDE DEF new
<1>4. /\ req' \in Seq(RequestRows) /\ Len(req') = Len(req) /\ DOMAIN req' = DOMAIN req
      /\ \A k \in DOMAIN req : k # i => req'[k] = req[k]
      /\ req'[i].status = "RUNNING"
      /\ req'[i].candidate = r /\ req'[i].parent = pointer
  <2> DEFINE row == [req[i] EXCEPT !.candidate = r, !.parent = pointer, !.sha = sha]
  <2>1. row \in RequestRows /\ row.status = "RUNNING"
        /\ row.candidate = r /\ row.parent = pointer
    <3>1. sha \in Nat /\ r \in 0..NumReleases /\ pointer \in 0..NumReleases
      BY <1>2, <1>3 DEF SyncInv, HomeOK
    <3> HIDE DEF r
    <3> QED
      BY <1>1, <3>1 DEF RequestRows
  <2>2. req' = [req EXCEPT ![i] = row]
    BY DEF Build
  <2> HIDE DEF row
  <2>3. req' \in Seq(RequestRows) /\ Len(req') = Len(req)
    BY <1>1, <2>1, <2>2, ExceptSeq DEF RequestsOK
  <2>4. \A k \in 1..Len(req) : req'[k] = IF k = i THEN row ELSE req[k]
    BY <1>1, <2>1, <2>2, ExceptSeq DEF RequestsOK
  <2> QED
    BY <1>1, <2>1, <2>3, <2>4, LenProperties
<1>5. HomeOK' /\ RequestsOK' /\ BundlesOK'
  BY <1>3, <1>4 DEF Build, SyncInv, HomeOK, RequestsOK, BundlesOK
<1>6. PublisherOK' /\ pub'.pc = "upload" /\ pub'.req = i
  BY DEF Build, Advance, SyncInv, PublisherOK, Steps, Working, Built
<1>7. BundleInv'
  <2>1. \A n \in DOMAIN bundle : /\ bundle[n].parent < n
                                 /\ n # 1 => bundle[n].parent # NoRelease
    BY DEF SyncInv, BundleInv
  <2>2. bundle'[r].parent = pointer
    BY <1>3 DEF new
  <2> QED
    BY <1>2, <1>3, <2>1, <2>2 DEF BundleInv
<1>8. StoreInv' /\ StoredInv' /\ WireInv'
  <2>1. StoreInv'
    BY StoreStep DEF Build, SyncInv
  <2> QED
    BY <1>3, <2>1 DEF Build, storeVars, SyncInv, StoredInv, WireInv
<1>9. Active' = Active /\ \A k \in Busy' : k \in Busy
  BY <1>1, <1>4 DEF Active, Busy, Settled
<1>10. OneBusy'
  BY <1>9 DEF SyncInv, OneBusy
<1>11. \A n \in DOMAIN bundle : PublishedIs(n) => PublishedIs(n)'
  BY <1>3 DEF Build, PublishedIs, Published, Members
<1>12. CandidatesInv'
  <2> SUFFICES ASSUME NEW k \in DOMAIN req', req'[k].candidate # NoRelease
               PROVE  Owns(k)'
    BY DEF CandidatesInv
  <2>1. CASE k = i
    <3>1. PublishedIs(pointer)
      BY DEF Build, Derivable, PublishedIs
    <3> QED
      BY <1>2, <1>3, <1>4, <1>11, <2>1, <3>1 DEF Owns, new
  <2>2. CASE k # i
    <3>1. k \in DOMAIN req /\ req'[k] = req[k] /\ Owns(k)
      BY <1>4, <2>2 DEF SyncInv, CandidatesInv
    <3>2. req[k].parent \in DOMAIN bundle
      BY <3>1, BundleFacts DEF Owns, SyncInv
    <3> QED
      BY <1>3, <1>9, <1>11, <3>1, <3>2 DEF Owns
  <2> QED
    BY <2>1, <2>2
<1>13. PublisherInv' /\ ClaimInv'
  BY <1>1, <1>3, <1>4, <1>6 DEF PublisherInv, ClaimInv, Working, Built
<1>14. RowsInv'
  <2>1. \A c \in Companies : baseline[c].release \in DOMAIN bundle
    BY DEF SyncInv, RowsInv
  <2>2. BaselineFaithful
    BY DEF SyncInv, RowsInv
  <2>3. UNCHANGED baseline
    BY DEF Build
  <2> QED
    BY <1>3, <2>1, <2>2, <2>3 DEF RowsInv, BaselineFaithful, Published, Members
<1> QED
  BY <1>5, <1>6, <1>7, <1>8, <1>10, <1>12, <1>13, <1>14 DEF SyncInv

\* The rows of a release whose parent HOME had published describe it exactly.
LEMMA NewRows ==
    ASSUME SyncInv, NEW r \in DOMAIN bundle \ {1}, PublishedIs(bundle[r].parent),
           baseline' = BaselineOf(r), UNCHANGED bundle
    PROVE  /\ baseline' \in [Companies -> Rows]
           /\ RowsInv'
           /\ PublishedIs(r)'
           /\ \A c \in Companies : baseline'[c].published => baseline'[c].release = r
<1> DEFINE p == bundle[r].parent
<1>1. /\ r \in 1..NumReleases /\ p \in DOMAIN bundle
      /\ bundle[r].content \in [Companies -> Nat]
      /\ bundle[p].content \in [Companies -> Nat]
  BY ReleaseAssumption, BundleFacts DEF SyncInv, Bundles
<1>2. baseline \in [Companies -> Rows]
  BY DEF SyncInv, HomeOK
<1>3. \A c \in Companies : baseline[c].published <=> bundle[p].content[c] # 0
  BY DEF PublishedIs, Published, Members
<1>4. ASSUME NEW c \in Companies, bundle[r].content[c] # 0
      PROVE  baseline'[c] = [published |-> TRUE, version |-> bundle[r].content[c],
                             release |-> r]
  BY <1>4 DEF BaselineOf
<1>5. ASSUME NEW c \in Companies, bundle[r].content[c] = 0, bundle[p].content[c] # 0
      PROVE  baseline'[c] = [baseline[c] EXCEPT !.published = FALSE, !.release = r]
  BY <1>5 DEF BaselineOf
<1>6. ASSUME NEW c \in Companies, bundle[r].content[c] = 0, bundle[p].content[c] = 0
      PROVE  baseline'[c] = baseline[c] /\ ~baseline[c].published
  BY <1>3, <1>6 DEF BaselineOf
<1>7. \A c \in Companies :
          /\ baseline'[c] \in Rows
          /\ baseline'[c].published <=> bundle[r].content[c] # 0
          /\ baseline'[c].published => /\ baseline'[c].release = r
                                       /\ baseline'[c].version = bundle[r].content[c]
          /\ baseline'[c].release = r \/ baseline'[c] = baseline[c]
  <2> TAKE c \in Companies
  <2>1. baseline[c] \in Rows
    BY <1>2
  <2>2. CASE bundle[r].content[c] # 0
    <3>1. bundle[r].content[c] \in Nat
      BY <1>1
    <3>2. baseline'[c] = [published |-> TRUE, version |-> bundle[r].content[c],
                          release |-> r]
      BY <1>4, <2>2
    <3> QED
      BY <1>1, <2>2, <3>1, <3>2 DEF Rows
  <2>3. CASE bundle[r].content[c] = 0 /\ bundle[p].content[c] # 0
    BY <1>1, <1>5, <2>1, <2>3 DEF Rows
  <2>4. CASE bundle[r].content[c] = 0 /\ bundle[p].content[c] = 0
    BY <1>6, <2>1, <2>4
  <2> QED
    BY <2>2, <2>3, <2>4
<1>8. baseline' \in [Companies -> Rows]
  BY <1>7 DEF BaselineOf
<1>9. PublishedIs(r)'
  BY <1>7 DEF PublishedIs, Published, Members
<1>10. BaselineFaithful'
  <2>1. BaselineFaithful
    BY DEF SyncInv, RowsInv
  <2> SUFFICES ASSUME NEW c \in Companies
               PROVE  (/\ baseline[c].published =>
                             /\ bundle[baseline[c].release].content[c] = baseline[c].version
                             /\ Published = Members(baseline[c].release)
                       /\ ~baseline[c].published =>
                             bundle[baseline[c].release].content[c] = 0)'
    BY DEF BaselineFaithful
  <2>2. CASE baseline'[c].published
    BY <1>7, <1>9, <2>2 DEF PublishedIs
  <2>3. CASE ~baseline'[c].published
    BY <1>7, <2>1, <2>3 DEF BaselineFaithful
  <2> QED
    BY <2>2, <2>3
<1>11. RowsInv'
  BY <1>7, <1>10 DEF SyncInv, RowsInv
<1> QED
  BY <1>7, <1>8, <1>9, <1>11

LEMMA PersistInv ==
    ASSUME SyncInv, Persist
    PROVE  SyncInv'
<1> DEFINE r == Candidate
<1>1. /\ pub.req \in Busy /\ pub.req \in DOMAIN req
      /\ r # NoRelease /\ Owns(pub.req) /\ pub.req \in Active
  BY DEF Persist, SyncInv, PublisherInv, CandidatesInv, Candidate, Working, Built,
     Busy, Active, Settled
<1>2. /\ r \in DOMAIN bundle \ {1} /\ PublishedIs(bundle[r].parent)
      /\ baseline' = BaselineOf(r) /\ UNCHANGED bundle
  BY <1>1 DEF Owns, Candidate, Persist
<1>3. baseline' \in [Companies -> Rows] /\ RowsInv'
  BY <1>2, NewRows
<1>4. RequestsKept /\ NothingStarts
  BY MarkedRequests DEF Persist, SetStatus, Statuses, Settled
<1>5. OneBusy'
  BY <1>4, KeptBusy
<1>6. CandidatesInv'
  <2> SUFFICES ASSUME NEW k \in DOMAIN req', req'[k].candidate # NoRelease
               PROVE  Owns(k)'
    BY DEF CandidatesInv
  <2>1. /\ k \in DOMAIN req /\ req[k].candidate = req'[k].candidate
        /\ req[k].parent = req'[k].parent /\ (k \in Active' => k \in Active)
    BY <1>4 DEF RequestsKept
  <2>2. Owns(k)
    BY <2>1 DEF SyncInv, CandidatesInv
  <2>3. k \notin Active'
    <3>1. CASE k = pub.req
      <4>1. req'[k].status = "PUBLISHED"
        BY <1>1, <3>1, RequestDomain, MarkFacts
           DEF Persist, SetStatus, SyncInv, RequestsOK, Statuses, Settled
      <4> QED
        BY <4>1 DEF Active, Settled
    <3>2. CASE k # pub.req
      BY <1>1, <2>1, <3>2 DEF SyncInv, OneBusy, Busy
    <3> QED
      BY <3>1, <3>2
  <2> QED
    BY <1>2, <2>1, <2>2, <2>3 DEF Owns
<1>7. PublisherOK' /\ PublisherInv' /\ ClaimInv'
  BY DEF Persist, Advance, SyncInv, PublisherOK, PublisherInv, ClaimInv, Steps,
     Working, Built
<1>8. HomeOK' /\ RequestsOK' /\ BundlesOK'
  BY <1>3, <1>4 DEF Persist, RequestsKept, SyncInv, HomeOK, RequestsOK, BundlesOK
<1>9. StoreInv' /\ StoredInv' /\ WireInv' /\ BundleInv'
  BY RemoteKept DEF Persist, SyncInv, BundleInv
<1> QED
  BY <1>3, <1>5, <1>6, <1>7, <1>8, <1>9 DEF SyncInv

-----------------------------------------------------------------------------

LEMMA CycleInv == ASSUME SyncInv, Cycle PROVE SyncInv'
BY RecoverAndScanInv, RecoverFailedInv, NothingToRecoverInv, NormalizeRebuildsInv,
   NormalizeKeepsInv, CycleFailsInv, CycleUnavailableInv, ClaimInvariant, NothingDueInv
   DEF Cycle

LEMMA PublishInv == ASSUME SyncInv, Publish PROVE SyncInv'
BY BuildInv, BuildFindsNoChangeInv, BuildFailsInv, RebaseInv, UploadInv,
   StageRemotelyInv, AcceptRemotelyInv, PromoteRemotelyInv, InterruptedInv, RefusedInv,
   PromotionFailsInv, VerifyInv, VerifyFailsInv, PersistInv, PersistFailsInv, CleanupInv,
   HandleErrorInv DEF Publish

LEMMA SyncStepInv == SyncInv /\ [SyncNext]_syncVars => SyncInv'
<1> SUFFICES ASSUME SyncInv, [SyncNext]_syncVars PROVE SyncInv'
  OBVIOUS
<1>1. CASE UNCHANGED syncVars
  <2>1. HomeOK' /\ PublisherOK' /\ PublisherInv' /\ ClaimInv'
    BY <1>1 DEF syncVars, SyncInv, HomeOK, PublisherOK, PublisherInv, ClaimInv, Normal,
       Active
  <2> QED
    BY <1>1, <2>1, PublisherStep DEF syncVars, storeVars
<1> QED
  BY <1>1, ChangeTruthInv, DeployInv, CycleInv, PublishInv, CrashInv, StraggleInv
     DEF SyncNext

\* What the publisher, its queue and the VPS know of each other holds in every
\* state.
THEOREM SyncInvariant == SyncSpec => []SyncInv
BY SyncInitInv, SyncStepInv, PTL DEF SyncSpec

\* HOME's rows describe the release they name, company by company.
THEOREM RowsDescribeRelease == SyncSpec => []BaselineFaithful
<1>1. SyncInv => BaselineFaithful
  BY DEF SyncInv, RowsInv
<1> QED
  BY <1>1, SyncInvariant, PTL

\* The queue works on one release at a time.
THEOREM OneReleaseAtWork == SyncSpec => []OneCandidate
<1>1. SyncInv => OneCandidate
  <2> SUFFICES ASSUME SyncInv PROVE OneCandidate
    OBVIOUS
  <2>1. IsFiniteSet(Busy)
    BY ActiveFinite, FS_Subset DEF SyncInv, Busy
  <2>2. Cardinality(Busy) <= 1
    BY <2>1, AtMostOne DEF SyncInv, OneBusy
  <2> QED
    BY <2>2 DEF OneCandidate, Busy
<1> QED
  BY <1>1, SyncInvariant, PTL

-----------------------------------------------------------------------------
(* The VPS: every step of the publisher, and every command it gave up, is  *)
(* a step of the release store.                                            *)

LEMMA StoreSteps == SyncInv /\ [SyncNext]_syncVars => [StoreNext]_storeVars
<1> SUFFICES ASSUME SyncInv, SyncNext PROVE [StoreNext]_storeVars
  BY DEF syncVars, storeVars
<1>1. ASSUME NEW c \in Companies, ChangeTruth(c) PROVE UNCHANGED storeVars
  BY <1>1 DEF ChangeTruth
<1>2. CASE Deploy
  BY <1>2 DEF Deploy
<1>3. CASE Cycle
  BY <1>3 DEF Cycle, RecoverAndScan, RecoverFailed, NothingToRecover, NormalizeRebuilds,
     NormalizeKeeps, CycleFails, CycleUnavailable, Claim, NothingDue
<1>4. CASE Publish
  <2>1. CASE Effect(StageCommand) /\ pub.pc \in Built /\ UNCHANGED bundle
    BY <2>1, CommandEffects
  <2>2. CASE Effect(PromoteCommand) /\ pub.pc \in Built /\ UNCHANGED bundle
    BY <2>2, CommandEffects
  <2>3. CASE Effect(RollbackCommand) /\ pub.pc \in Built /\ UNCHANGED bundle
    BY <2>3, CommandEffects
  <2>4. CASE UNCHANGED storeVars
    BY <2>4
  <2>5. CASE Build \/ BuildFindsNoChange \/ BuildFails \/ Rebase \/ Upload
    BY <2>5 DEF Build, BuildFindsNoChange, BuildFails, Rebase, Upload
  <2>6. CASE AcceptRemotely \/ Refused \/ Verify \/ VerifyFails \/ Persist
             \/ PersistFails \/ Cleanup
    BY <2>6 DEF AcceptRemotely, Refused, Verify, VerifyFails, Persist, PersistFails,
       Cleanup
  <2>7. CASE StageRemotely
    BY <2>1, <2>7 DEF StageRemotely, homeVars, Built
  <2>8. CASE PromoteRemotely
    BY <2>2, <2>8 DEF PromoteRemotely, homeVars, Built
  <2>9. CASE Interrupted
    BY <2>1, <2>4, <2>9 DEF Interrupted, GiveUp, Built
  <2>10. CASE PromotionFails
    BY <2>2, <2>4, <2>10 DEF PromotionFails, homeVars, Built
  <2>11. CASE HandleError
    BY <2>3, <2>4, <2>11 DEF HandleError, RetryOrFail, RollBack, Built
  <2> QED
    BY <1>4, <2>5, <2>6, <2>7, <2>8, <2>9, <2>10, <2>11 DEF Publish
<1>5. CASE Crash
  BY <1>5 DEF Crash
<1>6. ASSUME NEW command \in wire, Straggle(command) PROVE [StoreNext]_storeVars
  <2>1. command \in Commands /\ command.release \in DOMAIN bundle /\ UNCHANGED bundle
    BY <1>6 DEF SyncInv, WireInv, Straggle, homeVars
  <2> QED
    BY <1>6, <2>1, EffectKeeps DEF Straggle
<1> QED
  BY <1>1, <1>2, <1>3, <1>4, <1>5, <1>6 DEF SyncNext

\* The publisher implements the release store from a bootstrapped state: its
\* retries, rollbacks and stragglers are commands that the store admits.
THEOREM SyncRunsStore == SyncSpec => []StoreInv /\ [][StoreNext]_storeVars
<1>1. SyncInv => StoreInv
  BY DEF SyncInv
<1> QED
  BY <1>1, StoreSteps, SyncInvariant, PTL DEF SyncSpec

\* No release is lost: whatever was retried or came late, the pointer moves only
\* from a release to one that was built on it, or back to its parent.
THEOREM LiveFollowsParents == SyncSpec => MovesAlongParents
BY MovesStep, SyncRunsStore, PTL DEF MovesAlongParents

\* Neither a retried promotion nor a late rollback serves a release again that
\* was rolled back.
THEOREM RolledBackIsFinal == SyncSpec => RolledBackStays
BY RolledBackStep, SyncRunsStore, PTL DEF RolledBackStays

-----------------------------------------------------------------------------
(* While no command takes effect after HOME gave it up, rollbacks do not   *)
(* fail and the publisher does not die between a promotion and its record, *)
(* HOME and VPS agree between those moments.                               *)

Gentle == Allowed \cap {"late", "undo", "crash_promoted"} = {}

\* Between the promotion and its record.
Critical == {"verify", "persist", "error"}

RecordedIs(r) == \A c \in Published : baseline[c].release = r

\* HOME still records the parent of the request in hand.
ParentRecorded == RecordedIs(req[pub.req].parent)

AgreementInv ==
    /\ wire = {}
    /\ pub.pc \notin Critical => RecordedIs(pointer)
    /\ pub.pc \in Critical => ParentRecorded
    /\ pub.pc \in {"verify", "persist"} => pointer = Candidate
    /\ pub.pc = "error" => pointer \in {Candidate, req[pub.req].parent}

LEMMA AgreementInit == SyncInit => AgreementInv
BY DEF SyncInit, AgreementInv, Resting, Critical, RecordedIs, Published

\* Away from the promotion nothing disturbs the agreement.
LEMMA AgreementKept ==
    ASSUME AgreementInv, UNCHANGED <<baseline, pointer, wire>>,
           pub.pc \notin Critical, pub'.pc \notin Critical
    PROVE  AgreementInv'
BY DEF AgreementInv, RecordedIs, Published, Critical

LEMMA RestIsNotCritical == ASSUME Rest PROVE pub'.pc \notin Critical
BY DEF Rest, Resting, Critical

LEMMA AdvancePc ==
    ASSUME SyncInv, NEW pc, Advance(pc)
    PROVE  pub'.pc = pc /\ pub'.req = pub.req
BY DEF Advance, SyncInv, PublisherOK

LEMMA CycleAgreement ==
    ASSUME SyncInv, AgreementInv, Cycle
    PROVE  AgreementInv'
<1>1. /\ UNCHANGED <<baseline, pointer, wire>>
      /\ pub.pc \in {"idle", "recover", "normalize", "claim"}
  BY DEF Cycle, RecoverAndScan, RecoverFailed, NothingToRecover, NormalizeRebuilds,
     NormalizeKeeps, CycleFails, CycleUnavailable, Claim, NothingDue, homeVars, storeVars
<1>2. pub'.pc \notin Critical
  <2>1. CASE \E pc \in {"recover", "normalize", "claim"} : Advance(pc)
    BY <2>1, AdvancePc DEF Critical
  <2>2. CASE Rest
    BY <2>2, RestIsNotCritical
  <2>3. CASE NormalizeRebuilds
    BY <2>3 DEF NormalizeRebuilds, Resting, SyncInv, PublisherOK, Critical
  <2>4. CASE Claim
    BY <2>4 DEF Claim, Claimed, SyncInv, PublisherOK, Critical
  <2> QED
    BY <2>1, <2>2, <2>3, <2>4 DEF Cycle, RecoverAndScan, RecoverFailed,
       NothingToRecover, NormalizeKeeps, CycleFails, CycleUnavailable, NothingDue
<1> QED
  BY <1>1, <1>2, AgreementKept DEF Critical

\* Up to the promotion, and after the record.
LEMMA AttemptAgreement ==
    ASSUME Gentle, SyncInv, AgreementInv,
           \/ Build \/ BuildFindsNoChange \/ BuildFails \/ Rebase \/ Upload
           \/ StageRemotely \/ AcceptRemotely \/ Interrupted \/ Refused \/ Cleanup
    PROVE  AgreementInv'
<1>1. CASE Build \/ Upload \/ StageRemotely \/ AcceptRemotely
  <2>1. \E pc \in {"upload", "stage", "accept", "promote"} : Advance(pc)
    BY <1>1 DEF Build, Upload, StageRemotely, AcceptRemotely
  <2>2. pub'.pc \notin Critical
    BY <2>1, AdvancePc DEF Critical
  <2>3. UNCHANGED <<baseline, wire>> /\ pub.pc \notin Critical
    BY <1>1 DEF Build, Upload, StageRemotely, AcceptRemotely, homeVars, Critical
  <2>4. UNCHANGED pointer
    BY <1>1 DEF Build, Upload, StageRemotely, AcceptRemotely, storeVars, Effect,
       StageCommand, Stage
  <2> QED
    BY <2>2, <2>3, <2>4, AgreementKept
<1>2. CASE BuildFindsNoChange \/ BuildFails \/ Rebase \/ Refused \/ Cleanup
  <2>1. Rest
    BY <1>2 DEF BuildFindsNoChange, BuildFails, Rebase, Refused, GiveUp, Cleanup
  <2>2. UNCHANGED <<baseline, wire, pointer>> /\ pub.pc \notin Critical
    BY <1>2 DEF BuildFindsNoChange, BuildFails, Rebase, Refused, GiveUp, Cleanup,
       storeVars, Critical
  <2> QED
    BY <2>1, <2>2, RestIsNotCritical, AgreementKept
<1>3. CASE Interrupted
  <2>1. Rest /\ UNCHANGED baseline /\ pub.pc \notin Critical
    BY <1>3 DEF Interrupted, GiveUp, Critical
  <2>2. UNCHANGED <<wire, pointer>>
    BY <1>3 DEF Interrupted, Gentle, Fault, Effect, StageCommand, Stage, storeVars
  <2> QED
    BY <2>1, <2>2, RestIsNotCritical, AgreementKept
<1> QED
  BY <1>1, <1>2, <1>3

\* A promotion that has its effect leaves the candidate live.
LEMMA PromotionEffect ==
    ASSUME SyncInv, pub.pc \in Built, Effect(PromoteCommand)
    PROVE  pointer' = Candidate
<1>1. Candidate \in Releases
  BY CommandFacts, BundleFacts, ReleaseAssumption DEF SyncInv, Releases
<1> QED
  BY <1>1 DEF Effect, PromoteCommand, Promote, storeVars, SyncInv, StoreInv,
     PointerNamesActive

LEMMA PromotionAgreement ==
    ASSUME Gentle, SyncInv, AgreementInv, PromoteRemotely \/ PromotionFails
    PROVE  AgreementInv'
<1>1. /\ RecordedIs(pointer) /\ req[pub.req].parent = pointer /\ pub.pc \in Built
      /\ UNCHANGED <<baseline, req>> /\ wire = {}
  BY DEF PromoteRemotely, PromotionFails, ParentIsLive, homeVars, AgreementInv, Critical,
     Built
<1>2. pub'.req = pub.req
  BY AdvancePc DEF PromoteRemotely, PromotionFails, Fails, SyncInv, PublisherOK
<1>3. ParentRecorded' /\ Candidate' = Candidate
      /\ req'[pub'.req].parent = req[pub.req].parent
  BY <1>1, <1>2 DEF ParentRecorded, RecordedIs, Published, Candidate
<1>4. CASE PromoteRemotely
  <2>1. pub'.pc = "verify" /\ pointer' = Candidate /\ wire' = wire
    BY <1>1, <1>4, AdvancePc, PromotionEffect DEF PromoteRemotely
  <2> QED
    BY <1>1, <1>3, <2>1 DEF AgreementInv, Critical
<1>5. CASE PromotionFails
  <2>1. pub'.pc = "error"
    BY <1>5 DEF PromotionFails, Fails, SyncInv, PublisherOK
  <2>2. UNCHANGED wire /\ pointer' \in {Candidate, pointer}
    BY <1>1, <1>5, PromotionEffect DEF PromotionFails, Fault, Gentle, storeVars
  <2> QED
    BY <1>1, <1>3, <2>1, <2>2 DEF AgreementInv, Critical
<1> QED
  BY <1>4, <1>5

LEMMA VerifyAgreement ==
    ASSUME SyncInv, AgreementInv, Verify \/ VerifyFails \/ PersistFails
    PROVE  AgreementInv'
<1>1. /\ UNCHANGED <<baseline, req, pointer, wire>>
      /\ pub.pc \in {"verify", "persist"}
  BY DEF Verify, VerifyFails, PersistFails, homeVars, storeVars
<1>2. pub'.pc \in {"persist", "error"} /\ pub'.req = pub.req
  BY AdvancePc DEF Verify, VerifyFails, PersistFails, Fails, SyncInv, PublisherOK
<1> QED
  BY <1>1, <1>2 DEF AgreementInv, Critical, ParentRecorded, RecordedIs, Published, Candidate

LEMMA PersistAgreement ==
    ASSUME SyncInv, AgreementInv, Persist
    PROVE  AgreementInv'
<1>1. Owns(pub.req) /\ pub.req \in Active
  BY DEF Persist, SyncInv, PublisherInv, CandidatesInv, Working, Built, Active, Settled
<1>2. /\ Candidate \in DOMAIN bundle \ {1}
      /\ PublishedIs(bundle[Candidate].parent)
      /\ baseline' = BaselineOf(Candidate) /\ UNCHANGED bundle
  BY <1>1 DEF Owns, Candidate, Persist
<1>3. \A c \in Companies : baseline'[c].published => baseline'[c].release = Candidate
  BY <1>2, NewRows
<1>4. pub'.pc = "cleanup" /\ UNCHANGED <<wire, pointer>> /\ pointer = Candidate
  BY AdvancePc DEF Persist, storeVars, AgreementInv
<1> QED
  BY <1>3, <1>4 DEF AgreementInv, Critical, RecordedIs, Published

\* The VPS knows the candidate's parent.
LEMMA LiveCandidateParent ==
    ASSUME SyncInv, pub.pc \in Built, pointer = Candidate
    PROVE  store[pointer].parent = req[pub.req].parent
<1>1. Owns(pub.req)
  BY DEF SyncInv, PublisherInv, CandidatesInv, Working
<1>2. pointer \in Releases
  BY BundleFacts, ReleaseAssumption DEF SyncInv, StoredInv, Releases
<1>3. store[pointer].status = "active"
  BY <1>2 DEF SyncInv, StoreInv, PointerNamesActive
<1> QED
  BY <1>1, <1>2, <1>3 DEF SyncInv, StoredInv, Owns, Candidate

LEMMA HandleErrorAgreement ==
    ASSUME Gentle, SyncInv, AgreementInv, HandleError
    PROVE  AgreementInv'
<1>1. /\ pub.pc = "error" /\ pub.pc \in Built /\ pub.pc \in Critical
      /\ UNCHANGED baseline /\ pub'.pc \notin Critical
      /\ ParentRecorded /\ wire = {}
      /\ pointer \in {Candidate, req[pub.req].parent}
  BY RestIsNotCritical DEF HandleError, Built, Critical, AgreementInv
<1>2. PICK answered \in BOOLEAN : RetryOrFail(answered) \/ RollBack(answered)
  BY DEF HandleError
<1>3. UNCHANGED wire
  BY <1>2 DEF RetryOrFail, RollBack, Gentle
<1>4. pointer' = req[pub.req].parent
  <2>1. CASE RetryOrFail(answered)
    BY <1>1, <2>1 DEF RetryOrFail, MayBeLive, storeVars
  <2>2. CASE RollBack(answered)
    <3>1. CASE Effect(RollbackCommand)
      BY <3>1 DEF Effect, RollbackCommand, Rollback
    <3>2. CASE store[pointer].parent # req[pub.req].parent /\ UNCHANGED storeVars
      BY <1>1, <3>2, LiveCandidateParent DEF storeVars
    <3> QED
      BY <2>2, <3>1, <3>2 DEF RollBack, Gentle
  <2> QED
    BY <1>2, <2>1, <2>2
<1> QED
  BY <1>1, <1>3, <1>4 DEF AgreementInv, ParentRecorded, RecordedIs, Published, Critical

LEMMA CrashAgreement ==
    ASSUME Gentle, SyncInv, AgreementInv, Crash
    PROVE  AgreementInv'
<1>1. UNCHANGED <<baseline, wire, pointer>> /\ pub'.pc \notin Critical
  BY RestIsNotCritical DEF Crash, homeVars, storeVars
<1>2. CASE pub.pc \notin Critical
  BY <1>1, <1>2, AgreementKept
<1>3. CASE pub.pc \in Critical
  <2>1. pub.req \in DOMAIN req /\ req[pub.req].status = "RUNNING"
    BY <1>3 DEF SyncInv, PublisherInv, Critical, Working, Built
  <2>2. pub.req # 0
    BY <2>1, RequestDomain DEF SyncInv
  <2>3. pointer # Candidate
    BY <2>1, <2>2 DEF Crash, Fault, Gentle
  <2>4. pointer = req[pub.req].parent
    BY <1>3, <2>3 DEF AgreementInv, Critical
  <2> QED
    BY <1>1, <1>3, <2>4 DEF AgreementInv, ParentRecorded, RecordedIs, Published, Critical
<1> QED
  BY <1>2, <1>3

LEMMA AgreementStep ==
    ASSUME Gentle
    PROVE  SyncInv /\ AgreementInv /\ [SyncNext]_syncVars => AgreementInv'
<1> SUFFICES ASSUME SyncInv, AgreementInv, [SyncNext]_syncVars PROVE AgreementInv'
  OBVIOUS
<1>1. CASE UNCHANGED <<baseline, req, wire, pub, pointer>>
  BY <1>1 DEF AgreementInv, ParentRecorded, RecordedIs, Published, Candidate
<1>2. ASSUME NEW c \in Companies, ChangeTruth(c)
      PROVE  UNCHANGED <<baseline, req, wire, pub, pointer>>
  BY <1>2 DEF ChangeTruth, storeVars
<1>3. CASE Deploy
  BY <1>1, <1>3 DEF Deploy, homeVars, storeVars
<1>4. CASE Publish
  BY <1>4, AttemptAgreement, PromotionAgreement, VerifyAgreement, PersistAgreement,
     HandleErrorAgreement DEF Publish
<1>5. \A command \in wire : ~Straggle(command)
  BY DEF AgreementInv
<1> QED
  BY <1>1, <1>2, <1>3, <1>4, <1>5, CycleAgreement, CrashAgreement
     DEF SyncNext, syncVars, storeVars

\* HOME and VPS agree.
THEOREM Agreement == ASSUME Gentle PROVE SyncSpec => []AgreementInv
<1>1. SyncInv /\ AgreementInv /\ [SyncNext]_syncVars => AgreementInv'
  BY AgreementStep
<1> QED
  BY <1>1, AgreementInit, SyncInvariant, PTL DEF SyncSpec

\* Outside the moments between a promotion and its record, what HOME recorded
\* is what the VPS serves.
THEOREM HomeAndLiveAgree == ASSUME Gentle PROVE SyncSpec => []HomeAgreesWithLive
<1>1. AgreementInv => HomeAgreesWithLive
  BY DEF AgreementInv, HomeAgreesWithLive, RecordedIs, Critical
<1> QED
  BY <1>1, Agreement, PTL

\* No leftover of an attempt undoes a release that HOME recorded.
THEOREM RecordedStands == ASSUME Gentle PROVE SyncSpec => []RecordedReleaseStands
<1>1. SyncInv /\ AgreementInv => RecordedReleaseStands
  <2> SUFFICES ASSUME SyncInv, AgreementInv, NEW c \in Published
               PROVE  store[baseline[c].release].status # "rolled_back"
    BY DEF RecordedReleaseStands
  <2>1. pointer \in Releases
    BY BundleFacts, ReleaseAssumption DEF SyncInv, StoredInv, Releases
  <2>2. store[pointer].status = "active"
    BY <2>1 DEF SyncInv, StoreInv, PointerNamesActive
  <2>3. CASE baseline[c].release = pointer
    BY <2>2, <2>3
  <2>4. CASE baseline[c].release # pointer
    <3>1. /\ pub.pc \in Built /\ pointer = Candidate
          /\ baseline[c].release = req[pub.req].parent
      BY <2>4 DEF AgreementInv, ParentRecorded, RecordedIs, Critical, Built
    <3>2. store[pointer].parent = baseline[c].release
      BY <3>1, LiveCandidateParent
    <3>3. baseline[c].release # NoRelease
      BY <3>1, CommandFacts, BundleFacts DEF SyncInv, NoRelease
    <3>4. PICK C \in SUBSET Releases : IsChain(C, pointer)
      BY DEF SyncInv, StoreInv
    <3>5. baseline[c].release \in C
      BY <2>1, <3>2, <3>3, <3>4 DEF IsChain, Releases, NoRelease
    <3> QED
      BY <2>4, <3>4, <3>5 DEF IsChain
  <2> QED
    BY <2>3, <2>4
<1> QED
  BY <1>1, Agreement, SyncInvariant, PTL
=============================================================================
