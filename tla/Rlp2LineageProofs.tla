--------------------------- MODULE Rlp2LineageProofs ---------------------------
(***************************************************************************)
(* Proofs about RLP-2 lineages and the action gate, for any number of      *)
(* signers, drafts, policies and published records, for lists of any       *)
(* length, and for native systems that answer anything at any time.        *)
(***************************************************************************)
EXTENDS Rlp2Lineage, Rlp2Proofs, SequenceTheorems, FiniteSetTheorems,
        WellFoundedInduction

(***************************************************************************)
(* The invariants.                                                         *)
(*                                                                         *)
(* Linked: what the walk knows of a record it passed.  Nothing in it       *)
(* depends on the native answers, which change behind the walk's back.     *)
(***************************************************************************)
Linked(list, i) ==
    IF Rlp1(list[i]) THEN i = 1 /\ verify_first(list[i])
    ELSE VerifiesAsStored(list[i], PriorIn(list, i))

RefusesNext == ~ AcceptsAncestor /\ ~ AcceptsRlp2

WalkInv ==
    /\ TypeOK
    /\ \A i \in 1 .. index : Linked(records, i)
    /\ Verified => index = Len(records) /\ current # None
    /\ status = "idle" => records = <<>> /\ index = 0 /\ registry = None
    /\ status = "rejected" /\ registry = None /\ index < Len(records) =>
           RefusesNext

(***************************************************************************)
(* What was recomputed for the records passed was seen in this call.       *)
(***************************************************************************)
WitnessedBy(set, body) ==
    \A i \in DOMAIN body.checks :
        body.checks[i].outcome # "UNRESOLVED" =>
            \A e \in Range(body.checks[i].evidence) :
                \E w \in set :
                    /\ w[1] = e
                    /\ hash_object(w[2]) = body.verification_specs[e].method_digest
                    /\ w[3] = "VERIFIED"

WitnessInv ==
    registry # None =>
        \A i \in 1 .. index :
            Rlp2(records[i]) => WitnessedBy(witnessed, records[i].payload.body)

(***************************************************************************)
(* The gate's answer is the decision on the last record of the list.       *)
(***************************************************************************)
DecisionInv ==
    \A d \in decision :
        /\ validate_action_policy(d.gate.policy)
        /\ d.decision = GateDecision(d.gate, LineageVerdict(records, registry))
        /\ d.resolution_head = Some(hash_object(Last(records)))

(***************************************************************************)
(* An honest record verifies alone, or against any predecessor that is the *)
(* one it names.                                                           *)
(***************************************************************************)
IsOptional(prior) == prior = None \/ \E record : prior = Some(record)

VerifiesWhereLinked(record) ==
    \A prior :
        /\ IsOptional(prior)
        /\ LinkTo(prior) = record.payload.body.previous
        /\ \A old \in prior : Rlp2(old) => Judges(old)
        => VerifiesAsStored(record, prior)

HonestInv ==
    \A record \in honest :
        \/ Rlp1(record) /\ VerifiesAlone(record)
        \/ Rlp2(record) /\ VerifiesWhereLinked(record)

(***************************************************************************)
(* What is published as RLP-2 has an RLP-2 payload, and its policy from a  *)
(* draft.                                                                  *)
(***************************************************************************)
IsRlp2Payload(payload) ==
    \E body, state, approvals, transitions :
        payload = [body |-> body, authority_state |-> state,
                   approvals |-> approvals, transition_approvals |-> transitions]

ListsPrincipals(body) ==
    body.authority_policy.principals \in Seq(Principals(body.authority_policy))

WellFormed(record) ==
    Rlp2(record) => /\ IsRlp2Payload(record.payload)
                    /\ ListsPrincipals(record.payload.body)

PublishedInv == \A record \in published : WellFormed(record)

(***************************************************************************)
(* Records are published after the records they name: they can be ranked   *)
(* so that each is above its predecessor.                                  *)
(***************************************************************************)
Names(record, prior) ==
    Rlp2(record) /\ record.payload.body.previous = Some(hash_object(prior))

RankedBy(rank, set) ==
    \A record \in set : \A prior :
        Names(record, prior) => prior \in set /\ rank[prior] < rank[record]

RankInv == \E rank \in [published -> Nat] : RankedBy(rank, published)

(***************************************************************************)
(* Induction over the natural numbers, for sets.                           *)
(***************************************************************************)
LEMMA LeastElement ==
    ASSUME NEW T \in SUBSET Nat, T # {}
    PROVE  \E m \in T : \A n \in T : m <= n
<1> DEFINE R == OpToRel(<, Nat)
<1>1. IsWellFoundedOn(R, Nat)
  BY NatLessThanWellFounded DEF OpToRel
<1>2. R = {ss \in Nat \X Nat : ss[1] < ss[2]}
  BY DEF OpToRel
<1> HIDE DEF R
<1>3. PICK m \in T : \A n \in T : ~ (<<n, m>> \in R)
  BY <1>1, WFMin
<1>4. \A n \in T : ~ (n < m)
  BY <1>2, <1>3
<1> QED
  BY <1>4

LEMMA SetInduction ==
    ASSUME NEW T, 0 \in T, \A n \in T : n + 1 \in T
    PROVE  Nat \subseteq T
<1> DEFINE C == Nat \ T
<1> SUFFICES ASSUME C # {}
             PROVE  FALSE
  OBVIOUS
<1>1. PICK m \in C : \A n \in C : m <= n
  <2>1. C \in SUBSET Nat
    OBVIOUS
  <2> HIDE DEF C
  <2> QED
    BY <2>1, LeastElement
<1>2. m # 0 /\ m - 1 \in Nat /\ m - 1 \notin C
  BY <1>1
<1> QED
  BY <1>1, <1>2

-----------------------------------------------------------------------------
(***************************************************************************)
(* Lists of published records.                                             *)
(***************************************************************************)
LEMMA BoundedSeqIsSeq ==
    ASSUME NEW S, NEW n \in Nat, NEW s \in BoundedSeq(S, n)
    PROVE  s \in Seq(S)
BY DEF BoundedSeq, SeqOf

LEMMA SomeIsNotNone == \A x : Some(x) # None
BY DEF Some, None

LEMMA SomeEqual == \A x, y : Some(x) = Some(y) => x = y
BY DEF Some

LEMMA HashEqual == \A x, y : hash_object(x) = hash_object(y) => x = y
BY DEF hash_object

LEMMA KindsDiffer == \A record : Rlp1(record) <=> ~ Rlp2(record)
BY DEF Rlp1, Rlp2, _previous_profile

-----------------------------------------------------------------------------
(***************************************************************************)
(* The walk.                                                               *)
(***************************************************************************)
LEMMA InitWalk == Init => WalkInv
<1> SUFFICES ASSUME Init
             PROVE  WalkInv
  OBVIOUS
<1>1. TypeOK
  BY DEF Init, TypeOK, None
<1> QED
  BY <1>1 DEF Init, WalkInv, Verified

(***************************************************************************)
(* Publishing a record leaves the verifier's variables alone.              *)
(***************************************************************************)
LEMMA PublishKeepsWalk ==
    ASSUME WalkInv, NEW record, Publish(record),
           honest' \subseteq honest \cup {record}
    PROVE  WalkInv'
<1>1. /\ published' = published \cup {record}
      /\ UNCHANGED <<native, status, registry, records, index, previous,
                     current, witnessed, decision>>
  BY DEF Publish, call
<1>2. TypeOK'
  <2>1. records \in Seq(published')
    BY <1>1, SeqMonotonic DEF WalkInv, TypeOK
  <2> QED
    BY <1>1, <2>1 DEF WalkInv, TypeOK
<1>3. \A i \in 1 .. index' : Linked(records', i)
  BY <1>1 DEF WalkInv
<1>4. RefusesNext' <=> RefusesNext
  BY <1>1 DEF RefusesNext, AcceptsAncestor, AcceptsRlp2, NextRecord
<1> QED
  BY <1>1, <1>2, <1>3, <1>4 DEF WalkInv, Verified

LEMMA SignResolutionKeepsWalk == WalkInv /\ SignResolution => WalkInv'
BY PublishKeepsWalk DEF SignResolution

LEMMA SignRlp2KeepsWalk == WalkInv /\ SignRlp2 => WalkInv'
BY PublishKeepsWalk DEF SignRlp2

LEMMA CollectKeepsWalk == WalkInv /\ CollectApprovals => WalkInv'
BY PublishKeepsWalk DEF CollectApprovals

LEMMA RewriteKeepsWalk == WalkInv /\ RewriteRecord => WalkInv'
BY PublishKeepsWalk DEF RewriteRecord

(***************************************************************************)
(* The native answers may change: nothing the walk concluded depends on    *)
(* them, nor does a refusal by a verifier without adapters.                *)
(***************************************************************************)
LEMMA NativeKeepsWalk == WalkInv /\ NativeChanges => WalkInv'
<1> SUFFICES ASSUME WalkInv, NativeChanges
             PROVE  WalkInv'
  OBVIOUS
<1>1. /\ UNCHANGED <<published, honest, status, registry, records, index,
                     previous, current, witnessed, decision>>
      /\ native' \in [Evidence -> Answers]
  BY DEF NativeChanges, ledger, call, WalkInv, TypeOK
<1>2. TypeOK'
  BY <1>1 DEF WalkInv, TypeOK
<1>3. registry = None => (RefusesNext' <=> RefusesNext)
  BY <1>1 DEF RefusesNext, AcceptsAncestor, AcceptsRlp2, NextRecord,
              verify_rlp2_resolution, Recomputes, None
<1> QED
  BY <1>1, <1>2, <1>3 DEF WalkInv, Verified

LEMMA StartKeepsWalk == WalkInv /\ StartLineage => WalkInv'
<1> SUFFICES ASSUME WalkInv, StartLineage
             PROVE  WalkInv'
  OBVIOUS
<1>1. /\ records' \in Seq(published)
      /\ registry' \in VerifierAdapters
      /\ status' = IF records' = <<>> THEN "rejected" ELSE "checking"
      /\ UNCHANGED <<published, honest, native, index, previous, current,
                     witnessed, decision>>
      /\ status = "idle"
  BY BoundedSeqIsSeq, BoundsAssumption DEF StartLineage, ledger
<1>2. index' = 0 /\ previous' = None /\ current' = None
  BY <1>1 DEF WalkInv, TypeOK
<1>3. decision' = {}
  BY <1>1 DEF WalkInv, TypeOK
<1>4. /\ records' \in Seq(published')
      /\ Len(records') \in Nat
      /\ records' = <<>> => Len(records') = 0
  BY <1>1
<1>5. TypeOK'
  BY <1>1, <1>2, <1>3, <1>4 DEF WalkInv, TypeOK
<1> QED
  BY <1>1, <1>2, <1>4, <1>5 DEF WalkInv, Verified

(***************************************************************************)
(* A step of the loop: the record it takes is linked to the one before.    *)
(***************************************************************************)
LEMMA AtRecordFacts ==
    ASSUME WalkInv, AtRecord
    PROVE  /\ index \in Nat /\ Len(records) \in Nat
           /\ index + 1 \in 1 .. Len(records)
           /\ index + 1 \in DOMAIN records
           /\ previous = PriorIn(records, index + 1)
BY DEF WalkInv, TypeOK, AtRecord, PriorIn

LEMMA PassKeepsWalk == WalkInv /\ PassAncestor => WalkInv'
<1> SUFFICES ASSUME WalkInv, PassAncestor
             PROVE  WalkInv'
  OBVIOUS
<1>1. /\ UNCHANGED <<published, honest, native, status, registry, records,
                     current, witnessed, decision>>
      /\ index' = index + 1
      /\ previous' = Some(records[index + 1])
      /\ status = "checking"
      /\ Rlp1(records[index + 1]) /\ previous = None
      /\ verify_first(records[index + 1])
      /\ AtRecord
  BY DEF PassAncestor, ledger, AtRecord, AcceptsAncestor, NextRecord
<1>2. index = 0
  BY <1>1, SomeIsNotNone DEF WalkInv, TypeOK
<1>3. current' = None
  BY <1>1, <1>2 DEF WalkInv, TypeOK
<1>4. TypeOK'
  BY <1>1, <1>2, <1>3, AtRecordFacts DEF WalkInv, TypeOK
<1>5. Linked(records, 1)
  BY <1>1, <1>2 DEF Linked
<1> QED
  BY <1>1, <1>2, <1>4, <1>5 DEF WalkInv, Verified

LEMMA CheckedIsLinked ==
    ASSUME WalkInv, AtRecord, AcceptsRlp2
    PROVE  Rlp2(records[index + 1]) /\ Linked(records, index + 1)
BY AtRecordFacts, RecomputedIsStored, KindsDiffer DEF AcceptsRlp2, NextRecord, Linked

LEMMA CheckKeepsWalk == WalkInv /\ CheckRecord => WalkInv'
<1> SUFFICES ASSUME WalkInv, CheckRecord
             PROVE  WalkInv'
  OBVIOUS
<1>1. /\ UNCHANGED <<published, honest, native, status, registry, records,
                     decision>>
      /\ index' = index + 1
      /\ previous' = Some(records[index + 1])
      /\ current' = Some(VerdictOf(records[index + 1], previous, registry))
      /\ status = "checking"
      /\ AtRecord /\ AcceptsRlp2
  BY DEF CheckRecord, ledger, AtRecord, NextRecord
<1>2. Rlp2(records[index + 1]) /\ Linked(records, index + 1)
  BY <1>1, CheckedIsLinked
<1> DEFINE i == index + 1
<1>3. /\ current' = Some(VerdictAt(records, i, registry))
      /\ i \in 1 .. Len(records) /\ i # 0
  BY <1>1, AtRecordFacts DEF VerdictAt
<1>4. TypeOK'
  <2>1. index' = i /\ previous' = Some(records[i]) /\ ~ Rlp1(records[i])
    BY <1>1, <1>2, KindsDiffer
  <2> HIDE DEF i
  <2> QED
    BY <1>1, <1>3, <2>1 DEF WalkInv, TypeOK
<1>5. \A k \in 1 .. index' : Linked(records', k)
  <2> TAKE k \in 1 .. index'
  <2>1. k \in 1 .. index \/ k = index + 1
    BY <1>1, AtRecordFacts
  <2> QED
    BY <1>1, <1>2, <2>1 DEF WalkInv
<1> QED
  BY <1>1, <1>4, <1>5 DEF WalkInv, Verified

LEMMA RejectKeepsWalk == WalkInv /\ RejectRecord => WalkInv'
<1> SUFFICES ASSUME WalkInv, RejectRecord
             PROVE  WalkInv'
  OBVIOUS
<1>1. /\ UNCHANGED <<published, honest, native, registry, records, index,
                     previous, current, witnessed, decision>>
      /\ status = "checking" /\ status' = "rejected"
      /\ RefusesNext
      /\ index # Len(records)
  BY DEF RejectRecord, ledger, call, AtRecord, RefusesNext, WalkInv, TypeOK
<1>2. TypeOK'
  BY <1>1 DEF WalkInv, TypeOK
<1>3. RefusesNext'
  BY <1>1 DEF RefusesNext, AcceptsAncestor, AcceptsRlp2, NextRecord
<1> QED
  BY <1>1, <1>2, <1>3 DEF WalkInv, Verified

LEMMA ReturnKeepsWalk == WalkInv /\ ReturnLineage => WalkInv'
<1> SUFFICES ASSUME WalkInv, ReturnLineage
             PROVE  WalkInv'
  OBVIOUS
<1>1. /\ UNCHANGED <<published, honest, native, registry, records, index,
                     previous, witnessed, decision>>
      /\ status = "checking"
      /\ status' = IF current = None THEN "rejected" ELSE "verified"
      /\ index = Len(records)
      /\ current' = {[verdict EXCEPT !.records = Some(Len(records))] :
                         verdict \in current}
  BY DEF ReturnLineage, ledger
<1>2. /\ current = None => current' = None
      /\ current = Some(VerdictAt(records, index, registry))
             => current' = Some(LineageVerdict(records, registry))
  BY <1>1 DEF None, Some, LineageVerdict
<1>3. index = 0 \/ Rlp1(records[index]) \/ current' # None
  BY <1>1, <1>2, SomeIsNotNone DEF WalkInv, TypeOK
<1>4. TypeOK'
  BY <1>1, <1>2 DEF WalkInv, TypeOK
<1>5. Len(records) \in Nat
  BY DEF WalkInv, TypeOK
<1>6. status' = "verified" => current' # None
  BY <1>1, <1>3 DEF WalkInv, TypeOK
<1> QED
  BY <1>1, <1>4, <1>5, <1>6 DEF WalkInv, Verified

LEMMA DecideKeepsWalk == WalkInv /\ Decide => WalkInv'
<1> SUFFICES ASSUME WalkInv, Decide
             PROVE  WalkInv'
  OBVIOUS
<1>1. /\ UNCHANGED <<published, honest, native, registry, records, index,
                     previous, current, witnessed>>
      /\ status = "verified"
      /\ \/ /\ status' = "decided"
            /\ \A d \in decision' : d.gate \in Gates
         \/ status' = "rejected" /\ decision' = decision
  BY DEF Decide, ledger, Some
<1>2. TypeOK'
  BY <1>1 DEF WalkInv, TypeOK
<1>3. index = Len(records) /\ current # None /\ Len(records) \in Nat
  BY <1>1 DEF WalkInv, Verified, TypeOK
<1> QED
  BY <1>1, <1>2, <1>3 DEF WalkInv, Verified

LEMMA EndKeepsWalk == WalkInv /\ EndCall => WalkInv'
<1> SUFFICES ASSUME WalkInv, EndCall
             PROVE  WalkInv'
  OBVIOUS
<1>1. /\ UNCHANGED <<published, honest, native>>
      /\ status' = "idle" /\ registry' = None /\ records' = <<>> /\ index' = 0
      /\ previous' = None /\ current' = None /\ decision' = {}
  BY DEF EndCall, ledger, None
<1>2. TypeOK'
  BY <1>1 DEF WalkInv, TypeOK
<1> QED
  BY <1>1, <1>2 DEF WalkInv, Verified

LEMMA StutterKeepsWalk ==
    WalkInv /\ UNCHANGED <<published, honest, native, status, registry, records,
                           index, previous, current, witnessed, decision>>
        => WalkInv'
BY DEF WalkInv, TypeOK, Verified, RefusesNext, AcceptsAncestor, AcceptsRlp2,
       NextRecord

LEMMA NextKeepsWalk == WalkInv /\ [Next]_vars => WalkInv'
BY SignResolutionKeepsWalk, SignRlp2KeepsWalk, CollectKeepsWalk, RewriteKeepsWalk,
   NativeKeepsWalk, StartKeepsWalk, PassKeepsWalk, CheckKeepsWalk,
   RejectKeepsWalk, ReturnKeepsWalk, DecideKeepsWalk, EndKeepsWalk,
   StutterKeepsWalk
   DEF Next, vars, ledger, call

(***************************************************************************)
(* The walk's invariant holds in every reachable state.                    *)
(***************************************************************************)
THEOREM WalkInvariant == Spec => []WalkInv
BY InitWalk, NextKeepsWalk, PTL DEF Spec

(***************************************************************************)
(* The walk's variables are what the loop's are: the record before, the    *)
(* verdict on it, how many were passed.                                    *)
(***************************************************************************)
THEOREM TypeCorrect == Spec => []TypeOK
BY WalkInvariant, PTL DEF WalkInv

-----------------------------------------------------------------------------
(***************************************************************************)
(* What a list is when all of its records are linked.                      *)
(***************************************************************************)
AllLinked(list) ==
    /\ \E S : list \in Seq(S)
    /\ list # <<>>
    /\ \A i \in DOMAIN list : Linked(list, i)

LEMMA ListFacts ==
    ASSUME NEW list, AllLinked(list)
    PROVE  /\ Len(list) \in Nat \ {0}
           /\ DOMAIN list = 1 .. Len(list)
           /\ \A i \in 1 .. Len(list) : Linked(list, i)
BY DEF AllLinked

(***************************************************************************)
(* A record after the first is RLP-2 and was verified against the one      *)
(* before.                                                                 *)
(***************************************************************************)
LEMMA LaterIsStored ==
    ASSUME NEW list, AllLinked(list), NEW i \in 2 .. Len(list)
    PROVE  /\ i \in DOMAIN list /\ i - 1 \in DOMAIN list
           /\ i - 1 \in 1 .. Len(list)
           /\ Rlp2(list[i])
           /\ VerifiesAsStored(list[i], Some(list[i - 1]))
<1>1. /\ i \in 1 .. Len(list) /\ i - 1 \in 1 .. Len(list) /\ i # 1
      /\ Linked(list, i)
  BY ListFacts
<1> QED
  BY <1>1, ListFacts, KindsDiffer DEF Linked, PriorIn

LEMMA LinkedIsStored ==
    ASSUME NEW list, NEW i, Linked(list, i), Rlp2(list[i])
    PROVE  VerifiesAsStored(list[i], PriorIn(list, i))
BY KindsDiffer DEF Linked

LEMMA LinkedIsSigned ==
    ASSUME NEW list, NEW i, Linked(list, i)
    PROVE  list[i].signed
BY StoredIsApproved DEF Linked, verify_first, VerifiesAlone, verify_envelope

LEMMA LinkedIsOneHistory ==
    ASSUME NEW list, AllLinked(list), Rlp2(list[Len(list)])
    PROVE  OneHistory(list)
<1>1. \A i \in DOMAIN list : list[i].signed
  BY LinkedIsSigned DEF AllLinked
<1>2. \A i \in 2 .. Len(list) :
          Rlp2(list[i]) /\ Continuation(list[i], list[i - 1])
  <2> TAKE i \in 2 .. Len(list)
  <2>1. Rlp2(list[i]) /\ VerifiesAsStored(list[i], Some(list[i - 1]))
    BY LaterIsStored
  <2> QED
    BY <2>1, StoredContinues DEF Continuation, ContinuesIdentity
<1>3. Rlp1(list[1]) => list[1].payload.previous = None
  BY ListFacts DEF Linked, verify_first
<1>4. \E i \in DOMAIN list : Rlp2(list[i])
  BY ListFacts
<1> QED
  BY <1>1, <1>2, <1>3, <1>4 DEF OneHistory

(***************************************************************************)
(* What a verified call has walked.                                        *)
(***************************************************************************)
LEMMA VerifiedIsLinked ==
    ASSUME WalkInv, Verified
    PROVE  /\ AllLinked(records)
           /\ Rlp2(Last(records))
           /\ current = Some(LineageVerdict(records, registry))
<1>1. /\ records \in Seq(published)
      /\ index = Len(records)
      /\ index # 0
      /\ Rlp2(records[index])
      /\ current = Some(LineageVerdict(records, registry))
      /\ \A i \in 1 .. Len(records) : Linked(records, i)
  BY KindsDiffer DEF WalkInv, TypeOK, Verified
<1> QED
  BY <1>1 DEF AllLinked, Last

(***************************************************************************)
(* The verdict on a list whose records are linked.  Its authority state is *)
(* the one its last record carries, which the verifier has computed again; *)
(* so but for the count of records it is the same for every list with that *)
(* last record.                                                            *)
(***************************************************************************)
StoredVerdict(record, adapters) ==
    [VerdictOf(record, None, adapters)
        EXCEPT !.authority_state = record.payload.authority_state]

LEMMA StoredIsVerdict ==
    ASSUME NEW record, NEW prior, VerifiesAsStored(record, prior), NEW adapters
    PROVE  VerdictOf(record, prior, adapters) = StoredVerdict(record, adapters)
<1>1. ExpectedAuthority(record, prior) = record.payload.authority_state
  BY DEF VerifiesAsStored, verify_rlp2_resolution
<1> QED
  BY <1>1 DEF VerdictOf, StoredVerdict

LEMMA LinkedVerdict ==
    ASSUME NEW list, AllLinked(list), Rlp2(Last(list)), NEW adapters
    PROVE  LineageVerdict(list, adapters)
               = [StoredVerdict(Last(list), adapters)
                     EXCEPT !.records = Some(Len(list))]
<1>1. VerifiesAsStored(list[Len(list)], PriorIn(list, Len(list)))
  BY ListFacts, LinkedIsStored DEF Last
<1> QED
  BY <1>1, StoredIsVerdict DEF LineageVerdict, VerdictAt, Last

LEMMA VerdictFields ==
    ASSUME NEW list, AllLinked(list), Rlp2(Last(list)), NEW adapters
    PROVE  LET verdict == LineageVerdict(list, adapters)
               record == Last(list)
           IN  /\ verdict.integrity = "PASS"
               /\ verdict.state = record.payload.body.state
               /\ verdict.authority_state = record.payload.authority_state
               /\ verdict.subject = record.payload.body.subject
               /\ verdict.original_target = record.payload.body.original_target
               /\ verdict.effective_scope = record.payload.body.effective_scope
               /\ verdict.head = hash_object(record)
<1> DEFINE stored == StoredVerdict(Last(list), adapters)
<1>1. LineageVerdict(list, adapters) = [stored EXCEPT !.records = Some(Len(list))]
  BY LinkedVerdict
<1>2. stored = [VerdictOf(Last(list), None, adapters) EXCEPT
                    !.authority_state = Last(list).payload.authority_state]
  BY DEF StoredVerdict
<1> QED
  BY <1>1, <1>2 DEF VerdictOf

LEMMA WalkIsOneHistory == WalkInv => VerifiedIsOneHistory
BY VerifiedIsLinked, LinkedIsOneHistory DEF VerifiedIsOneHistory, Last

(***************************************************************************)
(* A verified lineage is one history, for lists of any length: every       *)
(* record after the first names the record before it.                      *)
(***************************************************************************)
THEOREM VerifiesOneHistory == Spec => []VerifiedIsOneHistory
BY WalkInvariant, WalkIsOneHistory, PTL

-----------------------------------------------------------------------------
(***************************************************************************)
(* Consent.  Approvals that are accepted are the consent of their signers. *)
(***************************************************************************)
LEMMA AcceptedIsConsent ==
    ASSUME NEW approvals, NEW kind, NEW expected,
           AcceptableApprovals(approvals, kind, expected)
    PROVE  Signers(approvals) = Consenting(approvals, kind, expected)
BY DEF AcceptableApprovals, BoundTo, verify_envelope, Signers, Consenting

LEMMA StoredConsent ==
    ASSUME NEW record, NEW prior, VerifiesAsStored(record, prior)
    PROVE  Signers(record.payload.approvals) = BodyConsent(record.payload)
BY StoredIsApproved, AcceptedIsConsent DEF BodyConsent, verify_authority_approvals

LEMMA StoredEarnsAuthority ==
    ASSUME NEW record, NEW prior, VerifiesAsStored(record, prior),
           record.payload.authority_state = "AUTHORIZED"
    PROVE  EarnedAuthority(record)
BY StoredAuthority, StoredConsent DEF EarnedAuthority

LEMMA WalkEarnsAuthority == WalkInv => AuthorityIsEarned
BY VerifiedIsLinked, LinkedIsStored, StoredEarnsAuthority
   DEF AuthorityIsEarned, AllLinked

(***************************************************************************)
(* Authority is earned, whatever was approved, collected and claimed: a    *)
(* verified record says AUTHORIZED only with a quorum's consent to it.     *)
(***************************************************************************)
THEOREM AuthorityEarned == Spec => []AuthorityIsEarned
BY WalkInvariant, WalkEarnsAuthority, PTL

(***************************************************************************)
(* Policy changes.                                                         *)
(***************************************************************************)
LEMMA ChangeIsConsented ==
    ASSUME NEW record, NEW old, VerifiesAsStored(record, Some(old)),
           Rlp2(old), Judges(old)
    PROVE  PolicyConsented(record, old)
<1> DEFINE payload == record.payload
           before == old.payload.body
           policy == before.authority_policy
<1> SUFFICES ASSUME policy # payload.body.authority_policy
             PROVE  Quorate(policy, TransitionConsent(payload, policy),
                            before.verification_results)
  BY DEF PolicyConsented
<1>1. payload.body.authority_policy_digest = hash_object(payload.body.authority_policy)
  BY StoredIsDerived
<1>2. before.authority_policy_digest = hash_object(policy)
  BY DEF Judges
<1>3. ChangesPolicy(payload.body, Some(old))
  BY <1>1, <1>2, HashEqual DEF ChangesPolicy, Some
<1>4. TransitionAuthorized(payload.transition_approvals,
          hash_object(payload.body), policy, payload.body.authority_policy,
          before.verification_results)
  BY <1>3, StoredContinues, KindsDiffer DEF TransitionAllowed
<1>5. Signers(payload.transition_approvals) = TransitionConsent(payload, policy)
  BY <1>4, AcceptedIsConsent DEF TransitionAuthorized, TransitionConsent,
                                 authority_policy_digest
<1>6. Quorate(policy, Signers(payload.transition_approvals),
              before.verification_results)
  BY <1>4, AuthorizedIsQuorate DEF TransitionAuthorized
<1> QED
  BY <1>5, <1>6

LEMMA StoredJudges ==
    ASSUME NEW record, NEW prior, VerifiesAsStored(record, prior)
    PROVE  Judges(record)
BY StoredIsDerived DEF Judges, Derivable

LEMMA WalkConsents == WalkInv => PolicyChangesAreConsented
<1> SUFFICES ASSUME WalkInv, Verified, NEW i \in 2 .. Len(records),
                    Rlp2(records[i - 1])
             PROVE  PolicyConsented(records[i], records[i - 1])
  BY DEF PolicyChangesAreConsented
<1>1. AllLinked(records)
  BY VerifiedIsLinked
<1>2. VerifiesAsStored(records[i], Some(records[i - 1]))
  BY <1>1, LaterIsStored
<1>3. Judges(records[i - 1])
  BY <1>1, LaterIsStored, LinkedIsStored, StoredJudges DEF AllLinked
<1> QED
  BY <1>2, <1>3, ChangeIsConsented

(***************************************************************************)
(* No policy changes along a verified lineage without a quorum of the      *)
(* policy before it.                                                       *)
(***************************************************************************)
THEOREM PolicyChangesConsented == Spec => []PolicyChangesAreConsented
BY WalkInvariant, WalkConsents, PTL

LEMMA WalkBootstraps == WalkInv => BootstrapIsExternal
<1> SUFFICES ASSUME WalkInv, Verified
             PROVE  BootstrapIsExternal
  BY DEF BootstrapIsExternal
<1>1. AllLinked(records)
  BY VerifiedIsLinked
<1>2. ASSUME NEW i \in 2 .. Len(records), Rlp1(records[i - 1]),
             records[i].payload.authority_state = "AUTHORIZED"
      PROVE  records[i].payload.body.authority_policy.mode = "EXTERNAL"
  <2>1. VerifiesAsStored(records[i], Some(records[i - 1]))
    BY <1>1, LaterIsStored
  <2> QED
    BY <1>2, <2>1, StoredAuthority DEF Some
<1>3. ASSUME Rlp2(records[1]),
             records[1].payload.body.previous_profile = Some("RLP-1")
      PROVE  records[1].payload.authority_state = "UNRESOLVED"
  <2>1. VerifiesAsStored(records[1], None)
    BY <1>1, <1>3, ListFacts, LinkedIsStored DEF PriorIn
  <2> QED
    BY <1>3, <2>1, OrphanIsUnresolved
<1> QED
  BY <1>2, <1>3 DEF BootstrapIsExternal

(***************************************************************************)
(* The successor of an RLP-1 record is authorized under an EXTERNAL policy *)
(* only, and is not authorized at all without that record.                 *)
(***************************************************************************)
THEOREM BootstrapsExternally == Spec => []BootstrapIsExternal
BY WalkInvariant, WalkBootstraps, PTL

-----------------------------------------------------------------------------
(***************************************************************************)
(* Two linked lists with one last record, followed backwards: each record  *)
(* holds the digest of the one before it.                                  *)
(***************************************************************************)
LEMMA LinkedAgree ==
    ASSUME NEW a, AllLinked(a), NEW b, AllLinked(b), Last(a) = Last(b)
    PROVE  \A k \in Nat : k < Len(a) /\ k < Len(b) =>
               a[Len(a) - k] = b[Len(b) - k]
<1> DEFINE T == {k \in Nat : k < Len(a) /\ k < Len(b) =>
                                 a[Len(a) - k] = b[Len(b) - k]}
<1>1. Len(a) \in Nat /\ Len(b) \in Nat
  BY ListFacts
<1>2. 0 \in T
  BY <1>1 DEF Last
<1>3. ASSUME NEW k \in T PROVE k + 1 \in T
  <2> SUFFICES ASSUME k + 1 < Len(a), k + 1 < Len(b)
               PROVE  a[Len(a) - (k + 1)] = b[Len(b) - (k + 1)]
    BY <1>1
  <2> DEFINE i == Len(a) - k
             j == Len(b) - k
  <2>1. i \in 2 .. Len(a) /\ j \in 2 .. Len(b)
    BY <1>1
  <2>2. a[i] = b[j]
    BY <1>1
  <2>3. i - 1 = Len(a) - (k + 1) /\ j - 1 = Len(b) - (k + 1)
    BY <1>1
  <2> HIDE DEF i, j
  <2>4. /\ VerifiesAsStored(a[i], Some(a[i - 1]))
        /\ VerifiesAsStored(b[j], Some(b[j - 1]))
    BY <2>1, LaterIsStored
  <2>5. Some(hash_object(a[i - 1])) = Some(hash_object(b[j - 1]))
    <3>1. a[i].payload.body.previous = Some(hash_object(a[i - 1]))
      BY <2>4, StoredContinues
    <3>2. b[j].payload.body.previous = Some(hash_object(b[j - 1]))
      BY <2>4, StoredContinues
    <3> QED
      BY <2>2, <3>1, <3>2
  <2>6. a[i - 1] = b[j - 1]
    BY <2>5, SomeEqual, HashEqual
  <2> QED
    BY <2>3, <2>6
<1> HIDE DEF T
<1>4. Nat \subseteq T
  BY <1>2, <1>3, SetInduction
<1> QED
  BY <1>4 DEF T

LEMMA AgreeIsSuffix ==
    ASSUME NEW S, NEW a \in Seq(S), NEW b \in Seq(S), Len(a) <= Len(b),
           \A k \in Nat : k < Len(a) /\ k < Len(b) =>
               a[Len(a) - k] = b[Len(b) - k]
    PROVE  IsSuffix(a, b)
<1> DEFINE ra == Reverse(a)
           rb == Reverse(b)
<1>1. Len(a) \in Nat /\ Len(b) \in Nat
  OBVIOUS
<1>2. /\ ra = [i \in 1 .. Len(a) |-> a[(Len(a) - i) + 1]]
      /\ rb = [i \in 1 .. Len(b) |-> b[(Len(b) - i) + 1]]
  BY DEF Reverse
<1>3. /\ \A i \in 1 .. Len(a) : (Len(a) - i) + 1 \in 1 .. Len(a)
      /\ \A i \in 1 .. Len(b) : (Len(b) - i) + 1 \in 1 .. Len(b)
  BY <1>1
<1>4. /\ ra \in Seq(S) /\ Len(ra) = Len(a)
      /\ rb \in Seq(S) /\ Len(rb) = Len(b)
  BY <1>1, <1>2, <1>3
<1>5. \A i \in 1 .. Len(a) : ra[i] = rb[i]
  <2> TAKE i \in 1 .. Len(a)
  <2>1. i - 1 \in Nat /\ i - 1 < Len(a) /\ i - 1 < Len(b)
    BY <1>1
  <2>2. a[Len(a) - (i - 1)] = b[Len(b) - (i - 1)]
    BY <2>1
  <2>3. /\ Len(a) - (i - 1) = (Len(a) - i) + 1
        /\ Len(b) - (i - 1) = (Len(b) - i) + 1
        /\ i \in 1 .. Len(b)
    BY <1>1
  <2> QED
    BY <1>2, <2>2, <2>3
<1> HIDE DEF ra, rb
<1>6. SubSeq(ra, 1, Len(a)) = SubSeq(rb, 1, Len(a))
  BY <1>1, <1>4, <1>5, SubSeqProperties, SeqEqual
<1> QED
  BY <1>1, <1>4, <1>6 DEF IsSuffix, IsPrefix, ra, rb

LEMMA ChainedIsLinked ==
    ASSUME NEW S, NEW list \in Seq(S), list # <<>>, Chained(list)
    PROVE  AllLinked(list)
<1>1. \A i \in DOMAIN list : Linked(list, i)
  BY RecomputedIsStored DEF Chained, Linked, PriorIn
<1> QED
  BY <1>1 DEF AllLinked

LEMMA WalkFixesHistory == WalkInv => HeadFixesHistory
<1> SUFFICES ASSUME WalkInv, Verified,
                    NEW other \in BoundedSeq(published, MaxLength),
                    other # <<>>, Last(other) = Last(records), Chained(other)
             PROVE  IsSuffix(other, records) \/ IsSuffix(records, other)
  BY DEF HeadFixesHistory
<1>1. other \in Seq(published) /\ records \in Seq(published)
  BY BoundedSeqIsSeq, BoundsAssumption DEF WalkInv, TypeOK
<1>2. AllLinked(other) /\ AllLinked(records)
  BY <1>1, ChainedIsLinked, VerifiedIsLinked
<1>3. /\ \A k \in Nat : k < Len(other) /\ k < Len(records) =>
             other[Len(other) - k] = records[Len(records) - k]
      /\ \A k \in Nat : k < Len(records) /\ k < Len(other) =>
             records[Len(records) - k] = other[Len(other) - k]
  BY <1>2, LinkedAgree
<1>4. Len(other) <= Len(records) \/ Len(records) <= Len(other)
  BY <1>1
<1> QED
  BY <1>1, <1>3, <1>4, AgreeIsSuffix

(***************************************************************************)
(* The head fixes the history: of two lists of any length that verify and  *)
(* end in one record, the shorter is the end of the longer.                *)
(***************************************************************************)
THEOREM HeadFixes == Spec => []HeadFixesHistory
BY WalkInvariant, WalkFixesHistory, PTL

-----------------------------------------------------------------------------
(***************************************************************************)
(* Evidence.  A resolved check cites evidence that is recorded VERIFIED.   *)
(***************************************************************************)
LEMMA ResolvedIsVerified ==
    ASSUME NEW body, Derivable(body, body.verification_results),
           NEW i \in DOMAIN body.checks, body.checks[i].outcome # "UNRESOLVED"
    PROVE  /\ body.checks[i].evidence # <<>>
           /\ \A e \in Range(body.checks[i].evidence) :
                  /\ e \in body.evidence
                  /\ body.verification_results[e].result = "VERIFIED"
<1>1. /\ body.checks[i].outcome \in {"PASS", "FAIL"}
      /\ CitesEvidence(body.checks[i], body.evidence)
  BY DEF Derivable, _validate_checks, CHECK_OUTCOMES
<1>2. /\ body.checks[i].evidence # <<>>
      /\ Range(body.checks[i].evidence) \subseteq body.evidence
  BY <1>1 DEF CitesEvidence
<1>3. \A e \in Range(body.checks[i].evidence) :
          body.verification_results[e].result = "VERIFIED"
  BY <1>1 DEF Derivable, require_verified_check_evidence, Range
<1> QED
  BY <1>2, <1>3

(***************************************************************************)
(* Evidence that is recomputed to be VERIFIED was seen to be: the adapter  *)
(* the record names was there and said so.                                 *)
(***************************************************************************)
LEMMA RecomputedIsObserved ==
    ASSUME NEW body, NEW adapters \in registry, Recomputes(body, registry, native),
           NEW e \in body.evidence,
           body.verification_results[e].result = "VERIFIED"
    PROVE  \E w \in Observations(body) :
               /\ w[1] = e
               /\ hash_object(w[2]) = body.verification_specs[e].method_digest
               /\ w[3] = "VERIFIED"
<1> DEFINE spec == body.verification_specs[e]
<1>1. recompute_verification_results(body.evidence, body.verification_specs,
          body.verification_results, adapters, native)
  BY DEF Recomputes
<1>2. /\ AdapterMatches(spec, adapters)
      /\ body.verification_results[e]
             = ResultOf(spec, ObservedState(spec, adapters, native[e]))
  BY <1>1 DEF recompute_verification_results, Verifiable, verify_evidence_set
<1>3. ObservedState(spec, adapters, native[e]) = "VERIFIED"
  BY <1>2 DEF ResultOf
<1>4. adapters[spec.method] # None /\ NormalForm[native[e]] = "VERIFIED"
  BY <1>3 DEF ObservedState
<1>5. PICK source \in adapters[spec.method] : TRUE
  BY <1>4 DEF None
<1>6. hash_object(source) = spec.method_digest
  BY <1>2 DEF AdapterMatches, adapter_code_digest
<1>7. <<e, source, "VERIFIED">> \in Observations(body)
  <2> DEFINE Seen(f, using) ==
                 {<<f, s, NormalForm[native[f]]>> :
                      s \in using[body.verification_specs[f].method]}
  <2>1. <<e, source, "VERIFIED">> \in Seen(e, adapters)
    BY <1>4, <1>5
  <2>2. Observations(body)
            = UNION {Seen(f, using) : f \in body.evidence, using \in registry}
    BY DEF Observations
  <2> HIDE DEF Seen
  <2> QED
    BY <2>1, <2>2
<1> QED
  BY <1>6, <1>7

LEMMA RecordIsWitnessed ==
    ASSUME NEW record, NEW prior, registry # None,
           verify_rlp2_resolution(record, prior, registry, native)
    PROVE  WitnessedBy(Observations(record.payload.body), record.payload.body)
<1> DEFINE body == record.payload.body
<1>1. PICK adapters \in registry : TRUE
  BY DEF None
<1>2. /\ Derivable(body, body.verification_results)
      /\ Recomputes(body, registry, native)
  BY RecomputedIsStored, StoredIsDerived
<1> HIDE DEF body
<1>3. ASSUME NEW i \in DOMAIN body.checks,
             body.checks[i].outcome # "UNRESOLVED",
             NEW e \in Range(body.checks[i].evidence)
      PROVE  \E w \in Observations(body) :
                 /\ w[1] = e
                 /\ hash_object(w[2]) = body.verification_specs[e].method_digest
                 /\ w[3] = "VERIFIED"
  <2>1. e \in body.evidence /\ body.verification_results[e].result = "VERIFIED"
    BY <1>2, <1>3, ResolvedIsVerified
  <2> QED
    BY <1>1, <1>2, <2>1, RecomputedIsObserved
<1>4. WitnessedBy(Observations(body), body)
  BY <1>3 DEF WitnessedBy
<1> QED
  BY <1>4 DEF body

LEMMA WitnessesStay ==
    ASSUME NEW body, NEW set, NEW more, WitnessedBy(set, body), set \subseteq more
    PROVE  WitnessedBy(more, body)
BY DEF WitnessedBy

LEMMA CheckKeepsWitness == WalkInv /\ WitnessInv /\ CheckRecord => WitnessInv'
<1> SUFFICES ASSUME WalkInv, WitnessInv, CheckRecord, registry # None,
                    NEW i \in 1 .. index', Rlp2(records[i])
             PROVE  WitnessedBy(witnessed', records[i].payload.body)
  BY DEF CheckRecord, WitnessInv
<1>1. /\ index' = index + 1
      /\ witnessed' = witnessed \cup Observations(records[index + 1].payload.body)
      /\ verify_rlp2_resolution(records[index + 1], previous, registry, native)
      /\ AtRecord
  BY DEF CheckRecord, AcceptsRlp2, NextRecord
<1>2. CASE i = index + 1
  BY <1>1, <1>2, RecordIsWitnessed, WitnessesStay
<1>3. CASE i \in 1 .. index
  BY <1>1, <1>3, WitnessesStay DEF WitnessInv
<1> QED
  BY <1>1, <1>2, <1>3, AtRecordFacts

(***************************************************************************)
(* Where no record is passed, there is nothing new to witness.             *)
(***************************************************************************)
LEMMA RestKeepsWitness ==
    ASSUME WitnessInv,
           \/ index' = 0
           \/ UNCHANGED <<registry, records, index, witnessed>>
    PROVE  WitnessInv'
<1>1. CASE index' = 0
  BY <1>1 DEF WitnessInv
<1>2. CASE UNCHANGED <<registry, records, index, witnessed>>
  BY <1>2 DEF WitnessInv
<1> QED
  BY <1>1, <1>2

LEMMA PassKeepsWitness == WalkInv /\ WitnessInv /\ PassAncestor => WitnessInv'
<1> SUFFICES ASSUME WalkInv, WitnessInv, PassAncestor, registry # None,
                    NEW i \in 1 .. index', Rlp2(records[i])
             PROVE  WitnessedBy(witnessed, records[i].payload.body)
  BY DEF PassAncestor, WitnessInv
<1>1. /\ index' = index + 1
      /\ Rlp1(records[index + 1])
      /\ AtRecord
  BY DEF PassAncestor, AcceptsAncestor, NextRecord
<1>2. i \in 1 .. index
  BY <1>1, AtRecordFacts, KindsDiffer
<1> QED
  BY <1>2 DEF WitnessInv

LEMMA WalkKeepsWitness == WalkInv /\ WitnessInv /\ Walk => WitnessInv'
<1>1. WitnessInv /\ RejectRecord => WitnessInv'
  BY RestKeepsWitness DEF RejectRecord, call
<1>2. WitnessInv /\ ReturnLineage => WitnessInv'
  BY RestKeepsWitness DEF ReturnLineage, call
<1> QED
  BY <1>1, <1>2, PassKeepsWitness, CheckKeepsWitness DEF Walk

LEMMA NextKeepsWitness == WalkInv /\ WitnessInv /\ [Next]_vars => WitnessInv'
<1> SUFFICES ASSUME WalkInv, WitnessInv, [Next]_vars
             PROVE  WitnessInv'
  OBVIOUS
<1>1. CASE \/ SignResolution \/ SignRlp2 \/ CollectApprovals \/ RewriteRecord
  BY <1>1, RestKeepsWitness
     DEF SignResolution, SignRlp2, CollectApprovals, RewriteRecord, Publish, call
<1>2. CASE NativeChanges
  BY <1>2, RestKeepsWitness DEF NativeChanges, call
<1>3. CASE StartLineage
  BY <1>3, RestKeepsWitness DEF StartLineage, WalkInv
<1>4. CASE Walk
  BY <1>4, WalkKeepsWitness
<1>5. CASE Decide
  BY <1>5, RestKeepsWitness DEF Decide
<1>6. CASE EndCall
  BY <1>6, RestKeepsWitness DEF EndCall
<1>7. CASE UNCHANGED vars
  BY <1>7, RestKeepsWitness DEF vars, call
<1> QED
  BY <1>1, <1>2, <1>3, <1>4, <1>5, <1>6, <1>7 DEF Next, Walk

LEMMA InitWitness == Init => WitnessInv
BY DEF Init, WitnessInv

LEMMA WalkIsWitnessed == WalkInv /\ WitnessInv => EvidenceIsWitnessed
<1> SUFFICES ASSUME WalkInv, WitnessInv, Verified, registry # None,
                    NEW i \in DOMAIN records, Rlp2(records[i])
             PROVE  Witnessed(records[i].payload.body)
  BY DEF EvidenceIsWitnessed
<1>1. i \in 1 .. index
  BY DEF WalkInv, TypeOK
<1> QED
  BY <1>1 DEF WitnessInv, WitnessedBy, Witnessed

(***************************************************************************)
(* RECOMPUTED means recomputed: every piece of evidence a resolved check   *)
(* of a verified record cites was answered VERIFIED in this very call, by  *)
(* an adapter with the source the record names, whatever the native        *)
(* systems answer and however often they change.                           *)
(***************************************************************************)
THEOREM EvidenceWitnessed == Spec => []EvidenceIsWitnessed
BY InitWitness, NextKeepsWitness, WalkInvariant, WalkIsWitnessed, PTL DEF Spec

-----------------------------------------------------------------------------
(***************************************************************************)
(* The gate.  A conclusion that is not UNRESOLVED rests on evidence.       *)
(***************************************************************************)
LEMMA ConclusionRests ==
    ASSUME NEW body, Derivable(body, body.verification_results),
           body.state = KernelState(body), body.state # "UNRESOLVED"
    PROVE  RestsOnVerified(body)
<1> SUFFICES ASSUME NEW i \in DOMAIN body.checks, body.checks[i].required
             PROVE  \/ body.state = "FAILED" /\ body.checks[i].outcome = "UNRESOLVED"
                    \/ /\ body.checks[i].outcome # "UNRESOLVED"
                       /\ body.checks[i].evidence # <<>>
                       /\ \A e \in Range(body.checks[i].evidence) :
                              body.verification_results[e].result = "VERIFIED"
  BY DEF RestsOnVerified
<1>1. CASE body.checks[i].outcome = "UNRESOLVED"
  <2>1. "UNRESOLVED" \in RequiredOutcomes(body.checks)
    BY <1>1 DEF RequiredOutcomes
  <2> QED
    BY <1>1, <2>1 DEF KernelState, derive_resolution_state
<1>2. CASE body.checks[i].outcome # "UNRESOLVED"
  BY <1>2, ResolvedIsVerified
<1> QED
  BY <1>1, <1>2

(***************************************************************************)
(* A PERMIT on the verdict of a record that verified is justified by it.   *)
(***************************************************************************)
LEMMA PermitJustified ==
    ASSUME NEW record, NEW prior, VerifiesAsStored(record, prior),
           NEW verdict,
           verdict.authority_state = record.payload.authority_state,
           verdict.state = record.payload.body.state,
           verdict.effective_scope = record.payload.body.effective_scope,
           NEW gate, validate_action_policy(gate.policy),
           GateDecision(gate, verdict) = "PERMIT"
    PROVE  Permits(gate, record) /\ record.payload.body.state # "UNRESOLVED"
<1> DEFINE body == record.payload.body
<1>1. /\ verdict.authority_state = record.payload.authority_state
      /\ verdict.state = body.state
      /\ verdict.effective_scope = body.effective_scope
  OBVIOUS
<1>2. derive_action_decision(gate.action_id, gate.requested_scope, verdict,
                             gate.policy, gate.scope_adapters) = "PERMIT"
  BY DEF GateDecision
<1>3. /\ record.payload.authority_state = "AUTHORIZED"
      /\ body.state # "UNRESOLVED"
  BY <1>1, <1>2, PermitMeans
<1>4. PICK i \in DOMAIN gate.policy.rules :
          LET rule == gate.policy.rules[i]
          IN  /\ rule.action = gate.action_id
              /\ body.state \in rule.allowed_resolution_states
              /\ rule.require_scope_containment =>
                     scope_contains(body.effective_scope, gate.requested_scope,
                                    gate.scope_adapters) = "TRUE"
  BY <1>1, <1>2, PermitMeans
<1>5. /\ Derivable(body, body.verification_results)
      /\ body.state = KernelState(body)
  BY StoredIsDerived
<1>6. EarnedAuthority(record) /\ RestsOnVerified(body)
  BY <1>3, <1>5, StoredEarnsAuthority, ConclusionRests
<1>7. Within(gate, body.effective_scope) =>
          (KeepsBuiltIn(gate) => Within(gate, body.original_scope))
  BY <1>5, OriginalContains DEF Within, KeepsBuiltIn, Derivable
<1>8. gate.policy.rules[i].require_scope_containment =>
          Within(gate, body.effective_scope)
  BY <1>4 DEF Within
<1> QED
  BY <1>3, <1>4, <1>6, <1>7, <1>8 DEF Permits

LEMMA DecideKeepsDecision == WalkInv /\ Decide => DecisionInv'
<1> SUFFICES ASSUME WalkInv, Decide
             PROVE  DecisionInv'
  OBVIOUS
<1>1. /\ decision = {} /\ current = Some(LineageVerdict(records, registry))
      /\ AllLinked(records) /\ Rlp2(Last(records))
  BY VerifiedIsLinked DEF Decide, Verified, WalkInv, TypeOK
<1>2. /\ records' = records /\ registry' = registry
      /\ \/ decision' = decision
         \/ \E gate \in Gates, verdict \in current :
                /\ validate_action_policy(gate.policy)
                /\ decision' = Some([gate |-> gate,
                                     decision |-> GateDecision(gate, verdict),
                                     resolution_head |-> Some(verdict.head)])
  BY DEF Decide
<1>3. CASE decision' = decision
  BY <1>1, <1>3 DEF DecisionInv
<1>4. CASE \E gate \in Gates, verdict \in current :
                /\ validate_action_policy(gate.policy)
                /\ decision' = Some([gate |-> gate,
                                     decision |-> GateDecision(gate, verdict),
                                     resolution_head |-> Some(verdict.head)])
  <2> DEFINE verdict == LineageVerdict(records, registry)
  <2>1. verdict.head = hash_object(Last(records))
    BY <1>1, VerdictFields
  <2> HIDE DEF verdict
  <2>2. PICK gate \in Gates :
            /\ validate_action_policy(gate.policy)
            /\ decision' = Some([gate |-> gate,
                                 decision |-> GateDecision(gate, verdict),
                                 resolution_head |-> Some(verdict.head)])
    BY <1>1, <1>4 DEF Some, verdict
  <2>3. \A d \in decision' :
            /\ validate_action_policy(d.gate.policy)
            /\ d.decision = GateDecision(d.gate, verdict)
            /\ d.resolution_head = Some(hash_object(Last(records)))
    BY <2>1, <2>2 DEF Some
  <2> QED
    BY <1>2, <2>3 DEF DecisionInv, verdict
<1> QED
  BY <1>2, <1>3, <1>4

LEMMA RestKeepsDecision ==
    ASSUME DecisionInv,
           \/ decision' = {}
           \/ UNCHANGED <<decision, records, registry>>
    PROVE  DecisionInv'
<1>1. CASE decision' = {}
  BY <1>1 DEF DecisionInv
<1>2. CASE UNCHANGED <<decision, records, registry>>
  BY <1>2 DEF DecisionInv
<1> QED
  BY <1>1, <1>2

LEMMA NextKeepsDecision == WalkInv /\ DecisionInv /\ [Next]_vars => DecisionInv'
<1> SUFFICES ASSUME WalkInv, DecisionInv, [Next]_vars
             PROVE  DecisionInv'
  OBVIOUS
<1>1. CASE \/ SignResolution \/ SignRlp2 \/ CollectApprovals \/ RewriteRecord
  BY <1>1, RestKeepsDecision
     DEF SignResolution, SignRlp2, CollectApprovals, RewriteRecord, Publish, call
<1>2. CASE NativeChanges
  BY <1>2, RestKeepsDecision DEF NativeChanges, call
<1>3. CASE StartLineage
  <2>1. decision' = {}
    BY <1>3 DEF StartLineage, WalkInv, TypeOK
  <2> QED
    BY <2>1, RestKeepsDecision
<1>4. CASE Walk
  BY <1>4, RestKeepsDecision
     DEF Walk, PassAncestor, CheckRecord, RejectRecord, ReturnLineage, call
<1>5. CASE Decide
  BY <1>5, DecideKeepsDecision
<1>6. CASE EndCall
  BY <1>6, RestKeepsDecision DEF EndCall, None
<1>7. CASE UNCHANGED vars
  BY <1>7, RestKeepsDecision DEF vars, call
<1> QED
  BY <1>1, <1>2, <1>3, <1>4, <1>5, <1>6, <1>7 DEF Next, Walk

LEMMA InitDecision == Init => DecisionInv
BY DEF Init, DecisionInv, None

LEMMA DecisionIsJustified == WalkInv /\ DecisionInv => PermitIsJustified
<1> SUFFICES ASSUME WalkInv, DecisionInv, NEW d \in decision,
                    d.decision = "PERMIT"
             PROVE  /\ OneHistory(records)
                    /\ Permits(d.gate, Last(records))
                    /\ d.resolution_head = Some(hash_object(Last(records)))
  BY DEF PermitIsJustified
<1>1. Verified
  BY DEF WalkInv, TypeOK, Verified
<1>2. AllLinked(records) /\ Rlp2(Last(records))
  BY <1>1, VerifiedIsLinked
<1>3. VerifiesAsStored(Last(records), PriorIn(records, Len(records)))
  BY <1>2, ListFacts, LinkedIsStored DEF Last
<1>4. Permits(d.gate, Last(records))
  BY <1>2, <1>3, VerdictFields, PermitJustified DEF DecisionInv
<1> QED
  BY <1>1, <1>4, WalkIsOneHistory DEF DecisionInv, VerifiedIsOneHistory

LEMMA DecisionInvariant == Spec => []DecisionInv
BY InitDecision, NextKeepsDecision, WalkInvariant, PTL DEF Spec

(***************************************************************************)
(* The gate's core property: PERMIT only on one history whose head earned  *)
(* its authority, rests on verified evidence and allows the scope asked    *)
(* for; and the decision names that head.                                  *)
(***************************************************************************)
THEOREM PermitsAreJustified == Spec => []PermitIsJustified
BY WalkInvariant, DecisionInvariant, DecisionIsJustified, PTL

-----------------------------------------------------------------------------
(***************************************************************************)
(* Honest records.  The predecessor a record names is the one it was       *)
(* signed over.                                                            *)
(***************************************************************************)
LEMMA LinksEqual ==
    ASSUME NEW one, IsOptional(one), NEW other, IsOptional(other),
           LinkTo(one) = LinkTo(other)
    PROVE  one = other
<1>1. CASE one = None
  <2>1. LinkTo(one) = {}
    BY <1>1 DEF LinkTo, None
  <2> QED
    BY <1>1, <2>1 DEF IsOptional, LinkTo, None, Some
<1>2. CASE \E record : one = Some(record)
  <2>1. PICK record : one = {record}
    BY <1>2 DEF Some
  <2>2. hash_object(record) \in LinkTo(other)
    BY <2>1 DEF LinkTo
  <2>3. PICK found \in other : hash_object(found) = hash_object(record)
    BY <2>2 DEF LinkTo
  <2> QED
    BY <2>1, <2>3, HashEqual DEF IsOptional, None, Some
<1> QED
  BY <1>1, <1>2 DEF IsOptional

LEMMA OptionalIsOptional ==
    ASSUME NEW S, NEW prior \in Optional(S)
    PROVE  IsOptional(prior)
BY DEF Optional, IsOptional

LEMMA SignedResolutionVerifies ==
    ASSUME NEW draft, NEW did, NEW prior, Buildable(draft, LinkTo(prior))
    PROVE  /\ Rlp1(sign_resolution(draft, did, prior))
           /\ VerifiesAlone(sign_resolution(draft, did, prior))
BY DEF sign_resolution, sign_envelope, build_resolution_payload, FillPayload,
       Buildable, Rlp1, _previous_profile, VerifiesAlone, verify_envelope,
       StateIsDerived

LEMMA SignedIsLinked ==
    ASSUME NEW draft, NEW adapters, NEW answers, NEW keys \in KeyLists,
           NEW prior, IsOptional(prior), NEW transition_keys,
           CanSign(draft, adapters, answers, keys, prior, transition_keys),
           SignedProperly(sign_rlp2_resolution(draft, adapters, answers, keys,
                                               prior, transition_keys),
                          keys, prior, transition_keys)
    PROVE  LET record == sign_rlp2_resolution(draft, adapters, answers, keys,
                                              prior, transition_keys)
           IN  Rlp2(record) /\ VerifiesWhereLinked(record)
<1> DEFINE body == SignedBody(draft, adapters, answers, prior)
           record == sign_rlp2_resolution(draft, adapters, answers, keys,
                                          prior, transition_keys)
<1>1. record.kind = RLP2_KIND /\ record.payload.body = body
  BY DEF sign_rlp2_resolution, sign_envelope
<1>2. Rlp2(record)
  BY <1>1 DEF Rlp2, _previous_profile, RLP2_KIND, RESOLUTION_KIND
<1>3. body.previous = LinkTo(prior)
  BY DEF SignedBody, _build_body
<1>4. /\ keys \in Seq(DIDs)
      /\ IsInjective(keys)
      /\ ChangesPolicy(body, prior) =>
             /\ IsInjective(transition_keys)
             /\ \A old \in prior :
                    Quorate(old.payload.body.authority_policy,
                            Range(transition_keys),
                            old.payload.body.verification_results)
  BY <1>1, ListsAssumption DEF SignedProperly
<1>5. (\A old \in prior : Rlp2(old) => Judges(old)) =>
          VerifiesAsStored(record, prior)
  BY <1>4, SignedVerifies DEF IsOptional
<1> HIDE DEF record, body
<1>6. VerifiesWhereLinked(record)
  BY <1>1, <1>3, <1>5, LinksEqual DEF VerifiesWhereLinked
<1> QED
  BY <1>2, <1>6 DEF record

LEMMA NextKeepsHonest == HonestInv /\ [Next]_vars => HonestInv'
<1> SUFFICES ASSUME HonestInv, [Next]_vars
             PROVE  HonestInv'
  OBVIOUS
<1>1. CASE SignResolution
  <2>1. PICK draft, did, prior :
            /\ Buildable(draft, LinkTo(prior))
            /\ honest' = honest \cup {sign_resolution(draft, did, prior)}
    BY <1>1 DEF SignResolution
  <2> QED
    BY <2>1, SignedResolutionVerifies DEF HonestInv
<1>2. CASE SignRlp2
  <2>1. PICK draft \in Drafts, keys \in KeyLists, adapters \in SignerAdapters,
             prior \in Optional(published), transition_keys \in TransitionKeys :
            LET record == sign_rlp2_resolution(draft, adapters, native, keys,
                                               prior, transition_keys)
            IN  /\ CanSign(draft, adapters, native, keys, prior, transition_keys)
                /\ honest' =
                       IF SignedProperly(record, keys, prior, transition_keys)
                       THEN honest \cup {record}
                       ELSE honest
    BY <1>2 DEF SignRlp2
  <2> DEFINE record == sign_rlp2_resolution(draft, adapters, native, keys,
                                            prior, transition_keys)
  <2>2. CASE SignedProperly(record, keys, prior, transition_keys)
    <3>1. Rlp2(record) /\ VerifiesWhereLinked(record)
      BY <2>1, <2>2, SignedIsLinked, OptionalIsOptional
    <3> QED
      BY <2>1, <2>2, <3>1 DEF HonestInv
  <2>3. CASE ~ SignedProperly(record, keys, prior, transition_keys)
    BY <2>1, <2>3 DEF HonestInv
  <2> QED
    BY <2>2, <2>3
<1>3. CASE honest' = honest
  BY <1>3 DEF HonestInv
<1>4. \/ SignResolution \/ SignRlp2 \/ honest' = honest
  BY DEF Next, vars, ledger, CollectApprovals, RewriteRecord, NativeChanges,
         StartLineage, PassAncestor, CheckRecord, RejectRecord, ReturnLineage,
         Decide, EndCall
<1> QED
  BY <1>1, <1>2, <1>3, <1>4

LEMMA HonestInvariant == Spec => []HonestInv
<1>1. Init => HonestInv
  BY DEF Init, HonestInv
<1> QED
  BY <1>1, NextKeepsHonest, PTL DEF Spec

(***************************************************************************)
(* The walk never stops inside an honest lineage.                          *)
(***************************************************************************)
LEMMA HonestIsAccepted ==
    ASSUME WalkInv, HonestInv, registry = None, index < Len(records),
           HonestLineage(records)
    PROVE  AcceptsAncestor \/ AcceptsRlp2
<1> DEFINE i == index + 1
           record == records[i]
<1>1. /\ records \in Seq(published) /\ index \in Nat /\ Len(records) \in Nat
      /\ i \in 1 .. Len(records) /\ i \in DOMAIN records
      /\ previous = PriorIn(records, i)
  BY DEF WalkInv, TypeOK, PriorIn
<1>2. /\ record \in honest
      /\ OneHistory(records)
      /\ Rlp2(records[1]) => records[1].payload.body.previous = None
  BY <1>1 DEF HonestLineage
<1>3. CASE Rlp1(record)
  <2>1. i = 1
    BY <1>1, <1>2, <1>3, KindsDiffer DEF OneHistory
  <2>2. record.payload.previous = None /\ previous = None
    BY <1>1, <1>2, <1>3, <2>1 DEF OneHistory, PriorIn
  <2>3. VerifiesAlone(record)
    BY <1>2, <1>3, KindsDiffer DEF HonestInv
  <2> QED
    BY <1>3, <2>2, <2>3 DEF AcceptsAncestor, verify_first, NextRecord
<1>4. CASE Rlp2(record)
  <2>1. VerifiesWhereLinked(record)
    BY <1>2, <1>4, KindsDiffer DEF HonestInv
  <2>2. IsOptional(previous)
    BY <1>1 DEF PriorIn, IsOptional
  <2>3. LinkTo(previous) = record.payload.body.previous
    <3>1. CASE i = 1
      BY <1>1, <1>2, <1>4, <3>1 DEF PriorIn, LinkTo, None
    <3>2. CASE i # 1
      <4>1. i \in 2 .. Len(records)
        BY <1>1, <3>2
      <4>2. record.payload.body.previous = Some(hash_object(records[i - 1]))
        BY <1>2, <4>1 DEF OneHistory, Continuation
      <4> QED
        BY <1>1, <3>2, <4>2 DEF PriorIn, LinkTo, Some
    <3> QED
      BY <3>1, <3>2
  <2>4. \A old \in previous : Rlp2(old) => Judges(old)
    <3>1. CASE index = 0
      BY <1>1, <3>1 DEF PriorIn, None
    <3>2. CASE index # 0
      <4>1. Linked(records, index) /\ previous = Some(records[index])
        BY <1>1, <3>2 DEF PriorIn, WalkInv
      <4> QED
        BY <4>1, LinkedIsStored, StoredJudges DEF Some
    <3> QED
      BY <3>1, <3>2
  <2>5. VerifiesAsStored(record, previous)
    BY <2>1, <2>2, <2>3, <2>4 DEF VerifiesWhereLinked
  <2> QED
    BY <1>4, <2>5, StoredVerifies DEF AcceptsRlp2, NextRecord
<1> QED
  BY <1>3, <1>4, KindsDiffer

LEMMA WalkAcceptsHonest == WalkInv /\ HonestInv => HonestLineagesVerify
BY HonestIsAccepted DEF HonestLineagesVerify, WalkInv, RefusesNext

(***************************************************************************)
(* What the library signed with sufficient keys is never refused by a      *)
(* verifier that recomputes nothing: lineages of any length, under any     *)
(* policies and any changes of them.                                       *)
(***************************************************************************)
THEOREM HonestVerify == Spec => []HonestLineagesVerify
BY WalkInvariant, HonestInvariant, WalkAcceptsHonest, PTL

-----------------------------------------------------------------------------
(***************************************************************************)
(* What is published.  Every publishing step adds a record that is well    *)
(* formed and names only what is there already.                            *)
(***************************************************************************)
Publishes ==
    \E record :
        /\ Publish(record)
        /\ WellFormed(record)
        /\ \A prior : Names(record, prior) => prior \in published

LEMMA SignedIsWellFormed ==
    ASSUME NEW draft \in Drafts, NEW adapters, NEW answers, NEW keys,
           NEW prior \in Optional(published), NEW transition_keys
    PROVE  LET record == sign_rlp2_resolution(draft, adapters, answers, keys,
                                              prior, transition_keys)
           IN  /\ WellFormed(record)
               /\ \A old : Names(record, old) => old \in published
<1> DEFINE body == SignedBody(draft, adapters, answers, prior)
           record == sign_rlp2_resolution(draft, adapters, answers, keys,
                                          prior, transition_keys)
<1>1. PICK kind, state, approvals, transitions, did :
          record = [kind |-> kind,
                    payload |-> [body |-> body, authority_state |-> state,
                                 approvals |-> approvals,
                                 transition_approvals |-> transitions],
                    signer |-> did, signed |-> TRUE]
  BY DEF sign_rlp2_resolution, sign_envelope
<1>2. /\ body.previous = LinkTo(prior)
      /\ body.authority_policy = draft.authority_policy
  BY DEF SignedBody, _build_body
<1> HIDE DEF record, body
<1>3. record.payload.body = body
  BY <1>1
<1>4. IsRlp2Payload(record.payload)
  BY <1>1 DEF IsRlp2Payload
<1>5. ListsPrincipals(body)
  BY <1>2, ListsAssumption DEF ListsPrincipals
<1>6. ASSUME NEW old, Names(record, old) PROVE old \in published
  <2>1. hash_object(old) \in LinkTo(prior)
    BY <1>2, <1>3, <1>6 DEF Names, Some
  <2>2. old \in prior
    BY <2>1, HashEqual DEF LinkTo
  <2> QED
    BY <2>2 DEF Optional, None, Some
<1> QED
  BY <1>3, <1>4, <1>5, <1>6 DEF WellFormed, record

LEMMA CollectedIsWellFormed ==
    ASSUME PublishedInv, NEW one \in Rlp2Records, NEW other, NEW state, NEW did,
           NEW record \in Collected(one, other, state, did)
    PROVE  /\ WellFormed(record)
           /\ record.payload.body = one.payload.body
<1> DEFINE made(approvals, transitions) ==
               sign_envelope(RLP2_KIND,
                             [body |-> one.payload.body, authority_state |-> state,
                              approvals |-> approvals,
                              transition_approvals |-> transitions],
                             did)
           either == {other.payload.approvals,
                      one.payload.approvals \o other.payload.approvals}
           any == {one.payload.transition_approvals,
                   other.payload.transition_approvals}
<1>1. Collected(one, other, state, did)
          = {made(approvals, transitions) : approvals \in either, transitions \in any}
  BY DEF Collected
<1> HIDE DEF made, either, any
<1>2. PICK approvals \in either, transitions \in any :
          record = made(approvals, transitions)
  BY <1>1
<1>3. record = [kind |-> RLP2_KIND,
                payload |-> [body |-> one.payload.body,
                             authority_state |-> state,
                             approvals |-> approvals,
                             transition_approvals |-> transitions],
                signer |-> did, signed |-> TRUE]
  BY <1>2 DEF made, sign_envelope
<1>4. record.payload.body = one.payload.body
  BY <1>3
<1>5. IsRlp2Payload(record.payload)
  BY <1>3 DEF IsRlp2Payload
<1>6. ListsPrincipals(one.payload.body)
  BY DEF PublishedInv, Rlp2Records, WellFormed
<1> QED
  BY <1>4, <1>5, <1>6 DEF WellFormed

LEMMA RewrittenIsWellFormed ==
    ASSUME PublishedInv, NEW record \in Rlp2Records, NEW state
    PROVE  LET edited == Edited(record,
                             [record.payload EXCEPT !.authority_state = state])
           IN  /\ WellFormed(edited)
               /\ edited.payload.body = record.payload.body
               /\ edited.signed = FALSE
<1> DEFINE payload == [record.payload EXCEPT !.authority_state = state]
           edited == Edited(record, payload)
<1>1. IsRlp2Payload(record.payload) /\ ListsPrincipals(record.payload.body)
  BY DEF PublishedInv, Rlp2Records, WellFormed
<1>2. PICK body, s, a, t :
          record.payload = [body |-> body, authority_state |-> s, approvals |-> a,
                            transition_approvals |-> t]
  BY <1>1 DEF IsRlp2Payload
<1>3. payload = [body |-> body, authority_state |-> state, approvals |-> a,
                 transition_approvals |-> t]
  BY <1>2
<1> HIDE DEF payload
<1>4. edited.payload = payload /\ edited.signed = FALSE
  BY DEF Edited
<1> HIDE DEF edited
<1>5. edited.payload.body = record.payload.body
  BY <1>2, <1>3, <1>4
<1>6. IsRlp2Payload(edited.payload)
  BY <1>3, <1>4 DEF IsRlp2Payload
<1> QED
  BY <1>1, <1>4, <1>5, <1>6 DEF WellFormed, edited, payload

LEMMA PublishingStep ==
    ASSUME PublishedInv, RankInv,
           SignResolution \/ SignRlp2 \/ CollectApprovals \/ RewriteRecord
    PROVE  Publishes
<1>1. CASE SignResolution
  <2>1. PICK draft, did, prior : Publish(sign_resolution(draft, did, prior))
    BY <1>1 DEF SignResolution
  <2> DEFINE record == sign_resolution(draft, did, prior)
  <2>2. record.kind = RESOLUTION_KIND
    BY DEF sign_resolution, sign_envelope
  <2> HIDE DEF record
  <2>3. ~ Rlp2(record)
    BY <2>2 DEF Rlp2, _previous_profile
  <2> QED
    BY <2>1, <2>2, <2>3 DEF Publishes, WellFormed, Names, record
<1>2. CASE SignRlp2
  <2>1. PICK draft \in Drafts, keys \in KeyLists, adapters \in SignerAdapters,
             prior \in Optional(published), transition_keys \in TransitionKeys :
            Publish(sign_rlp2_resolution(draft, adapters, native, keys, prior,
                                         transition_keys))
    BY <1>2 DEF SignRlp2
  <2> QED
    BY <2>1, SignedIsWellFormed DEF Publishes
<1>3. CASE CollectApprovals
  <2>1. PICK one \in Rlp2Records, other \in Rlp2Records,
             state \in ClaimedStates, did \in Collectors :
            \E record \in Collected(one, other, state, did) : Publish(record)
    BY <1>3 DEF CollectApprovals
  <2>2. PICK record \in Collected(one, other, state, did) : Publish(record)
    BY <2>1
  <2>3. WellFormed(record) /\ record.payload.body = one.payload.body
    BY CollectedIsWellFormed
  <2>4. \A prior : Names(record, prior) => prior \in published
    BY <2>3 DEF Names, RankInv, RankedBy, Rlp2Records
  <2> QED
    BY <2>2, <2>3, <2>4 DEF Publishes
<1>4. CASE RewriteRecord
  <2>1. PICK one \in Rlp2Records, state \in ClaimedStates :
            Publish(Edited(one, [one.payload EXCEPT !.authority_state = state]))
    BY <1>4 DEF RewriteRecord
  <2> DEFINE record == Edited(one, [one.payload EXCEPT !.authority_state = state])
  <2>2. WellFormed(record) /\ record.payload.body = one.payload.body
    BY RewrittenIsWellFormed
  <2> HIDE DEF record
  <2>3. \A prior : Names(record, prior) => prior \in published
    BY <2>2 DEF Names, RankInv, RankedBy, Rlp2Records
  <2> QED
    BY <2>1, <2>2, <2>3 DEF Publishes, record
<1> QED
  BY <1>1, <1>2, <1>3, <1>4

(***************************************************************************)
(* A new record is ranked above the record it names.                       *)
(***************************************************************************)
LEMMA PublishKeepsRank == RankInv /\ Publishes => RankInv'
<1> SUFFICES ASSUME RankInv, Publishes
             PROVE  RankInv'
  OBVIOUS
<1>1. PICK record :
          /\ published' = published \cup {record}
          /\ \A prior : Names(record, prior) => prior \in published
  BY DEF Publishes, Publish
<1>2. PICK rank \in [published -> Nat] : RankedBy(rank, published)
  BY DEF RankInv
<1>3. CASE record \in published
  BY <1>1, <1>2, <1>3 DEF RankInv
<1>4. CASE record \notin published
  <2>1. PICK n \in Nat : \A prior : Names(record, prior) => rank[prior] < n
    <3>1. CASE \E prior : Names(record, prior)
      <4>1. PICK prior : Names(record, prior)
        BY <3>1
      <4>2. \A other : Names(record, other) => other = prior
        BY <4>1, SomeEqual, HashEqual DEF Names
      <4>3. rank[prior] + 1 \in Nat /\ rank[prior] < rank[prior] + 1
        BY <1>1, <4>1
      <4> QED
        BY <4>2, <4>3
    <3>2. CASE ~ \E prior : Names(record, prior)
      BY <3>2
    <3> QED
      BY <3>1, <3>2
  <2> DEFINE raised == [r \in published' |-> IF r \in published THEN rank[r] ELSE n]
  <2>2. raised \in [published' -> Nat]
    BY <1>1
  <2>3. /\ \A r \in published : raised[r] = rank[r]
        /\ raised[record] = n
    BY <1>1, <1>4
  <2> HIDE DEF raised
  <2>4. ASSUME NEW r \in published', NEW prior, Names(r, prior)
        PROVE  prior \in published' /\ raised[prior] < raised[r]
    <3>1. CASE r \in published
      <4>1. prior \in published /\ rank[prior] < rank[r]
        BY <1>2, <2>4, <3>1 DEF RankedBy
      <4> QED
        BY <1>1, <2>3, <3>1, <4>1
    <3>2. CASE r = record
      <4>1. prior \in published /\ rank[prior] < n
        BY <1>1, <2>1, <2>4, <3>2
      <4> QED
        BY <1>1, <2>3, <3>2, <4>1
    <3> QED
      BY <1>1, <3>1, <3>2
  <2>5. RankedBy(raised, published')
    BY <2>4 DEF RankedBy
  <2> QED
    BY <2>2, <2>5 DEF RankInv
<1> QED
  BY <1>3, <1>4

LEMMA PublishKeepsPublished == PublishedInv /\ Publishes => PublishedInv'
BY DEF PublishedInv, Publishes, Publish

LEMMA PublishingOrNot ==
    [Next]_vars => \/ SignResolution \/ SignRlp2 \/ CollectApprovals \/ RewriteRecord
                   \/ published' = published
BY DEF Next, vars, ledger, NativeChanges, StartLineage, PassAncestor,
       CheckRecord, RejectRecord, ReturnLineage, Decide, EndCall

LEMMA NextKeepsPublished ==
    PublishedInv /\ RankInv /\ [Next]_vars => PublishedInv' /\ RankInv'
<1>1. PublishedInv /\ RankInv /\ published' = published => PublishedInv' /\ RankInv'
  BY DEF PublishedInv, RankInv
<1> QED
  BY <1>1, PublishingStep, PublishKeepsRank, PublishKeepsPublished, PublishingOrNot

LEMMA InitPublished == Init => PublishedInv /\ RankInv
<1> SUFFICES ASSUME Init
             PROVE  PublishedInv /\ RankInv
  OBVIOUS
<1>1. PublishedInv
  BY DEF Init, PublishedInv
<1>2. [r \in {} |-> 0] \in [{} -> Nat]
  OBVIOUS
<1>3. RankedBy([r \in {} |-> 0], {})
  BY DEF RankedBy
<1> QED
  BY <1>1, <1>2, <1>3 DEF Init, RankInv

LEMMA PublishedInvariant == Spec => [](PublishedInv /\ RankInv)
BY InitPublished, NextKeepsPublished, PTL DEF Spec

-----------------------------------------------------------------------------
(***************************************************************************)
(* The gate keeps ActionContract.  The contract's own copies of the        *)
(* operators are the model's.                                              *)
(***************************************************************************)
LEMMA ContractQuorate ==
    ASSUME NEW policy, NEW dids, NEW results
    PROVE  Contract!Quorate(policy, dids, results)
               <=> Quorate(policy, dids, results)
<1>1. Contract!Principals(policy) = Principals(policy)
  BY DEF Contract!Principals, Principals, Contract!Range, Range
<1>2. Contract!Range(policy.external_evidence) = Range(policy.external_evidence)
  BY DEF Contract!Range, Range
<1>3. \A S : Contract!Cardinality(S) = Cardinality(S)
  BY DEF Contract!Cardinality, Cardinality, Contract!IsFiniteSet, IsFiniteSet
<1> QED
  BY <1>1, <1>2, <1>3 DEF Contract!Quorate, Quorate

LEMMA ContractContains ==
    ASSUME NEW effective, NEW requested, NEW adapters
    PROVE  Contract!scope_contains(effective, requested, adapters)
               = scope_contains(effective, requested, adapters)
BY DEF Contract!scope_contains, scope_contains, Contract!exact_scope_adapter,
       exact_scope_adapter, Contract!string_set_scope_adapter,
       string_set_scope_adapter, Contract!Range, Range

(***************************************************************************)
(* More consent never takes a quorum away.                                 *)
(***************************************************************************)
LEMMA PrincipalsAreFinite ==
    ASSUME NEW policy, policy.principals \in Seq(Principals(policy))
    PROVE  IsFiniteSet(Principals(policy)) /\ Len(policy.principals) \in Nat
<1> DEFINE n == Len(policy.principals)
<1>1. /\ n \in Nat
      /\ policy.principals \in [1 .. n -> Principals(policy)]
      /\ DOMAIN policy.principals = 1 .. n
  OBVIOUS
<1>2. policy.principals \in Surjection(1 .. n, Principals(policy))
  BY <1>1 DEF Surjection, Principals, Range
<1>3. IsFiniteSet(1 .. n)
  BY <1>1, FS_Interval
<1> QED
  BY <1>1, <1>2, <1>3, FS_Surjection

LEMMA QuorateGrows ==
    ASSUME NEW policy, policy.principals \in Seq(Principals(policy)),
           validate_authority_policy(policy),
           NEW dids, NEW more, dids \subseteq more,
           NEW results, Quorate(policy, dids, results)
    PROVE  Quorate(policy, more, results)
<1> DEFINE few == dids \cap Principals(policy)
           many == more \cap Principals(policy)
<1>1. few \subseteq many /\ many \subseteq Principals(policy)
  OBVIOUS
<1>2. IsFiniteSet(many)
  BY <1>1, PrincipalsAreFinite, FS_Subset
<1>3. /\ Cardinality(few) \in Nat /\ Cardinality(many) \in Nat
      /\ Cardinality(few) <= Cardinality(many)
  <2>1. /\ IsFiniteSet(few)
        /\ Cardinality(few) <= Cardinality(many)
    BY <1>1, <1>2, FS_Subset
  <2> QED
    BY <1>2, <2>1, FS_CardinalityType
<1>4. policy.mode = "THRESHOLD" =>
          \E m \in policy.threshold : Cardinality(many) >= m
  <2> HAVE policy.mode = "THRESHOLD"
  <2>1. PICK m \in policy.threshold : Cardinality(few) >= m
    BY DEF Quorate
  <2>2. m \in Nat
    BY PrincipalsAreFinite DEF validate_authority_policy, ValidThreshold, Some
  <2> QED
    BY <1>3, <2>1, <2>2
<1> HIDE DEF few, many
<1>5. many # {}
  BY <1>1 DEF Quorate, few
<1> QED
  BY <1>4, <1>5 DEF Quorate, many

LEMMA ConsentIsRecorded ==
    ASSUME NEW record \in Rlp2Records
    PROVE  BodyConsent(record.payload) \subseteq Contract!ConsentTo(record.payload.body)
<1> DEFINE by(r) == {[did |-> did, body |-> r.payload.body] :
                         did \in BodyConsent(r.payload)}
<1> SUFFICES ASSUME NEW did \in BodyConsent(record.payload)
             PROVE  did \in Contract!ConsentTo(record.payload.body)
  OBVIOUS
<1> DEFINE c == [did |-> did, body |-> record.payload.body]
<1>1. c \in by(record)
  OBVIOUS
<1>2. Consents = UNION {by(r) : r \in Rlp2Records}
  BY DEF Consents
<1>3. c.did = did /\ c.body = record.payload.body
  OBVIOUS
<1> HIDE DEF by, c
<1>4. c \in Consents
  BY <1>1, <1>2
<1> QED
  BY <1>3, <1>4 DEF Contract!ConsentTo

(***************************************************************************)
(* A PERMIT the gate gives is warranted by what was published by then.     *)
(***************************************************************************)
LEMMA PermitIsWarranted ==
    ASSUME WalkInv, PublishedInv, Verified,
           NEW gate, validate_action_policy(gate.policy),
           GateDecision(gate, LineageVerdict(records, registry)) = "PERMIT"
    PROVE  Contract!Warranted(gate, Last(records).payload.body)
<1> DEFINE record == Last(records)
           body == record.payload.body
           policy == body.authority_policy
<1>1. AllLinked(records) /\ Rlp2(record)
  BY VerifiedIsLinked
<1>2. VerifiesAsStored(record, PriorIn(records, Len(records)))
  BY <1>1, ListFacts, LinkedIsStored DEF Last
<1>3. record \in Rlp2Records
  BY <1>1, ListFacts DEF Rlp2Records, Last, WalkInv, TypeOK
<1>4. Permits(gate, record) /\ body.state # "UNRESOLVED"
  BY <1>1, <1>2, VerdictFields, PermitJustified
<1>5. Quorate(policy, BodyConsent(record.payload), body.verification_results)
  BY <1>4 DEF Permits, EarnedAuthority
<1>6. /\ policy.principals \in Seq(Principals(policy))
      /\ validate_authority_policy(policy)
  BY <1>2, <1>3, StoredIsDerived
     DEF PublishedInv, WellFormed, ListsPrincipals, Rlp2Records, Derivable
<1>7. Quorate(policy, Contract!ConsentTo(body), body.verification_results)
  BY <1>3, <1>5, <1>6, ConsentIsRecorded, QuorateGrows
<1>8. Contract!Allows(gate, body)
  BY <1>4, ContractContains DEF Permits, Within, Contract!Allows
<1> QED
  BY <1>4, <1>7, <1>8, ContractQuorate DEF Contract!Warranted

LEMMA PublishKeepsContract ==
    ASSUME Publishes
    PROVE  Contract!Consent
<1>1. published \subseteq published' /\ UNCHANGED <<decision, records>>
  BY DEF Publishes, Publish, call
<1>2. Rlp2Records \subseteq Rlp2Records'
  BY <1>1 DEF Rlp2Records
<1>3. Consents \subseteq Consents'
  <2> DEFINE by(r) == {[did |-> did, body |-> r.payload.body] :
                           did \in BodyConsent(r.payload)}
  <2>1. /\ Consents = UNION {by(r) : r \in Rlp2Records}
        /\ Consents' = UNION {by(r) : r \in Rlp2Records'}
    BY DEF Consents
  <2> HIDE DEF by
  <2> QED
    BY <1>2, <2>1
<1>4. Answered' = Answered
  BY <1>1 DEF Answered
<1> QED
  BY <1>3, <1>4 DEF Contract!Consent

LEMMA UnpublishedConsents ==
    ASSUME published' = published
    PROVE  Consents' = Consents
BY DEF Consents, Rlp2Records

LEMMA DecideKeepsContract ==
    ASSUME WalkInv, PublishedInv, Decide
    PROVE  [Contract!Next]_(Contract!vars)
<1>1. Verified /\ decision = {} /\ UNCHANGED <<published, records, registry>>
  BY DEF Decide, Verified, WalkInv, TypeOK, ledger
<1>2. Consents' = Consents
  BY <1>1, UnpublishedConsents
<1>3. Answered = {}
  BY <1>1 DEF Answered
<1>4. CASE decision' = decision
  <2>1. Answered' = Answered
    BY <1>1, <1>4 DEF Answered
  <2> QED
    BY <1>2, <2>1 DEF Contract!vars
<1>5. CASE decision' # decision
  <2> DEFINE body == Last(records).payload.body
             verdict == LineageVerdict(records, registry)
  <2>1. current = Some(verdict)
    BY <1>1, VerifiedIsLinked
  <2> HIDE DEF verdict
  <2>2. PICK gate \in Gates : \E head :
            /\ validate_action_policy(gate.policy)
            /\ decision' = {[gate |-> gate, decision |-> GateDecision(gate, verdict),
                             resolution_head |-> head]}
    BY <1>5, <2>1 DEF Decide, Some
  <2> DEFINE given == [gate |-> gate, decision |-> GateDecision(gate, verdict),
                       body |-> body]
  <2>3. Answered' = {given}
    BY <1>1, <2>2 DEF Answered
  <2>4. given.gate = gate /\ given.body = body
        /\ given.decision = GateDecision(gate, verdict)
    OBVIOUS
  <2> HIDE DEF given
  <2>5. given.decision = "PERMIT" => Contract!Warranted(given.gate, given.body)
    BY <1>1, <2>2, <2>4, PermitIsWarranted DEF verdict
  <2> QED
    BY <1>2, <1>3, <2>3, <2>5 DEF Contract!Answer, Contract!Next, Contract!None, None
<1> QED
  BY <1>4, <1>5

LEMMA NextKeepsContract ==
    ASSUME WalkInv, PublishedInv, RankInv, [Next]_vars
    PROVE  [Contract!Next]_(Contract!vars)
<1>1. CASE SignResolution \/ SignRlp2 \/ CollectApprovals \/ RewriteRecord
  BY <1>1, PublishingStep, PublishKeepsContract DEF Contract!Next
<1>2. CASE NativeChanges
  BY <1>2, UnpublishedConsents
     DEF NativeChanges, ledger, call, Answered, Contract!vars
<1>3. CASE StartLineage
  <2>1. decision = {} /\ decision' = {} /\ published' = published
    BY <1>3 DEF StartLineage, WalkInv, TypeOK, ledger
  <2>2. Answered = {} /\ Answered' = {}
    BY <2>1 DEF Answered
  <2> QED
    BY <2>1, <2>2, UnpublishedConsents DEF Contract!vars
<1>4. CASE Walk
  <2>1. UNCHANGED <<published, records, decision>>
    BY <1>4 DEF Walk, PassAncestor, CheckRecord, RejectRecord, ReturnLineage,
                ledger, call
  <2>2. Answered' = Answered
    BY <2>1 DEF Answered
  <2> QED
    BY <2>1, <2>2, UnpublishedConsents DEF Contract!vars
<1>5. CASE Decide
  BY <1>5, DecideKeepsContract
<1>6. CASE EndCall
  <2>1. decision' = {} /\ published' = published
    BY <1>6 DEF EndCall, ledger, None
  <2>2. Answered' = {}
    BY <2>1 DEF Answered
  <2> QED
    BY <2>1, <2>2, UnpublishedConsents
       DEF Contract!Forget, Contract!Next, Contract!None
<1>7. CASE UNCHANGED vars
  BY <1>7, UnpublishedConsents DEF vars, ledger, call, Answered, Contract!vars
<1> QED
  BY <1>1, <1>2, <1>3, <1>4, <1>5, <1>6, <1>7 DEF Next, Walk

LEMMA InitKeepsContract == Init => Contract!Init
<1> SUFFICES ASSUME Init
             PROVE  Consents = {} /\ Answered = {}
  BY DEF Contract!Init, Contract!None
<1>1. Rlp2Records = {} /\ decision = {}
  BY DEF Init, Rlp2Records, None
<1> QED
  BY <1>1 DEF Consents, Answered

(***************************************************************************)
(* The whole action path, one record a step while signers publish and the  *)
(* native systems change, implements the contract: each question is        *)
(* answered once, and PERMIT only on a conclusion a quorum has consented   *)
(* to by then.                                                             *)
(***************************************************************************)
THEOREM GateImplementsContract == Spec => GateKeepsContract
<1>1. WalkInv /\ PublishedInv /\ RankInv /\ [Next]_vars
          => [Contract!Next]_(Contract!vars)
  BY NextKeepsContract
<1> QED
  BY <1>1, InitKeepsContract, WalkInvariant, PublishedInvariant, PTL
     DEF Spec, GateKeepsContract, Contract!Spec
=============================================================================
