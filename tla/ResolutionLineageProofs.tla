----------------------- MODULE ResolutionLineageProofs -----------------------
(***************************************************************************)
(* Proofs about the RLP-1 lineage verifier, for any number of signers,     *)
(* drafts and published records and for lists of any length.               *)
(***************************************************************************)
EXTENDS ResolutionLineage, TLAPS

(***************************************************************************)
(* The loop invariant: every record the loop has passed verified against   *)
(* the record before it, and a list is refused for the record that did     *)
(* not, or for being empty.                                                *)
(***************************************************************************)
Passed(i) ==
    verify_resolution(records[i],
                      IF i = 1 THEN None ELSE Some(records[i - 1]))

LoopInv ==
    /\ TypeOK
    /\ \A i \in 1 .. index : Passed(i)
    /\ status \in {"checking", "accepted"} => records # <<>>
    /\ status = "accepted" => index = Len(records)
    /\ status = "idle" => index = 0
    /\ status = "rejected" =>
           records = <<>> \/ (index < Len(records) /\ ~ AcceptsNext)

(***************************************************************************)
(* A list the verifier may be handed is a sequence of published records.   *)
(***************************************************************************)
LEMMA BoundedSeqIsSeq ==
    ASSUME NEW S, NEW n \in Nat, NEW s \in BoundedSeq(S, n)
    PROVE  s \in Seq(S)
BY DEF BoundedSeq, SeqOf

LEMMA SeqGrows ==
    ASSUME NEW S, NEW T, S \subseteq T, NEW s \in Seq(S)
    PROVE  s \in Seq(T)
<1>1. /\ Len(s) \in Nat
      /\ DOMAIN s = 1 .. Len(s)
      /\ s \in [1 .. Len(s) -> S]
  OBVIOUS
<1>2. s \in [1 .. Len(s) -> T]
  BY <1>1
<1> QED
  BY <1>1, <1>2

LEMMA SameSequence ==
    ASSUME NEW S, NEW a \in Seq(S), NEW b \in Seq(S), Len(a) = Len(b),
           \A i \in 1 .. Len(a) : a[i] = b[i]
    PROVE  a = b
<1>1. /\ a \in [1 .. Len(a) -> S]
      /\ b \in [1 .. Len(a) -> S]
  OBVIOUS
<1> QED
  BY <1>1

LEMMA InitLoop == Init => LoopInv
BY DEF Init, LoopInv, TypeOK

(***************************************************************************)
(* Publishing a record leaves the verifier's variables alone.              *)
(***************************************************************************)
LEMMA PublishKeepsLoop ==
    ASSUME LoopInv, NEW record, Publish(record)
    PROVE  LoopInv'
<1> USE DEF LoopInv, Publish, verifier
<1>1. TypeOK'
  <2>1. records \in Seq(published')
    BY SeqGrows DEF TypeOK
  <2> QED
    BY <2>1 DEF TypeOK
<1>2. \A i \in 1 .. index : Passed(i)'
  BY DEF Passed
<1>3. AcceptsNext' <=> AcceptsNext
  BY DEF AcceptsNext
<1> QED
  BY <1>1, <1>2, <1>3

LEMMA NextKeepsLoop == LoopInv /\ [Next]_vars => LoopInv'
<1> SUFFICES ASSUME LoopInv, [Next]_vars
             PROVE  LoopInv'
  OBVIOUS
<1>1. CASE SignResolution
  BY <1>1, PublishKeepsLoop DEF SignResolution
<1>2. CASE SignPayload
  BY <1>2, PublishKeepsLoop DEF SignPayload
<1>3. CASE RewriteRecord
  BY <1>3, PublishKeepsLoop DEF RewriteRecord
<1>4. CASE StartLineage
  <2>1. records' \in Seq(published)
    BY <1>4, BoundedSeqIsSeq, BoundsAssumption DEF StartLineage
  <2>2. index = 0
    BY <1>4 DEF StartLineage, LoopInv
  <2> QED
    BY <1>4, <2>1, <2>2 DEF StartLineage, LoopInv, TypeOK
<1>5. CASE CheckRecord
  <2>1. /\ index \in Nat
        /\ Len(records) \in Nat
        /\ index + 1 \in 1 .. Len(records)
        /\ index' = index + 1
        /\ records' = records
        /\ published' = published
        /\ status' = status
    BY <1>5 DEF CheckRecord, LoopInv, TypeOK
  <2>2. TypeOK'
    BY <1>5, <2>1 DEF CheckRecord, LoopInv, TypeOK
  <2>3. verify_resolution(records[index + 1], previous)
    BY <1>5 DEF CheckRecord, AcceptsNext
  <2>4. Passed(index + 1)
    <3>1. previous = IF index + 1 = 1 THEN None ELSE Some(records[(index + 1) - 1])
      BY <2>1 DEF LoopInv, TypeOK
    <3> QED
      BY <2>3, <3>1 DEF Passed
  <2>5. \A i \in 1 .. index' : Passed(i)'
    <3> TAKE i \in 1 .. index'
    <3>1. i \in 1 .. index \/ i = index + 1
      BY <2>1
    <3>2. Passed(i)
      BY <3>1, <2>4 DEF LoopInv
    <3> QED
      BY <3>2, <2>1 DEF Passed
  <2> QED
    BY <1>5, <2>1, <2>2, <2>5 DEF LoopInv, CheckRecord
<1>6. CASE RejectRecord
  BY <1>6 DEF RejectRecord, LoopInv, TypeOK, Passed, AcceptsNext
<1>7. CASE ReturnLineage
  BY <1>7 DEF ReturnLineage, LoopInv, TypeOK, Passed
<1>8. CASE EndCall
  BY <1>8 DEF EndCall, LoopInv, TypeOK, Passed
<1>9. CASE UNCHANGED vars
  BY <1>9 DEF vars, verifier, LoopInv, TypeOK, Passed, AcceptsNext
<1> QED
  BY <1>1, <1>2, <1>3, <1>4, <1>5, <1>6, <1>7, <1>8, <1>9 DEF Next

(***************************************************************************)
(* The loop invariant holds in every reachable state.                      *)
(***************************************************************************)
THEOREM LoopInvariant == Spec => []LoopInv
BY InitLoop, NextKeepsLoop, PTL DEF Spec

(***************************************************************************)
(* The verifier's variables always have the values the loop gives them:    *)
(* it walks published records only, and previous and latest are those of   *)
(* the last record it passed.                                              *)
(***************************************************************************)
THEOREM TypeCorrect == Spec => []TypeOK
<1>1. LoopInv => TypeOK
  BY DEF LoopInv
<1> QED
  BY <1>1, LoopInvariant, PTL

(***************************************************************************)
(* What passing means, for the first record and for the others.            *)
(***************************************************************************)
LEMMA FirstPasses ==
    ASSUME NEW r
    PROVE  verify_resolution(r, None) <=> verify_first(r)
BY DEF verify_resolution

LEMMA SuccessorPasses ==
    ASSUME NEW r, NEW p
    PROVE  verify_resolution(r, Some(p)) <=> verify_successor(r, p)
<1>1. Some(p) # None /\ p \in Some(p) /\ \A q \in Some(p) : q = p
  BY DEF Some, None
<1> QED
  BY <1>1 DEF verify_resolution

LEMMA HashIsInjective ==
    ASSUME NEW x, NEW y, hash_object(x) = hash_object(y)
    PROVE  x = y
BY DEF hash_object

LEMMA LoopPassedAll ==
    ASSUME LoopInv, status = "accepted"
    PROVE  VerifiesWhole(records)
BY DEF LoopInv, TypeOK, VerifiesWhole, Passed

(***************************************************************************)
(* A list whose records all verify is one history.                         *)
(***************************************************************************)
LEMMA WholeIsOneHistory ==
    ASSUME NEW S, NEW list \in Seq(S), VerifiesWhole(list)
    PROVE  OneHistory(list)
<1>1. /\ list # <<>>
      /\ Len(list) \in Nat
      /\ DOMAIN list = 1 .. Len(list)
      /\ 1 \in DOMAIN list
  BY DEF VerifiesWhole
<1>2. verify_first(list[1])
  BY <1>1, FirstPasses DEF VerifiesWhole
<1>3. ASSUME NEW i \in 2 .. Len(list)
      PROVE  verify_successor(list[i], list[i - 1])
  <2>1. i \in DOMAIN list /\ i # 1
    BY <1>1
  <2>2. verify_resolution(list[i], Some(list[i - 1]))
    BY <2>1 DEF VerifiesWhole
  <2> QED
    BY <2>2, SuccessorPasses
<1>4. ASSUME NEW i \in DOMAIN list
      PROVE  list[i].kind = RESOLUTION_KIND /\ list[i].signed
  <2>1. VerifiesAlone(list[i])
    <3>1. i = 1 \/ i \in 2 .. Len(list)
      BY <1>1
    <3> QED
      BY <3>1, <1>2, <1>3 DEF verify_first, verify_successor
  <2> QED
    BY <2>1 DEF VerifiesAlone, verify_envelope
<1>5. list[1].payload.previous = None
  BY <1>2 DEF verify_first
<1>6. \A i \in 2 .. Len(list) : FollowsExactly(list[i], list[i - 1])
  BY <1>3 DEF verify_successor, LinksTo, FollowsExactly
<1> QED
  BY <1>1, <1>4, <1>5, <1>6 DEF OneHistory

(***************************************************************************)
(* Whatever the signers published and whatever list the verifier is        *)
(* handed, it accepts only one history: exact links, signed records, and   *)
(* one subject and original target.                                        *)
(***************************************************************************)
THEOREM AcceptsOneHistory == Spec => []AcceptedIsOneHistory
<1>1. LoopInv => AcceptedIsOneHistory
  <2> SUFFICES ASSUME LoopInv, status = "accepted"
               PROVE  OneHistory(records)
    BY DEF AcceptedIsOneHistory
  <2>1. records \in Seq(published) /\ VerifiesWhole(records)
    BY LoopPassedAll DEF LoopInv, TypeOK
  <2> QED
    BY <2>1, WholeIsOneHistory
<1> QED
  BY <1>1, LoopInvariant, PTL

(***************************************************************************)
(* A list that verifies has one record, or a first record and a correction *)
(* of it: the predecessor of a record must itself be a first record.       *)
(***************************************************************************)
LEMMA WholeIsShort ==
    ASSUME NEW S, NEW list \in Seq(S), VerifiesWhole(list)
    PROVE  \/ Len(list) = 1 /\ verify_first(list[1])
           \/ Len(list) = 2 /\ verify_successor(list[2], list[1])
<1>1. /\ list # <<>>
      /\ Len(list) \in Nat \ {0}
      /\ DOMAIN list = 1 .. Len(list)
  BY DEF VerifiesWhole
<1>2. \A i \in 2 .. Len(list) : verify_successor(list[i], list[i - 1])
  <2> TAKE i \in 2 .. Len(list)
  <2>1. i \in DOMAIN list /\ i # 1
    BY <1>1
  <2>2. verify_resolution(list[i], Some(list[i - 1]))
    BY <2>1 DEF VerifiesWhole
  <2> QED
    BY <2>2, SuccessorPasses
<1>3. CASE Len(list) = 1
  <2>1. verify_resolution(list[1], None)
    BY <1>1, <1>3 DEF VerifiesWhole
  <2> QED
    BY <1>3, <2>1, FirstPasses
<1>4. CASE Len(list) = 2
  BY <1>2, <1>4
<1>5. CASE Len(list) > 2
  <2>1. verify_first(list[2])
    <3>1. 3 \in 2 .. Len(list) /\ 3 - 1 = 2
      BY <1>1, <1>5
    <3> QED
      BY <3>1, <1>2 DEF verify_successor
  <2>2. list[2].payload.previous = Some(hash_object(list[1]))
    <3>1. 2 \in 2 .. Len(list) /\ 2 - 1 = 1
      BY <1>1, <1>5
    <3> QED
      BY <3>1, <1>2 DEF verify_successor, LinksTo
  <2> QED
    BY <2>1, <2>2 DEF verify_first, Some, None
<1> QED
  BY <1>1, <1>3, <1>4, <1>5

(***************************************************************************)
(* The head of a verified lineage determines the lineage: two lists that   *)
(* verify and end in the same record are the same list.                    *)
(***************************************************************************)
LEMMA HeadDeterminesList ==
    ASSUME NEW S, NEW a \in Seq(S), NEW b \in Seq(S),
           VerifiesWhole(a), VerifiesWhole(b), HeadOf(a) = HeadOf(b)
    PROVE  a = b
<1>1. a[Len(a)] = b[Len(b)]
  BY HashIsInjective DEF HeadOf
<1>2. \/ Len(a) = 1 /\ verify_first(a[1])
      \/ Len(a) = 2 /\ verify_successor(a[2], a[1])
  BY WholeIsShort
<1>3. \/ Len(b) = 1 /\ verify_first(b[1])
      \/ Len(b) = 2 /\ verify_successor(b[2], b[1])
  BY WholeIsShort
<1>4. Some(hash_object(a[1])) # None /\ Some(hash_object(b[1])) # None
  BY DEF Some, None
<1>5. Len(a) = Len(b)
  BY <1>1, <1>2, <1>3, <1>4 DEF verify_first, verify_successor, LinksTo
<1>6. CASE Len(a) = 1
  <2>1. \A i \in 1 .. Len(a) : a[i] = b[i]
    BY <1>1, <1>5, <1>6
  <2> QED
    BY <1>5, <2>1, SameSequence
<1>7. CASE Len(a) = 2
  <2>1. Some(hash_object(a[1])) = Some(hash_object(b[1]))
    BY <1>1, <1>2, <1>3, <1>5, <1>7 DEF verify_successor, LinksTo
  <2>2. hash_object(a[1]) = hash_object(b[1])
    BY <2>1 DEF Some
  <2>3. a[1] = b[1]
    BY <2>2, HashIsInjective
  <2>4. \A i \in 1 .. Len(a) : a[i] = b[i]
    BY <1>1, <1>5, <1>7, <2>3
  <2> QED
    BY <1>5, <2>4, SameSequence
<1> QED
  BY <1>2, <1>6, <1>7

(***************************************************************************)
(* The head of an accepted lineage stands for the whole lineage.           *)
(***************************************************************************)
THEOREM HeadStandsForHistory == Spec => []HeadFixesHistory
<1>1. LoopInv => HeadFixesHistory
  <2> SUFFICES ASSUME LoopInv, status = "accepted",
                      NEW other \in BoundedSeq(published, MaxLength),
                      VerifiesWhole(other), HeadOf(other) = HeadOf(records)
               PROVE  other = records
    BY DEF HeadFixesHistory
  <2>1. records \in Seq(published) /\ VerifiesWhole(records)
    BY LoopPassedAll DEF LoopInv, TypeOK
  <2>2. other \in Seq(published)
    BY BoundedSeqIsSeq, BoundsAssumption
  <2> QED
    BY <2>1, <2>2, HeadDeterminesList
<1> QED
  BY <1>1, LoopInvariant, PTL

(***************************************************************************)
(* The kernel: a state that is derived from valid checks is earned by      *)
(* them, whatever the checks and their order.                              *)
(***************************************************************************)
LEMMA DerivedIsEarned ==
    ASSUME NEW payload, StateIsDerived(payload)
    PROVE  Earned(payload)
<1> DEFINE checks == payload.checks
           required == {i \in DOMAIN checks : checks[i].required}
           having(outcome) == {i \in required : checks[i].outcome = outcome}
           outcomes == RequiredOutcomes(checks)
<1>1. _validate_checks(checks, payload.evidence)
  BY DEF StateIsDerived, Buildable
<1>2. /\ required # {}
      /\ \A i \in required : checks[i].outcome \in CHECK_OUTCOMES
      /\ \A i \in required : CitesEvidence(checks[i], payload.evidence)
  BY <1>1 DEF _validate_checks
<1>3. \A i \in having("PASS") \cup having("FAIL") : Backed(checks[i], payload)
  BY <1>2 DEF CitesEvidence, Backed
<1>4. \A outcome : outcome \in outcomes <=> having(outcome) # {}
  BY DEF RequiredOutcomes
<1>5. payload.state =
          IF having("FAIL") # {} THEN "FAILED"
          ELSE IF having("UNRESOLVED") # {} THEN "UNRESOLVED"
          ELSE IF payload.effective_target # payload.original_target
               THEN "NARROWED" ELSE "SURVIVED"
  BY <1>4 DEF StateIsDerived, derive_resolution_state
<1>6. required = having("PASS") <=>
          having("FAIL") = {} /\ having("UNRESOLVED") = {}
  <2>1. ASSUME required = having("PASS")
        PROVE  having("FAIL") = {} /\ having("UNRESOLVED") = {}
    BY <2>1
  <2>2. ASSUME having("FAIL") = {}, having("UNRESOLVED") = {}
        PROVE  required = having("PASS")
    BY <1>2, <2>2 DEF CHECK_OUTCOMES
  <2> QED
    BY <2>1, <2>2
<1> HIDE DEF having, required
<1>7. /\ payload.state \in {"SURVIVED", "NARROWED"} <=> required = having("PASS")
      /\ payload.state = "FAILED" <=> having("FAIL") # {}
      /\ payload.state = "SURVIVED" =>
             payload.effective_target = payload.original_target
      /\ payload.state = "NARROWED" =>
             payload.effective_target # payload.original_target
  BY <1>5, <1>6
<1> QED
  BY <1>2, <1>3, <1>7 DEF Earned, having, required

(***************************************************************************)
(* No accepted record claims more than its checks earned.                  *)
(***************************************************************************)
THEOREM AcceptedEarned == Spec => []AcceptedStatesAreEarned
<1>1. LoopInv => AcceptedStatesAreEarned
  <2> SUFFICES ASSUME LoopInv, status = "accepted", NEW i \in DOMAIN records
               PROVE  Earned(records[i].payload)
    BY DEF AcceptedStatesAreEarned
  <2>1. verify_resolution(records[i], IF i = 1 THEN None ELSE Some(records[i - 1]))
    BY LoopPassedAll DEF VerifiesWhole
  <2>2. VerifiesAlone(records[i])
    <3>1. CASE i = 1
      BY <2>1, <3>1, FirstPasses DEF verify_first
    <3>2. CASE i # 1
      BY <2>1, <3>2, SuccessorPasses DEF verify_successor
    <3> QED
      BY <3>1, <3>2
  <2> QED
    BY <2>2, DerivedIsEarned DEF VerifiesAlone
<1> QED
  BY <1>1, LoopInvariant, PTL
(***************************************************************************)
(* The verifier accepts what the library signed: an honest first record,   *)
(* and an honest correction of one.                                        *)
(***************************************************************************)
LEMMA LibrarySignedIsDerived ==
    ASSUME NEW payload, SignedByLibrary(payload)
    PROVE  StateIsDerived(payload)
<1>1. payload.state = FillPayload(payload,
                          derive_resolution_state(payload.original_target,
                              payload.effective_target, payload.checks),
                          payload.previous).state
  BY DEF SignedByLibrary, build_resolution_payload
<1> QED
  BY <1>1 DEF SignedByLibrary, FillPayload, StateIsDerived

LEMMA HonestRecordsVerify ==
    ASSUME NEW S, NEW list \in Seq(S), Honest(list)
    PROVE  /\ verify_first(list[1])
           /\ Len(list) >= 2 => verify_successor(list[2], list[1])
<1>1. Len(list) \in Nat /\ DOMAIN list = 1 .. Len(list) /\ 1 \in DOMAIN list
  BY DEF Honest, OneHistory
<1>2. ASSUME NEW i \in DOMAIN list
      PROVE  VerifiesAlone(list[i])
  BY LibrarySignedIsDerived
     DEF Honest, OneHistory, VerifiesAlone, verify_envelope
<1>3. verify_first(list[1])
  BY <1>1, <1>2 DEF verify_first, Honest, OneHistory
<1>4. ASSUME Len(list) >= 2
      PROVE  verify_successor(list[2], list[1])
  <2>1. 2 \in DOMAIN list /\ 2 \in 2 .. Len(list) /\ 2 - 1 = 1
    BY <1>1, <1>4
  <2>2. FollowsExactly(list[2], list[1])
    BY <2>1 DEF Honest, OneHistory
  <2> QED
    BY <1>2, <1>3, <2>1, <2>2 DEF verify_successor, FollowsExactly, LinksTo
<1> QED
  BY <1>3, <1>4

(***************************************************************************)
(* No honest record and no honest pair is ever refused.  Of three records  *)
(* the same is false: see WholeIsShort.                                    *)
(***************************************************************************)
THEOREM HonestAccepted == Spec => []HonestPairsVerify
<1>1. LoopInv => HonestPairsVerify
  <2> SUFFICES ASSUME LoopInv, status = "rejected", Len(records) <= 2,
                      Honest(records)
               PROVE  FALSE
    BY DEF HonestPairsVerify
  <2>1. /\ records \in Seq(published)
        /\ index \in 0 .. Len(records)
        /\ previous = IF index = 0 THEN None ELSE Some(records[index])
    BY DEF LoopInv, TypeOK
  <2>2. index < Len(records) /\ ~ AcceptsNext
    BY DEF LoopInv, Honest, OneHistory
  <2>3. /\ verify_first(records[1])
        /\ Len(records) >= 2 => verify_successor(records[2], records[1])
    BY <2>1, HonestRecordsVerify
  <2>4. index = 0 \/ (index = 1 /\ Len(records) = 2)
    <3>1. Len(records) \in Nat /\ index \in Nat
      BY <2>1
    <3>2. \A i, n \in Nat : i < n /\ n <= 2 => i = 0 \/ (i = 1 /\ n = 2)
      OBVIOUS
    <3>3. index < Len(records) /\ Len(records) <= 2
      BY <2>2
    <3> QED
      BY <3>1, <3>2, <3>3
  <2>5. CASE index = 0
    BY <2>1, <2>2, <2>3, <2>5, FirstPasses DEF AcceptsNext
  <2>6. CASE index = 1 /\ Len(records) = 2
    <3>1. previous = Some(records[1]) /\ records[index + 1] = records[2]
      BY <2>1, <2>6
    <3> QED
      BY <2>2, <2>3, <2>6, <3>1, SuccessorPasses DEF AcceptsNext
  <2> QED
    BY <2>4, <2>5, <2>6
<1> QED
  BY <1>1, LoopInvariant, PTL

(***************************************************************************)
(* What the loop adds up to: a list is accepted if and only if it passes   *)
(* as a whole.                                                             *)
(***************************************************************************)
VerdictOnWhole ==
    /\ status = "accepted" => VerifiesWhole(records)
    /\ status = "rejected" => ~ VerifiesWhole(records)

LEMMA VerdictIsWhole == LoopInv => VerdictOnWhole
<1> SUFFICES ASSUME LoopInv
             PROVE  VerdictOnWhole
  OBVIOUS
<1>1. ASSUME status = "rejected", VerifiesWhole(records)
      PROVE  FALSE
  <2>1. /\ index \in Nat
        /\ index < Len(records)
        /\ ~ AcceptsNext
        /\ index + 1 \in DOMAIN records
    BY <1>1 DEF LoopInv, TypeOK, VerifiesWhole
  <2>2. Passed(index + 1)
    BY <1>1, <2>1 DEF VerifiesWhole, Passed
  <2>3. previous = IF index + 1 = 1 THEN None ELSE Some(records[(index + 1) - 1])
    BY <2>1 DEF LoopInv, TypeOK
  <2> QED
    BY <2>1, <2>2, <2>3 DEF Passed, AcceptsNext
<1> QED
  BY <1>1, LoopPassedAll DEF VerdictOnWhole

LEMMA InitKeepsContract == Init => Contract!Init
BY DEF Init, Contract!Init, Answer, None

(***************************************************************************)
(* A step of the loop that gives an answer gives the right one, and any    *)
(* other step gives none.                                                  *)
(***************************************************************************)
LEMMA AnswerVerifies ==
    ASSUME LoopInv', VerdictOnWhole', Answer = None,
           status' \in {"accepted", "rejected"}, published' = published
    PROVE  Contract!Verify
<1> DEFINE reply == [records |-> records', accepted |-> (status' = "accepted")]
<1>1. Answer' = {reply}
  BY DEF Answer, Some
<1>2. reply.records \in Seq(published)
  BY DEF LoopInv, TypeOK
<1>3. reply.accepted = VerifiesWhole(reply.records)
  <2>1. (status' = "accepted") <=> VerifiesWhole(records')
    BY DEF VerdictOnWhole
  <2>2. VerifiesWhole(records') \in BOOLEAN
    BY DEF VerifiesWhole
  <2>3. (status' = "accepted") = VerifiesWhole(records')
    BY <2>1, <2>2
  <2> QED
    BY <2>3
<1> HIDE DEF reply
<1> QED
  BY <1>1, <1>2, <1>3 DEF Contract!Verify, None

LEMMA PublishKeepsContract ==
    ASSUME NEW record, Publish(record)
    PROVE  Contract!Publish
BY DEF Publish, verifier, Contract!Publish, Answer

LEMMA NextKeepsContract ==
    ASSUME LoopInv', VerdictOnWhole', [Next]_vars
    PROVE  [Contract!Next]_(Contract!vars)
<1> USE DEF Contract!Next
<1>1. CASE SignResolution
  BY <1>1, PublishKeepsContract DEF SignResolution
<1>2. CASE SignPayload
  BY <1>2, PublishKeepsContract DEF SignPayload
<1>3. CASE RewriteRecord
  BY <1>3, PublishKeepsContract DEF RewriteRecord
<1>4. CASE StartLineage
  <2>1. Answer = None /\ published' = published
    BY <1>4 DEF StartLineage, Answer
  <2>2. CASE records' = <<>>
    BY <1>4, <2>1, <2>2, AnswerVerifies DEF StartLineage
  <2>3. CASE records' # <<>>
    BY <1>4, <2>1, <2>3 DEF StartLineage, Answer, Contract!vars
  <2> QED
    BY <2>2, <2>3
<1>5. CASE CheckRecord
  BY <1>5 DEF CheckRecord, Answer, Contract!vars
<1>6. CASE RejectRecord
  BY <1>6, AnswerVerifies DEF RejectRecord, Answer
<1>7. CASE ReturnLineage
  BY <1>7, AnswerVerifies DEF ReturnLineage, Answer
<1>8. CASE EndCall
  BY <1>8 DEF EndCall, Answer, Contract!Forget, None
<1>9. CASE UNCHANGED vars
  BY <1>9 DEF vars, verifier, Answer, Contract!vars
<1> QED
  BY <1>1, <1>2, <1>3, <1>4, <1>5, <1>6, <1>7, <1>8, <1>9 DEF Next

(***************************************************************************)
(* verify_resolution_lineage, walking its list one record a step while     *)
(* signers go on publishing, implements a verification in one step whose   *)
(* answer depends on the list alone.                                       *)
(***************************************************************************)
THEOREM LoopImplementsContract == Spec => LoopKeepsContract
<1>1. LoopInv' /\ VerdictOnWhole' /\ [Next]_vars => [Contract!Next]_(Contract!vars)
  BY NextKeepsContract
<1> QED
  BY <1>1, InitKeepsContract, LoopInvariant, VerdictIsWhole, PTL
     DEF Spec, LoopKeepsContract, Contract!Spec
=============================================================================
