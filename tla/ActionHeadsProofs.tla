--------------------------- MODULE ActionHeadsProofs ---------------------------
(***************************************************************************)
(* Proofs about competing heads, for any number of candidates of any       *)
(* length, walked one after the other while signers, native systems and    *)
(* their answers go on changing.                                           *)
(***************************************************************************)
EXTENDS ActionHeads, Rlp2LineageProofs

(***************************************************************************)
(* What is kept of a candidate once it is walked.                          *)
(***************************************************************************)
WalkedAs(lineage, verdict, adapters) ==
    /\ AllLinked(lineage)
    /\ Rlp2(Last(lineage))
    /\ verdict = LineageVerdict(lineage, adapters)

CandidatesInv ==
    /\ lineages \in Seq(Seq(published))
    /\ \E S : candidates \in Seq(S)
    /\ Len(candidates) <= Len(lineages)
    /\ \A i \in 1 .. Len(candidates) : WalkedAs(lineages[i], candidates[i], registry)
    /\ lineages # <<>> /\ ~ Walked => records = lineages[Len(candidates) + 1]
    /\ lineages # <<>> /\ Walked => records = lineages[Len(lineages)]
    /\ lineages # <<>> /\ status = "checking" => ~ Walked
    /\ status = "idle" => lineages = <<>>
    /\ lineages # <<>> /\ Walked /\ Verified => OneIdentity(candidates)

(***************************************************************************)
(* The answer to a caller of several candidates.                           *)
(***************************************************************************)
HeadsDecisionInv ==
    lineages # <<>> =>
        \A d \in decision :
            /\ Walked
            /\ validate_action_policy(d.gate.policy)
            /\ d = HeadsDecision(d.gate)

HeadsInv == WalkInv /\ CandidatesInv /\ HeadsDecisionInv

-----------------------------------------------------------------------------
LEMMA InitHeads == HeadsInit => HeadsInv
<1> SUFFICES ASSUME HeadsInit
             PROVE  HeadsInv
  OBVIOUS
<1>1. WalkInv /\ status = "idle" /\ lineages = <<>> /\ candidates = <<>>
  BY InitWalk DEF HeadsInit, Init
<1>2. candidates \in Seq({}) /\ Len(candidates) = 0 /\ Len(lineages) = 0
  BY <1>1
<1>3. lineages \in Seq(Seq(published))
  BY <1>1
<1>4. CandidatesInv
  BY <1>1, <1>2, <1>3 DEF CandidatesInv, Verified
<1> QED
  BY <1>1, <1>4 DEF HeadsInv, HeadsDecisionInv

(***************************************************************************)
(* Before a call of several candidates, and after it, there are none.      *)
(***************************************************************************)
LEMMA NoCandidates ==
    ASSUME lineages' = <<>>, candidates' = <<>>
    PROVE  CandidatesInv' /\ HeadsDecisionInv'
<1>1. lineages' \in Seq(Seq(published')) /\ candidates' \in Seq({})
  OBVIOUS
<1>2. Len(candidates') = 0 /\ Len(lineages') = 0
  OBVIOUS
<1> QED
  BY <1>1, <1>2 DEF CandidatesInv, HeadsDecisionInv

LEMMA IdleHasNone ==
    ASSUME CandidatesInv, lineages = <<>>
    PROVE  candidates = <<>>
<1>1. PICK S : candidates \in Seq(S)
  BY DEF CandidatesInv
<1>2. Len(candidates) = 0
  BY <1>1 DEF CandidatesInv
<1> QED
  BY <1>1, <1>2

(***************************************************************************)
(* What goes on around the candidates.                                     *)
(***************************************************************************)
LEMMA AroundKeepsWalk == WalkInv /\ Around => WalkInv'
BY SignResolutionKeepsWalk, SignRlp2KeepsWalk, CollectKeepsWalk, RewriteKeepsWalk,
   NativeKeepsWalk, StartKeepsWalk, PassKeepsWalk, CheckKeepsWalk,
   RejectKeepsWalk, ReturnKeepsWalk
   DEF Around, Walk

LEMMA AroundFacts ==
    ASSUME Around, status # "idle"
    PROVE  /\ published \subseteq published'
           /\ UNCHANGED <<registry, records, decision>>
           /\ status' # "idle"
           /\ status' = "checking" => status = "checking"
           /\ Verified' => Verified \/ status = "checking"
<1>1. CASE \/ SignResolution \/ SignRlp2 \/ CollectApprovals \/ RewriteRecord
  BY <1>1 DEF SignResolution, SignRlp2, CollectApprovals, RewriteRecord, Publish,
              call, Verified
<1>2. CASE NativeChanges
  BY <1>2 DEF NativeChanges, ledger, call, Verified
<1>3. CASE StartLineage
  BY <1>3 DEF StartLineage
<1>4. CASE PassAncestor \/ CheckRecord
  BY <1>4 DEF PassAncestor, CheckRecord, ledger, AtRecord, Verified
<1>5. CASE RejectRecord \/ ReturnLineage
  BY <1>5 DEF RejectRecord, ReturnLineage, ledger, call, AtRecord, Verified
<1> QED
  BY <1>1, <1>2, <1>3, <1>4, <1>5 DEF Around, Walk

LEMMA AroundKeepsHeads == HeadsInv /\ Around /\ UNCHANGED heads => HeadsInv'
<1> SUFFICES ASSUME HeadsInv, Around, UNCHANGED heads
             PROVE  HeadsInv'
  OBVIOUS
<1>1. WalkInv'
  BY AroundKeepsWalk DEF HeadsInv
<1>2. lineages' = lineages /\ candidates' = candidates
  BY DEF heads
<1>3. CASE lineages = <<>>
  BY <1>1, <1>2, <1>3, IdleHasNone, NoCandidates DEF HeadsInv
<1>4. CASE lineages # <<>>
  <2>1. status # "idle"
    BY <1>4 DEF HeadsInv, CandidatesInv
  <2>2. /\ published \subseteq published'
        /\ registry' = registry /\ records' = records /\ decision' = decision
        /\ status' # "idle"
        /\ status' = "checking" => status = "checking"
        /\ Verified' => Verified \/ status = "checking"
    BY <2>1, AroundFacts
  <2>3. lineages' \in Seq(Seq(published'))
    <3>1. Seq(published) \subseteq Seq(published')
      BY <2>2, SeqMonotonic
    <3> QED
      BY <1>2, <3>1, SeqMonotonic DEF HeadsInv, CandidatesInv
  <2>4. CandidatesInv'
    BY <1>2, <1>4, <2>2, <2>3 DEF HeadsInv, CandidatesInv, Walked, OneIdentity
  <2>5. HeadsDecisionInv'
    BY <1>2, <2>2 DEF HeadsInv, HeadsDecisionInv, HeadsDecision, Walked, SingleHead
  <2> QED
    BY <1>1, <2>4, <2>5 DEF HeadsInv
<1> QED
  BY <1>3, <1>4

LEMMA StartKeepsHeads == HeadsInv /\ StartHeads => HeadsInv'
<1> SUFFICES ASSUME HeadsInv, StartHeads
             PROVE  HeadsInv'
  OBVIOUS
<1>1. /\ status = "idle"
      /\ lineages' \in BoundedSeq(BoundedSeq(published, MaxLength), MaxLineages)
      /\ registry' \in VerifierAdapters
      /\ records' = IF lineages' = <<>> THEN <<>> ELSE lineages'[1]
      /\ status' = IF records' = <<>> THEN "rejected" ELSE "checking"
      /\ UNCHANGED <<published, honest, native, index, previous, current,
                     witnessed, decision, candidates>>
  BY DEF StartHeads, ledger
<1>2. lineages' \in Seq(Seq(published))
  <2>1. lineages' \in Seq(BoundedSeq(published, MaxLength))
    BY <1>1, BoundedSeqIsSeq, LineagesAssumption
  <2>2. BoundedSeq(published, MaxLength) \subseteq Seq(published)
    BY BoundedSeqIsSeq, BoundsAssumption
  <2> QED
    BY <2>1, <2>2, SeqMonotonic
<1>3. /\ records' \in Seq(published)
      /\ Len(records') \in Nat
      /\ records' = <<>> => Len(records') = 0
  BY <1>1, <1>2
<1>4. index' = 0 /\ previous' = None /\ current' = None /\ decision' = {}
  BY <1>1 DEF HeadsInv, WalkInv, TypeOK
<1>5. candidates' = <<>>
  BY <1>1, IdleHasNone DEF HeadsInv, CandidatesInv
<1>6. TypeOK'
  BY <1>1, <1>3, <1>4 DEF HeadsInv, WalkInv, TypeOK
<1>7. WalkInv'
  BY <1>1, <1>3, <1>4, <1>6 DEF WalkInv, Verified
<1>8. HeadsDecisionInv'
  BY <1>4 DEF HeadsDecisionInv
<1>9. CASE lineages' = <<>>
  BY <1>5, <1>7, <1>9, NoCandidates DEF HeadsInv
<1>10. CASE lineages' # <<>>
  <2>1. Len(candidates') = 0 /\ candidates' \in Seq({})
    BY <1>5
  <2>2. Len(lineages') \in Nat /\ Len(lineages') # 0
    BY <1>2, <1>10
  <2>3. ~ Walked' /\ status' \in {"rejected", "checking"}
    BY <1>1, <2>1, <2>2 DEF Walked
  <2>4. CandidatesInv'
    BY <1>1, <1>2, <1>10, <2>1, <2>2, <2>3 DEF CandidatesInv, Verified
  <2> QED
    BY <1>7, <1>8, <2>4 DEF HeadsInv
<1> QED
  BY <1>9, <1>10

(***************************************************************************)
(* A candidate is walked: its verdict is kept with it.                     *)
(***************************************************************************)
LEMMA CandidateFacts ==
    ASSUME HeadsInv, status = "verified", Len(candidates) + 1 <= Len(lineages),
           \E verdict \in current : candidates' = Append(candidates, verdict),
           lineages' = lineages, registry' = registry
    PROVE  /\ \E S : candidates' \in Seq(S)
           /\ Len(candidates) \in Nat /\ Len(lineages) \in Nat
           /\ Len(candidates') = Len(candidates) + 1
           /\ \A i \in 1 .. Len(candidates') :
                  WalkedAs(lineages'[i], candidates'[i], registry')
           /\ lineages # <<>>
           /\ decision = {}
<1> DEFINE verdict == LineageVerdict(records, registry)
<1>1. AllLinked(records) /\ Rlp2(Last(records)) /\ current = Some(verdict)
  BY VerifiedIsLinked DEF HeadsInv, Verified
<1>2. candidates' = Append(candidates, verdict)
  BY <1>1 DEF Some
<1>3. WalkedAs(records, verdict, registry)
  BY <1>1 DEF WalkedAs
<1> HIDE DEF verdict
<1>4. PICK S : candidates \in Seq(S)
  BY DEF HeadsInv, CandidatesInv
<1>5. /\ Len(candidates) \in Nat /\ Len(lineages) \in Nat
      /\ lineages \in Seq(Seq(published))
  BY <1>4 DEF HeadsInv, CandidatesInv
<1>6. /\ candidates' \in Seq(S \cup {verdict})
      /\ Len(candidates') = Len(candidates) + 1
      /\ \A i \in 1 .. Len(candidates) : candidates'[i] = candidates[i]
      /\ candidates'[Len(candidates) + 1] = verdict
  <2>1. candidates \in Seq(S \cup {verdict}) /\ verdict \in S \cup {verdict}
    BY <1>4, SeqMonotonic
  <2> QED
    BY <1>2, <2>1, AppendProperties
<1>7. lineages # <<>>
  BY <1>5
<1>8. records = lineages[Len(candidates) + 1]
  BY <1>5, <1>7 DEF HeadsInv, CandidatesInv, Walked
<1>9. \A i \in 1 .. Len(candidates') :
          WalkedAs(lineages'[i], candidates'[i], registry')
  <2> TAKE i \in 1 .. Len(candidates')
  <2>1. CASE i \in 1 .. Len(candidates)
    BY <1>6, <2>1 DEF HeadsInv, CandidatesInv
  <2>2. CASE i = Len(candidates) + 1
    BY <1>3, <1>6, <1>8, <2>2
  <2> QED
    BY <1>5, <1>6, <2>1, <2>2
<1>10. decision = {}
  BY DEF HeadsInv, WalkInv, TypeOK
<1> QED
  BY <1>5, <1>6, <1>7, <1>9, <1>10

LEMMA NextCandidateKeepsHeads == HeadsInv /\ NextCandidate => HeadsInv'
<1> SUFFICES ASSUME HeadsInv, NextCandidate
             PROVE  HeadsInv'
  OBVIOUS
<1>1. /\ UNCHANGED <<published, honest, native, registry, witnessed, decision,
                     lineages>>
      /\ status = "verified"
      /\ Len(candidates) + 1 < Len(lineages)
      /\ \E verdict \in current : candidates' = Append(candidates, verdict)
      /\ records' = lineages[Len(candidates) + 2]
      /\ status' = IF records' = <<>> THEN "rejected" ELSE "checking"
      /\ index' = 0 /\ previous' = None /\ current' = None
  BY DEF NextCandidate, ledger
<1>2. /\ Len(candidates) \in Nat /\ Len(lineages) \in Nat
      /\ lineages \in Seq(Seq(published))
  <2>1. PICK S : candidates \in Seq(S)
    BY DEF HeadsInv, CandidatesInv
  <2> QED
    BY <2>1 DEF HeadsInv, CandidatesInv
<1>3. /\ \E S : candidates' \in Seq(S)
      /\ Len(candidates') = Len(candidates) + 1
      /\ \A i \in 1 .. Len(candidates') :
             WalkedAs(lineages'[i], candidates'[i], registry')
      /\ decision = {}
  <2>1. Len(candidates) + 1 <= Len(lineages)
    BY <1>1, <1>2
  <2> QED
    BY <1>1, <2>1, CandidateFacts
<1>4. /\ records' \in Seq(published)
      /\ Len(records') \in Nat
      /\ records' = <<>> => Len(records') = 0
  <2>1. Len(candidates) + 2 \in 1 .. Len(lineages)
    BY <1>1, <1>2
  <2>2. records' \in Seq(published)
    BY <1>1, <1>2, <2>1
  <2> QED
    BY <2>2
<1>5. TypeOK'
  BY <1>1, <1>3, <1>4 DEF HeadsInv, WalkInv, TypeOK
<1>6. WalkInv'
  BY <1>1, <1>4, <1>5 DEF WalkInv, Verified
<1>7. ~ Walked'
  BY <1>1, <1>2, <1>3 DEF Walked
<1>8. CandidatesInv'
  <2>1. status' \in {"rejected", "checking"}
    BY <1>1
  <2>2. /\ Len(candidates') + 1 = Len(candidates) + 2
        /\ Len(candidates') <= Len(lineages')
    BY <1>1, <1>2, <1>3
  <2> QED
    BY <1>1, <1>2, <1>3, <1>7, <2>1, <2>2 DEF CandidatesInv, Verified
<1>9. HeadsDecisionInv'
  BY <1>1, <1>3 DEF HeadsDecisionInv
<1> QED
  BY <1>6, <1>8, <1>9 DEF HeadsInv

LEMMA LastCandidateKeepsHeads == HeadsInv /\ LastCandidate => HeadsInv'
<1> SUFFICES ASSUME HeadsInv, LastCandidate
             PROVE  HeadsInv'
  OBVIOUS
<1>1. /\ UNCHANGED <<published, honest, native, registry, records, index,
                     previous, current, witnessed, decision, lineages>>
      /\ status = "verified"
      /\ Len(candidates) + 1 = Len(lineages)
      /\ \E verdict \in current : candidates' = Append(candidates, verdict)
      /\ status' = IF OneIdentity(candidates') THEN "verified" ELSE "rejected"
  BY DEF LastCandidate, ledger, call
<1>2. /\ \E S : candidates' \in Seq(S)
      /\ Len(candidates) \in Nat /\ Len(lineages) \in Nat
      /\ Len(candidates') = Len(candidates) + 1
      /\ \A i \in 1 .. Len(candidates') :
             WalkedAs(lineages'[i], candidates'[i], registry')
      /\ lineages # <<>>
      /\ decision = {}
  <2>1. PICK S : candidates \in Seq(S)
    BY DEF HeadsInv, CandidatesInv
  <2>2. Len(candidates) + 1 <= Len(lineages)
    BY <1>1, <2>1
  <2> QED
    BY <1>1, <2>2, CandidateFacts
<1>3. TypeOK'
  BY <1>1, <1>2 DEF HeadsInv, WalkInv, TypeOK
<1>4. index = Len(records) /\ current # None /\ Len(records) \in Nat
  BY <1>1 DEF HeadsInv, WalkInv, Verified, TypeOK
<1>5. WalkInv'
  BY <1>1, <1>3, <1>4 DEF HeadsInv, WalkInv, Verified
<1>6. /\ Walked' /\ Len(candidates') <= Len(lineages')
      /\ records' = lineages'[Len(lineages')]
  <2>1. ~ Walked
    BY <1>1, <1>2 DEF Walked
  <2> QED
    BY <1>1, <1>2, <2>1 DEF HeadsInv, CandidatesInv, Walked
<1>7. CandidatesInv'
  <2>1. lineages' \in Seq(Seq(published'))
    BY <1>1 DEF HeadsInv, CandidatesInv
  <2>2. /\ status' # "checking" /\ status' # "idle"
        /\ Verified' => OneIdentity(candidates)'
    BY <1>1 DEF Verified, OneIdentity
  <2> QED
    BY <1>1, <1>2, <1>6, <2>1, <2>2 DEF CandidatesInv
<1>8. HeadsDecisionInv'
  BY <1>1, <1>2 DEF HeadsDecisionInv
<1> QED
  BY <1>5, <1>7, <1>8 DEF HeadsInv

LEMMA DecideHeadsKeepsHeads == HeadsInv /\ DecideHeads => HeadsInv'
<1> SUFFICES ASSUME HeadsInv, DecideHeads
             PROVE  HeadsInv'
  OBVIOUS
<1>1. /\ UNCHANGED <<published, honest, native, registry, records, index,
                     previous, current, witnessed, lineages, candidates>>
      /\ status = "verified" /\ lineages # <<>> /\ Walked
      /\ status' \in {"decided", "rejected"}
  BY DEF DecideHeads, ledger, heads
<1>2. decision = {}
  BY <1>1 DEF HeadsInv, WalkInv, TypeOK
<1>3. /\ \A d \in decision' : /\ d.gate \in Gates
                              /\ validate_action_policy(d.gate.policy)
                              /\ d = HeadsDecision(d.gate)
      /\ status' = "rejected" => decision' = {}
  <2>1. \A gate : HeadsDecision(gate).gate = gate
    BY DEF HeadsDecision
  <2> QED
    BY <1>2, <2>1 DEF DecideHeads, Some
<1>4. TypeOK'
  BY <1>1, <1>3 DEF HeadsInv, WalkInv, TypeOK
<1>5. index = Len(records) /\ current # None /\ Len(records) \in Nat
  BY <1>1 DEF HeadsInv, WalkInv, Verified, TypeOK
<1>6. WalkInv'
  BY <1>1, <1>4, <1>5 DEF HeadsInv, WalkInv, Verified
<1>7. CandidatesInv'
  BY <1>1 DEF HeadsInv, CandidatesInv, Walked, Verified, OneIdentity
<1>8. HeadsDecisionInv'
  BY <1>1, <1>3 DEF HeadsDecisionInv, HeadsDecision, Walked, SingleHead
<1> QED
  BY <1>6, <1>7, <1>8 DEF HeadsInv

LEMMA DecideOneKeepsHeads == HeadsInv /\ DecideOne => HeadsInv'
BY DecideKeepsWalk, IdleHasNone, NoCandidates DEF HeadsInv, DecideOne, heads

LEMMA EndKeepsHeads == HeadsInv /\ EndHeads => HeadsInv'
BY EndKeepsWalk, NoCandidates DEF HeadsInv, EndHeads

LEMMA StutterKeepsHeads == HeadsInv /\ UNCHANGED allvars => HeadsInv'
<1> SUFFICES ASSUME HeadsInv, UNCHANGED allvars
             PROVE  HeadsInv'
  OBVIOUS
<1>1. UNCHANGED <<published, honest, native, status, registry, records, index,
                  previous, current, witnessed, decision, lineages, candidates>>
  BY DEF allvars, vars, heads, ledger, call
<1> QED
  BY <1>1, StutterKeepsWalk
     DEF HeadsInv, CandidatesInv, HeadsDecisionInv, HeadsDecision, Walked,
         Verified, OneIdentity, SingleHead

LEMMA NextKeepsHeads == HeadsInv /\ [HeadsNext]_allvars => HeadsInv'
BY AroundKeepsHeads, StartKeepsHeads, NextCandidateKeepsHeads,
   LastCandidateKeepsHeads, DecideHeadsKeepsHeads, DecideOneKeepsHeads,
   EndKeepsHeads, StutterKeepsHeads
   DEF HeadsNext

LEMMA HeadsInvariant == HeadsSpec => []HeadsInv
BY InitHeads, NextKeepsHeads, PTL DEF HeadsSpec

LEMMA HeadsAreTyped == HeadsInv => HeadsTypeOK
<1> SUFFICES ASSUME HeadsInv
             PROVE  HeadsTypeOK
  OBVIOUS
<1>1. PICK S : candidates \in Seq(S)
  BY DEF HeadsInv, CandidatesInv
<1>2. \A i \in DOMAIN candidates :
          candidates[i] = LineageVerdict(lineages[i], registry)
  BY <1>1 DEF HeadsInv, CandidatesInv, WalkedAs
<1> QED
  BY <1>2 DEF HeadsInv, CandidatesInv, WalkInv, HeadsTypeOK

(***************************************************************************)
(* The candidate at hand is the one whose turn it is, and the verdicts kept*)
(* are those of the candidates before it, whatever their number: the loop  *)
(* of verify_rlp2_heads (rlp2.py:437-440).                                 *)
(***************************************************************************)
THEOREM HeadsTypeCorrect == HeadsSpec => []HeadsTypeOK
BY HeadsInvariant, HeadsAreTyped, PTL

-----------------------------------------------------------------------------
(***************************************************************************)
(* Authority is computed for a candidate from the history it carries.  It  *)
(* is compared with what the record claims, so that candidates with one    *)
(* head agree on it, though one carries the predecessor and one does not.  *)
(***************************************************************************)
LEMMA CandidateVerdict ==
    ASSUME HeadsInv, NEW i \in DOMAIN candidates
    PROVE  /\ AllLinked(lineages[i]) /\ Rlp2(Last(lineages[i]))
           /\ candidates[i] = LineageVerdict(lineages[i], registry)
           /\ candidates[i] = [StoredVerdict(Last(lineages[i]), registry)
                                  EXCEPT !.records = Some(Len(lineages[i]))]
           /\ candidates[i].head = hash_object(Last(lineages[i]))
<1>1. PICK S : candidates \in Seq(S)
  BY DEF HeadsInv, CandidatesInv
<1>2. WalkedAs(lineages[i], candidates[i], registry)
  <2>1. i \in 1 .. Len(candidates)
    BY <1>1
  <2> QED
    BY <2>1 DEF HeadsInv, CandidatesInv
<1>3. /\ AllLinked(lineages[i]) /\ Rlp2(Last(lineages[i]))
      /\ candidates[i] = LineageVerdict(lineages[i], registry)
  BY <1>2 DEF WalkedAs
<1>4. candidates[i] = [StoredVerdict(Last(lineages[i]), registry)
                          EXCEPT !.records = Some(Len(lineages[i]))]
  BY <1>3, LinkedVerdict
<1>5. candidates[i].head = hash_object(Last(lineages[i]))
  BY <1>3, VerdictFields
<1> QED
  BY <1>3, <1>4, <1>5

LEMMA HeadGivesVerdict == HeadsInv => OneHeadOneVerdict
<1> SUFFICES ASSUME HeadsInv, NEW i \in DOMAIN candidates, NEW j \in DOMAIN candidates,
                    candidates[i].head = candidates[j].head
             PROVE  candidates[i] = [candidates[j] EXCEPT !.records = Some(Len(lineages[i]))]
  BY DEF OneHeadOneVerdict
<1> DEFINE stored == StoredVerdict(Last(lineages[i]), registry)
<1>1. Last(lineages[i]) = Last(lineages[j])
  BY CandidateVerdict, HashEqual
<1>2. /\ candidates[i] = [stored EXCEPT !.records = Some(Len(lineages[i]))]
      /\ candidates[j] = [stored EXCEPT !.records = Some(Len(lineages[j]))]
  BY <1>1, CandidateVerdict
<1> HIDE DEF stored
<1> QED
  BY <1>2

(***************************************************************************)
(* The verdicts of two candidates with one head differ in the number of    *)
(* records walked and in nothing else: whether a candidate brings the      *)
(* predecessor of its head, from which authority is computed, or leaves it *)
(* out, and whatever changes between the two walks.                        *)
(***************************************************************************)
THEOREM OneHeadGivesOneVerdict == HeadsSpec => []OneHeadOneVerdict
BY HeadsInvariant, HeadGivesVerdict, PTL

(***************************************************************************)
(* The gate does not look at the count, so it decides on such candidates   *)
(* alike.                                                                  *)
(***************************************************************************)
LEMMA GateIgnoresCount ==
    ASSUME HeadsInv, NEW i \in DOMAIN candidates, NEW j \in DOMAIN candidates,
           candidates[i].head = candidates[j].head, NEW gate
    PROVE  GateDecision(gate, candidates[i]) = GateDecision(gate, candidates[j])
<1>1. Last(lineages[i]) = Last(lineages[j])
  BY CandidateVerdict, HashEqual
<1>2. /\ candidates[i].integrity = candidates[j].integrity
      /\ candidates[i].state = candidates[j].state
      /\ candidates[i].authority_state = candidates[j].authority_state
      /\ candidates[i].effective_scope = candidates[j].effective_scope
  BY <1>1, CandidateVerdict, VerdictFields
<1> QED
  BY <1>2 DEF GateDecision, derive_action_decision, RuleDecision, ScopeDecision

-----------------------------------------------------------------------------
(***************************************************************************)
(* A decision on several candidates: all were walked.                      *)
(***************************************************************************)
LEMMA DecidedCandidates ==
    ASSUME HeadsInv, lineages # <<>>, NEW d \in decision
    PROVE  /\ Walked /\ Verified
           /\ validate_action_policy(d.gate.policy)
           /\ d = HeadsDecision(d.gate)
           /\ Len(candidates) \in Nat \ {0}
           /\ DOMAIN candidates = 1 .. Len(candidates)
           /\ DOMAIN lineages = DOMAIN candidates
           /\ \A i \in DOMAIN candidates :
                  WalkedAs(lineages[i], candidates[i], registry)
           /\ OneIdentity(candidates)
<1>1. /\ Walked
      /\ validate_action_policy(d.gate.policy)
      /\ d = HeadsDecision(d.gate)
  BY DEF HeadsInv, HeadsDecisionInv
<1>2. Verified
  BY DEF HeadsInv, WalkInv, TypeOK, Verified
<1>3. PICK S : candidates \in Seq(S)
  BY DEF HeadsInv, CandidatesInv
<1>4. lineages \in Seq(Seq(published)) /\ Len(candidates) = Len(lineages)
  BY <1>1 DEF HeadsInv, CandidatesInv, Walked
<1>5. Len(lineages) # 0
  BY <1>4
<1> QED
  BY <1>1, <1>2, <1>3, <1>4, <1>5 DEF HeadsInv, CandidatesInv

LEMMA OneHead ==
    ASSUME NEW S, NEW verdicts \in Seq(S), SingleHead(verdicts), Len(verdicts) # 0
    PROVE  \A i \in DOMAIN verdicts : verdicts[i].head = verdicts[1].head
<1> DEFINE n == Len(verdicts)
           H == {verdicts[i].head : i \in DOMAIN verdicts}
           f == [i \in 1 .. n |-> verdicts[i].head]
<1>1. n \in Nat /\ DOMAIN verdicts = 1 .. n /\ 1 \in 1 .. n
  OBVIOUS
<1>2. f \in Surjection(1 .. n, H)
  BY <1>1 DEF Surjection
<1>3. IsFiniteSet(1 .. n)
  BY <1>1, FS_Interval
<1>4. IsFiniteSet(H)
  <2> HIDE DEF f, H
  <2> QED
    BY <1>2, <1>3, FS_Surjection
<1>5. Cardinality(H) = 1
  BY DEF SingleHead
<1>6. PICK h : H = {h}
  <2> HIDE DEF H
  <2> QED
    BY <1>4, <1>5, FS_Singleton
<1>7. \A i \in DOMAIN verdicts : verdicts[i].head = h
  BY <1>6
<1> QED
  BY <1>1, <1>7

(***************************************************************************)
(* PERMIT to a caller of several candidates is PERMIT on each of them.     *)
(***************************************************************************)
LEMMA PermitsEach ==
    ASSUME HeadsInv, NEW d \in decision, d.decision = "PERMIT",
           NEW i \in DOMAIN lineages
    PROVE  HeadJustifies(lineages[i], d)
<1>1. PICK S : candidates \in Seq(S)
  BY DEF HeadsInv, CandidatesInv
<1>2. lineages # <<>>
  OBVIOUS
<1>3. /\ validate_action_policy(d.gate.policy)
      /\ d = HeadsDecision(d.gate)
      /\ Len(candidates) \in Nat \ {0}
      /\ DOMAIN candidates = 1 .. Len(candidates)
      /\ DOMAIN lineages = DOMAIN candidates
      /\ \A j \in DOMAIN candidates :
             WalkedAs(lineages[j], candidates[j], registry)
  BY <1>2, DecidedCandidates
<1>4. /\ SingleHead(candidates)
      /\ GateDecision(d.gate, candidates[1]) = "PERMIT"
      /\ d.resolution_head = Some(candidates[1].head)
  BY <1>3 DEF HeadsDecision
<1>5. candidates[i].head = candidates[1].head
  BY <1>1, <1>3, <1>4, OneHead
<1>6. GateDecision(d.gate, candidates[i]) = "PERMIT"
  BY <1>3, <1>4, <1>5, GateIgnoresCount
<1>7. /\ AllLinked(lineages[i]) /\ Rlp2(Last(lineages[i]))
      /\ candidates[i].head = hash_object(Last(lineages[i]))
      /\ candidates[i] = LineageVerdict(lineages[i], registry)
  BY <1>3, CandidateVerdict
<1>8. OneHistory(lineages[i])
  BY <1>7, LinkedIsOneHistory DEF Last
<1>9. d.resolution_head = Some(hash_object(Last(lineages[i])))
  BY <1>4, <1>5, <1>7
<1>10. VerifiesAsStored(Last(lineages[i]), PriorIn(lineages[i], Len(lineages[i])))
  BY <1>7, ListFacts, LinkedIsStored DEF Last
<1>11. Permits(d.gate, Last(lineages[i]))
  BY <1>3, <1>6, <1>7, <1>10, VerdictFields, PermitJustified
<1> QED
  BY <1>8, <1>9, <1>11 DEF HeadJustifies

(***************************************************************************)
(* No action is permitted on a fork: PERMIT means that every candidate is  *)
(* one history and that all end in the one record that justifies it.       *)
(***************************************************************************)
THEOREM ForksHeld == HeadsSpec => []ForksAreHeld
<1>1. HeadsInv => ForksAreHeld
  BY PermitsEach DEF ForksAreHeld
<1> QED
  BY <1>1, HeadsInvariant, PTL

LEMMA DecidedAreOne == HeadsInv => DecidedOnOneIdentity
<1> SUFFICES ASSUME HeadsInv, decision # None,
                    NEW i \in DOMAIN lineages, NEW j \in DOMAIN lineages
             PROVE  /\ Last(lineages[i]).payload.body.subject
                           = Last(lineages[j]).payload.body.subject
                    /\ Last(lineages[i]).payload.body.original_target
                           = Last(lineages[j]).payload.body.original_target
  BY DEF DecidedOnOneIdentity
<1>1. PICK d \in decision : TRUE
  BY DEF None
<1>2. lineages # <<>>
  OBVIOUS
<1>3. /\ i \in DOMAIN candidates /\ j \in DOMAIN candidates
      /\ candidates[i] = LineageVerdict(lineages[i], registry)
      /\ candidates[j] = LineageVerdict(lineages[j], registry)
      /\ OneIdentity(candidates)
      /\ AllLinked(lineages[i]) /\ Rlp2(Last(lineages[i]))
      /\ AllLinked(lineages[j]) /\ Rlp2(Last(lineages[j]))
  BY <1>2, DecidedCandidates DEF WalkedAs
<1>4. /\ candidates[i].subject = candidates[j].subject
      /\ candidates[i].original_target = candidates[j].original_target
  BY <1>3 DEF OneIdentity
<1> QED
  BY <1>3, <1>4, VerdictFields

(***************************************************************************)
(* Candidates that are decided on are of one subject and one original      *)
(* target (rlp2.py:441-443), however many there are.                       *)
(***************************************************************************)
THEOREM DecidesOnOneIdentity == HeadsSpec => []DecidedOnOneIdentity
BY HeadsInvariant, DecidedAreOne, PTL

-----------------------------------------------------------------------------
(***************************************************************************)
(* Along a lineage the ranks rise: no record in it revises its last.       *)
(***************************************************************************)
LEMMA RanksRise ==
    ASSUME NEW rank \in [published -> Nat], RankedBy(rank, published),
           NEW list \in Seq(published), AllLinked(list)
    PROVE  \A record \in Range(list) : rank[record] <= rank[Last(list)]
<1> DEFINE n == Len(list)
           T == {k \in Nat : k < n => rank[list[n - k]] <= rank[list[n]]}
<1>1. n \in Nat /\ n # 0 /\ DOMAIN list = 1 .. n
  BY ListFacts
<1>2. \A i \in 1 .. n : list[i] \in published /\ rank[list[i]] \in Nat
  BY <1>1
<1>3. 0 \in T
  BY <1>1, <1>2
<1>4. ASSUME NEW k \in T PROVE k + 1 \in T
  <2> SUFFICES ASSUME k + 1 < n
               PROVE  rank[list[n - (k + 1)]] <= rank[list[n]]
    OBVIOUS
  <2> DEFINE i == n - k
  <2>1. i \in 2 .. n /\ i - 1 = n - (k + 1) /\ i \in 1 .. n /\ i - 1 \in 1 .. n
    BY <1>1
  <2>2. rank[list[i]] <= rank[list[n]]
    BY <1>1
  <2> HIDE DEF i
  <2>3. Rlp2(list[i]) /\ VerifiesAsStored(list[i], Some(list[i - 1]))
    BY <2>1, LaterIsStored
  <2>4. Names(list[i], list[i - 1])
    BY <2>3, StoredContinues DEF Names
  <2>5. rank[list[i - 1]] < rank[list[i]]
    BY <1>2, <2>1, <2>4 DEF RankedBy
  <2>6. rank[list[i - 1]] <= rank[list[n]]
    BY <1>1, <1>2, <2>1, <2>2, <2>5
  <2> QED
    BY <2>1, <2>6
<1> HIDE DEF T
<1>5. Nat \subseteq T
  BY <1>3, <1>4, SetInduction
<1> SUFFICES ASSUME NEW i \in 1 .. n
             PROVE  rank[list[i]] <= rank[list[n]]
  BY <1>1 DEF Range, Last
<1>6. n - i \in T /\ n - i < n /\ n - (n - i) = i
  BY <1>1, <1>5
<1> QED
  BY <1>6 DEF T

LEMMA LastIsNotRevised ==
    ASSUME RankInv, NEW list \in Seq(published), AllLinked(list),
           NEW record \in Range(list), Names(record, Last(list))
    PROVE  FALSE
<1>1. PICK rank \in [published -> Nat] : RankedBy(rank, published)
  BY DEF RankInv
<1>2. rank[record] <= rank[Last(list)]
  BY <1>1, RanksRise
<1>3. record \in published
  BY DEF Range
<1>4. Last(list) \in published /\ rank[Last(list)] < rank[record]
  BY <1>1, <1>3 DEF RankedBy
<1> QED
  BY <1>1, <1>2, <1>3, <1>4

LEMMA PermitIsOnTheLast == HeadsInv /\ RankInv => SupersededIsHeld
<1> SUFFICES ASSUME HeadsInv, RankInv, NEW d \in decision, NEW i \in DOMAIN lineages,
                    d.decision = "PERMIT", NEW record \in Range(lineages[i]),
                    NEW head \in d.resolution_head, Revises(record, head)
             PROVE  FALSE
  BY DEF SupersededIsHeld
<1>1. d.resolution_head = Some(hash_object(Last(lineages[i])))
  BY PermitsEach DEF HeadJustifies
<1>2. head = hash_object(Last(lineages[i]))
  BY <1>1 DEF Some
<1>3. Names(record, Last(lineages[i]))
  BY <1>2 DEF Revises, Names
<1>4. lineages # <<>>
  OBVIOUS
<1>5. AllLinked(lineages[i])
  BY <1>4, DecidedCandidates DEF WalkedAs
<1>6. lineages[i] \in Seq(published)
  BY DEF HeadsInv, CandidatesInv
<1> QED
  BY <1>3, <1>5, <1>6, LastIsNotRevised

(***************************************************************************)
(* The records of HeadsSpec are ranked as those of Spec.                   *)
(***************************************************************************)
LEMMA HeadsKeepPublished ==
    PublishedInv /\ RankInv /\ [HeadsNext]_allvars => PublishedInv' /\ RankInv'
<1>1. StartHeads \/ NextCandidate \/ LastCandidate \/ DecideHeads
          => published' = published
  BY DEF StartHeads, NextCandidate, LastCandidate, DecideHeads, ledger
<1>2. PublishedInv /\ RankInv /\ published' = published => PublishedInv' /\ RankInv'
  BY DEF PublishedInv, RankInv
<1>3. Around \/ DecideOne \/ EndHeads \/ UNCHANGED allvars => [Next]_vars
  BY DEF Around, Walk, DecideOne, EndHeads, Next, allvars
<1> QED
  BY <1>1, <1>2, <1>3, NextKeepsPublished DEF HeadsNext

LEMMA HeadsPublishedInvariant == HeadsSpec => [](PublishedInv /\ RankInv)
<1>1. HeadsInit => PublishedInv /\ RankInv
  BY InitPublished DEF HeadsInit
<1> QED
  BY <1>1, HeadsKeepPublished, PTL DEF HeadsSpec

(***************************************************************************)
(* A superseded head permits nothing where its successor is known: no      *)
(* PERMIT names a head that any record of any candidate revises.           *)
(***************************************************************************)
THEOREM SupersededHeld == HeadsSpec => []SupersededIsHeld
BY HeadsInvariant, HeadsPublishedInvariant, PermitIsOnTheLast, PTL

-----------------------------------------------------------------------------
(***************************************************************************)
(* Evidence, in calls of several candidates: each walk starts with nothing *)
(* passed.                                                                 *)
(***************************************************************************)
LEMMA HeadsKeepWitness ==
    HeadsInv /\ WitnessInv /\ [HeadsNext]_allvars => WitnessInv'
<1> SUFFICES ASSUME HeadsInv, WitnessInv, [HeadsNext]_allvars
             PROVE  WitnessInv'
  OBVIOUS
<1>1. CASE \/ SignResolution \/ SignRlp2 \/ CollectApprovals \/ RewriteRecord
           \/ NativeChanges \/ StartLineage \/ Walk \/ DecideOne \/ EndHeads
           \/ UNCHANGED allvars
  BY <1>1, NextKeepsWitness
     DEF HeadsInv, Next, Walk, DecideOne, EndHeads, allvars
<1>2. CASE StartHeads
  <2>1. index' = 0
    BY <1>2 DEF StartHeads, HeadsInv, WalkInv
  <2> QED
    BY <2>1, RestKeepsWitness
<1>3. CASE NextCandidate
  BY <1>3, RestKeepsWitness DEF NextCandidate
<1>4. CASE LastCandidate
  BY <1>4, RestKeepsWitness DEF LastCandidate, call
<1>5. CASE DecideHeads
  BY <1>5, RestKeepsWitness DEF DecideHeads
<1> QED
  BY <1>1, <1>2, <1>3, <1>4, <1>5 DEF HeadsNext, Around

(***************************************************************************)
(* RECOMPUTED means recomputed in this call, for each candidate in turn.   *)
(***************************************************************************)
THEOREM HeadsEvidenceWitnessed == HeadsSpec => []EvidenceIsWitnessed
<1>1. HeadsInit => WitnessInv
  BY InitWitness DEF HeadsInit
<1>2. HeadsInv /\ WitnessInv => EvidenceIsWitnessed
  BY WalkIsWitnessed DEF HeadsInv
<1> QED
  BY <1>1, <1>2, HeadsKeepWitness, HeadsInvariant, PTL DEF HeadsSpec

-----------------------------------------------------------------------------
(***************************************************************************)
(* The contract, for callers of several candidates: on a single head the   *)
(* verdict decided on is that of the record walked last.                   *)
(***************************************************************************)
LEMMA PermitOnLastWalked ==
    ASSUME HeadsInv, status = "verified", lineages # <<>>, Walked,
           SingleHead(candidates)
    PROVE  \A gate : GateDecision(gate, candidates[1])
                          = GateDecision(gate, LineageVerdict(records, registry))
<1>1. PICK S : candidates \in Seq(S)
  BY DEF HeadsInv, CandidatesInv
<1>2. /\ lineages \in Seq(Seq(published))
      /\ Len(candidates) = Len(lineages)
      /\ records = lineages[Len(lineages)]
  BY DEF HeadsInv, CandidatesInv, Walked
<1> DEFINE n == Len(candidates)
<1>3. n \in Nat /\ n # 0 /\ n \in DOMAIN candidates /\ 1 \in DOMAIN candidates
  BY <1>1, <1>2
<1>4. \A gate : GateDecision(gate, candidates[1]) = GateDecision(gate, candidates[n])
  BY <1>1, <1>3, OneHead, GateIgnoresCount
<1>5. candidates[n] = LineageVerdict(records, registry)
  BY <1>2, <1>3, HeadsAreTyped DEF HeadsTypeOK
<1> QED
  BY <1>4, <1>5

LEMMA DecideHeadsKeepsContract ==
    ASSUME HeadsInv, PublishedInv, DecideHeads
    PROVE  [Contract!Next]_(Contract!vars)
<1>1. /\ status = "verified" /\ lineages # <<>> /\ Walked
      /\ UNCHANGED <<published, records>>
      /\ Verified /\ decision = {}
  BY DEF DecideHeads, ledger, Verified, HeadsInv, WalkInv, TypeOK
<1>2. Consents' = Consents
  BY <1>1, UnpublishedConsents
<1>3. Answered = {}
  BY <1>1 DEF Answered
<1>4. CASE decision' = decision
  <2>1. Answered' = Answered
    BY <1>1, <1>4 DEF Answered
  <2> QED
    BY <1>2, <2>1 DEF Contract!vars
<1>5. CASE decision' # decision
  <2>1. PICK gate \in Gates :
            /\ validate_action_policy(gate.policy)
            /\ decision' = Some(HeadsDecision(gate))
    BY <1>5 DEF DecideHeads
  <2> DEFINE d == HeadsDecision(gate)
             body == Last(records).payload.body
             given == [gate |-> d.gate, decision |-> d.decision, body |-> body]
  <2>2. d.gate = gate
    BY DEF HeadsDecision
  <2>3. Answered' = {given}
    BY <1>1, <2>1 DEF Answered, Some
  <2>4. d.decision = "PERMIT" => Contract!Warranted(gate, body)
    <3> SUFFICES ASSUME d.decision = "PERMIT"
                 PROVE  Contract!Warranted(gate, body)
      OBVIOUS
    <3>1. SingleHead(candidates) /\ GateDecision(gate, candidates[1]) = "PERMIT"
      BY DEF HeadsDecision
    <3>2. GateDecision(gate, LineageVerdict(records, registry)) = "PERMIT"
      BY <1>1, <3>1, PermitOnLastWalked
    <3> QED
      BY <1>1, <2>1, <3>1, <3>2, PermitIsWarranted DEF HeadsInv
  <2>5. given.gate = gate /\ given.body = body /\ given.decision = d.decision
    BY <2>2
  <2> HIDE DEF given, d
  <2> QED
    BY <1>2, <1>3, <2>3, <2>4, <2>5
       DEF Contract!Answer, Contract!Next, Contract!None, None
<1> QED
  BY <1>4, <1>5

LEMMA HeadsKeepContract ==
    ASSUME HeadsInv, PublishedInv, RankInv, [HeadsNext]_allvars
    PROVE  [Contract!Next]_(Contract!vars)
<1>1. CASE Around \/ DecideOne \/ EndHeads \/ UNCHANGED allvars
  <2>1. [Next]_vars
    BY <1>1 DEF Around, Walk, DecideOne, EndHeads, Next, allvars
  <2> QED
    BY <2>1, NextKeepsContract DEF HeadsInv
<1>2. CASE StartHeads \/ NextCandidate \/ LastCandidate
  <2>1. decision = {} /\ decision' = {} /\ published' = published
    BY <1>2
       DEF StartHeads, NextCandidate, LastCandidate, ledger, call, HeadsInv,
           WalkInv, TypeOK
  <2>2. Answered = {} /\ Answered' = {}
    BY <2>1 DEF Answered
  <2> QED
    BY <2>1, <2>2, UnpublishedConsents DEF Contract!vars
<1>3. CASE DecideHeads
  BY <1>3, DecideHeadsKeepsContract
<1> QED
  BY <1>1, <1>2, <1>3 DEF HeadsNext

(***************************************************************************)
(* Callers of several candidates get what callers of one get: each         *)
(* question is answered once, and PERMIT only on a conclusion a quorum has *)
(* consented to by then.                                                   *)
(***************************************************************************)
THEOREM HeadsImplementContract == HeadsSpec => GateKeepsContract
<1>1. HeadsInv /\ PublishedInv /\ RankInv /\ [HeadsNext]_allvars
          => [Contract!Next]_(Contract!vars)
  BY HeadsKeepContract
<1>2. HeadsInit => Contract!Init
  BY InitKeepsContract DEF HeadsInit
<1> QED
  BY <1>1, <1>2, HeadsInvariant, HeadsPublishedInvariant, PTL
     DEF HeadsSpec, GateKeepsContract, Contract!Spec

=============================================================================
