----------------------------- MODULE ActionHeads -----------------------------
(***************************************************************************)
(* Competing heads: verify_rlp2_heads and verify_and_decide_action_heads   *)
(* (rlp2.py).  A caller supplies several candidate lineages; each is       *)
(* walked in turn by verify_rlp2_lineage, whose steps are Rlp2Lineage's,   *)
(* and an action is decided only if all of them end in the same head.      *)
(*                                                                         *)
(* Callers of a single lineage are still there, as are the signers and the *)
(* native systems, which go on while the candidates are walked.            *)
(***************************************************************************)
EXTENDS Rlp2Lineage

CONSTANT MaxLineages    \* bound: the most candidates supplied

ASSUME LineagesAssumption == MaxLineages \in Nat

VARIABLES lineages,     \* the candidates of the call; <<>> in a call of one
          candidates    \* the verdicts of those walked, in order

heads == <<lineages, candidates>>
allvars == <<vars, heads>>

HeadsInit ==
    /\ Init
    /\ lineages = <<>>
    /\ candidates = <<>>

-----------------------------------------------------------------------------
(***************************************************************************)
(* verify_rlp2_heads.  An empty list of candidates is refused at once, an  *)
(* empty candidate when its turn comes.                                    *)
(***************************************************************************)
StartHeads ==
    /\ status = "idle"
    /\ lineages' \in BoundedSeq(BoundedSeq(published, MaxLength), MaxLineages)
    /\ registry' \in VerifierAdapters
    /\ records' = IF lineages' = <<>> THEN <<>> ELSE lineages'[1]
    /\ status' = IF records' = <<>> THEN "rejected" ELSE "checking"
    /\ UNCHANGED <<ledger, native, index, previous, current, witnessed,
                   decision, candidates>>

Walked == Len(candidates) = Len(lineages)

OneIdentity(verdicts) ==
    \A i, j \in DOMAIN verdicts :
        /\ verdicts[i].subject = verdicts[j].subject
        /\ verdicts[i].original_target = verdicts[j].original_target

(***************************************************************************)
(* A fault: the loop goes on where it stopped in the candidate before.     *)
(***************************************************************************)
NextCandidateKeepingIndex ==
    /\ status = "verified"
    /\ Len(candidates) + 1 < Len(lineages)
    /\ \E verdict \in current : candidates' = Append(candidates, verdict)
    /\ records' = lineages[Len(candidates) + 2]
    /\ status' = IF records' = <<>> THEN "rejected" ELSE "checking"
    /\ previous' = None
    /\ current' = None
    /\ UNCHANGED <<ledger, native, registry, index, witnessed, decision, lineages>>

(***************************************************************************)
(* The candidate just walked has its verdict; the next one is walked with  *)
(* loop variables of its own.                                              *)
(***************************************************************************)
NextCandidate ==
    /\ status = "verified"
    /\ Len(candidates) + 1 < Len(lineages)
    /\ \E verdict \in current : candidates' = Append(candidates, verdict)
    /\ records' = lineages[Len(candidates) + 2]
    /\ status' = IF records' = <<>> THEN "rejected" ELSE "checking"
    /\ index' = 0
    /\ previous' = None
    /\ current' = None
    /\ UNCHANGED <<ledger, native, registry, witnessed, decision, lineages>>

(***************************************************************************)
(* A fault: unrelated lineages are not compared.                           *)
(***************************************************************************)
LastCandidateUncompared ==
    /\ status = "verified"
    /\ Len(candidates) + 1 = Len(lineages)
    /\ \E verdict \in current : candidates' = Append(candidates, verdict)
    /\ UNCHANGED <<ledger, native, call, status, lineages>>

(***************************************************************************)
(* After the last one, the candidates must be of one subject and target.   *)
(***************************************************************************)
LastCandidate ==
    /\ status = "verified"
    /\ Len(candidates) + 1 = Len(lineages)
    /\ \E verdict \in current : candidates' = Append(candidates, verdict)
    /\ status' = IF OneIdentity(candidates') THEN "verified" ELSE "rejected"
    /\ UNCHANGED <<ledger, native, call, lineages>>

(***************************************************************************)
(* A fault: heads that say the same thing are taken to be the same.        *)
(***************************************************************************)
SingleConclusion(verdicts) ==
    Cardinality({<<verdicts[i].state, verdicts[i].effective_scope>> :
                    i \in DOMAIN verdicts}) = 1

(***************************************************************************)
(* fork_state is SINGLE.                                                   *)
(***************************************************************************)
SingleHead(verdicts) ==
    Cardinality({verdicts[i].head : i \in DOMAIN verdicts}) = 1

-----------------------------------------------------------------------------
(***************************************************************************)
(* verify_and_decide_action_heads: HOLD on a fork, and else the gate on    *)
(* the first candidate's verdict.                                          *)
(***************************************************************************)
HeadsDecision(gate) ==
    IF SingleHead(candidates)
    THEN [gate |-> gate, decision |-> GateDecision(gate, candidates[1]),
          resolution_head |-> Some(candidates[1].head)]
    ELSE [gate |-> gate, decision |-> "HOLD", resolution_head |-> None]

DecideHeads ==
    /\ status = "verified"
    /\ lineages # <<>>
    /\ Walked
    /\ \E gate \in Gates :
           IF validate_action_policy(gate.policy)
           THEN status' = "decided" /\ decision' = Some(HeadsDecision(gate))
           ELSE status' = "rejected" /\ UNCHANGED decision
    /\ UNCHANGED <<ledger, native, registry, records, index, previous, current,
                   witnessed, heads>>

(***************************************************************************)
(* A call of one lineage: verify_and_decide_action.                        *)
(***************************************************************************)
DecideOne ==
    /\ lineages = <<>>
    /\ Decide
    /\ UNCHANGED heads

(***************************************************************************)
(* A fault: the verdicts outlive the call.                                 *)
(***************************************************************************)
EndHeadsKeepingCandidates ==
    /\ EndCall
    /\ lineages = <<>> \/ Walked \/ status = "rejected"
    /\ lineages' = <<>>
    /\ UNCHANGED candidates

(***************************************************************************)
(* The caller takes the answer, or the refusal.                            *)
(***************************************************************************)
EndHeads ==
    /\ EndCall
    /\ lineages = <<>> \/ Walked \/ status = "rejected"
    /\ lineages' = <<>>
    /\ candidates' = <<>>

(***************************************************************************)
(* Everything that goes on as if there were no candidates: the signers,    *)
(* the native systems, a call of one lineage, the walk of each.            *)
(***************************************************************************)
Around ==
    \/ SignResolution
    \/ SignRlp2
    \/ CollectApprovals
    \/ RewriteRecord
    \/ NativeChanges
    \/ StartLineage
    \/ Walk

HeadsNext ==
    \/ Around /\ UNCHANGED heads
    \/ StartHeads
    \/ NextCandidate
    \/ LastCandidate
    \/ DecideHeads
    \/ DecideOne
    \/ EndHeads

HeadsSpec == HeadsInit /\ [][HeadsNext]_allvars

(***************************************************************************)
(* One call is one thread: its walks and the steps between them go on.     *)
(***************************************************************************)
Verifies == (Walk /\ UNCHANGED heads) \/ NextCandidate \/ LastCandidate

FairHeadsSpec == HeadsSpec /\ WF_allvars(Verifies)

-----------------------------------------------------------------------------
(***************************************************************************)
(* Type invariant of the call: the lineage at hand is the candidate whose  *)
(* turn it is, and the verdicts are those of the candidates before it.     *)
(***************************************************************************)
HeadsTypeOK ==
    /\ TypeOK
    /\ lineages \in Seq(Seq(published))
    /\ Len(candidates) <= Len(lineages)
    /\ lineages # <<>> /\ ~ Walked => records = lineages[Len(candidates) + 1]
    /\ \A i \in DOMAIN candidates :
           candidates[i] = LineageVerdict(lineages[i], registry)

(***************************************************************************)
(* No action is permitted on a fork.  PERMIT to a caller of several        *)
(* candidates means that every one of them is one history, that all end in *)
(* the very same record, that this record justifies the action, and that   *)
(* it is the head the decision names.                                      *)
(***************************************************************************)
HeadJustifies(lineage, d) ==
    /\ OneHistory(lineage)
    /\ d.resolution_head = Some(hash_object(Last(lineage)))
    /\ Permits(d.gate, Last(lineage))

ForksAreHeld ==
    \A d \in decision :
        d.decision = "PERMIT" =>
            \A i \in DOMAIN lineages : HeadJustifies(lineages[i], d)

(***************************************************************************)
(* A superseded head permits nothing where its successor is known: if any  *)
(* candidate supplied holds a record that revises the head of another, no  *)
(* PERMIT is given on that head.                                           *)
(***************************************************************************)
Revises(record, head) ==
    Rlp2(record) /\ record.payload.body.previous = Some(head)

SupersededIsHeld ==
    \A d \in decision, i \in DOMAIN lineages :
        d.decision = "PERMIT" =>
            \A record \in Range(lineages[i]), head \in d.resolution_head :
                ~ Revises(record, head)

(***************************************************************************)
(* The answer does not depend on which candidate came first, nor on how    *)
(* much of its history a candidate carries, nor on what changed between    *)
(* two walks.  A record's authority is computed otherwise where its        *)
(* predecessor is supplied than where it is not, and verdicts count the    *)
(* records they were reached through; yet the verdicts of two candidates   *)
(* with one head differ in this count and in nothing else.                 *)
(***************************************************************************)
OneHeadOneVerdict ==
    \A i, j \in DOMAIN candidates :
        candidates[i].head = candidates[j].head =>
            candidates[i] = [candidates[j] EXCEPT !.records = Some(Len(lineages[i]))]

(***************************************************************************)
(* Candidates that verify are of one subject and one original target: no   *)
(* action is decided across unrelated resolutions, not even held.          *)
(***************************************************************************)
DecidedOnOneIdentity ==
    decision # None =>
        \A i, j \in DOMAIN lineages :
            LET one == Last(lineages[i]).payload.body
                other == Last(lineages[j]).payload.body
            IN  /\ one.subject = other.subject
                /\ one.original_target = other.original_target

(***************************************************************************)
(* A call of several candidates comes to its end, refused or with all of   *)
(* them walked, whatever is published or changes meanwhile.                *)
(***************************************************************************)
HeadsCallEnds ==
    lineages # <<>> ~> lineages = <<>> \/ Walked \/ status = "rejected"

=============================================================================
