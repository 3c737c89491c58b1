-------------------------- MODULE ResolutionLineage --------------------------
(***************************************************************************)
(* RLP-1 records, and the verification of a lineage of them                *)
(* (verify_resolution_lineage in resolution.py).                           *)
(*                                                                         *)
(* Signers publish records: with sign_resolution, with another program     *)
(* that fills in the payload itself, or by editing a copy of a record      *)
(* already signed.  A verifier is handed any list of published records and *)
(* walks it as the code's loop does, one record a step.                    *)
(***************************************************************************)
EXTENDS Resolution, FiniteSets, SequencesExt

CONSTANTS DIDs,         \* the key holders
          Drafts,       \* arguments a record is made from
          ClaimedStates, \* states a payload assembled by hand may claim
          MaxObjects,   \* bound: how many records are ever published
          MaxLength     \* bound: the longest list handed to the verifier

ASSUME BoundsAssumption == MaxObjects \in Nat /\ MaxLength \in Nat

VARIABLES published,    \* every record that exists
          status,       \* what the verifier is doing, or its last verdict
          records,      \* the list it was called with
          index,        \* how many of them the loop has verified
          previous,     \* the loop's variable: the record before, or None
          latest        \* the loop's variable: the payload last verified

verifier == <<status, records, index, previous, latest>>
vars == <<published, verifier>>

Init ==
    /\ published = {}
    /\ status = "idle"
    /\ records = <<>>
    /\ index = 0
    /\ previous = None
    /\ latest = None

-----------------------------------------------------------------------------
(***************************************************************************)
(* The signers.                                                            *)
(***************************************************************************)
Room == Cardinality(published) < MaxObjects

Publish(record) ==
    /\ published' = published \cup {record}
    /\ UNCHANGED verifier

SignResolution ==
    /\ Room
    /\ \E draft \in Drafts, did \in DIDs, prior \in Optional(published) :
           /\ Buildable(draft, LinkTo(prior))
           /\ Publish(sign_resolution(draft, did, prior))

(***************************************************************************)
(* A payload assembled outside build_resolution_payload: nothing derives   *)
(* its state or validates its checks before it is signed.                  *)
(***************************************************************************)
SignPayload ==
    /\ Room
    /\ \E draft \in Drafts, state \in ClaimedStates, did \in DIDs,
          prior \in Optional(published) :
           Publish(sign_envelope(RESOLUTION_KIND,
                       FillPayload(draft, state, LinkTo(prior)), did))

(***************************************************************************)
(* A signed record rewritten in place, keeping its signature.              *)
(***************************************************************************)
RewriteRecord ==
    /\ Room
    /\ \E record \in published, draft \in Drafts :
           /\ draft.effective_target # record.payload.effective_target
           /\ Publish(Edited(record, [record.payload EXCEPT
                                !.effective_target = draft.effective_target]))

-----------------------------------------------------------------------------
(***************************************************************************)
(* verify_resolution_lineage.  An empty list is refused at once.           *)
(***************************************************************************)
StartLineage ==
    /\ status = "idle"
    /\ records' \in BoundedSeq(published, MaxLength)
    /\ status' = IF records' = <<>> THEN "rejected" ELSE "checking"
    /\ UNCHANGED <<published, index, previous, latest>>

AcceptsNext == verify_resolution(records[index + 1], previous)

CheckRecord ==
    /\ status = "checking"
    /\ index < Len(records)
    /\ AcceptsNext
    /\ index' = index + 1
    /\ previous' = Some(records[index + 1])
    /\ latest' = Some(records[index + 1].payload)
    /\ UNCHANGED <<published, status, records>>

RejectRecord ==
    /\ status = "checking"
    /\ index < Len(records)
    /\ ~ AcceptsNext
    /\ status' = "rejected"
    /\ UNCHANGED <<published, records, index, previous, latest>>

(***************************************************************************)
(* A fault: the last record is not looked at.                              *)
(***************************************************************************)
ReturnLineageEarly ==
    /\ status = "checking"
    /\ index + 1 >= Len(records)
    /\ status' = "accepted"
    /\ UNCHANGED <<published, records, index, previous, latest>>

ReturnLineage ==
    /\ status = "checking"
    /\ index = Len(records)
    /\ status' = "accepted"
    /\ UNCHANGED <<published, records, index, previous, latest>>

(***************************************************************************)
(* A fault: the loop's variables outlive the call.                         *)
(***************************************************************************)
EndCallKeepingLoop ==
    /\ status \in {"accepted", "rejected"}
    /\ status' = "idle"
    /\ records' = <<>>
    /\ index' = 0
    /\ UNCHANGED <<published, previous, latest>>

(***************************************************************************)
(* The caller takes the verdict; the call's variables are gone.            *)
(***************************************************************************)
EndCall ==
    /\ status \in {"accepted", "rejected"}
    /\ status' = "idle"
    /\ records' = <<>>
    /\ index' = 0
    /\ previous' = None
    /\ latest' = None
    /\ UNCHANGED published

Next ==
    \/ SignResolution
    \/ SignPayload
    \/ RewriteRecord
    \/ StartLineage
    \/ CheckRecord
    \/ RejectRecord
    \/ ReturnLineage
    \/ EndCall

Spec == Init /\ [][Next]_vars

-----------------------------------------------------------------------------
(***************************************************************************)
(* Type invariant.  A record's payload holds digests of other payloads, so *)
(* no set contains them all; the rest of the state is typed by it.         *)
(***************************************************************************)
TypeOK ==
    /\ status \in {"idle", "checking", "accepted", "rejected"}
    /\ records \in Seq(published)
    /\ index \in 0 .. Len(records)
    /\ previous = IF index = 0 THEN None ELSE Some(records[index])
    /\ latest = IF index = 0 THEN None ELSE Some(records[index].payload)

(***************************************************************************)
(* verify_resolution_lineage returns only for one history: the first       *)
(* record has no predecessor, every later one names the exact record       *)
(* before it, all of them carry the signer's own signature, and subject    *)
(* and original target never change.                                       *)
(***************************************************************************)
FollowsExactly(record, prior) ==
    /\ record.payload.previous = Some(hash_object(prior))
    /\ record.payload.subject = prior.payload.subject
    /\ record.payload.original_target = prior.payload.original_target

OneHistory(list) ==
    /\ list # <<>>
    /\ \A i \in DOMAIN list : list[i].kind = RESOLUTION_KIND /\ list[i].signed
    /\ list[1].payload.previous = None
    /\ \A i \in 2 .. Len(list) : FollowsExactly(list[i], list[i - 1])

AcceptedIsOneHistory == status = "accepted" => OneHistory(records)

(***************************************************************************)
(* No accepted record claims more than its checks earned: a success state  *)
(* needs at least one required check and a PASS with cited, declared       *)
(* evidence for every one; a failure needs a required FAIL with evidence;  *)
(* and the target is said to survive exactly when it was not changed.      *)
(***************************************************************************)
Backed(check, payload) ==
    /\ check.evidence # <<>>
    /\ Range(check.evidence) \subseteq payload.evidence

Earned(payload) ==
    LET required == {i \in DOMAIN payload.checks : payload.checks[i].required}
        having(outcome) == {i \in required : payload.checks[i].outcome = outcome}
    IN  /\ required # {}
        /\ \A i \in having("PASS") \cup having("FAIL") :
               Backed(payload.checks[i], payload)
        /\ payload.state \in {"SURVIVED", "NARROWED"} <=> required = having("PASS")
        /\ payload.state = "FAILED" <=> having("FAIL") # {}
        /\ payload.state = "SURVIVED" =>
               payload.effective_target = payload.original_target
        /\ payload.state = "NARROWED" =>
               payload.effective_target # payload.original_target

AcceptedStatesAreEarned ==
    status = "accepted" =>
        \A i \in DOMAIN records : Earned(records[i].payload)

(***************************************************************************)
(* The head names the whole history: of all the lists that could be made   *)
(* of the published records, no other one that verifies ends in the same   *)
(* head as the list just accepted.  This is what lets the returned "head"  *)
(* stand for the lineage.                                                  *)
(***************************************************************************)
VerifiesWhole(list) ==
    /\ list # <<>>
    /\ \A i \in DOMAIN list :
           verify_resolution(list[i], IF i = 1 THEN None ELSE Some(list[i - 1]))

HeadOf(list) == hash_object(list[Len(list)])

HeadFixesHistory ==
    status = "accepted" =>
        \A other \in BoundedSeq(published, MaxLength) :
            VerifiesWhole(other) /\ HeadOf(other) = HeadOf(records)
                => other = records

(***************************************************************************)
(* What the library signed, the library verifies: no list is refused that  *)
(* is one history and whose every payload is one build_resolution_payload  *)
(* returns.  Stated of a first record and its correction.                  *)
(***************************************************************************)
SignedByLibrary(payload) ==
    /\ Buildable(payload, payload.previous)
    /\ payload = build_resolution_payload(payload, payload.previous)

Honest(list) ==
    /\ OneHistory(list)
    /\ \A i \in DOMAIN list : SignedByLibrary(list[i].payload)

HonestPairsVerify ==
    status = "rejected" /\ Len(records) <= 2 => ~ Honest(records)

(***************************************************************************)
(* The same, of a lineage of any length: "Every later record contains the  *)
(* SHA-256 of the exact prior signed record ... A verifier checks the      *)
(* chain" (docs/RESOLUTION_PROFILE.md).                                    *)
(***************************************************************************)
HonestLineagesVerify ==
    status = "rejected" => ~ Honest(records)

-----------------------------------------------------------------------------
(***************************************************************************)
(* The loop implements LineageContract: nothing is answered while a list   *)
(* is walked, and the answer is the one a single step would have given,    *)
(* however much is published between the steps and whatever calls came     *)
(* before.                                                                 *)
(***************************************************************************)
Answer ==
    IF status \in {"accepted", "rejected"}
    THEN Some([records |-> records, accepted |-> status = "accepted"])
    ELSE None

Contract == INSTANCE LineageContract
                WITH Passes <- VerifiesWhole, answer <- Answer

LoopKeepsContract == Contract!Spec
=============================================================================
