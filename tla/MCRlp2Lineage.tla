--------------------------- MODULE MCRlp2Lineage ---------------------------
(***************************************************************************)
(* Small instances of Rlp2Lineage.                                         *)
(***************************************************************************)
EXTENDS Rlp2Lineage

(***************************************************************************)
(* The parts records are made of.                                          *)
(***************************************************************************)
Policy(mode, principals, threshold, external) ==
    [mode |-> mode, principals |-> principals, threshold |-> threshold,
     external_evidence |-> external]

Exact(did) == Policy("EXACT", <<did>>, None, <<>>)
TwoOf(dids) == Policy("THRESHOLD", dids, Some(2), <<>>)
External(dids, ids) == Policy("EXTERNAL", dids, None, ids)

Check(required, outcome, refs) ==
    [id |-> "c1", required |-> required, outcome |-> outcome, evidence |-> refs]
Pass == <<Check(TRUE, "PASS", <<"e1">>)>>
Fail == <<Check(TRUE, "FAIL", <<"e1">>)>>
Open == <<Check(TRUE, "UNRESOLVED", <<>>)>>

Tags(items) == [adapter |-> "string-set/v1",
                value |-> [list |-> TRUE, items |-> items]]
Wide == Tags(<<"a", "b">>)
Narrow == Tags(<<"a">>)

Spec1 == [method |-> "m1", method_digest |-> hash_object("v1"), claims |-> "k1"]
Specs == [e \in {"e1"} |-> Spec1]

Draft(policy, checks, effective_target, effective_scope, reason) ==
    [subject |-> "s1", original_target |-> "t1",
     effective_target |-> effective_target, original_scope |-> Wide,
     effective_scope |-> effective_scope, evidence |-> {"e1"},
     verification_specs |-> Specs, authority_policy |-> policy,
     checks |-> checks, revision_reason |-> reason]

Rlp1Draft(checks, reason) ==
    [subject |-> "s1", original_target |-> "t1", effective_target |-> "t1",
     evidence |-> {"e1"}, checks |-> checks, revision_reason |-> reason]

WithAdapter(source) == [m \in {"m1"} |-> Some(source)]
NoAdapter == [m \in {"m1"} |-> None]

Rule(allowed, contained) ==
    [action |-> "execute", allowed_resolution_states |-> allowed,
     require_scope_containment |-> contained]
Gate(action, requested, rules) ==
    [action_id |-> action, requested_scope |-> requested,
     policy |-> [rules |-> rules], scope_adapters |-> NoAdapters]

(***************************************************************************)
(* Authority: who approved what.  A threshold policy, one of a single      *)
(* principal, changes from each to the other, keys that suffice or not,    *)
(* and records put together from the parts of others.                      *)
(***************************************************************************)
AuthorityDrafts ==
    {Draft(policy, Open, "t1", Wide, reason) :
         policy \in {Exact("d1"), TwoOf(<<"d1", "d2">>)},
         reason \in {None, Some("why")}}
AuthorityKeys == {<<"d1">>, <<"d2", "d1">>}
AuthorityTransitionKeys == {<<"d1">>, <<"d2", "d1">>}
Present == {WithAdapter("v1")}
NoRecompute == {None}
NoGates == {}

(***************************************************************************)
(* Bootstrap: RLP-1 records first, corrections of them, and RLP-2          *)
(* successors under a policy of their own signer or an external one whose  *)
(* evidence may or may not be verified yet; also records of another        *)
(* subject or target, and a key listed twice.                              *)
(***************************************************************************)
BootstrapRlp1Drafts == {Rlp1Draft(Open, None), Rlp1Draft(Open, Some("why"))}
First(policy) == Draft(policy, Open, "t1", Wide, None)
Correction(policy) == Draft(policy, Open, "t1", Wide, Some("why"))
BootstrapDrafts ==
    {First(Exact("d1")), Correction(Exact("d1")),
     Correction(External(<<"d1">>, <<"e1">>)),
     [Correction(Exact("d1")) EXCEPT !.subject = "s2"],
     [Correction(Exact("d1")) EXCEPT !.original_target = "t2"]}
BootstrapKeys == {<<"d1">>, <<"d1", "d1">>}

SoleKey == {<<"d1">>}
NoKey == {<<>>}

(***************************************************************************)
(* Gate: every kernel state, scopes that narrow, reorder or exceed, rules  *)
(* that allow more or less, and a caller who compares scopes another way.  *)
(***************************************************************************)
FailedAndOpen ==
    <<Check(TRUE, "FAIL", <<"e1">>),
      [Check(TRUE, "UNRESOLVED", <<>>) EXCEPT !.id = "c2"]>>
Optional1 ==
    <<Check(TRUE, "PASS", <<"e1">>),
      [Check(FALSE, "FAIL", <<"e1">>) EXCEPT !.id = "c2"]>>

GateDrafts ==
    {Draft(policy, checks, target, scope, None) :
         policy \in {Exact("d1"), TwoOf(<<"d1", "d2">>)},
         checks \in {Pass, Fail, Open, FailedAndOpen, Optional1},
         target \in {"t1", "t2"},
         scope \in {Wide, Narrow, Tags(<<"b", "a">>), Tags(<<"a", "z">>)}}
GateKeys == {<<"d1">>, <<"d2">>}

Success == {"SURVIVED", "NARROWED"}
TagLists == {scope.value : scope \in {Wide, Narrow, Tags(<<"b", "a">>), Tags(<<"a", "z">>)}}
SameTags ==
    [name \in {"string-set/v1"} |->
        [pair \in TagLists \X TagLists |->
            IF pair[1] = pair[2] THEN "TRUE" ELSE "FALSE"]]
OwnComparison ==
    [Gate("execute", Narrow, <<Rule(Success, TRUE)>>) EXCEPT !.scope_adapters = SameTags]

AllGates ==
    {OwnComparison} \cup
    {Gate("execute", requested, rules) :
         requested \in {Wide, Narrow, Tags(<<"z">>),
                        [adapter |-> "exact/v1", value |-> Narrow.value]},
         rules \in {<<Rule(Success, TRUE)>>, <<Rule({"FAILED"}, FALSE)>>,
                    <<Rule(Success, FALSE)>>, <<>>,
                    <<Rule(Success, TRUE), Rule(Success, FALSE)>>}}

(***************************************************************************)
(* Evidence: the native answer changes, or the native system fails, while  *)
(* verifiers have the adapter, another version of it, or none.             *)
(***************************************************************************)
EvidenceDrafts ==
    {Draft(Exact("d1"), checks, "t1", Wide, reason) :
         checks \in {Pass, Open}, reason \in {None, Some("why")}}
EvidenceVerifiers ==
    {Some(WithAdapter("v1")), Some(WithAdapter("v2")), Some(NoAdapter)}
=============================================================================
