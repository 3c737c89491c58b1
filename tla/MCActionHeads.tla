--------------------------- MODULE MCActionHeads ---------------------------
(***************************************************************************)
(* Small instances of ActionHeads, from the parts of MCRlp2Lineage.        *)
(***************************************************************************)
EXTENDS ActionHeads, MCRlp2Lineage

(***************************************************************************)
(* Heads: three records.  Resolutions and their corrections, rivals that   *)
(* say the same or not, resolutions of two targets, one of a quorum that   *)
(* is not met; a correction of an RLP-1 record under an external policy;   *)
(* verifiers that recompute and that do not.                               *)
(***************************************************************************)
HeadsRlp1Drafts == {Rlp1Draft(Open, None)}
HeadsDrafts ==
    {Draft(Exact("d1"), Pass, "t1", Wide, None),
     Draft(Exact("d1"), Pass, "t1", Wide, Some("why")),
     Draft(External(<<"d1">>, <<"e1">>), Pass, "t1", Wide, Some("why")),
     Draft(Exact("d1"), Open, "t1", Wide, Some("why")),
     Draft(TwoOf(<<"d1", "d2">>), Pass, "t1", Wide, None),
     [Draft(Exact("d1"), Pass, "t2", Wide, None) EXCEPT !.original_target = "t2"]}
HeadsVerifiers == {None, Some(WithAdapter("v1"))}
HeadsGates == {Gate("execute", Narrow, <<Rule(Success, TRUE)>>)}
=============================================================================
