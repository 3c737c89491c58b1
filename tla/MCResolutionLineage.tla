------------------------ MODULE MCResolutionLineage ------------------------
(***************************************************************************)
(* Small instances of ResolutionLineage.                                   *)
(***************************************************************************)
EXTENDS ResolutionLineage

Check(id, required, outcome, evidence) ==
    [id |-> id, required |-> required, outcome |-> outcome,
     evidence |-> evidence]

Draft(subject, original, effective, checks, reason) ==
    [subject |-> subject, original_target |-> original,
     effective_target |-> effective, evidence |-> {"e1"},
     checks |-> checks, revision_reason |-> reason]

Pass == <<Check("c1", TRUE, "PASS", <<"e1">>)>>
Open == <<Check("c1", TRUE, "UNRESOLVED", <<>>)>>

(***************************************************************************)
(* Identity and order: two subjects, two targets, first records and        *)
(* corrections.                                                            *)
(***************************************************************************)
HistoryDrafts ==
    {Draft("s1", "t1", "t1", Open, None), Draft("s1", "t1", "t2", Pass, None),
     Draft("s1", "t1", "t1", Open, Some("why")),
     Draft("s1", "t1", "t2", Pass, Some("why")), Draft("s2", "t1", "t1", Open, Some("why")),
     Draft("s1", "t2", "t2", Open, Some("why"))}

(***************************************************************************)
(* Check lists: every pair of outcomes, a check that is not required, and  *)
(* lists no record may have (no check, none required, a repeated id,       *)
(* evidence missing, unknown or repeated).                                 *)
(***************************************************************************)
Cited(outcome) == IF outcome = "UNRESOLVED" THEN <<>> ELSE <<"e1">>

PairLists ==
    {<<Check("c1", TRUE, first, Cited(first)),
       Check("c2", required, second, Cited(second))>> :
         first \in CHECK_OUTCOMES, second \in CHECK_OUTCOMES,
         required \in BOOLEAN}

OddLists ==
    {<<>>, <<Check("c1", FALSE, "PASS", <<"e1">>)>>,
     <<Check("c1", TRUE, "PASS", <<"e1">>), Check("c1", TRUE, "FAIL", <<"e1">>)>>,
     <<Check("c1", TRUE, "PASS", <<>>)>>, <<Check("c1", TRUE, "FAIL", <<"e9">>)>>,
     <<Check("c1", TRUE, "PASS", <<"e1", "e1">>)>>}

CheckDrafts ==
    {Draft("s1", "t1", effective, checks, None) :
         effective \in {"t1", "t2"}, checks \in PairLists \cup OddLists}
=============================================================================
