-------------------------- MODULE LineageContract --------------------------
(***************************************************************************)
(* What verify_resolution_lineage promises its callers, without the loop:  *)
(* a call is one step, its answer depends on the list it was given and on  *)
(* nothing else: no earlier call, nothing published while it runs.         *)
(***************************************************************************)
EXTENDS Sequences

CONSTANT Passes(_)      \* whether a list passes

VARIABLES published,    \* every record that exists
          answer        \* none, or the one [records, accepted] given

vars == <<published, answer>>

Init == published = {} /\ answer = {}

Publish ==
    /\ published \subseteq published'
    /\ UNCHANGED answer

Verify ==
    /\ answer = {}
    /\ answer' # {}
    /\ \A a, b \in answer' : a = b
    /\ \A a \in answer' : /\ a.records \in Seq(published)
                          /\ a.accepted = Passes(a.records)
    /\ UNCHANGED published

Forget ==
    /\ answer' = {}
    /\ UNCHANGED published

Next == Publish \/ Verify \/ Forget

Spec == Init /\ [][Next]_vars
=============================================================================
