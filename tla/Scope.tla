-------------------------------- MODULE Scope --------------------------------
(***************************************************************************)
(* Machine-readable scopes and their containment (scope.py).               *)
(*                                                                         *)
(* A scope has adapter and value.  A value is [list, items]: list is       *)
(* whether the JSON value is a list of strings, items its strings in       *)
(* order.  adapters, the caller's own registry, maps adapter names to      *)
(* functions from pairs of values to TRUE, FALSE or UNRESOLVED.            *)
(***************************************************************************)
EXTENDS Sequences, Functions

exact_scope_adapter(container, requested) ==
    IF container = requested THEN "TRUE" ELSE "FALSE"

(***************************************************************************)
(* string_set_scope_adapter: None, hence UNRESOLVED, off lists of strings. *)
(***************************************************************************)
string_set_scope_adapter(container, requested) ==
    IF ~ (container.list /\ requested.list) THEN "UNRESOLVED"
    ELSE IF Range(requested.items) \subseteq Range(container.items) THEN "TRUE"
    ELSE "FALSE"

(***************************************************************************)
(* scope_contains.  The caller's registry may replace a built-in adapter.  *)
(***************************************************************************)
scope_contains(effective, requested, adapters) ==
    LET name == effective.adapter
    IN  IF name # requested.adapter THEN "UNRESOLVED"
        ELSE IF name \in DOMAIN adapters
             THEN adapters[name][<<effective.value, requested.value>>]
        ELSE IF name = "exact/v1"
             THEN exact_scope_adapter(effective.value, requested.value)
        ELSE IF name = "string-set/v1"
             THEN string_set_scope_adapter(effective.value, requested.value)
        ELSE "UNRESOLVED"

NoAdapters == [name \in {} |-> <<>>]

(***************************************************************************)
(* validate_scope_transition, as _build_body calls it: with no registry    *)
(* but the built-in one.                                                   *)
(***************************************************************************)
validate_scope_transition(original, effective, state) ==
    \/ original = effective
    \/ /\ scope_contains(original, effective, NoAdapters) = "TRUE"
       /\ state # "SURVIVED"
=============================================================================
