----------------------------- MODULE FilterState -----------------------------
(***************************************************************************)
(* What a multicast router has to remember about its listeners: the router *)
(* filter state of RFC 3810 7.2 to 7.4, which querier.cpp quotes line by   *)
(* line in the comments of its two receive_record_in_..._mode functions    *)
(* and of its timer handlers.  A group without a record is a group in      *)
(* INCLUDE mode without sources.  Time is abstracted: a source or a filter *)
(* may expire in any step.                                                 *)
(***************************************************************************)
CONSTANTS Groups, Sources

VARIABLE state   \* per group: filter mode, include or requested list, exclude list

Include(A)    == [mode |-> "INCLUDE_MODE", requested |-> A, excluded |-> {}]
Exclude(X, Y) == [mode |-> "EXCLUDE_MODE", requested |-> X, excluded |-> Y]

RecordTypes == {"MODE_IS_INCLUDE", "MODE_IS_EXCLUDE", "CHANGE_TO_INCLUDE_MODE",
                "CHANGE_TO_EXCLUDE_MODE", "ALLOW_NEW_SOURCES",
                "BLOCK_OLD_SOURCES"}

(* The column "New Router State" for a router in INCLUDE mode.             *)
NewIncludeState(A, type, B) ==
    CASE type \in {"ALLOW_NEW_SOURCES", "MODE_IS_INCLUDE",
                   "CHANGE_TO_INCLUDE_MODE"}  -> Include(A \cup B)
      [] type = "BLOCK_OLD_SOURCES"           -> Include(A)
      [] type \in {"CHANGE_TO_EXCLUDE_MODE",
                   "MODE_IS_EXCLUDE"}         -> Exclude(A \cap B, B \ A)

(* The column "New Router State" for a router in EXCLUDE mode.             *)
NewExcludeState(X, Y, type, A) ==
    CASE type \in {"ALLOW_NEW_SOURCES", "MODE_IS_INCLUDE",
                   "CHANGE_TO_INCLUDE_MODE"}  -> Exclude(X \cup A, Y \ A)
      [] type = "BLOCK_OLD_SOURCES"           -> Exclude(X \cup (A \ Y), Y)
      [] type \in {"CHANGE_TO_EXCLUDE_MODE",
                   "MODE_IS_EXCLUDE"}         -> Exclude(A \ Y, Y \cap A)

NewState(st, type, S) ==
    IF st.mode = "INCLUDE_MODE"
    THEN NewIncludeState(st.requested, type, S)
    ELSE NewExcludeState(st.requested, st.excluded, type, S)

Report(g, type, S) == state' = [state EXCEPT ![g] = NewState(@, type, S)]

(* The filter timer of a group runs out.                                   *)
FilterExpires(g) ==
    /\ state[g].mode = "EXCLUDE_MODE"
    /\ state' = [state EXCEPT ![g] = Include(@.requested)]

(* The timer shared by the sources in S runs out.                          *)
SourcesExpire(g, S) ==
    /\ S \subseteq state[g].requested
    /\ state' = [state EXCEPT ![g] =
                   IF @.mode = "INCLUDE_MODE"
                   THEN Include(@.requested \ S)
                   ELSE Exclude(@.requested \ S, @.excluded \cup S)]

Init == state = [g \in Groups |-> Include({})]

Next ==
    \E g \in Groups :
        \/ \E type \in RecordTypes, S \in SUBSET Sources : Report(g, type, S)
        \/ FilterExpires(g)
        \/ \E S \in SUBSET Sources : SourcesExpire(g, S)

Spec == Init /\ [][Next]_state
=============================================================================
