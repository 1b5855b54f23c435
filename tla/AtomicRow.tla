------------------------------ MODULE AtomicRow ------------------------------
(***************************************************************************)
(* What an optimisticLock store promises of one row, however many tabs     *)
(* call mutate() on it: the row holds one value; a call that returns has   *)
(* applied its transform exactly once to the value that was there at one   *)
(* instant, and nothing but such a call changes the value.                 *)
(***************************************************************************)
CONSTANTS
    Calls, Fn(_, _), InitialValues,
    Parse(_),       \* what the schema makes of a content: only that is written
    Readings(_)     \* what a caller may be given for a row with this content

VARIABLES
    value,      \* the content of the row
    committed   \* the calls whose transform has been applied

vars == << value, committed >>

Init ==
    /\ value \in InitialValues
    /\ committed = {}

Commit(c) ==
    /\ c \notin committed
    /\ \E d \in Readings(value) : value' = Parse(Fn(c, d))
    /\ committed' = committed \cup {c}

Next == \E c \in Calls : Commit(c)

Spec == Init /\ [][Next]_vars
=============================================================================
