--------------------------- MODULE MCStoreRotation ---------------------------
(* Two rows and two sessions; a content is the set of sessions that wrote. *)
EXTENDS StoreRotation, TLC

CONSTANTS s1, s2, x, y, dek1, dek2

MCData == SUBSET Sessions
MCChange(s, d) == d \cup {s}

(* The sessions differ in nothing but what they mark a row with. *)
Tabs == Permutations(Sessions)

MCRow(aad, ver, hashed) ==
    [dek |-> OldKey, aad |-> aad, epoch |-> NoEpoch, ver |-> ver, data |-> {},
     hash |-> IF hashed THEN ContentHashOf(OldKey, ver, {}) ELSE NoHash]

(* The order of the keys. *)
MCRank == (x :> 1) @@ (y :> 2)

(* A current row and one of an older kind; or a legacy row alone. *)
MCInitialRows ==
    {[k \in RowIds |-> IF k = x THEN MCRow("canonical", CodeVersion, TRUE) ELSE r] :
        r \in {NoRow, MCRow("canonical", 1, FALSE), MCRow("legacy", CodeVersion, TRUE)}}
=============================================================================
