----------------------------- MODULE MCRowStore -----------------------------
(***************************************************************************)
(* Small instances of RowStore: three calls in two tabs, contents that are *)
(* sets of calls, so that a transform that adds its caller to the content  *)
(* leaves a trace that a lost update erases; and every transform adds      *)
(* `extra`, which the schema strips.                                       *)
(***************************************************************************)
EXTENDS RowStore, TLC

CONSTANTS c1, c2, c3, t1, t2, dek, dek2, extra, Clearers

MCData == SUBSET (Calls \cup {extra})
MCParse(d) == d \ {extra}
MCTabOf == [c \in Calls |-> IF c = c3 THEN t2 ELSE t1]

(* A clearer empties the content: the value can return to an earlier one. *)
MCFn(c, d) == IF c \in Clearers THEN {extra} ELSE d \cup {c, extra}

AllMutate == [c \in Calls |-> "mutate"]
Mixed == [c \in Calls |-> IF c = c2 THEN "set" ELSE "mutate"]
AllGet == [c \in Calls |-> "get"]

(* The default single attempt for one call, a retry for the others. *)
MCAttempts == [c \in Calls |-> IF c = c1 THEN 1 ELSE 2]
OneAttempt == [c \in Calls |-> 1]

RowOf(aad, ver, data, hashed) ==
    [dek |-> dek, aad |-> aad, epoch |-> NoEpoch, ver |-> ver, data |-> data,
     hash |-> IF hashed THEN ContentHashOf(dek, ver, data) ELSE NoHash]

(* Missing, written by the current code, or before the schema dropped      *)
(* `extra`, written before contentHash was switched on, or with a blob     *)
(* column that holds no blob.                                              *)
CurrentRows == {NoRow, RowOf("canonical", CodeVersion, {}, TRUE),
                RowOf("canonical", CodeVersion, {extra}, TRUE),
                RowOf("canonical", CodeVersion, {}, FALSE),
                RowOf("blank", CodeVersion, {}, FALSE)}

(* Also one that c1 would leave as it is. *)
PlainRows == {NoRow, RowOf("canonical", CodeVersion, {c1}, TRUE),
              RowOf("canonical", CodeVersion, {}, FALSE)}

(* Written by version 1 of the schema; the code runs its migrator. *)
OldRow == {RowOf("canonical", 1, {}, TRUE)}
NewRow == {RowOf("canonical", CodeVersion, {}, TRUE)}

(* Everything a read converts: an old schema, with a member it had, a      *)
(* legacy AAD, or both; in a run whose sessions hold dek2, the old key.    *)
ConvertedRows == {RowOf("canonical", 1, {c1, extra}, TRUE), RowOf("legacy", CodeVersion, {c1}, TRUE),
                  RowOf("legacy", 1, {c1}, FALSE)}

(* No acknowledged addition is missing from the content. *)
NoLostUpdate == \A c \in Committed : c \in DataOf(row)

=============================================================================
