--------------------------- MODULE MCOnSourceWrite ---------------------------
(* Two users, one with two keys and one with a single key of their own.    *)
EXTENDS OnSourceWrite

CONSTANTS ann, bob, jan, feb, mar

MCKeysOf == [u \in Users |-> IF u = ann THEN {jan, feb} ELSE {mar}]
=============================================================================
