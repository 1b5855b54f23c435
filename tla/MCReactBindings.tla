--------------------------- MODULE MCReactBindings ---------------------------
(* Two hooks on one key, one hook on the range of two keys, one collection. *)
EXTENDS ReactBindings

CONSTANTS u1, u2, k1, k2, one, other, all

MCTargetOf == [h \in {one, other, all} |-> IF h = all THEN RangeTarget ELSE k1]

Call(c, ks) == [call |-> c, keys |-> ks]
S == Call("save", {k1})
W == Call("set", {k1})
M == Call("mutate", {k1})
B == Call("createMany", {k1, k2})
R == Call("reload", {k1})
RR == Call("rangeReload", {})
Edit(c, x) == [call |-> c, id |-> x]

Left(f, d, l) == [faults |-> f, foreign |-> d, leaves |-> l]
Keyed(kind, users, mounted, stored, ops, budget) ==
    [kind |-> kind, adapter |-> "pg", unhashed |-> FALSE,
     users |-> users, mounted |-> mounted, stored |-> stored, ops |-> ops,
     left |-> budget, shows |-> FALSE, listed |-> {}, calls |-> << >>]
Listing(kind, users, calls, budget) ==
    [kind |-> kind, adapter |-> "pg", unhashed |-> FALSE, users |-> users,
     mounted |-> {}, stored |-> {}, ops |-> << >>, left |-> budget,
     shows |-> TRUE, listed |-> {1}, calls |-> calls]

OverSupabase(p) == [p EXCEPT !.adapter = "supabase"]
NeverHashed(p) == [p EXCEPT !.unhashed = TRUE]

MCPlans == {
    \* one key: two hooks, their saves and reloads, the calls past them
    Keyed("plain", << u1, u1 >>, {one}, {k1}, << S, R >>, Left(1, 0, 0)),
    Keyed("plain", << u1 >>, {one, other}, {k1}, << S, R >>, Left(0, 0, 1)),
    Keyed("plain", << u1 >>, {one}, {k1}, << S, W, R >>, Left(1, 0, 0)),
    Keyed("hashed", << u1, u2 >>, {one}, {k1}, << S, R >>, Left(0, 0, 0)),
    Keyed("hashed", << u1 >>, {one}, {k1}, << W, M, R >>, Left(0, 0, 0)),
    Keyed("locked", << u1 >>, {one}, {k1}, << S, M >>, Left(1, 0, 0)),
    Keyed("locked", << u1 >>, {one}, {}, << S, R >>, Left(1, 1, 0)),
    \* the range
    Keyed("plain", << u1, u1 >>, {all}, {k1}, << W, RR >>, Left(0, 1, 1)),
    Keyed("plain", << u1 >>, {all}, {}, << B, RR >>, Left(1, 1, 0)),
    Keyed("plain", << u1, u2 >>, {all}, {k1}, << M, RR >>, Left(0, 0, 0)),
    Keyed("plain", << u1 >>, {one, all}, {k1}, << S, W >>, Left(0, 0, 0)),
    Keyed("plain", << u1, u1 >>, {all}, {k1}, << W, W >>, Left(0, 0, 0)),
    \* the collection
    Listing("plain", << u1, u1 >>, << Edit("create", 2), Edit("update", 2) >>, Left(1, 0, 1)),
    Listing("locked", << u1, u2 >>, << Edit("update", 1) >>, Left(1, 0, 0)),
    Listing("locked", << u1 >>, << Edit("create", 2), Edit("update", 1), Edit("remove", 2) >>,
            Left(1, 0, 0)),
    Listing("locked", << u1 >>, << Edit("update", 1), Edit("remove", 1) >>, Left(1, 1, 0)),
    \* conditional writes in two trips, and rows without a hash
    OverSupabase(Keyed("locked", << u1 >>, {one}, {}, << S, R >>, Left(1, 1, 0))),
    OverSupabase(NeverHashed(Keyed("locked", << u1 >>, {one}, {k1}, << S, M >>, Left(0, 1, 0)))),
    NeverHashed(Keyed("locked", << u1 >>, {one}, {k1}, << S, M >>, Left(0, 0, 0))),
    NeverHashed(Keyed("locked", << u1 >>, {one}, {k1}, << S, S >>, Left(1, 0, 0))),
    OverSupabase(NeverHashed(
        Listing("locked", << u1 >>, << Edit("update", 1), Edit("update", 2) >>, Left(1, 1, 0)))),
    OverSupabase(Listing("locked", << u1 >>,
        << Edit("create", 2), Edit("update", 2), Edit("remove", 2) >>, Left(0, 0, 0)))}
===============================================================================
