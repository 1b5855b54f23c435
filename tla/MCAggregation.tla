---------------------------- MODULE MCAggregation ----------------------------
(* A row, an aggregation of it with an external, and an aggregation of both: *)
(* the diamond of the tests.                                                 *)
EXTENDS Aggregation

CONSTANTS u1, u2, s, mid, top

MCStoresOf == [a \in {mid, top} |-> {s}]
MCUpstream == [a \in {mid, top} |-> IF a = top THEN mid ELSE NoAgg]
\* mid rounds: two versions of the row may give the same data.
MCCompute(a, values, ext) ==
    IF a = mid THEN << (values[s] + 1) \div 2, ext >> ELSE << values[s], values[mid] >>

Budgets(w, r, c, f, t) ==
    [writes |-> w, refreshes |-> r, changes |-> c, failures |-> f, ticks |-> t]
Plan(from, mounted, sessions, budget) ==
    [stored |-> from, mounted |-> mounted, sessions |-> sessions, budget |-> budget]
MCPlans == {
    \* cold and old envelopes, one call of get() or one per aggregation
    Plan("none", {mid, top}, << u1 >>, Budgets(0, 0, 0, 1, 0)),
    Plan("none", {top}, << u1 >>, Budgets(0, 1, 0, 0, 0)),
    Plan("old", {top}, << u1 >>, Budgets(0, 0, 0, 0, 0)),
    Plan("now", {top}, << u1 >>, Budgets(1, 0, 0, 0, 0)),
    \* content that changes and may return
    Plan("now", {mid}, << u1 >>, Budgets(2, 1, 0, 0, 0)),
    \* a lock, and another user
    Plan("none", {top}, << u1, u2 >>, Budgets(0, 0, 0, 0, 0)),
    Plan("now", {mid}, << u1, u2 >>, Budgets(1, 0, 0, 0, 0)),
    Plan("old", {mid}, << u1, u1 >>, Budgets(1, 0, 0, 0, 0)),
    \* the external: refresh, invalidation, TTL; failures until retries run out
    Plan("now", {mid}, << u1 >>, Budgets(1, 0, 1, 0, 1)),
    Plan("now", {top}, << u1 >>, Budgets(0, 1, 1, 0, 0)),
    Plan("none", {mid}, << u1 >>, Budgets(0, 1, 0, 4, 0))}
===============================================================================
