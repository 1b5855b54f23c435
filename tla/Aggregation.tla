----------------------------- MODULE Aggregation -----------------------------
(***************************************************************************)
(* aggregation.ts: values derived from the rows of stores and from other   *)
(* aggregations, kept in an envelope with the fingerprints of what they    *)
(* were computed from and recomputed in the background; the effect of      *)
(* react/useAggregation.ts that asks for them.                             *)
(*                                                                         *)
(* What runs between two awaits is one action.  The synchronous functions  *)
(* of the source are operators that take the state they share, a record w, *)
(* and return it changed; `told' collects the aggregations that called     *)
(* notifyReactState and Commit publishes them.  Data are terms: a row is   *)
(* its content and so is its contentHash, the fingerprint of an            *)
(* aggregation is its data.  Time is a tick: what an external returned  *)
(* in the current one is inside its TTL.  A timer may fire at any moment.  *)
(***************************************************************************)
EXTENDS Naturals, Sequences, FiniteSets

CONSTANTS
    Users, Stores, Aggs,
    Contents,       \* what a row may hold: the same content has the same contentHash
    StoresOf,       \* [Aggs -> SUBSET Stores]: the sources that are rows
    Upstream,       \* [Aggs -> Aggs \cup {NoAgg}]: the source that is not
    HasExternal,    \* the aggregations with an external and its channel
    Compute(_, _, _),
    Plans,          \* what the app and the world may do in a behaviour
    MaxSessions,    \* as many unlocks as a plan has at most
    NoAgg, NoUser, NoEnvelope, Undefined, Null, Nothing

MaxRetries == 3

SourcesOf(a) == StoresOf[a] \cup ({Upstream[a]} \ {NoAgg})
Budget == [writes : Nat, refreshes : Nat, changes : Nat, failures : Nat, ticks : Nat]

\* An aggregation has at most one aggregation among its sources, and that one
\* has none: the calls of get() then have the names below.
ASSUME AggregationAssumption ==
    /\ StoresOf \in [Aggs -> SUBSET Stores]
    /\ Upstream \in [Aggs -> Aggs \cup {NoAgg}]
    /\ \A a \in Aggs : Upstream[a] # NoAgg => Upstream[Upstream[a]] = NoAgg
    /\ HasExternal \subseteq Aggs
    /\ NoAgg \notin Aggs /\ NoUser \notin Users
    /\ IsFiniteSet(Aggs) /\ Stores \cap Aggs = {}
    /\ MaxSessions \in Nat
    /\ \A p \in Plans : /\ p.sessions \in Seq(Users) /\ Len(p.sessions) \in 1 .. MaxSessions
                        /\ p.mounted \subseteq Aggs
                        /\ p.budget \in Budget

VARIABLES
    plan,           \* the plan of this behaviour
    session,        \* the number of the latest unlock
    unlocked,       \* keys.getCryptoHandle() is set
    rows,           \* [Users -> [Stores -> Contents]], on the server
    stored,         \* [Users -> [Aggs -> envelope]], on the server
    slot,           \* the cache's hash of a source, per user
    react,          \* the cache's state for the React binding, per user
    writing,        \* a set() between the server and the cache
    agg,            \* [Aggs -> the closure variables of defineAggregation]
    get,            \* [Gets -> a call of get()]
    activity,       \* globalInFlightCount, globalPendingDebounceCount
    world,          \* the value the external would return, and the tick
    left            \* what is left of the budget

vars == << plan, session, unlocked, rows, stored, slot, react, writing, agg, get,
           activity, world, left >>

User(n) == plan.sessions[n]
CurrentUser == User(session)

\* The identity check after an await: the handle is not compared.
StillMatches_Locked(n) == CurrentUser = User(n)     \* the handle is not looked at
StillMatches(n) == unlocked /\ CurrentUser = User(n)

-----------------------------------------------------------------------------
(* Calls of get(): one per effect of a mounted hook, one by the compute of  *)
(* a downstream aggregation, one by the verification of a hook's call.      *)

Downstreams == {a \in Aggs : Upstream[a] # NoAgg}
SessionNumbers == 1 .. MaxSessions
Gets == ({"hook"} \X Aggs \X SessionNumbers)
        \cup ({"run"} \X Downstreams \X {0})
        \cup ({"verify"} \X Downstreams \X SessionNumbers)
AggOf(g) == IF g[1] = "hook" THEN g[2] ELSE Upstream[g[2]]
HookGet(a, n) == << "hook", a, n >>
RunGet(a) == << "run", a, 0 >>
VerifyGet(g) == << "verify", g[2], g[3] >>

Fetched == [value : Nat, at : Nat]

IdleRun == [phase |-> "idle", session |-> 0, got |-> << >>, awaits |-> FALSE,
            ext |-> Nothing, error |-> "none"]
NewAgg == [run |-> IdleRun, rerun |-> FALSE, armed |-> FALSE, retries |-> 0,
           failures |-> 0, error |-> "none", sub |-> NoUser,
           seen |-> << >>, ext |-> Nothing, last |-> NoEnvelope,
           excused |-> FALSE]
IdleGet == [phase |-> "idle", session |-> 0, env |-> Nothing, todo |-> {}]

\* excused is history: since its latest run began the aggregation was left behind
\* its sources, in one of the ways this code has.  A verified hash arrived late,
\* replacing what was observed since or in a later session; get() or the debounce
\* found nothing to do though what is stored was not fresh, or relied on a run in
\* flight that may have read older sources or another user's; a run failed and no
\* other was to follow; the run joined a read of the source answered before the
\* source was replaced, or awaited a run of it that another session began; the
\* source was taken for cold by a read answered before its envelope was stored; a
\* run, its own or the source's, ended in another session than it began in.

\* The envelope an earlier session left: its sources had version v.
Left(a, v) ==
    LET rowsOf(x) == [s \in StoresOf[x] |-> v]
        ext(x) == IF x \in HasExternal THEN 0 ELSE Nothing
        up == Upstream[a]
        fps == IF up = NoAgg THEN rowsOf(a)
               ELSE [s \in SourcesOf(a) |-> IF s = up THEN Compute(up, rowsOf(up), ext(up))
                                                       ELSE v]
    IN [fps |-> fps, at |-> IF a \in HasExternal THEN 0 ELSE Nothing,
        data |-> Compute(a, fps, ext(a))]

Init ==
    /\ plan \in Plans
    /\ session = 1 /\ unlocked = TRUE
    /\ rows = [u \in Users |-> [s \in Stores |-> 1]]
    /\ stored = [u \in Users |-> [a \in Aggs |->
                    IF plan.stored = "none" THEN NoEnvelope
                    ELSE Left(a, IF plan.stored = "old" THEN 0 ELSE 1)]]
    /\ slot = [u \in Users |-> [s \in Stores \cup Aggs |-> Undefined]]
    /\ react = [u \in Users |-> [a \in Aggs |-> Nothing]]
    /\ writing = Nothing
    /\ agg = [a \in Aggs |-> NewAgg]
    /\ get = [g \in Gets |-> IdleGet]
    /\ activity = [inFlight |-> 0, pending |-> 0]
    /\ world = [value |-> 0, tick |-> 0]
    /\ left = plan.budget

-----------------------------------------------------------------------------
(* The synchronous functions. *)

W == [agg |-> agg, get |-> get, activity |-> activity, slot |-> slot, told |-> {}]

\* isFresh(lastEnvelope): a source that was never observed counts as unchanged.
IsFresh(a, r, env) ==
    /\ env # NoEnvelope
    /\ \A s \in DOMAIN r.seen : r.seen[s] \in {Undefined, env.fps[s]}
    /\ a \in HasExternal => env.at = world.tick

\* computeCurrentState(): what notifyReactState publishes.
StateOf(a, r) ==
    [data |-> IF r.last = NoEnvelope THEN Null ELSE r.last.data,
     computing |-> r.run.phase # "idle", stale |-> ~IsFresh(a, r, r.last),
     error |-> r.error]

Commit(w) ==
    /\ agg' = w.agg
    /\ get' = w.get
    /\ activity' = w.activity
    /\ slot' = w.slot
    /\ react' = IF ~unlocked THEN react
                ELSE [react EXCEPT ![CurrentUser] = [a \in Aggs |->
                        IF a \in w.told THEN StateOf(a, w.agg[a]) ELSE @[a]]]

\* notifyReactState().
IdleOf(w, A) == {a \in A : w.agg[a].run.phase = "idle"}
Tell_AtRest(w, A) == [w EXCEPT !.told = @ \cup IdleOf(w, A)]   \* not while a run is in flight
Tell(w, A) == [w EXCEPT !.told = @ \cup A]

\* refresh() cancels an armed timer.
Cancel_KeepsCount(w, a) == [w EXCEPT !.agg[a].armed = FALSE]
Cancel(w, a) ==
    [w EXCEPT !.agg[a].armed = FALSE,
              !.activity.pending = @ - (IF w.agg[a].armed THEN 1 ELSE 0)]

\* cache.set of a source's slot: every subscribed aggregation reads the hash,
\* arms its debounce and tells React.
CacheSet(w, u, s, hash) ==
    LET observers == {a \in Aggs : s \in SourcesOf(a) /\ w.agg[a].sub = u} IN
    Tell([w EXCEPT
            !.slot[u][s] = hash,
            !.agg = [a \in Aggs |-> IF a \in observers
                                    THEN [w.agg[a] EXCEPT !.seen[s] = hash, !.armed = TRUE]
                                    ELSE w.agg[a]],
            !.activity.pending = @ + Cardinality({a \in observers : ~w.agg[a].armed})],
         observers)

EnsureSubscribed(w, A) ==
    [w EXCEPT !.agg = [a \in Aggs |->
        IF a \in A /\ w.agg[a].sub # CurrentUser
        THEN [w.agg[a] EXCEPT !.sub = CurrentUser,
                              !.seen = [s \in SourcesOf(a) |-> w.slot[CurrentUser][s]]]
        ELSE w.agg[a]]]

\* History, see excused.
Excuse(w, A) ==
    [w EXCEPT !.agg = [a \in Aggs |-> IF a \in A THEN [w.agg[a] EXCEPT !.excused = TRUE]
                                                 ELSE w.agg[a]]]
LeftToRun(w, a) ==
    IF w.agg[a].run.phase # "idle" \/ ~IsFresh(a, w.agg[a], stored[CurrentUser][a])
    THEN Excuse(w, {a}) ELSE w
JoinsOldRead(w, a) ==
    \E h \in Gets : /\ AggOf(h) = Upstream[a]
                    /\ w.get[h].phase = "load" /\ w.get[h].session = session
                    /\ w.get[h].env \notin {Nothing, stored[CurrentUser][Upstream[a]]}

\* loadEnvelopeDeduped: a call of the same session that still waits is joined.
StartGet(w, G) ==
    LET shared(g) == {h \in Gets : /\ AggOf(h) = AggOf(g)
                                   /\ w.get[h].phase = "load" /\ w.get[h].session = session}
        env(g) == IF shared(g) = {} THEN Nothing ELSE w.get[CHOOSE h \in shared(g) : TRUE].env
        called(g) == [phase |-> "load", session |-> session, env |-> env(g), todo |-> {}]
    IN [EnsureSubscribed(w, {AggOf(g) : g \in G}) EXCEPT
          !.get = [g \in Gets |-> IF g \in G THEN called(g) ELSE w.get[g]]]

\* The part of computeAndPersist before its first await: what it sets, and its
\* call of the upstream's get().
Begin(w, A) ==
    LET run(a) == [IdleRun EXCEPT
                     !.phase = IF unlocked THEN "reading" ELSE "failed",
                     !.session = session,
                     !.got = [s \in SourcesOf(a) |-> Nothing],
                     !.error = IF unlocked THEN "none" ELSE "other"]
        again(a) == unlocked /\ w.agg[a].sub = CurrentUser
    IN Tell([w EXCEPT
               !.agg = [a \in Aggs |-> IF a \in A
                          THEN [w.agg[a] EXCEPT !.run = run(a),
                                  !.excused = (@ /\ ~again(a)) \/ JoinsOldRead(w, a)]
                          ELSE w.agg[a]],
               !.activity.inFlight = @ + Cardinality(A)], A)
StartRun(w, A) ==
    IF unlocked THEN StartGet(Begin(w, A), {RunGet(a) : a \in A \cap Downstreams})
    ELSE Begin(w, A)

\* triggerRecompute(), of one aggregation or of each subscriber of a channel.
Trigger_Forgets(w, A) ==    \* rerunRequested is not set
    StartRun(w, IdleOf(w, A))
Trigger(w, A) ==
    LET busy == A \ IdleOf(w, A) IN
    StartRun([w EXCEPT !.agg = [a \in Aggs |-> IF a \in busy
                                  THEN [w.agg[a] EXCEPT !.rerun = TRUE] ELSE w.agg[a]]],
             IdleOf(w, A))

\* consecutiveBackgroundFailures, before a retry counts one more.
FailuresAfter_Forgets(r, error) == 0    \* reset on failure as well
FailuresAfter(r, error) == IF error = "none" THEN 0 ELSE r.failures

\* A run whose upstream is cold or has failed.
Fail(r, error) ==
    [r EXCEPT !.run.phase = "failed", !.run.error = error, !.run.awaits = FALSE]

\* inFlight settles: .then or .catch, and .finally.  The result goes to the
\* compute of a downstream aggregation that awaits this one.
End(w, a, error, result) ==
    LET r == w.agg[a]
        waiting == {b \in Aggs : Upstream[b] = a /\ w.agg[b].run.awaits}
        settled == [r EXCEPT !.run = IdleRun, !.rerun = FALSE, !.error = error,
                             !.failures = FailuresAfter(r, error),
                             !.excused = @ \/ error = "other"]
        handOver(b) == IF error = "none"
            THEN [w.agg[b] EXCEPT !.run.got[a] = result, !.run.awaits = FALSE]
            ELSE Fail(w.agg[b], error)
    IN Tell([w EXCEPT
               !.agg = [b \in Aggs |-> IF b = a THEN settled
                                       ELSE IF b \in waiting THEN handOver(b) ELSE w.agg[b]],
               !.activity.inFlight = @ - 1], {a})
Retry(w, a) ==
    [w EXCEPT !.agg[a].failures = @ + 1, !.agg[a].retries = @ + 1, !.activity.pending = @ + 1]
Settle(w, a, error, result) ==
    LET v == End(w, a, error, result)
        r == v.agg[a]
    IN IF w.agg[a].rerun
       THEN IF IsFresh(a, r, r.last) THEN Excuse(v, IF error = "none" THEN {} ELSE {a})
            ELSE Trigger(v, {a})
       ELSE IF error = "other" /\ r.failures < MaxRetries THEN Retry(v, a) ELSE v

\* get() found nothing or a stale envelope: a run in flight is left to it.
AskedFor(w, a) ==
    IF w.agg[a].run.phase = "idle" THEN Trigger(w, {a})
    ELSE LeftToRun(w, a)

\* A verification asked for in session n sets the fingerprint of a source.
Verify(A, a, s, hash, n) ==
    [A EXCEPT ![a].seen[s] = hash,
              ![a].excused = @ \/ A[a].seen[s] # Undefined
                              \/ n # session \/ A[a].sub # CurrentUser]

\* A call of get() returns data to whoever made it.
Return(w, g, data) ==
    LET v == [w EXCEPT !.get[g] = IF g[1] = "run" THEN IdleGet
                                  ELSE [IdleGet EXCEPT !.phase = "done"]]
        b == g[2]
        up == Upstream[b]
        cold == [Fail(w.agg[b], "cold") EXCEPT
                   !.excused = @ \/ stored[CurrentUser][up] # NoEnvelope]
        others == v.agg[up].run.session # v.agg[b].run.session
    IN CASE g[1] = "hook" -> v
         [] g[1] = "run" /\ data = Nothing ->
              [v EXCEPT !.agg[b] = cold]
         [] g[1] = "run" /\ data # Nothing ->
              IF v.agg[up].run.phase # "idle"
              THEN [v EXCEPT !.agg[b].run.awaits = TRUE, !.agg[b].excused = @ \/ others]
              ELSE [v EXCEPT !.agg[b].run.got[up] = data]
         [] g[1] = "verify" ->
              [v EXCEPT !.agg = Verify(@, b, up, IF data = Nothing THEN Null ELSE data,
                                       w.get[g].session),
                        !.get[HookGet(b, g[3])].todo = {c \in @ : c.source # up}]

-----------------------------------------------------------------------------
(* get() *)

\* The effect of useAggregation: once per mount and session.
HookCallsGet(a) ==
    LET g == HookGet(a, session) IN
    /\ a \in plan.mounted /\ unlocked /\ get[g].phase = "idle"
    /\ Commit(StartGet(W, {g}))
    /\ UNCHANGED << plan, session, unlocked, rows, stored, writing, world, left >>

\* The server answers the read the calls of one session share.
EnvelopeRead(g) ==
    LET a == AggOf(g) IN
    /\ get[g].phase = "load" /\ get[g].env = Nothing
    /\ get' = [h \in Gets |->
                 IF AggOf(h) = a /\ get[h].phase = "load" /\ get[h].session = get[g].session
                 THEN [get[h] EXCEPT !.env = stored[User(get[g].session)][a]]
                 ELSE get[h]]
    /\ UNCHANGED << plan, session, unlocked, rows, stored, slot, react, writing, agg,
                    activity, world, left >>

\* The await of loadEnvelopeDeduped returns.
EnvelopeArrives(g) ==
    LET a == AggOf(g)
        env == get[g].env
        w == [W EXCEPT !.agg[a].last = env]
        asked(s) == [source |-> s, hash |-> rows[User(get[g].session)][s]]
        unobserved == {s \in SourcesOf(a) : agg[a].seen[s] = Undefined}
        v == [w EXCEPT !.get[g].phase = "verify",
                       !.get[g].todo = IF ~unlocked THEN {}
                            ELSE {asked(s) : s \in unobserved \cap Stores}
                                 \cup {[source |-> x, hash |-> Nothing] : x \in unobserved \cap Aggs}]
    IN
    /\ get[g].phase = "load" /\ env # Nothing
    /\ \/ /\ env = NoEnvelope
          /\ Commit(Return(Tell(AskedFor(w, a), {a}), g, Nothing))
       \/ /\ env # NoEnvelope
          /\ Commit(IF unlocked /\ unobserved \cap Aggs # {}
                    THEN StartGet(v, {VerifyGet(g)}) ELSE v)
    /\ UNCHANGED << plan, session, unlocked, rows, stored, writing, world, left >>

\* verifyUnobservedSourcesAgainstServer: the hash is what the row had when it
\* was asked for, or has now.
HashArrives(g) ==
    LET a == AggOf(g) IN
    /\ get[g].phase = "verify"
    /\ \E c \in {x \in get[g].todo : x.source \in Stores} :
       \E hash \in {c.hash, rows[User(get[g].session)][c.source]} :
         /\ get' = [get EXCEPT ![g].todo = @ \ {c}]
         /\ agg' = Verify(agg, a, c.source, hash, get[g].session)
    /\ UNCHANGED << plan, session, unlocked, rows, stored, slot, react, writing,
                    activity, world, left >>

\* The rest of get(), after the verification.
Verified(g) ==
    LET a == AggOf(g)
        stale == ~IsFresh(a, agg[a], get[g].env)
        w == IF stale THEN AskedFor(W, a) ELSE LeftToRun(W, a)
    IN
    /\ get[g].phase = "verify" /\ get[g].todo = {}
    /\ Commit(Return(Tell(w, {a}), g, get[g].env.data))
    /\ UNCHANGED << plan, session, unlocked, rows, stored, writing, world, left >>

-----------------------------------------------------------------------------
(* computeAndPersist *)

Run(a) == agg[a].run
RunUser(a) == User(Run(a).session)

ReadStore(a, s) ==
    /\ Run(a).phase = "reading" /\ s \in StoresOf[a] /\ Run(a).got[s] = Nothing
    /\ agg' = [agg EXCEPT ![a].run.got[s] = rows[RunUser(a)][s]]
    /\ UNCHANGED << plan, session, unlocked, rows, stored, slot, react, writing, get,
                    activity, world, left >>

\* Every source is read: the external's value is in externalCache, or asked for.
UseExternal(a) ==
    /\ Run(a).phase = "reading" /\ \A s \in SourcesOf(a) : Run(a).got[s] # Nothing
    /\ LET cached == agg[a].ext IN
       agg' = [agg EXCEPT ![a].run =
                 IF a \notin HasExternal THEN [@ EXCEPT !.phase = "compute"]
                 ELSE IF cached # Nothing /\ cached.at = world.tick
                 THEN [@ EXCEPT !.phase = "compute", !.ext = cached]
                 ELSE [@ EXCEPT !.phase = "external",
                                !.ext = [value |-> world.value, at |-> world.tick]]]
    /\ UNCHANGED << plan, session, unlocked, rows, stored, slot, react, writing, get,
                    activity, world, left >>

ExternalArrives(a) ==
    /\ Run(a).phase = "external"
    /\ agg' = [agg EXCEPT ![a].run.phase = "compute", ![a].ext = Run(a).ext]
    /\ UNCHANGED << plan, session, unlocked, rows, stored, slot, react, writing, get,
                    activity, world, left >>

NewEnvelope_Observed(a) ==  \* the fingerprints known when it is saved
    LET r == Run(a)
        ext == IF a \in HasExternal THEN r.ext.value ELSE Nothing
        seen == agg[a].seen
    IN [fps |-> [s \in SourcesOf(a) |->
                   IF s \in DOMAIN seen /\ seen[s] # Undefined THEN seen[s] ELSE r.got[s]],
        at |-> IF a \in HasExternal THEN r.ext.at ELSE Nothing,
        data |-> Compute(a, r.got, ext)]
NewEnvelope(a) ==
    LET r == Run(a)
        ext == IF a \in HasExternal THEN r.ext.value ELSE Nothing
    IN [fps |-> r.got, at |-> IF a \in HasExternal THEN r.ext.at ELSE Nothing,
        data |-> Compute(a, r.got, ext)]

\* Who is left behind when a run ends in another session.
Behind(a) == {a} \cup {b \in Aggs : Upstream[b] = a}

\* compute() and the read of the envelope in place: nothing is written when it
\* is the same, or when the session it was computed in is not the current one.
ComputeAndCompare(a) ==
    LET env == NewEnvelope(a)
        unchanged == stored[RunUser(a)][a] = env
    IN
    /\ Run(a).phase = "compute"
    /\ \/ /\ ~StillMatches(Run(a).session)
          /\ Commit(Settle(Excuse(W, Behind(a)), a, "none", env.data))
       \/ /\ StillMatches(Run(a).session) /\ unchanged
          /\ Commit(Settle([W EXCEPT !.agg[a].last = env], a, "none", env.data))
       \/ /\ StillMatches(Run(a).session) /\ ~unchanged
          /\ Commit([W EXCEPT !.agg[a].run.phase = "save"])
    /\ UNCHANGED << plan, session, unlocked, rows, stored, writing, world, left >>

\* internalStore.save() returns; the fingerprint is published for downstream.
Saved(a) ==
    LET env == NewEnvelope(a)
        published == CacheSet([W EXCEPT !.agg[a].last = env], RunUser(a), a, env.data)
    IN
    /\ Run(a).phase = "save"
    /\ stored' = [stored EXCEPT ![RunUser(a)][a] = env]
    /\ Commit(Settle(IF StillMatches(Run(a).session) THEN published ELSE Excuse(W, Behind(a)),
                     a, "none", env.data))
    /\ UNCHANGED << plan, session, unlocked, rows, writing, world, left >>

\* A read, the external, compute() or the save throws; so may a handle of a
\* session that is over.
Throws(a) ==
    /\ Run(a).phase \in {"external", "compute", "save"}
    /\ \/ /\ left.failures > 0
          /\ left' = [left EXCEPT !.failures = @ - 1]
       \/ /\ ~StillMatches(Run(a).session)
          /\ UNCHANGED left
    /\ Commit(Settle(W, a, "other", Nothing))
    /\ UNCHANGED << plan, session, unlocked, rows, stored, writing, world >>

\* computeAndPersist was refused by a locked session, by a cold source or by
\* the run of the source it awaited.
Refused(a) ==
    /\ Run(a).phase = "failed"
    /\ Commit(Settle(W, a, Run(a).error, Nothing))
    /\ UNCHANGED << plan, session, unlocked, rows, stored, writing, world, left >>

-----------------------------------------------------------------------------
(* Timers, and the calls of the app. *)

DebounceFires(a) ==
    LET w == [W EXCEPT !.agg[a].armed = FALSE, !.activity.pending = @ - 1] IN
    /\ agg[a].armed
    /\ Commit(IF IsFresh(a, agg[a], agg[a].last) THEN LeftToRun(w, a) ELSE Trigger(w, {a}))
    /\ UNCHANGED << plan, session, unlocked, rows, stored, writing, world, left >>

RetryFires(a) ==
    /\ agg[a].retries > 0
    /\ Commit(Trigger([W EXCEPT !.agg[a].retries = @ - 1, !.activity.pending = @ - 1], {a}))
    /\ UNCHANGED << plan, session, unlocked, rows, stored, writing, world, left >>

\* refresh({ bypassExternalsTtl: bypass })
Refresh(a, bypass) ==
    LET w == Cancel(W, a) IN
    /\ left.refreshes > 0 /\ unlocked /\ a \in plan.mounted
    /\ left' = [left EXCEPT !.refreshes = @ - 1]
    /\ Commit(Trigger(IF bypass THEN [w EXCEPT !.agg[a].ext = Nothing] ELSE w, {a}))
    /\ UNCHANGED << plan, session, unlocked, rows, stored, writing, world >>

\* What the external reads has changed, and the app calls invalidateChannel.
InvalidateChannel ==
    LET w == [W EXCEPT !.agg = [a \in Aggs |-> IF a \in HasExternal
                                  THEN [agg[a] EXCEPT !.ext = Nothing] ELSE agg[a]]] IN
    /\ left.changes > 0
    /\ left' = [left EXCEPT !.changes = @ - 1]
    /\ world' = [world EXCEPT !.value = @ + 1]
    /\ Commit(Trigger(w, HasExternal))
    /\ UNCHANGED << plan, session, unlocked, rows, stored, writing >>

\* An ambient set() of a source: the server first, then writeThroughCache.
WriteLands(s) ==
    /\ left.writes > 0 /\ unlocked /\ writing = Nothing
    /\ left' = [left EXCEPT !.writes = @ - 1]
    /\ \E content \in Contents : rows' = [rows EXCEPT ![CurrentUser][s] = content]
    /\ writing' = [user |-> CurrentUser, store |-> s]
    /\ UNCHANGED << plan, session, unlocked, stored, slot, react, agg, get, activity, world >>

WriteThroughCache ==
    /\ writing # Nothing
    /\ writing' = Nothing
    /\ Commit(CacheSet(W, writing.user, writing.store, rows[writing.user][writing.store]))
    /\ UNCHANGED << plan, session, unlocked, rows, stored, world, left >>

\* The handle becomes null: configureSecureStore clears the cache.  Nobody is
\* notified of that.
Lock ==
    /\ unlocked /\ session < Len(plan.sessions)
    /\ unlocked' = FALSE
    /\ slot' = [u \in Users |-> [s \in Stores \cup Aggs |-> Undefined]]
    /\ react' = [u \in Users |-> [a \in Aggs |-> Nothing]]
    /\ UNCHANGED << plan, session, rows, stored, writing, agg, get, activity, world, left >>

Unlock ==
    /\ ~unlocked /\ session < Len(plan.sessions)
    /\ session' = session + 1
    /\ unlocked' = TRUE
    /\ UNCHANGED << plan, rows, stored, slot, react, writing, agg, get, activity, world, left >>

TtlExpires ==
    /\ left.ticks > 0
    /\ left' = [left EXCEPT !.ticks = @ - 1]
    /\ world' = [world EXCEPT !.tick = @ + 1]
    /\ UNCHANGED << plan, session, unlocked, rows, stored, slot, react, writing, agg, get,
                    activity >>

\* What happens by itself: answers, microtasks, timers, mounted effects.
Internal ==
    \/ \E g \in Gets : EnvelopeRead(g) \/ EnvelopeArrives(g) \/ HashArrives(g) \/ Verified(g)
    \/ \E a \in Aggs : \/ \E s \in Stores : ReadStore(a, s)
                       \/ HookCallsGet(a) \/ UseExternal(a) \/ ExternalArrives(a)
                       \/ ComputeAndCompare(a) \/ Saved(a) \/ Refused(a)
                       \/ DebounceFires(a) \/ RetryFires(a)
    \/ WriteThroughCache

Outside ==
    \/ \E a \in Aggs : Throws(a) \/ \E bypass \in BOOLEAN : Refresh(a, bypass)
    \/ \E s \in Stores : WriteLands(s)
    \/ InvalidateChannel \/ Lock \/ Unlock \/ TtlExpires

Next == Internal \/ Outside

Spec == Init /\ [][Next]_vars /\ WF_vars(Internal)

-----------------------------------------------------------------------------
(* Properties. *)

\* isAnyAggregationComputing() is false, and no call of get() is on its way.
Idle == activity = [inFlight |-> 0, pending |-> 0]
Quiet == Idle /\ \A g \in Gets : get[g].phase \in {"idle", "done"}

\* The retry timers that have not fired; several of one aggregation after a run
\* that succeeded in between.
RetryTimers == UNION {{a} \X (1 .. agg[a].retries) : a \in Aggs}

\* The types of the state; the two counters of activity are the number of runs
\* and the number of armed timers (aggregation.ts:135-176).
TypeOK ==
    /\ session \in SessionNumbers /\ unlocked \in BOOLEAN
    /\ \A u \in Users, a \in Aggs :
         stored[u][a] # NoEnvelope => DOMAIN stored[u][a].fps = SourcesOf(a)
    /\ \A a \in Aggs :
         /\ agg[a].run.phase \in {"idle", "reading", "external", "compute", "save", "failed"}
         /\ agg[a].failures \in 0 .. MaxRetries /\ agg[a].retries \in Nat
         /\ agg[a].error \in {"none", "cold", "other"}
         /\ agg[a].sub \in Users \cup {NoUser}
         /\ agg[a].ext \in Fetched \cup {Nothing}
    /\ \A g \in Gets : get[g].phase \in {"idle", "load", "verify", "done"}
    /\ activity.inFlight = Cardinality({a \in Aggs : agg[a].run.phase # "idle"})
    /\ activity.pending = Cardinality({a \in Aggs : agg[a].armed})
                          + Cardinality(RetryTimers)

\* What a persisted envelope holds is what compute() makes of the very versions
\* its fingerprints name, whatever was written while it was computed.
EnvelopeHonest ==
    \A u \in Users, a \in Aggs : stored[u][a] # NoEnvelope =>
        \E value \in 0 .. world.value :
            stored[u][a].data = Compute(a, stored[u][a].fps,
                                        IF a \in HasExternal THEN value ELSE Nothing)

\* After the wipe of a lock no aggregation fills the cache again: neither the
\* fingerprint it publishes nor the state of the React binding.
LockedCacheEmpty ==
    ~unlocked => \A u \in Users, a \in Aggs : slot[u][a] = Undefined /\ react[u][a] = Nothing

\* When isAnyAggregationComputing() turns false nothing is left to do: an
\* aggregation that was asked for in this session is stored with what its
\* sources are now.
IdleMeansCurrent ==
    Quiet /\ unlocked /\ writing = Nothing =>
    \A a \in Aggs :
        LET env == stored[CurrentUser][a] IN
        /\ get[HookGet(a, session)].phase = "done"
        /\ \A x \in {a, Upstream[a]} \ {NoAgg} :
              x = a \/ stored[CurrentUser][x] = NoEnvelope => ~agg[x].excused
        => /\ env # NoEnvelope
           /\ \A s \in StoresOf[a] : env.fps[s] = rows[CurrentUser][s]
           /\ Upstream[a] # NoAgg => env.fps[Upstream[a]] = stored[CurrentUser][Upstream[a]].data

\* What React shows is what the aggregation is doing, at every moment, and at
\* rest the data of the envelope it holds.
ReactShowsState ==
    unlocked => \A a \in Aggs :
        LET shown == react[CurrentUser][a]
            now == StateOf(a, agg[a])
        IN shown # Nothing => /\ shown.computing = now.computing
                              /\ shown.error = now.error
                              /\ Quiet => shown.data = now.data

\* Every burst of activity ends: single flight, coalescing and the retry budget
\* leave no cycle of recomputes.
Settles == <>[]Idle
=============================================================================
