------------------------------ MODULE KeyedHooks ------------------------------
(***************************************************************************)
(* A perKey store under React: useKeyedStore and useKeyedStoreRange with   *)
(* their registries of fetches in flight, the calls that go past them      *)
(* (set, mutate, createMany) and the cache they share (store.ts).          *)
(*                                                                         *)
(* What runs between two awaits is one action.  An effect runs some time   *)
(* after the state it depends on changed, once for the latest render.  A   *)
(* value is the number of the call that wrote it and its own contentHash;  *)
(* an entry may hold it as the call was given it, before the schema.       *)
(* Every key is inside the range.  Encryption, versions and the rotation   *)
(* of keys are RowStore's and StoreRotation's.                             *)
(***************************************************************************)
EXTENDS AppSession, FiniteSets

CONSTANTS
    Keys,
    Hooks, TargetOf,    \* [Hooks -> Keys \cup {RangeTarget}]: a mounted hook's slot
    RangeTarget, NoFetch, NoSlot, Null

Targets == Keys \cup {RangeTarget}
Absent == 0
Old == 10           \* what a stored row holds at first
Foreign == 11       \* what another device writes
MaxAttempts == 2    \* mutate's retryOnConflict

Reads == {"reload", "rangeReload"}
Calls == {"save", "set", "mutate", "createMany"} \cup Reads

ASSUME KeyedAssumption ==
    /\ TargetOf \in [Hooks -> Targets]
    /\ RangeTarget \notin Keys
    /\ \A p \in Plans : /\ p.mounted \subseteq Hooks /\ p.stored \subseteq Keys
                        /\ p.ops \in Seq([call : Calls, keys : SUBSET Keys])
                        /\ Len(p.ops) < Old
                        /\ \A i \in DOMAIN p.ops :
                              p.ops[i].call \notin {"createMany", "rangeReload"}
                              => \E k \in Keys : p.ops[i].keys = {k}

VARIABLES
    row,        \* [Users -> [Keys -> value]], on the server
    slot,       \* [Users -> [Keys -> cache entry]]; `by' is history: who set it
    epoch,      \* [Users -> the store's write counter in the cache]
    range,      \* [Users -> cache entry of the range]
    fetch,      \* [Users -> [Targets -> the registered fetch]]
    activity,   \* inFlightCount of keyedStoreActivity.ts
    hook,       \* [Hooks -> deps of its last effect, whether it waits, its error]
    op,         \* [1 .. Len(plan.ops) -> the call]
    crowd,      \* history: [Users -> [Keys -> which calls met on the slot]]
    behind      \* history: users whose range missed a write, or outlived its epoch

keyedVars == << row, slot, epoch, range, fetch, activity, hook, op, crowd, behind >>

NotYet == << NeverSeen, 0 >>
Gone == << Unmounted, 0 >>
Values == {Absent, Old, Foreign} \cup 1 .. (Old - 1)
Entries == [data : Values \cup PassedValues, hash : Values \cup {Null},
            by : {"effect", "gap", "reload", "load", "save", "write"}]
RangeEntries == [rows : [Keys -> Values], epoch : Nat, by : {"effect", "gap", "reload"}]
Fetches == [session : Nat, read : BOOLEAN, rows : [Keys -> Values], stale : BOOLEAN]
HookStates == [seen : (0 .. Unmounted) \X Nat, waits : BOOLEAN, error : BOOLEAN]
Stages == {"idle", "hash", "read", "loaded", "send", "second", "landed", "conflict", "done"}
OpStates == [stage : Stages, session : Nat, base : Entries \cup {NoSlot},
             rows : [Keys -> Values], fresh : BOOLEAN, expected : Values \cup {Null},
             stale : BOOLEAN, bumped : BOOLEAN, tries : Nat]

ASSUME KeyedNullAssumption ==
    /\ NoSlot \notin Entries \cup RangeEntries /\ NoFetch \notin Fetches
    /\ Null \notin Values      \* null is no contentHash

NoRows == [k \in Keys |-> Absent]
FreshFetch(n) == [session |-> n, read |-> FALSE, rows |-> NoRows, stale |-> FALSE]
IdleOp == [stage |-> "idle", session |-> 1, base |-> NoSlot, rows |-> NoRows, fresh |-> FALSE,
           expected |-> Null, stale |-> FALSE, bumped |-> FALSE, tries |-> 0]

Ops == 1 .. Len(plan.ops)
CallOf(i) == plan.ops[i].call
KeysOf(i) == plan.ops[i].keys
TheKey(i) == CHOOSE k \in KeysOf(i) : TRUE
OpUser(i) == UserOf(op[i].session)
InFlight(i) == op[i].stage \notin {"idle", "done"}
Writing(i) == InFlight(i) /\ CallOf(i) \notin Reads

KeyedInit ==
    /\ row = [u \in Users |-> [k \in Keys |-> IF k \in plan.stored THEN Old ELSE Absent]]
    /\ slot = [u \in Users |-> [k \in Keys |-> NoSlot]]
    /\ epoch = [u \in Users |-> 0]
    /\ range = [u \in Users |-> NoSlot]
    /\ fetch = [u \in Users |-> [t \in Targets |-> NoFetch]]
    /\ activity = 0
    /\ hook = [h \in Hooks |-> [seen |-> IF h \in plan.mounted THEN NotYet ELSE Gone,
                                waits |-> FALSE, error |-> FALSE]]
    /\ op = [i \in Ops |-> IdleOp]
    /\ crowd = [u \in Users |-> [k \in Keys |-> "clear"]]
    /\ behind = {}

-----------------------------------------------------------------------------
(* The server, as the adapters' statements leave it, and what a load makes  *)
(* of a row.                                                                *)

HashOf(v) ==
    IF Hashed /\ v # Absent /\ ~(plan.unhashed /\ v = Old) THEN v ELSE Null
Loaded(v, who) == [data |-> v, hash |-> HashOf(v), by |-> who]

\* putIfMatch: null stands for "no content yet", a row absent or never hashed.
PutIfMatch(r, expected) == HashOf(r) = expected
\* The supabase adapter's: for null an INSERT and, when a row is there, an
\* UPDATE of a row without a hash; else one UPDATE by hash.
PutInTrips(r, expected, second) ==
    CASE expected # Null -> r # Absent /\ HashOf(r) = expected
      [] ~second         -> r = Absent
      [] OTHER           -> r # Absent /\ HashOf(r) = Null
\* insertMany: one statement, no ON CONFLICT.
InsertMany(u, ks) == \A k \in ks : row[u][k] = Absent
\* listByKeyRange: one statement, every row of the range at one moment.
ListByKeyRange(u) == row[u]

\* loadRevalidated: an entry with a hash is compared before a full load.
LoadStage(u, k) ==
    IF Hashed /\ slot[u][k] # NoSlot /\ slot[u][k].hash # Null THEN "hash" ELSE "read"

-----------------------------------------------------------------------------
(* History.  crowd: "clear", "late" (a read met a write, or a call failed   *)
(* after landing), "healing" (then a reload set out alone), "mixed" (two    *)
(* writes met, or a load took the entry of a write not yet acknowledged for *)
(* the row's).                                                              *)

Meets(u, k) ==
    \/ fetch[u][k] # NoFetch
    \/ \E i \in Ops : InFlight(i) /\ OpUser(i) = u /\ k \in KeysOf(i)
WriteMeets(u, k) == \E i \in Ops : Writing(i) /\ OpUser(i) = u /\ k \in KeysOf(i)

Crowds == {"clear", "late", "healing", "mixed"}
SetCrowd(u, ks, change) ==
    [crowd EXCEPT ![u] = [k \in Keys |-> IF k \in ks THEN change[@[k]] ELSE @[k]]]
Late == [c \in Crowds |-> IF c = "mixed" THEN c ELSE "late"]
Healed == [c \in Crowds |-> IF c = "healing" THEN "clear" ELSE c]
NotHealed == [c \in Crowds |-> IF c = "healing" THEN "late" ELSE c]
CrowdOfWrite(u, ks) ==
    [crowd EXCEPT ![u] = [k \in Keys |->
        IF k \notin ks THEN @[k]
        ELSE IF WriteMeets(u, k) THEN "mixed"
        ELSE IF Meets(u, k) THEN Late[@[k]] ELSE @[k]]]
CrowdOfRead(u, k) ==
    [crowd EXCEPT ![u][k] = IF WriteMeets(u, k)
                            THEN IF LoadStage(u, k) = "hash" THEN "mixed" ELSE Late[@]
                            ELSE IF @ = "late" /\ ~Meets(u, k) THEN "healing" ELSE @]

\* A write of u's landed: what has been read of the range misses it.
FetchAfterWrite(u) ==
    IF fetch[u][RangeTarget] = NoFetch \/ ~fetch[u][RangeTarget].read THEN fetch
    ELSE [fetch EXCEPT ![u][RangeTarget].stale = TRUE]
OpsAfterWrite(u) ==
    [i \in Ops |-> IF op[i].stage = "loaded" /\ OpUser(i) = u
                   THEN [op[i] EXCEPT !.stale = TRUE] ELSE op[i]]

\* A read of the range under way that a write overtook.
StaleRead(u) == fetch[u][RangeTarget] # NoFetch /\ fetch[u][RangeTarget].stale
StaleReload(u) ==
    \E i \in Ops : CallOf(i) = "rangeReload" /\ OpUser(i) = u /\ op[i].stale

-----------------------------------------------------------------------------
(* Effects.                                                                 *)

\* What the effect of h depends on: the handle and, for a range, the epoch.
Deps(h) ==
    << Handle, IF TargetOf[h] = RangeTarget /\ unlocked THEN epoch[UserOf(session)] ELSE 0 >>
Rendered(h) == hook[h].seen = Gone \/ hook[h].seen = Deps(h)

HasCurrent(h, u) ==
    IF TargetOf[h] = RangeTarget
    THEN range[u] # NoSlot /\ range[u].epoch = epoch[u]
    ELSE slot[u][TargetOf[h]] # NoSlot

EffectSkips(h) ==
    /\ ~Rendered(h)
    /\ ~unlocked \/ HasCurrent(h, UserOf(session))
    /\ hook' = [hook EXCEPT ![h] = [seen |-> Deps(h), waits |-> FALSE, error |-> FALSE]]
    /\ UNCHANGED << row, slot, epoch, range, fetch, activity, op, crowd, behind >>

\* fetchKeyDeduped, fetchRangeDeduped: join the registered fetch or start one.
Deduped(u, t) ==
    IF fetch[u][t] # NoFetch
    THEN UNCHANGED << fetch, activity >>
    ELSE /\ fetch' = [fetch EXCEPT ![u][t] = FreshFetch(session)]
         /\ activity' = activity + 1

EffectFetches(h) ==
    LET u == UserOf(session)
        t == TargetOf[h]
    IN  /\ ~Rendered(h)
        /\ unlocked
        /\ ~HasCurrent(h, u)
        /\ Deduped(u, t)
        /\ hook' = [hook EXCEPT ![h] = [seen |-> Deps(h), waits |-> TRUE, error |-> FALSE]]
        /\ crowd' = IF t = RangeTarget THEN crowd ELSE CrowdOfRead(u, t)
        \* a fetch joined after it read what a write has changed since
        /\ behind' = IF t = RangeTarget /\ StaleRead(u) THEN behind \cup {u} ELSE behind
        /\ UNCHANGED << row, slot, epoch, range, op >>

Unmount(h) ==
    /\ hook[h].seen # Gone
    /\ hook' = [hook EXCEPT ![h] = [seen |-> Gone, waits |-> FALSE, error |-> FALSE]]
    /\ UNCHANGED << row, slot, epoch, range, fetch, activity, op, crowd, behind >>

FetchReads(u, t) ==
    /\ fetch[u][t] # NoFetch
    /\ ~fetch[u][t].read
    /\ fetch' = [fetch EXCEPT ![u][t].read = TRUE, ![u][t].rows = ListByKeyRange(u)]
    /\ UNCHANGED << row, slot, epoch, range, activity, hook, op, crowd, behind >>

\* The hooks whose latest effect is on this fetch and was not cleaned up.
Waiting_SameSession(u, t) ==    \* a fetch of an earlier session is not joined
    {h \in Hooks : hook[h].waits /\ TargetOf[h] = t /\ hook[h].seen[1] = fetch[u][t].session}
Waiting(u, t) ==
    {h \in Hooks : hook[h].waits /\ TargetOf[h] = t /\ UserOf(hook[h].seen[1]) = u}
\* An effect that a later render is about to clean up.
InGap(h) == hook[h].seen[1] # Handle
Released(hs, failed) ==
    [h \in Hooks |-> IF h \in hs THEN [hook[h] EXCEPT !.waits = FALSE, !.error = failed]
                     ELSE hook[h]]
EffectName(hs) == IF \A h \in hs : InGap(h) THEN "gap" ELSE "effect"

\* The finally of the registries: whether the fetch succeeded, and is awaited
\* or not.
Deregister_Uncounted(u, t) ==   \* the counter moves elsewhere, or not at all
    /\ fetch' = [fetch EXCEPT ![u][t] = NoFetch]
    /\ UNCHANGED activity
Deregister_ByWaiter(u, t) ==    \* done in the then of an effect
    IF Waiting(u, t) = {} THEN UNCHANGED << fetch, activity >>
    ELSE /\ fetch' = [fetch EXCEPT ![u][t] = NoFetch]
         /\ activity' = activity - 1
Deregister(u, t) ==
    /\ fetch' = [fetch EXCEPT ![u][t] = NoFetch]
    /\ activity' = activity - 1

\* loadRevalidated fills the slot of a hashed store itself, whoever waits.
KeyFetchResolves(u, k) ==
    LET f == fetch[u][k]
        hs == Waiting(u, k)
    IN  /\ f # NoFetch /\ f.read
        /\ Deregister(u, k)
        /\ hook' = Released(hs, FALSE)
        /\ slot' = IF hs # {} THEN [slot EXCEPT ![u][k] = Loaded(f.rows[k], EffectName(hs))]
                   ELSE IF Hashed THEN [slot EXCEPT ![u][k] = Loaded(f.rows[k], "load")]
                   ELSE slot
        /\ crowd' = SetCrowd(u, {k}, IF hs # {} \/ Hashed THEN Healed ELSE NotHealed)
        /\ UNCHANGED << row, epoch, range, op, behind >>

\* What the last effect to be answered leaves is taken for current: after a
\* lock the counter begins again and will reach the number once more, or rows
\* from before a write outlive the render that would have fetched again.
Overtaken(h) ==
    /\ ~Rendered(h)
    /\ \E g \in Hooks : TargetOf[g] = RangeTarget /\ hook[g].seen = Deps(g)
Lingers(h, u) ==
    \/ hook[h].seen[2] > epoch[u]
    \/ StaleRead(u) /\ (InGap(h) \/ Overtaken(h))

RangeFetchResolves(u) ==
    LET f == fetch[u][RangeTarget]
        hs == Waiting(u, RangeTarget)
    IN  /\ f # NoFetch /\ f.read
        /\ Deregister(u, RangeTarget)
        /\ hook' = Released(hs, FALSE)
        /\ IF hs = {} THEN UNCHANGED << range, behind >>
           ELSE \E h \in hs :
                /\ range' = [range EXCEPT ![u] =
                        [rows |-> f.rows, epoch |-> hook[h].seen[2], by |-> EffectName(hs)]]
                /\ behind' = IF Lingers(h, u) THEN behind \cup {u}
                             ELSE IF f.stale \/ StaleReload(u) THEN behind
                             ELSE behind \ {u}
        /\ UNCHANGED << row, slot, epoch, op, crowd >>

FetchFails(u, t) ==
    /\ fetch[u][t] # NoFetch
    /\ Deregister(u, t)
    /\ hook' = Released(Waiting(u, t), TRUE)
    /\ crowd' = IF t = RangeTarget THEN crowd ELSE SetCrowd(u, {t}, NotHealed)
    /\ UNCHANGED << row, slot, epoch, range, op, behind >>

-----------------------------------------------------------------------------
(* Calls.                                                                   *)

Began(i, n, stage, base, expected, tries) ==
    [op EXCEPT ![i] = [IdleOp EXCEPT !.stage = stage, !.session = n, !.base = base,
                                     !.expected = expected, !.tries = tries]]
CanBegin(i, call) == op[i].stage = "idle" /\ CallOf(i) = call

\* A callback belongs to the latest render of its hook.
Callbacks(t) == {n \in 1 .. session : \E h \in Hooks : TargetOf[h] = t /\ hook[h].seen[1] = n}

Save(i) ==
    /\ CanBegin(i, "save")
    /\ \E n \in Callbacks(TheKey(i)) :
        LET u == UserOf(n)
            k == TheKey(i)
            previous == slot[u][k]
            hash == IF previous = NoSlot THEN Null ELSE previous.hash
        IN  /\ slot' = [slot EXCEPT ![u][k] =
                            [data |-> Passed(i), hash |-> hash, by |-> "save"]]
            /\ op' = Began(i, n, "send", previous, hash, 0)
            /\ crowd' = CrowdOfWrite(u, {k})
    /\ UNCHANGED << row, epoch, range, fetch, activity, hook, behind >>

\* set() and createMany() resolve the identity, then go to the storage.
Write(i) ==
    /\ CanBegin(i, "set") \/ CanBegin(i, "createMany")
    /\ CallOf(i) = "set" => plan.kind # "locked"
    /\ unlocked
    /\ op' = Began(i, session, "send", NoSlot, Null, 0)
    /\ crowd' = CrowdOfWrite(UserOf(session), KeysOf(i))
    /\ UNCHANGED << row, slot, epoch, range, fetch, activity, hook, behind >>

BeganLoad(i, n, tries) ==
    LET u == UserOf(n)
        k == TheKey(i)
    IN  Began(i, n, LoadStage(u, k), slot[u][k], Null, tries)

Mutate(i) ==
    /\ CanBegin(i, "mutate")
    /\ unlocked
    /\ op' = BeganLoad(i, session, MaxAttempts)
    /\ crowd' = CrowdOfWrite(UserOf(session), KeysOf(i))
    /\ UNCHANGED << row, slot, epoch, range, fetch, activity, hook, behind >>

Reload(i) ==
    /\ CanBegin(i, "reload")
    /\ \E n \in Callbacks(TheKey(i)) :
        /\ op' = BeganLoad(i, n, 0)
        /\ crowd' = CrowdOfRead(UserOf(n), TheKey(i))
    /\ UNCHANGED << row, slot, epoch, range, fetch, activity, hook, behind >>

RangeReload(i) ==
    /\ CanBegin(i, "rangeReload")
    /\ \E n \in Callbacks(RangeTarget) : op' = Began(i, n, "read", NoSlot, Null, 0)
    /\ UNCHANGED << row, slot, epoch, range, fetch, activity, hook, crowd, behind >>

GetHash(i) ==
    /\ op[i].stage = "hash"
    /\ op' = [op EXCEPT ![i].stage =
                  IF HashOf(row[OpUser(i)][TheKey(i)]) = op[i].base.hash THEN "loaded" ELSE "read"]
    /\ UNCHANGED << row, slot, epoch, range, fetch, activity, hook, crowd, behind >>

ReadsRows(i) ==
    /\ op[i].stage = "read"
    /\ op' = [op EXCEPT ![i].stage = "loaded", ![i].rows = ListByKeyRange(OpUser(i)),
                        ![i].fresh = TRUE]
    /\ UNCHANGED << row, slot, epoch, range, fetch, activity, hook, crowd, behind >>

\* What a load of a key resolves to, and the slot it leaves.
LoadedEntry(i) ==
    IF op[i].fresh THEN Loaded(op[i].rows[TheKey(i)], "load") ELSE op[i].base
SlotOfLoad(i) ==
    IF Hashed /\ op[i].fresh
    THEN [slot EXCEPT ![OpUser(i)][TheKey(i)] = LoadedEntry(i)] ELSE slot

\* The callers of reload() ask for the identity again after the await.
StillSignedIn_Unlocked(u) == UserOf(session) = u    \* the handle is not asked for
StillSignedIn(u) == SignedIn(u)

ReloadResolves(i) ==
    LET u == OpUser(i)
        k == TheKey(i)
    IN  /\ CallOf(i) = "reload" /\ op[i].stage = "loaded"
        /\ slot' = IF StillSignedIn(u)
                   THEN [SlotOfLoad(i) EXCEPT ![u][k] = [LoadedEntry(i) EXCEPT !.by = "reload"]]
                   ELSE SlotOfLoad(i)
        /\ op' = [op EXCEPT ![i] = [IdleOp EXCEPT !.stage = "done"]]
        /\ crowd' = SetCrowd(u, {k}, IF StillSignedIn(u) \/ Hashed THEN Healed ELSE NotHealed)
        /\ UNCHANGED << row, epoch, range, fetch, activity, hook, behind >>

RangeReloadResolves(i) ==
    LET u == OpUser(i)
    IN  /\ CallOf(i) = "rangeReload" /\ op[i].stage = "loaded"
        /\ IF StillSignedIn(u)
           THEN /\ range' = [range EXCEPT ![u] = [rows |-> op[i].rows, epoch |-> epoch[u],
                                                  by |-> "reload"]]
                \* rows from before a write under the epoch from after it
                /\ behind' = IF op[i].bumped THEN behind \cup {u}
                             ELSE IF StaleReload(u) \/ StaleRead(u) THEN behind
                             ELSE behind \ {u}
           ELSE UNCHANGED << range, behind >>
        /\ op' = [op EXCEPT ![i] = [IdleOp EXCEPT !.stage = "done"]]
        /\ UNCHANGED << row, slot, epoch, fetch, activity, hook, crowd >>

MutateComputes(i) ==
    /\ CallOf(i) = "mutate" /\ op[i].stage = "loaded"
    /\ slot' = SlotOfLoad(i)
    /\ op' = [op EXCEPT ![i].stage = "send", ![i].expected = LoadedEntry(i).hash]
    /\ UNCHANGED << row, epoch, range, fetch, activity, hook, crowd, behind >>

Conditional(i) == plan.kind = "locked" /\ CallOf(i) \in {"save", "mutate"}
Accepted(i) ==
    LET u == OpUser(i)
    IN  CASE Conditional(i) /\ TwoTrips ->
                PutInTrips(row[u][TheKey(i)], op[i].expected, op[i].stage = "second")
          [] Conditional(i) -> PutIfMatch(row[u][TheKey(i)], op[i].expected)
          [] CallOf(i) = "createMany" -> InsertMany(u, KeysOf(i))
          [] OTHER -> TRUE

Lands(i) ==
    LET u == OpUser(i)
    IN  /\ op[i].stage \in {"send", "second"}
        /\ Accepted(i)
        /\ row' = [row EXCEPT ![u] = [k \in Keys |-> IF k \in KeysOf(i) THEN i ELSE @[k]]]
        /\ fetch' = FetchAfterWrite(u)
        /\ op' = [OpsAfterWrite(u) EXCEPT ![i].stage = "landed"]
        \* save() moves no epoch
        /\ behind' = IF CallOf(i) = "save" THEN behind \cup {u} ELSE behind
        /\ UNCHANGED << slot, epoch, range, activity, hook, crowd >>

Refused(i) ==
    /\ op[i].stage \in {"send", "second"}
    /\ ~Accepted(i)
    /\ op' = [op EXCEPT ![i].stage =
                  IF /\ Conditional(i) /\ TwoTrips
                     /\ op[i].expected = Null /\ op[i].stage = "send"
                  THEN "second" ELSE "conflict"]
    /\ UNCHANGED << row, slot, epoch, range, fetch, activity, hook, crowd, behind >>

\* The entry a write leaves.  save() leaves what it was given, with the hash
\* of what was stored (of a store that is not locked, with none).
SavedHash_Previous(i) == op[i].expected         \* the hash the call went with
SavedHash(i) == IF plan.kind = "locked" THEN i ELSE Null
SaveResolves(i) ==
    /\ CallOf(i) = "save" /\ op[i].stage = "landed"
    /\ slot' = [slot EXCEPT ![OpUser(i)][TheKey(i)] =
                    [data |-> Passed(i), hash |-> SavedHash(i), by |-> "save"]]
    /\ op' = [op EXCEPT ![i] = [IdleOp EXCEPT !.stage = "done"]]
    /\ UNCHANGED << row, epoch, range, fetch, activity, hook, crowd, behind >>

\* save() puts back what it found, if it found anything.
RolledBack_Not(i) == slot
RolledBack(i) ==
    IF op[i].base = NoSlot THEN slot
    ELSE [slot EXCEPT ![OpUser(i)][TheKey(i)] = [op[i].base EXCEPT !.by = "save"]]

\* With nothing to put back, what was not saved stays in the slot.
KeepsUnsaved(i) == CallOf(i) = "save" /\ op[i].base = NoSlot

\* writeThroughCache: mutate() leaves its `next` as the callback returned it,
\* set() and createMany() what the schema made of their arguments.
WrittenThrough(i) == IF CallOf(i) = "mutate" THEN Passed(i) ELSE i

\* bumpRangeEpoch, after the slots are written through.
Bumped_Never(u) == epoch
Bumped(u) == [epoch EXCEPT ![u] = @ + 1]
WriteResolves(i) ==
    LET u == OpUser(i)
        entry == [data |-> WrittenThrough(i), hash |-> HashOf(i), by |-> "write"]
    IN  /\ CallOf(i) \in {"set", "mutate", "createMany"} /\ op[i].stage = "landed"
        /\ slot' = [slot EXCEPT ![u] = [k \in Keys |-> IF k \in KeysOf(i) THEN entry ELSE @[k]]]
        /\ epoch' = Bumped(u)
        /\ op' = [j \in Ops |->
                     IF j = i THEN [IdleOp EXCEPT !.stage = "done"]
                     ELSE IF op[j].stage = "loaded" /\ OpUser(j) = u
                     THEN [op[j] EXCEPT !.bumped = op[j].stale] ELSE op[j]]
        /\ UNCHANGED << row, range, fetch, activity, hook, crowd, behind >>

\* A conflict: save() rolls back, mutate() tries again while it may.
ConflictResolves(i) ==
    /\ op[i].stage = "conflict"
    /\ IF CallOf(i) = "mutate" /\ op[i].tries > 1
       THEN op' = BeganLoad(i, op[i].session, op[i].tries - 1)
       ELSE op' = [op EXCEPT ![i] = [IdleOp EXCEPT !.stage = "done"]]
    /\ slot' = IF CallOf(i) = "save" THEN RolledBack(i) ELSE slot
    /\ crowd' = IF KeepsUnsaved(i) THEN SetCrowd(OpUser(i), KeysOf(i), Late) ELSE crowd
    /\ UNCHANGED << row, epoch, range, fetch, activity, hook, behind >>

\* A step of the call throws: before its write landed, or the answer is lost.
Fails(i) ==
    LET u == OpUser(i)
        lost == op[i].stage = "landed"
    IN  /\ InFlight(i) /\ op[i].stage # "conflict"
        /\ slot' = IF CallOf(i) = "save" THEN RolledBack(i) ELSE slot
        /\ op' = [op EXCEPT ![i] = [IdleOp EXCEPT !.stage = "done"]]
        /\ crowd' = SetCrowd(u, KeysOf(i), IF lost \/ KeepsUnsaved(i) THEN Late ELSE NotHealed)
        /\ behind' = IF lost THEN behind \cup {u} ELSE behind
        /\ UNCHANGED << row, epoch, range, fetch, activity, hook >>

-----------------------------------------------------------------------------
(* Another device, and the lock.                                            *)

ForeignWrite(u, k) ==
    /\ row' = [row EXCEPT ![u][k] = Foreign]
    /\ fetch' = FetchAfterWrite(u)
    /\ op' = OpsAfterWrite(u)
    /\ crowd' = SetCrowd(u, {k}, Late)
    /\ behind' = behind \cup {u}
    /\ UNCHANGED << slot, epoch, range, activity, hook >>

\* config.ts: cache.clear() when the handle goes.  Nobody is notified.
WipeKeyed ==
    /\ slot' = [u \in Users |-> [k \in Keys |-> NoSlot]]
    /\ epoch' = [u \in Users |-> 0]
    /\ range' = [u \in Users |-> NoSlot]
    /\ crowd' = [u \in Users |-> [k \in Keys |-> IF Meets(u, k) THEN crowd[u][k] ELSE "clear"]]
    \* a reload that asks for the user alone outlives the session
    /\ behind' = {u \in behind : StaleReload(u)}
    /\ UNCHANGED << row, fetch, activity, hook, op >>
===============================================================================
