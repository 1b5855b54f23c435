---------------------------- MODULE ReactBindings -----------------------------
(***************************************************************************)
(* The React bindings of a perKey store and of a collection over one key   *)
(* provider and one cache: the session locks and unlocks under both.       *)
(***************************************************************************)
EXTENDS KeyedHooks, CollectionHook

vars == << sessionVars, keyedVars, collectionVars >>

Init == SessionInit /\ KeyedInit /\ CollectionInit

-----------------------------------------------------------------------------
(* Steps nothing outside the app decides: React's effects and the network.  *)

KeyedInternal ==
    \/ \E h \in Hooks : EffectSkips(h) \/ EffectFetches(h)
    \/ \E u \in Users :
          \/ \E t \in Targets : FetchReads(u, t)
          \/ \E k \in Keys : KeyFetchResolves(u, k)
          \/ RangeFetchResolves(u)
    \/ \E i \in Ops :
          \/ GetHash(i) \/ ReadsRows(i)
          \/ ReloadResolves(i) \/ RangeReloadResolves(i) \/ MutateComputes(i)
          \/ Lands(i) \/ Refused(i)
          \/ SaveResolves(i) \/ WriteResolves(i) \/ ConflictResolves(i)

CollectionInternal ==
    \/ ListSkipped \/ ListStarts \/ ListReads \/ ListResolves
    \/ \E i \in Edits :
          EditLands(i) \/ EditRefused(i) \/ EditResolves(i) \/ EditConflicts(i)

Internal ==
    \/ KeyedInternal /\ UNCHANGED << sessionVars, collectionVars >>
    \/ CollectionInternal /\ UNCHANGED << sessionVars, keyedVars >>

\* A call whose handle was destroyed fails for nothing, another for a fault.
KeyedFault ==
    /\ \/ \E u \in Users, t \in Targets :
              FetchFails(u, t) /\ Fault(fetch[u][t].session)
       \/ \E i \in Ops : Fails(i) /\ Fault(op[i].session)
    /\ UNCHANGED collectionVars
CollectionFault ==
    /\ \/ ListFails /\ Fault(view.seen)
       \/ \E i \in Edits : EditFails(i) /\ Fault(edit[i].session)
    /\ UNCHANGED keyedVars

KeyedCall ==
    /\ \E i \in Ops : Save(i) \/ Write(i) \/ Mutate(i) \/ Reload(i) \/ RangeReload(i)
    /\ UNCHANGED << sessionVars, collectionVars >>
CollectionCall ==
    /\ \E i \in Edits : EditBegins(i)
    /\ UNCHANGED << sessionVars, keyedVars >>

Leave ==
    /\ Spend("leaves")
    /\ \/ \E h \in Hooks : Unmount(h) /\ UNCHANGED collectionVars
       \/ ViewUnmounts /\ UNCHANGED keyedVars

\* Rows no call of the plan touches are left alone: nobody would notice.
OtherDevice ==
    /\ Spend("foreign")
    /\ \E u \in Range(plan.users) :
          \/ /\ \E k \in UNION {KeysOf(i) : i \in Ops} : ForeignWrite(u, k)
             /\ UNCHANGED collectionVars
          \/ /\ \E i \in Edits : ForeignEdit(u, IdOf(i)) \/ ForeignRemove(u, IdOf(i))
             /\ UNCHANGED keyedVars

SessionLocks == Lock /\ WipeKeyed /\ WipeCollection
SessionUnlocks == Unlock /\ UNCHANGED << keyedVars, collectionVars >>

Next ==
    \/ Internal
    \/ KeyedFault \/ CollectionFault
    \/ KeyedCall \/ CollectionCall
    \/ Leave \/ OtherDevice
    \/ SessionLocks \/ SessionUnlocks

\* Effects run and promises settle; calls, locks and faults need not happen.
Spec == Init /\ [][Next]_vars /\ WF_vars(Internal)

-----------------------------------------------------------------------------
(* Properties.                                                              *)

\* The types of the variables; inFlightCount is the number of fetches in the
\* two registries (useIsAnyKeyedStoreLoading shows it).
TypeOK ==
    /\ SessionTypeOK
    /\ row \in [Users -> [Keys -> Values]]
    /\ slot \in [Users -> [Keys -> Entries \cup {NoSlot}]]
    /\ epoch \in [Users -> Nat]
    /\ range \in [Users -> RangeEntries \cup {NoSlot}]
    /\ fetch \in [Users -> [Targets -> Fetches \cup {NoFetch}]]
    /\ activity = Cardinality({ut \in Users \X Targets : fetch[ut[1]][ut[2]] # NoFetch})
    /\ hook \in [Hooks -> HookStates]
    /\ op \in [Ops -> OpStates]
    /\ crowd \in [Users -> [Keys -> Crowds]]
    /\ record \in [Users -> [Ids -> ItemValues]]
    /\ items \in [Users -> Lists \cup {NoList}]
    /\ view \in Views
    /\ edit \in [Edits -> EditStates]
    /\ behind \in SUBSET Users /\ disorder \in SUBSET Users /\ strayed \in SUBSET Users

AtRest ==
    /\ \A h \in Hooks : Rendered(h)
    /\ \A u \in Users, t \in Targets : fetch[u][t] = NoFetch
    /\ \A i \in Ops : ~InFlight(i)
    /\ ViewRendered /\ view.listing = "no"
    /\ \A i \in Edits : ~EditInFlight(i)

Me == UserOf(session)
Mounted(h) == hook[h].seen # Gone

\* No hook is left loading: at rest every mounted hook of an unlocked session
\* has something to show or an error, whichever fetch it joined and whatever
\* was cancelled, locked or unmounted on the way (useKeyedStore.ts:103-125,
\* useKeyedStoreRange.ts:149-176, useCollectionStore.ts:63-79).
LoadedAtRest ==
    AtRest /\ unlocked =>
        /\ \A h \in Hooks : Mounted(h) =>
              \/ hook[h].error
              \/ IF TargetOf[h] = RangeTarget THEN range[Me] # NoSlot
                 ELSE slot[Me][TargetOf[h]] # NoSlot
        /\ view.seen # Unmounted => view.error \/ items[Me] # NoList

\* At rest the slot of a key shows the row, up to what the schema makes of
\* it, after any sequence of calls of which no two met on the key and whose
\* answers arrived: a save that was refused or failed was rolled back, and a
\* reload makes up for the rest (useKeyedStore.ts:127-170, store.ts:781-888).
KeyCurrentAtRest ==
    AtRest /\ unlocked =>
        \A k \in Keys : slot[Me][k] # NoSlot /\ crowd[Me][k] = "clear"
                        => Content(slot[Me][k]) = row[Me][k]

\* The hash of an entry vouches for what the schema makes of its data, the
\* content of the row with that hash: loadRevalidated serves an entry whose
\* hash is the server's, so an entry at rest must not pair the hash of one
\* write with the data of another.  (The data itself may differ from that
\* content: save() and mutate() leave what they were given beside the hash of
\* what was stored, useKeyedStore.ts:146, store.ts:816.)  Two saves that meet
\* on a key pair them (the second rolls back to what the first showed;
\* useKeyedStore.ts:134-152) and are left out; what one save, its failure or
\* its rollback leaves is honest.
HashVouches ==
    AtRest =>
        /\ \A u \in Users, k \in Keys : slot[u][k] # NoSlot /\ crowd[u][k] # "mixed"
              => slot[u][k].hash \in {Null, Content(slot[u][k])}
        /\ \A u \in Users \ disorder : items[u] # NoList =>
              \A x \in DOMAIN items[u].all :
                  items[u].all[x].hash \in {None, Content(items[u].all[x])}

\* At rest a mounted range shows the rows of the server after every set,
\* mutate and createMany: the epoch they move brings the hook to fetch again
\* (store.ts:678-686, useKeyedStoreRange.ts:149-176).  Left out (behind) are
\* writes that move no epoch, a fetch that joined one from before the write,
\* and rows that outlived the session or the epoch they were fetched for.
RangeCurrentAtRest ==
    AtRest /\ unlocked =>
        \A h \in Hooks :
            Mounted(h) /\ TargetOf[h] = RangeTarget /\ range[Me] # NoSlot
            /\ ~hook[h].error /\ Me \notin behind
            => range[Me].rows = row[Me]

\* Nothing an effect or a reload() reads enters the cache of a user who is
\* not signed in: effects are cleaned up, reloads ask for the identity after
\* their await (useKeyedStore.ts:121-123, 163-168).  Left out are an effect
\* whose fetch settles before React rendered the lock, and loadRevalidated,
\* which fills the slot of a hashed store by itself.
OnlyCallsFillLocked ==
    \A u \in Users : ~SignedIn(u) =>
        /\ \A k \in Keys : slot[u][k] # NoSlot => slot[u][k].by \notin {"effect", "reload"}
        /\ range[u] # NoSlot => range[u].by = "gap"
        /\ items[u] # NoList => items[u].by # "effect"

\* At rest the list shows the rows, up to what the schema makes of it, after
\* any sequence of create, update and remove of which no two met
\* (useCollectionStore.ts:93-169).
ItemsCurrentAtRest ==
    AtRest /\ unlocked /\ items[Me] # NoList /\ Me \notin disorder \cup strayed =>
        [x \in Ids |-> IF x \in DOMAIN items[Me].all THEN Content(items[Me].all[x]) ELSE NoRow]
            = record[Me]

\* Call i began with no load to go by: its slot was empty, or showed what a
\* save with nothing to roll back to had left there.
NeverLoaded(i) ==
    op[i].base = NoSlot \/ (op[i].base.hash = Null /\ Content(op[i].base) \in Ops)

\* The write of a save lands on no row, on one that was never hashed and with
\* no load to go by, or on the one its slot showed.
SaveReplacesShown(i) ==
    LET u == OpUser(i)
        k == TheKey(i)
    IN  /\ CallOf(i) = "save" /\ op[i].stage # "landed" /\ op'[i].stage = "landed"
        /\ crowd[u][k] # "mixed"
        => \/ row[u][k] = Absent
           \/ NeverLoaded(i) /\ HashOf(row[u][k]) = Null
           \/ op[i].base # NoSlot /\ Content(op[i].base) = row[u][k]
UpdateReplacesShown(i) ==
    LET u == EditUser(i)
        x == IdOf(i)
        list == edit[i].previous
    IN  /\ EditOf(i) = "update" /\ edit[i].stage # "landed" /\ edit'[i].stage = "landed"
        /\ u \notin disorder
        => \/ record[u][x] = NoRow
           \/ x \in DOMAIN list /\ Content(list[x]) = record[u][x]

\* A save or update of an optimisticLock store replaces only what its slot
\* showed when it was called, or nothing (with no load to go by it also
\* replaces a row that was never hashed, types.ts:121-128): the hash that the
\* hooks thread from fetch to save to save stands for the content the user
\* saw, up to what the schema makes of it (useKeyedStore.ts:133-145,
\* useCollectionStore.ts:112-138).  Where the hash in the slot does not vouch
\* for its data (HashVouches), it may not.
LockedReplacesShown ==
    [][plan.kind = "locked" =>
        /\ \A i \in Ops : SaveReplacesShown(i)
        /\ \A i \in Edits : UpdateReplacesShown(i)]_vars

\* Everything settles: every hook renders, every fetch leaves its registry
\* and every call returns (the counter of useIsAnyKeyedStoreLoading too).
Settles == <>[]AtRest
===============================================================================
