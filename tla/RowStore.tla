------------------------------ MODULE RowStore ------------------------------
(***************************************************************************)
(* One row of a perUser or perKey store (store.ts, rowStore.ts,            *)
(* blobStore.ts) and the browser tabs that get, set and mutate it through  *)
(* their own caches.  A call is a chain of awaits; every await is a point  *)
(* where the other calls, a lock of the session, or a background lazy      *)
(* upgrade can run.  The phases of a call are its awaits:                  *)
(*                                                                         *)
(*   askHash -> gotHash      storage.getHash of loadRevalidated            *)
(*   askRow  -> decode       storage.get, then the decryption              *)
(*   converge                the put of a migrated row, awaited by loadRow *)
(*   transform               fn(current) and encodeBlob                    *)
(*   askPut  -> gotPut       storage.put / storage.putIfMatch              *)
(*                                                                         *)
(* The storage server answers a request in one atomic step; the answer is  *)
(* acted upon in a later one.                                              *)
(***************************************************************************)
EXTENDS RowCodec, FiniteSets

CONSTANTS
    Tabs, Calls,
    TabOf,          \* [Calls -> Tabs]: the tab a call runs in
    Kind,           \* [Calls -> {"get", "set", "mutate"}]
    MaxAttempts,    \* [Calls -> Nat]: max(1, retryOnConflict)
    Fn(_, _),       \* the transform of a call; the data of a set()
    Parse(_),       \* schema.safeParse(...).data: strips, fills defaults, transforms
    PerUser,        \* the store is a perUser one, else perKey
    OptimisticLock, ContentHash,    \* the StoreDef flags
    HasGetHash,     \* a cache is configured and the adapter has getHash
    CodeVersion,    \* StoreDef.version of the deployed code
    InitialRows,
    SessionKeys,    \* the DEKs an unlock can produce
    PreviousKeys,   \* the DEKs before a rotation it keeps as well, or NoKey
    MayLock,        \* the tabs whose session locks during the run
    HandleKind      \* "closure" (createKeyHandle) or "worker"

ASSUME RowStoreAssumption ==
    /\ TabOf \in [Calls -> Tabs]
    /\ Kind \in [Calls -> {"get", "set", "mutate"}]
    /\ MaxAttempts \in [Calls -> Nat \ {0}]
    /\ \A c \in Calls, d \in Data : Fn(c, d) \in Data
    /\ \A d \in Data : Parse(d) \in Data /\ Parse(Parse(d)) = Parse(d)
    /\ PerUser \in BOOLEAN
    /\ OptimisticLock \in BOOLEAN
    /\ ContentHash \in BOOLEAN
    /\ HasGetHash \in BOOLEAN
    /\ OptimisticLock => ContentHash
    /\ OptimisticLock => \A c \in Calls : Kind[c] # "set"
    /\ CodeVersion \in Versions
    /\ InitialRows \subseteq RowOrNone
    /\ SessionKeys \subseteq Keys \ {ZeroKey}
    /\ PreviousKeys \subseteq (Keys \ {ZeroKey}) \cup {NoKey}
    /\ MayLock \subseteq Tabs
    /\ HandleKind \in {"closure", "worker"}

CONSTANT NoEntry    \* an empty cache slot

VARIABLES
    row,        \* the row as the storage holds it
    handle,     \* [Tabs -> key]: KeyProvider.getCryptoHandle
    previous,   \* [Tabs -> key]: KeyProvider.getPreviousCryptoHandle
    cache,      \* [Tabs -> entry]: the tab's CacheAdapter slot of this row
    pc,         \* [Calls -> phase]
    held,       \* [Calls -> key]: the handle the call resolved at its start
    fallback,   \* [Calls -> key]: the previous handle its load captured
    entry,      \* [Calls -> entry]: {data, hash} read from the cache or loaded
    fetched,    \* [Calls -> row]: what the server last answered to a read
    writes,     \* [Calls -> rows]: migrated rows the load has yet to persist
    record,     \* [Calls -> row]: the encoded record about to be put
    tries,      \* [Calls -> Nat]: the loop counter of mutate()
    answer,     \* [Calls -> ...]: what the storage did with the put
    lazy        \* [Calls -> row]: the fire-and-forget upgrade not yet stored

callVars == << pc, held, fallback, entry, fetched, writes, record, tries, answer, lazy >>
sessionVars == << handle, previous >>
vars == << row, handle, previous, cache, callVars >>

Entry == [data : Data, hash : HashOrNone]
Terminal == {"done", "conflict", "error"}
OnTheWire == {"askHash", "gotHash", "askRow", "decode", "converge", "askPut", "gotPut"}
Phases == {"idle", "transform"} \cup OnTheWire \cup Terminal
KeyOrNone == Keys \cup {NoKey}

TypeOK ==
    /\ row \in RowOrNone
    /\ handle \in [Tabs -> KeyOrNone]
    /\ previous \in [Tabs -> KeyOrNone]
    /\ cache \in [Tabs -> Entry \cup {NoEntry}]
    /\ pc \in [Calls -> Phases]
    /\ held \in [Calls -> KeyOrNone]
    /\ fallback \in [Calls -> KeyOrNone]
    /\ entry \in [Calls -> Entry]
    /\ fetched \in [Calls -> RowOrNone]
    /\ writes \in [Calls -> Seq(Row)]
    /\ record \in [Calls -> RowOrNone]
    /\ tries \in [Calls -> Nat]
    /\ answer \in [Calls -> {"none", "ok", "conflict"}]
    /\ lazy \in [Calls -> RowOrNone]

NothingRead == [data |-> Empty, hash |-> NoHash]

Init ==
    /\ row \in InitialRows
    /\ handle \in [Tabs -> SessionKeys]
    /\ previous \in [Tabs -> PreviousKeys]
    /\ cache = [t \in Tabs |-> NoEntry]
    /\ pc = [c \in Calls |-> "idle"]
    /\ held = [c \in Calls |-> NoKey]
    /\ fallback = [c \in Calls |-> NoKey]
    /\ entry = [c \in Calls |-> NothingRead]
    /\ fetched = [c \in Calls |-> NoRow]
    /\ writes = [c \in Calls |-> << >>]
    /\ record = [c \in Calls |-> NoRow]
    /\ tries = [c \in Calls |-> 0]
    /\ answer = [c \in Calls |-> "none"]
    /\ lazy = [c \in Calls |-> NoRow]

-----------------------------------------------------------------------------
(* Loading: loadRevalidated, loadRow, decodeWithCandidates.                *)

Revalidates == ContentHash /\ HasGetHash

(* The synchronous start of a load: a cached entry that has a hash is      *)
(* checked against the server's hash, anything else is fetched in full.    *)
StartLoad(c) ==
    LET slot == cache[TabOf[c]]
        usable == Revalidates /\ slot # NoEntry /\ slot.hash # NoHash
    IN  \/ /\ usable
           /\ pc' = [pc EXCEPT ![c] = "askHash"]
           /\ entry' = [entry EXCEPT ![c] = slot]
           /\ UNCHANGED fallback
        \/ /\ ~usable
           /\ pc' = [pc EXCEPT ![c] = "askRow"]
           /\ fallback' = [fallback EXCEPT ![c] = previous[TabOf[c]]]
           /\ UNCHANGED entry

(* get(), mutate(): the ambient identity is resolved once, then the load. *)
BeginLoad(c) ==
    /\ pc[c] = "idle"
    /\ Kind[c] # "set"
    /\ handle[TabOf[c]] # NoKey
    /\ held' = [held EXCEPT ![c] = handle[TabOf[c]]]
    /\ tries' = [tries EXCEPT ![c] = 1]
    /\ StartLoad(c)
    /\ UNCHANGED << row, sessionVars, cache, fetched, writes, record, answer, lazy >>

(* set(): no read, straight to the encoding. *)
BeginSet(c) ==
    /\ pc[c] = "idle"
    /\ Kind[c] = "set"
    /\ handle[TabOf[c]] # NoKey
    /\ held' = [held EXCEPT ![c] = handle[TabOf[c]]]
    /\ tries' = [tries EXCEPT ![c] = 1]
    /\ pc' = [pc EXCEPT ![c] = "transform"]
    /\ UNCHANGED << row, sessionVars, cache, fallback, entry, fetched, writes,
                    record, answer, lazy >>

(* resolveAmbientIdentity throws LockedSessionError. *)
BeginLocked(c) ==
    /\ pc[c] = "idle"
    /\ handle[TabOf[c]] = NoKey
    /\ pc' = [pc EXCEPT ![c] = "error"]
    /\ UNCHANGED << row, sessionVars, cache, held, fallback, entry, fetched,
                    writes, record, tries, answer, lazy >>

(* The server answers getHash (of its row only the hash is used), or get. *)
ServeHash(c) ==
    /\ pc[c] = "askHash"
    /\ fetched' = [fetched EXCEPT ![c] = row]
    /\ pc' = [pc EXCEPT ![c] = "gotHash"]
    /\ UNCHANGED << row, sessionVars, cache, held, fallback, entry, writes,
                    record, tries, answer, lazy >>

ServeRow(c) ==
    /\ pc[c] = "askRow"
    /\ fetched' = [fetched EXCEPT ![c] = row]
    /\ pc' = [pc EXCEPT ![c] = "decode"]
    /\ UNCHANGED << row, sessionVars, cache, held, fallback, entry, writes,
                    record, tries, answer, lazy >>

AfterLoad(c) == IF Kind[c] = "get" THEN "done" ELSE "transform"

(* Mutant: any hash of the row confirms the cached entry. *)
Confirms_AnyHash(c) == HashOf(fetched[c]) # NoHash

(* serverHash === cached.hash: the entry read before the await is served. *)
Confirms(c) ==
    /\ HashOf(fetched[c]) # NoHash
    /\ HashOf(fetched[c]) = entry[c].hash

CacheHit(c) ==
    /\ pc[c] = "gotHash"
    /\ Confirms(c)
    /\ pc' = [pc EXCEPT ![c] = AfterLoad(c)]
    /\ UNCHANGED << row, sessionVars, cache, held, fallback, entry, fetched,
                    writes, record, tries, answer, lazy >>

CacheMiss(c) ==
    /\ pc[c] = "gotHash"
    /\ ~Confirms(c)
    /\ pc' = [pc EXCEPT ![c] = "askRow"]
    /\ fallback' = [fallback EXCEPT ![c] = previous[TabOf[c]]]
    /\ UNCHANGED << row, sessionVars, cache, held, entry, fetched, writes,
                    record, tries, answer, lazy >>

(* Mutant: a destroyed closure handle answers nothing either. *)
Alive_NeverAnswers(c) == held[c] \notin {NoKey, ZeroKey}

(* Decryption needs a live handle: a call on a destroyed worker never      *)
(* settles, one on a destroyed closure runs under the zeroed key.          *)
Alive(c) == held[c] # NoKey

Decode(c) ==
    /\ pc[c] = "decode"
    /\ Alive(c) \/ ~IsBlob(fetched[c])
    /\ LET r == fetched[c]
           readable == CandidateDecodes(held[c], fallback[c], r, CodeVersion)
       IN  /\ pc' = [pc EXCEPT ![c] = IF readable THEN "converge" ELSE "error"]
           /\ writes' = [writes EXCEPT ![c] =
                            CandidateWrites(held[c], fallback[c], r, CodeVersion)]
    /\ UNCHANGED << row, sessionVars, cache, held, fallback, entry, fetched,
                    record, tries, answer, lazy >>

(* persistMigrated: an unconditional put, awaited before the load answers. *)
ConvergeWrite(c) ==
    /\ pc[c] = "converge"
    /\ writes[c] # << >>
    /\ row' = Head(writes[c])
    /\ writes' = [writes EXCEPT ![c] = Tail(@)]
    /\ UNCHANGED << sessionVars, cache, pc, held, fallback, entry, fetched,
                    record, tries, answer, lazy >>

(* Mutant: saves what the call knew before the load. *)
Upgrade_BeforeLoad(c) ==
    EncodeBlob(held[c], NoEpoch, entry[c].data, CodeVersion, ContentHash)

(* What validateRead and validateWrite of a perKey store make of a         *)
(* content; a perUser one parses later, in get() and mutate().             *)
AsLoaded(d) == IF PerUser THEN d ELSE Parse(d)

(* An upgraded row is saved again under the current handle, in the         *)
(* background: nobody awaits it.                                           *)
Upgrade(c) ==
    EncodeBlob(held[c], NoEpoch, AsLoaded(DataOf(fetched[c])), CodeVersion, ContentHash)

(* The load answers the content with the hash of the record as fetched;    *)
(* loadRevalidated fills the cache slot.                                   *)
FinishLoad(c) ==
    /\ pc[c] = "converge"
    /\ writes[c] = << >>
    /\ LET r == fetched[c]
           loaded == [data |-> AsLoaded(DataOf(r)), hash |-> HashOf(r)]
       IN  /\ entry' = [entry EXCEPT ![c] = loaded]
           /\ lazy' = IF Alive(c) /\ Upgraded(held[c], fallback[c], r, CodeVersion)
                      THEN [lazy EXCEPT ![c] = Upgrade(c)]
                      ELSE lazy
           /\ cache' = IF Revalidates
                       THEN [cache EXCEPT ![TabOf[c]] = loaded]
                       ELSE cache
    /\ pc' = [pc EXCEPT ![c] = AfterLoad(c)]
    /\ UNCHANGED << row, sessionVars, held, fallback, fetched, writes, record,
                    tries, answer >>

-----------------------------------------------------------------------------
(* Writing: the second half of mutate() and set().                         *)

(* What the caller is given: get() and mutate() of a perUser store parse   *)
(* the entry, those of a perKey store hand it out as it lies in the cache. *)
Given(c) == IF PerUser THEN Parse(entry[c].data) ELSE entry[c].data

(* `next` of mutate(), the argument of set(). *)
NextData(c) == Fn(c, Given(c))

(* validateWrite, then encodeBlob: what is hashed and stored is parsed. *)
NextRecord(c) ==
    EncodeBlob(held[c], NoEpoch, Parse(NextData(c)), CodeVersion, ContentHash)

(* Mutant: any hashed row is taken as unchanged. *)
SkipsWrite_Hashed(c) ==
    Kind[c] = "mutate" /\ ~OptimisticLock /\ ContentHash /\ entry[c].hash # NoHash

(* mutate() without the lock writes nothing when the hash did not change. *)
SkipsWrite(c) ==
    /\ Kind[c] = "mutate"
    /\ ~OptimisticLock
    /\ ContentHash
    /\ entry[c].hash # NoHash
    /\ NextRecord(c).hash = entry[c].hash

SkipWrite(c) ==
    /\ pc[c] = "transform"
    /\ Alive(c)
    /\ SkipsWrite(c)
    /\ pc' = [pc EXCEPT ![c] = "done"]
    /\ UNCHANGED << row, sessionVars, cache, held, fallback, entry, fetched,
                    writes, record, tries, answer, lazy >>

(* The hash and the ciphertext of a record need the same handle: one step. *)
Encode(c) ==
    /\ pc[c] = "transform"
    /\ Alive(c)
    /\ ~SkipsWrite(c)
    /\ record' = [record EXCEPT ![c] = NextRecord(c)]
    /\ pc' = [pc EXCEPT ![c] = "askPut"]
    /\ UNCHANGED << row, sessionVars, cache, held, fallback, entry, fetched,
                    writes, tries, answer, lazy >>

(* put, or putIfMatch with the hash the load returned. *)
ServePut(c) ==
    /\ pc[c] = "askPut"
    /\ \/ /\ OptimisticLock => Matches(row, entry[c].hash)
          /\ row' = record[c]
          /\ answer' = [answer EXCEPT ![c] = "ok"]
       \/ /\ OptimisticLock /\ ~Matches(row, entry[c].hash)
          /\ answer' = [answer EXCEPT ![c] = "conflict"]
          /\ UNCHANGED row
    /\ pc' = [pc EXCEPT ![c] = "gotPut"]
    /\ UNCHANGED << sessionVars, cache, held, fallback, entry, fetched, writes,
                    record, tries, lazy >>

(* Mutants: the new hash with the content that was read; the record.       *)
Written_OldData(c) == [data |-> entry[c].data, hash |-> record[c].hash]
Written_Record(c) == record[c]

(* What writeThroughCache stores: mutate() its `next` as fn returned it,   *)
(* beside the hash of what the schema made of it; set() the parsed content *)
(* with a hash computed again, once the put is acknowledged.               *)
Written(c) ==
    IF Kind[c] = "set"
    THEN [data |-> record[c].data, hash |-> NextRecord(c).hash]
    ELSE [data |-> NextData(c), hash |-> record[c].hash]

(* writeThroughCache, then the call returns. *)
PutDone(c) ==
    /\ pc[c] = "gotPut"
    /\ answer[c] = "ok"
    /\ Kind[c] = "set" /\ ContentHash => Alive(c)
    /\ cache' = [cache EXCEPT ![TabOf[c]] = Written(c)]
    /\ pc' = [pc EXCEPT ![c] = "done"]
    /\ UNCHANGED << row, sessionVars, held, fallback, entry, fetched, writes,
                    record, tries, answer, lazy >>

(* A conflict with attempts left: read again and apply fn to that. *)
RetryPut(c) ==
    /\ pc[c] = "gotPut"
    /\ answer[c] = "conflict"
    /\ tries[c] < MaxAttempts[c]
    /\ tries' = [tries EXCEPT ![c] = @ + 1]
    /\ StartLoad(c)
    /\ UNCHANGED << row, sessionVars, cache, held, fetched, writes, record,
                    answer, lazy >>

(* OptimisticLockConflictError. *)
GiveUp(c) ==
    /\ pc[c] = "gotPut"
    /\ answer[c] = "conflict"
    /\ tries[c] >= MaxAttempts[c]
    /\ pc' = [pc EXCEPT ![c] = "conflict"]
    /\ UNCHANGED << row, sessionVars, cache, held, fallback, entry, fetched,
                    writes, record, tries, answer, lazy >>

-----------------------------------------------------------------------------
(* The background save of an upgraded row: an unconditional put, whenever  *)
(* it arrives; a failure is only logged.                                   *)
LazySave(c) ==
    /\ lazy[c] # NoRow
    /\ row' = lazy[c]
    /\ lazy' = [lazy EXCEPT ![c] = NoRow]
    /\ UNCHANGED << sessionVars, cache, pc, held, fallback, entry, fetched,
                    writes, record, tries, answer >>

LazyFail(c) ==
    /\ lazy[c] # NoRow
    /\ lazy' = [lazy EXCEPT ![c] = NoRow]
    /\ UNCHANGED << row, sessionVars, cache, pc, held, fallback, entry, fetched,
                    writes, record, tries, answer >>

(* A storage call rejects, before or after it took effect. *)
NetworkError(c) ==
    /\ pc[c] \in OnTheWire
    /\ pc' = [pc EXCEPT ![c] = "error"]
    /\ UNCHANGED << row, sessionVars, cache, held, fallback, entry, fetched,
                    writes, record, tries, answer, lazy >>

(* Mutant: a worker handle is zeroed in place too. *)
Destroyed_InPlace == ZeroKey

(* The session: lock() destroys the handles, under the calls that still    *)
(* hold them, and config.ts wipes the cache on the transition.             *)
Destroyed == IF HandleKind = "closure" THEN ZeroKey ELSE NoKey
InFlight(c) == pc[c] \notin {"idle"} \cup Terminal

Lock(t) ==
    /\ t \in MayLock
    /\ handle[t] # NoKey
    /\ handle' = [handle EXCEPT ![t] = NoKey]
    /\ previous' = [previous EXCEPT ![t] = NoKey]
    /\ cache' = [cache EXCEPT ![t] = NoEntry]
    /\ held' = [c \in Calls |-> IF TabOf[c] = t /\ InFlight(c)
                                THEN Destroyed ELSE held[c]]
    /\ fallback' = [c \in Calls |-> IF TabOf[c] = t /\ InFlight(c) /\ fallback[c] # NoKey
                                    THEN Destroyed ELSE fallback[c]]
    /\ UNCHANGED << row, pc, entry, fetched, writes, record, tries, answer, lazy >>

Unlock(t) ==
    /\ handle[t] = NoKey
    /\ \E k \in SessionKeys, p \in PreviousKeys :
          /\ handle' = [handle EXCEPT ![t] = k]
          /\ previous' = [previous EXCEPT ![t] = p]
    /\ UNCHANGED << row, cache, callVars >>

-----------------------------------------------------------------------------
Load(c) ==
    \/ BeginLoad(c) \/ BeginLocked(c) \/ ServeHash(c) \/ ServeRow(c)
    \/ CacheHit(c) \/ CacheMiss(c) \/ Decode(c) \/ ConvergeWrite(c) \/ FinishLoad(c)
Write(c) ==
    \/ BeginSet(c) \/ SkipWrite(c) \/ Encode(c) \/ ServePut(c)
    \/ PutDone(c) \/ RetryPut(c) \/ GiveUp(c)
Step(c) == Load(c) \/ Write(c)

Next ==
    \/ \E c \in Calls : Step(c) \/ LazySave(c) \/ LazyFail(c) \/ NetworkError(c)
    \/ \E t \in Tabs : Lock(t) \/ Unlock(t)

Spec == Init /\ [][Next]_vars

(* The event loop runs every continuation and the server answers every     *)
(* request, or the request rejects.                                        *)
FairSpec == Spec /\ \A c \in Calls : WF_vars(Step(c)) /\ WF_vars(LazySave(c))

-----------------------------------------------------------------------------
(* What a caller may be given for a row that holds d.  For a perUser store *)
(* that is what the schema makes of d.  The cache of a perKey store may    *)
(* hold what a mutate() of this tab passed to the schema instead: only     *)
(* what the schema makes of the two is the same.                           *)
Readings(d) == IF PerUser THEN {Parse(d)} ELSE {e \in Data : Parse(e) = Parse(d)}

(* The implementation of AtomicRow: what the storage acknowledged.         *)
(* A call the storage answered "ok" has committed, also when the answer    *)
(* never reached it.                                                       *)
Committed == {c \in Calls : answer[c] = "ok"}
Atomic == INSTANCE AtomicRow
            WITH value <- DataOf(row), committed <- Committed,
                 InitialValues <- {DataOf(r) : r \in InitialRows}

(* An optimisticLock store is an atomic row: every acknowledged mutate()   *)
(* applied its transform once, to a reading of the content the row had at  *)
(* that very instant, and nothing else changed the content - although the  *)
(* transform ran on a copy read several awaits earlier, possibly from a    *)
(* cache shared with other calls (mutate, loadRevalidated, saveRowIfMatch).*)
Linearizable == Atomic!Spec

(* mutate() gives up with a conflict only when other calls really wrote:   *)
(* at least one of them during every attempt it was allowed.               *)
NoSpuriousConflict ==
    \A c \in Calls : pc[c] = "conflict" =>
        Cardinality(Committed \ {c}) >= MaxAttempts[c]

(* What a load hands to the caller is a reading of the content the row had *)
(* when the server answered, also when it comes from the cache, where a    *)
(* mutate() left data the schema never saw beside the hash of what it made *)
(* of them, and the answer was only a hash (loadRevalidated).              *)
LoadIsSnapshot ==
    \A c \in Calls :
        (pc[c] \in {"transform", "askPut"} \/ (pc[c] = "done" /\ Kind[c] = "get"))
        /\ Kind[c] # "set"
        => Given(c) \in Readings(DataOf(fetched[c]))

(* A cached copy that the server's hash would confirm is, once the schema  *)
(* has parsed it, the content of the row: revalidation never serves        *)
(* another call's leftovers.                                               *)
CacheNeverMasks ==
    \A t \in Tabs :
        cache[t] # NoEntry /\ cache[t].hash # NoHash /\ cache[t].hash = HashOf(row)
        => Parse(cache[t].data) = Parse(DataOf(row))

(* mutate() of a store without the lock leaves the write out only when it  *)
(* would have put back the content that the row had when it was read.      *)
SkipsOnlyNoOps ==
    \A c \in Calls :
        Kind[c] = "mutate" /\ pc[c] = "done" /\ answer[c] = "none"
        => \E d \in Readings(DataOf(fetched[c])) : Parse(Fn(c, d)) = DataOf(fetched[c])

(* The stored row can be decrypted by one of the account's keys: no write  *)
(* was encoded with a key that its session had already destroyed.          *)
RowReadable == IsBlob(row) => row.dek \in SessionKeys \cup PreviousKeys

(* Reading never changes what the row says, whatever it converts: only     *)
(* what the schema would strip or fill in when it is read (an upgraded row *)
(* of a perKey store is saved as parsed).                                  *)
ReadsPreserveData == [][Parse(DataOf(row')) = Parse(DataOf(row))]_row

(* Every call comes to an end. *)
Settles == \A c \in Calls : <>(pc[c] \in Terminal)

-----------------------------------------------------------------------------
(* Why Linearizable holds: the inductive invariant of a locked store whose *)
(* rows are current.  A hash is of the content of its row, and of what the *)
(* schema makes of a cache slot's or a call's; and a row without a hash is *)
(* still the initial one, since every write of such a store has a hash.    *)
SameParsed(d, e) == Parse(d) = Parse(e)
BindsData(h, d) == h # NoHash => SameParsed(h.data, d)

SoundRow(r) ==
    r # NoRow =>
        /\ IsBlob(r) => r.aad = "canonical" /\ r.ver = CodeVersion
        /\ r.hash # NoHash => IsBlob(r) /\ r.hash.data = r.data

NothingToConvert(c) ==
    writes[c] = << >> /\ fallback[c] = NoKey /\ lazy[c] = NoRow

(* Read without a hash while the row still has none: the row is unchanged. *)
StillUnhashed(c, d) ==
    HashOf(fetched[c]) = NoHash /\ HashOf(row) = NoHash => SameParsed(d, DataOf(row))

ReadSound(c) ==
    /\ SoundRow(fetched[c])
    /\ BindsData(entry[c].hash, entry[c].data)
    /\ pc[c] \in {"decode", "converge"} => StillUnhashed(c, DataOf(fetched[c]))
    /\ pc[c] \in {"transform", "askPut"} =>
          /\ entry[c].hash = HashOf(fetched[c])
          /\ SameParsed(entry[c].data, DataOf(fetched[c]))
          /\ StillUnhashed(c, entry[c].data)
    /\ pc[c] = "done" /\ Kind[c] = "get" => SameParsed(entry[c].data, DataOf(fetched[c]))

WriteSound(c) ==
    /\ pc[c] \in {"transform", "askPut", "gotPut"} => Kind[c] # "get"
    /\ pc[c] \in {"askPut", "gotPut"} =>
          /\ record[c] # NoRow
          /\ SoundRow(record[c])
          /\ record[c].aad = "canonical"
          /\ record[c].hash # NoHash
          /\ record[c].data = Parse(NextData(c))
    /\ pc[c] \notin {"gotPut", "done", "error"} => answer[c] # "ok"

IInv ==
    /\ SoundRow(row)
    /\ \A t \in Tabs : /\ previous[t] = NoKey
                       /\ cache[t] # NoEntry => BindsData(cache[t].hash, cache[t].data)
    /\ \A c \in Calls : NothingToConvert(c) /\ ReadSound(c) /\ WriteSound(c)
=============================================================================
