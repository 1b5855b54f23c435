---------------------------- MODULE StoreRotation ----------------------------
(***************************************************************************)
(* A DEK rotation over the rows of a keyed store: the driver takes the     *)
(* account's rotation guard (dekRotationCoordinator), re-encrypts every    *)
(* row of one listing (rotateEpoch), lists and checks them all again       *)
(* (verifyRotatedRows), and retires the old key when                       *)
(* checkRetirementEligibility agrees.  Or it takes the engine made for     *)
(* larger tables: batches of rows re-encrypted with a conditional write    *)
(* (migrateRotationBatch) and checked page by page                         *)
(* (verifyRowsDecryptAtEpoch).  Meanwhile other sessions of the account,   *)
(* some of which have not heard of the rotation, read and write rows with  *)
(* the handles they have.                                                  *)
(*                                                                         *)
(* The loop around these functions belongs to the application: it runs     *)
(* them until the rows are eligible, and may die and be resumed at any     *)
(* point with the same new key.                                            *)
(***************************************************************************)
EXTENDS RowCodec, FiniteSets

CONSTANTS
    RowIds, Sessions,
    OldKey, NewKey,         \* the DEKs of the epochs before and after
    NewEpoch,
    Engines,                \* what drives the migration: "store", "batch"
    BatchSize,              \* rows of a batch and of a page
    Rank,                   \* [RowIds -> Nat]: ORDER BY of the pages
    Change(_, _),           \* what a session's mutate() does to a content
    OptimisticLock,         \* the StoreDef flags; contentHash is set
    CodeVersion,
    InitialRows,            \* [RowIds -> row] the rotation may find
    MaxCalls,               \* bound on the calls of a session
    NoCall

ASSUME StoreRotationAssumption ==
    /\ OldKey \in Keys \ {ZeroKey} /\ NewKey \in Keys \ {ZeroKey, OldKey}
    /\ NewEpoch \in Epochs
    /\ Engines \subseteq {"store", "batch"}
    /\ BatchSize \in Nat \ {0}
    /\ Rank \in [RowIds -> Nat \ {0}]
    /\ \A j, k \in RowIds : Rank[j] = Rank[k] => j = k
    /\ \A s \in Sessions, d \in Data : Change(s, d) \in Data
    /\ OptimisticLock \in BOOLEAN
    /\ CodeVersion \in Versions
    /\ InitialRows \subseteq [RowIds -> RowOrNone]
    /\ MaxCalls \in Nat

(* The account's rows are sealed under its current key, by this code or by *)
(* older code, and a hash is the one of the row it is stored with.         *)
ASSUME InitialRowsAssumption ==
    \A f \in InitialRows, k \in RowIds :
        LET r == f[k]
        IN  r # NoRow =>
            /\ r.dek = OldKey /\ r.epoch # NewEpoch /\ r.ver <= CodeVersion
            /\ r.aad = "legacy" => HasLegacyAAD
            /\ r.hash # NoHash => r.hash = ContentHashOf(r.dek, r.ver, r.data)

VARIABLES
    rows,
    handle, previous,   \* [Sessions -> key], as in RowStore
    call,               \* [Sessions -> the get or mutate in flight]
    late,               \* [Sessions -> the lazy upgrade not yet stored]
    calls,              \* [Sessions -> how many calls it has begun]
    pending,            \* profiles.pending_dek_epoch is set
    driver,             \* the phase of the orchestration; "off" when it died
    listing,            \* the listed rows it has yet to handle
    engine,             \* the functions the application drives it with
    cursor,             \* afterKey: the rank of the last key of a page
    retired             \* the wraps of the old key are deleted

(* History: since the driver listed the rows for the verification, no      *)
(* session has been able to write under the old key.                       *)
VARIABLE quiet

sessionVars == << handle, previous, call, late, calls >>
batchVars == << engine, cursor >>
driverVars == << pending, driver, listing, retired, batchVars >>
vars == << rows, sessionVars, driverVars, quiet >>

SessionKeys == {OldKey, NewKey, NoKey}
Call == [key : RowIds, held : {OldKey, NewKey}, expected : HashOrNone,
         writes : Seq(Row), upgrade : RowOrNone, record : RowOrNone]
LateSave == [key : RowIds, record : Row]

TypeOK ==
    /\ rows \in [RowIds -> RowOrNone]
    /\ handle \in [Sessions -> SessionKeys]
    /\ previous \in [Sessions -> {OldKey, NoKey}]
    /\ call \in [Sessions -> Call \cup {NoCall}]
    /\ late \in [Sessions -> LateSave \cup {NoCall}]
    /\ calls \in [Sessions -> 0 .. MaxCalls]
    /\ pending \in BOOLEAN /\ retired \in BOOLEAN /\ quiet \in BOOLEAN
    /\ driver \in {"off", "list", "migrate", "verify", "retire", "done"}
    /\ listing \in [RowIds -> RowOrNone]
    /\ engine \in Engines
    /\ cursor \in Nat

NothingListed == [k \in RowIds |-> NoRow]

Init ==
    /\ rows \in InitialRows
    /\ handle \in [Sessions -> {OldKey, NoKey}]
    /\ previous = [s \in Sessions |-> NoKey]
    /\ call = [s \in Sessions |-> NoCall]
    /\ late = [s \in Sessions |-> NoCall]
    /\ calls = [s \in Sessions |-> 0]
    /\ pending = FALSE
    /\ driver = "off"
    /\ listing = NothingListed
    /\ engine \in Engines
    /\ cursor = 0
    /\ retired = FALSE
    /\ quiet = FALSE

-----------------------------------------------------------------------------
(* The sessions.                                                           *)

(* Mutant: a session that has adopted the rotation adopts it again. *)
AdoptRotation_Twice(s) ==
    /\ pending \/ retired
    /\ handle[s] # NoKey
    /\ handle' = [handle EXCEPT ![s] = NewKey]
    /\ previous' = [previous EXCEPT ![s] = handle[s]]
    /\ UNCHANGED << rows, call, late, calls, driverVars, quiet >>

(* beginRotation or consumePendingDeviceWrap of the controller: the new    *)
(* handle becomes current, the current one stays as the previous.  A tab   *)
(* may learn of the rotation late, even after the retirement.              *)
AdoptRotation(s) ==
    /\ pending \/ retired
    /\ handle[s] = OldKey
    /\ handle' = [handle EXCEPT ![s] = NewKey]
    /\ previous' = [previous EXCEPT ![s] = handle[s]]
    /\ UNCHANGED << rows, call, late, calls, driverVars, quiet >>

(* completeRotationSession. *)
FinishSession(s) ==
    /\ retired
    /\ previous[s] # NoKey
    /\ previous' = [previous EXCEPT ![s] = NoKey]
    /\ UNCHANGED << rows, handle, call, late, calls, driverVars, quiet >>

(* lock(): the handles are gone; a worker's calls in flight never settle.  *)
Lock(s) ==
    /\ handle[s] # NoKey
    /\ handle' = [handle EXCEPT ![s] = NoKey]
    /\ previous' = [previous EXCEPT ![s] = NoKey]
    /\ UNCHANGED << rows, call, late, calls, driverVars, quiet >>

(* Unlocking gives the key of the wrap at hand: the old one's as long as   *)
(* it has not been retired; the new one's after the handshake, and with it *)
(* the old one as the previous handle where both wraps are stored.         *)
CanUnlock(k) == IF k = OldKey THEN ~retired ELSE pending \/ retired

Unlock(s) ==
    /\ handle[s] = NoKey
    /\ \E k \in {OldKey, NewKey}, p \in {OldKey, NoKey} :
          /\ CanUnlock(k)
          /\ p = OldKey => k = NewKey /\ ~retired
          /\ handle' = [handle EXCEPT ![s] = k]
          /\ previous' = [previous EXCEPT ![s] = p]
          /\ quiet' = (quiet /\ k # OldKey)
    /\ UNCHANGED << rows, call, late, calls, driverVars >>

(* Once the conversions are stored the lazy upgrade is sent off, not       *)
(* awaited, and a get() is over.                                           *)
Continue(s, c) ==
    /\ late' = IF c.writes = << >> /\ c.upgrade # NoRow
               THEN [late EXCEPT ![s] = [key |-> c.key, record |-> c.upgrade]]
               ELSE late
    /\ call' = [call EXCEPT ![s] = IF c.writes = << >> /\ c.record = NoRow THEN NoCall ELSE c]

(* get() and mutate() up to the first write: the handles are captured, the *)
(* row is read and decoded (decodeWithCandidates), and a mutate() prepares *)
(* its record.  A row that decodes under neither key ends the call, and so *)
(* does a get() that finds nothing to convert: neither has a step here.    *)
BeginCall(s, k, mutates) ==
    LET r == rows[k]
        cur == handle[s]
        prev == previous[s]
        upgraded == Upgraded(cur, prev, r, CodeVersion)
        sealed(d) == EncodeBlob(cur, NoEpoch, d, CodeVersion, TRUE)
        c == [key |-> k, held |-> cur, expected |-> HashOf(r),
              writes |-> CandidateWrites(cur, prev, r, CodeVersion),
              upgrade |-> IF upgraded THEN sealed(DataOf(r)) ELSE NoRow,
              record |-> IF mutates THEN sealed(Change(s, DataOf(r))) ELSE NoRow]
    IN  /\ call[s] = NoCall
        /\ late[s] = NoCall
        /\ cur # NoKey
        /\ calls[s] < MaxCalls
        /\ CandidateDecodes(cur, prev, r, CodeVersion)
        /\ c.writes = << >> /\ ~upgraded => mutates
        /\ calls' = [calls EXCEPT ![s] = @ + 1]
        /\ Continue(s, c)
        /\ UNCHANGED << rows, handle, previous, driverVars, quiet >>

(* persistMigrated: the converted rows, one unconditional put at a time.   *)
ConvergeWrite(s) ==
    /\ call[s] # NoCall
    /\ call[s].writes # << >>
    /\ rows' = [rows EXCEPT ![call[s].key] = Head(call[s].writes)]
    /\ Continue(s, [call[s] EXCEPT !.writes = Tail(@)])
    /\ UNCHANGED << handle, previous, calls, driverVars, quiet >>

(* A mutate() writes its record, or loses the optimistic lock. *)
MutateWrites(s) ==
    /\ call[s] # NoCall
    /\ call[s].writes = << >>
    /\ call' = [call EXCEPT ![s] = NoCall]
    /\ LET c == call[s]
           wins == OptimisticLock => Matches(rows[c.key], c.expected)
       IN  rows' = IF wins THEN [rows EXCEPT ![c.key] = c.record] ELSE rows
    /\ UNCHANGED << handle, previous, late, calls, driverVars, quiet >>

(* The tab is closed, or its handle was destroyed, or the network failed.  *)
AbandonCall(s) ==
    /\ call[s] # NoCall
    /\ call' = [call EXCEPT ![s] = NoCall]
    /\ UNCHANGED << rows, handle, previous, late, calls, driverVars, quiet >>

(* The background save of an upgraded row arrives, or fails. *)
LateSaved(s) ==
    /\ late[s] # NoCall
    /\ rows' = [rows EXCEPT ![late[s].key] = late[s].record]
    /\ late' = [late EXCEPT ![s] = NoCall]
    /\ UNCHANGED << handle, previous, call, calls, driverVars, quiet >>

LateFailed(s) ==
    /\ late[s] # NoCall
    /\ late' = [late EXCEPT ![s] = NoCall]
    /\ UNCHANGED << rows, handle, previous, call, calls, driverVars, quiet >>

-----------------------------------------------------------------------------
(* The driver.                                                             *)

(* beginRotation: the atomic guard of the account. *)
BeginRotation ==
    /\ ~pending /\ ~retired
    /\ pending' = TRUE
    /\ driver' = "list"
    /\ UNCHANGED << rows, sessionVars, listing, retired, batchVars, quiet >>

(* The driver dies; another observer of the heartbeat takes over.  A put   *)
(* of the dead driver that was on the wire is one made before it died.     *)
(* So ends a batch whose saveIfMatch is rejected: nothing catches it.      *)
DriverDies ==
    /\ driver \notin {"off", "done"}
    /\ driver' = "off"
    /\ listing' = NothingListed
    /\ cursor' = 0
    /\ UNCHANGED << rows, sessionVars, pending, retired, engine, quiet >>

ResumeRotation ==
    /\ pending /\ driver = "off"
    /\ driver' = "list"
    /\ UNCHANGED << rows, sessionVars, pending, listing, retired, batchVars, quiet >>

(* rotateEpoch: storage.listAll, then row by row what was listed is        *)
(* re-encrypted and put back, unconditionally.                             *)
ListRows ==
    /\ driver = "list" /\ engine = "store"
    /\ driver' = "migrate"
    /\ listing' = rows
    /\ UNCHANGED << rows, sessionVars, pending, retired, batchVars, quiet >>

MustMigrate(r) ==
    ~AlreadyMigrated(NewKey, r, CodeVersion) /\ CanReencrypt(OldKey, r, CodeVersion)
Migrated(r) == Reencrypted(NewKey, NewEpoch, r, CodeVersion)

Handled(k) ==
    /\ driver = "migrate"
    /\ listing[k] # NoRow
    /\ listing' = [listing EXCEPT ![k] = NoRow]
    /\ UNCHANGED << sessionVars, pending, driver, retired, batchVars, quiet >>

MigrateRow(k) ==
    /\ engine = "store"
    /\ Handled(k)
    /\ rows' = IF MustMigrate(listing[k])
               THEN [rows EXCEPT ![k] = Migrated(listing[k])]
               ELSE rows

(* The put is rejected: the row is collected in `failed`. *)
MigrateFails(k) ==
    /\ engine = "store"
    /\ MustMigrate(listing[k])
    /\ Handled(k)
    /\ UNCHANGED rows

(* Who can still write under the old key: a session that holds it, or one  *)
(* with such a write on its way.                                           *)
OldWriter(s) ==
    \/ handle[s] = OldKey
    \/ /\ call[s] # NoCall
       /\ \/ call[s].held = OldKey   \* its record and its upgrade
          \/ \E i \in DOMAIN call[s].writes : call[s].writes[i].dek = OldKey
    \/ late[s] # NoCall /\ late[s].record.dek = OldKey

(* verifyRotatedRows lists the rows again; what it counts is a function of *)
(* this listing.                                                           *)
ListForVerify ==
    /\ driver = "migrate" /\ engine = "store"
    /\ listing = NothingListed
    /\ driver' = "verify"
    /\ listing' = rows
    /\ quiet' = \A s \in Sessions : ~OldWriter(s)
    /\ UNCHANGED << rows, sessionVars, pending, retired, batchVars >>

AtNewEpoch(r) == Decodes(NewKey, r, CodeVersion)
AtOldEpoch(r) == ~AtNewEpoch(r) /\ Decodes(OldKey, r, CodeVersion)

(* Mutant: only the rows left behind are counted, not the failures. *)
Eligible_NoOldRows == {k \in RowIds : AtOldEpoch(listing[k])} = {}

(* checkRetirementEligibility(atOldEpoch, failed.length). *)
Eligible ==
    /\ {k \in RowIds : AtOldEpoch(listing[k])} = {}
    /\ {k \in RowIds : ~AtOldEpoch(listing[k]) /\ ~AtNewEpoch(listing[k])} = {}

Verify ==
    /\ driver = "verify" /\ engine = "store"
    /\ driver' = IF Eligible THEN "retire" ELSE "list"
    /\ listing' = NothingListed
    /\ UNCHANGED << rows, sessionVars, pending, retired, batchVars, quiet >>

(* migrateRotationBatch.  listRowsAtOldEpoch goes by the epoch stored with *)
(* a row and gives any BatchSize rows that carry another; an empty batch   *)
(* means that none is left (gate (a) of the retirement).                   *)
Tagged(k) == rows[k] # NoRow /\ rows[k].epoch = NewEpoch
Untagged == {k \in RowIds : rows[k] # NoRow /\ ~Tagged(k)}

ListBatch ==
    /\ engine = "batch"
    /\ driver \in {"list", "migrate"} /\ listing = NothingListed
    /\ \E B \in SUBSET Untagged :
          /\ Cardinality(B) <= BatchSize
          /\ B # Untagged => Cardinality(B) = BatchSize
          /\ listing' = [k \in RowIds |-> IF k \in B THEN rows[k] ELSE NoRow]
          /\ driver' = IF B = {} THEN "verify" ELSE "migrate"
          /\ quiet' = (B = {} /\ \A s \in Sessions : ~OldWriter(s))
    /\ UNCHANGED << rows, sessionVars, pending, retired, batchVars >>

(* Mutant: the row is put back unconditionally. *)
MigrateBatchRow_Put(k) ==
    /\ engine = "batch"
    /\ Handled(k)
    /\ rows' = IF MustMigrate(listing[k])
               THEN [rows EXCEPT ![k] = Migrated(listing[k])]
               ELSE rows

(* Row by row: one that already decodes under the new key is left, one     *)
(* that decodes under neither is collected, the others are saved if their  *)
(* hash is the listed one; a conflict is left to a later batch.            *)
MigrateBatchRow(k) ==
    /\ engine = "batch"
    /\ Handled(k)
    /\ rows' = IF MustMigrate(listing[k]) /\ Matches(rows[k], HashOf(listing[k]))
               THEN [rows EXCEPT ![k] = Migrated(listing[k])]
               ELSE rows

(* verifyRowsDecryptAtEpoch: the next rows, by key, that claim the epoch,  *)
(* are decoded.  A failure blocks the retirement; after the last page      *)
(* checkRetirementEligibility(0, 0) allows it.                             *)
Page ==
    LET after == {k \in RowIds : Tagged(k) /\ Rank[k] > cursor}
    IN  {k \in after : Cardinality({j \in after : Rank[j] <= Rank[k]}) <= BatchSize}

VerifyPage ==
    /\ driver = "verify" /\ engine = "batch"
    /\ driver' = IF \E k \in Page : ~AtNewEpoch(rows[k]) THEN "list"
                 ELSE IF Page = {} THEN "retire" ELSE "verify"
    /\ IF driver' = "verify"
       THEN \E k \in Page : /\ cursor' = Rank[k]
                            /\ \A j \in Page : Rank[j] <= Rank[k]
       ELSE cursor' = 0
    /\ UNCHANGED << rows, sessionVars, pending, listing, retired, engine, quiet >>

(* The old wraps are deleted, then completeRotation clears the guard. *)
Retire ==
    /\ driver = "retire"
    /\ driver' = "done"
    /\ retired' = TRUE
    /\ pending' = FALSE
    /\ UNCHANGED << rows, sessionVars, listing, batchVars, quiet >>

-----------------------------------------------------------------------------
CallStep(s) == ConvergeWrite(s) \/ MutateWrites(s)
SessionStep(s) ==
    \/ AdoptRotation(s) \/ FinishSession(s) \/ Lock(s) \/ Unlock(s)
    \/ \E k \in RowIds, mutates \in BOOLEAN : BeginCall(s, k, mutates)
    \/ CallStep(s) \/ AbandonCall(s) \/ LateSaved(s) \/ LateFailed(s)
DriverStep ==
    \/ ResumeRotation \/ ListRows \/ ListForVerify \/ Verify \/ Retire
    \/ ListBatch \/ VerifyPage
    \/ \E k \in RowIds : MigrateRow(k) \/ MigrateBatchRow(k)
Next ==
    \/ \E s \in Sessions : SessionStep(s)
    \/ BeginRotation \/ DriverDies \/ DriverStep
    \/ \E k \in RowIds : MigrateFails(k)

Spec == Init /\ [][Next]_vars

-----------------------------------------------------------------------------
(* The hash column belongs to the row it is stored with, whoever calls it  *)
(* last: a session's mutate, a conversion, a lazy upgrade or the driver.   *)
(* Caches and optimistic locks compare nothing else.                       *)
HashBelongs ==
    \A k \in RowIds :
        rows[k] # NoRow /\ rows[k].hash # NoHash
        => rows[k].hash = ContentHashOf(rows[k].dek, rows[k].ver, rows[k].data)

(* Only a session that has not adopted the rotation can take a row back to *)
(* the old key: one whose call began, or whose lazy upgrade was encoded,   *)
(* under it, or one that is making a legacy row canonical first.  A read   *)
(* with both keys at hand converges in one direction                       *)
(* (decodeWithCandidates: candidates[0] is the current handle).            *)
TakesBack(s, k) ==
    \/ call[s] # NoCall /\ call[s].key = k
       /\ (call[s].held = OldKey \/ Len(call[s].writes) = 2)
    \/ late[s] # NoCall /\ late[s].key = k /\ late[s].record.dek = OldKey

NeverDemigrated ==
    [][\A k \in RowIds :
          AtNewEpoch(rows[k]) /\ ~AtNewEpoch(rows'[k])
          => \E s \in Sessions : TakesBack(s, k)]_rows

(* A batch that migrates a row keeps the content the row has then, also    *)
(* one that a session wrote after the batch listed it: saveIfMatch refuses *)
(* what the listing is too old for (rotationMigration.ts:113-133).         *)
BatchKeepsWrites ==
    [][engine = "batch" =>
       \A k \in RowIds :
          rows'[k] # rows[k] /\ rows'[k].epoch = NewEpoch
          => rows[k] # NoRow /\ rows'[k].data = rows[k].data]_rows

(* A session that has adopted the rotation reads every row, at every stage *)
(* of the migration and whatever the stragglers write.                     *)
AdoptersCanRead ==
    \A s \in Sessions, k \in RowIds :
        handle[s] = NewKey /\ previous[s] = OldKey
        => CandidateDecodes(NewKey, OldKey, rows[k], CodeVersion)

(* When no session could write under the old key from the listing of the   *)
(* last verification on, the retirement leaves no row behind: all are      *)
(* readable with the new key, and stay so.                                 *)
SafeRetirement ==
    retired /\ quiet => \A k \in RowIds : Decodes(NewKey, rows[k], CodeVersion)

(* The retirement leaves no row behind, unconditionally. *)
RetiredRowsReadable ==
    retired => \A k \in RowIds : Decodes(NewKey, rows[k], CodeVersion)
=============================================================================
