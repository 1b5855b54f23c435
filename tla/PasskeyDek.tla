----------------------------- MODULE PasskeyDek -----------------------------
(***************************************************************************)
(* The devices of one account, each with a passkeyDekController session,   *)
(* and the wraps, epochs and requests they share through the server        *)
(* (passkeyDekController.ts, dekRotationCoordinator.ts).  A call of the     *)
(* controller is a chain of awaits; `phase' names what a call waits for,   *)
(* and a lock, a reload or another call can run at each of them.           *)
(*                                                                         *)
(* The app that drives a rotation is outside this repository: "drive"      *)
(* makes the calls in the order the comments of the two files prescribe.   *)
(* The numbers of the epochs it passes are the account's.                  *)
(***************************************************************************)
EXTENDS Naturals, Sequences, FiniteSets

CONSTANTS
    Devices, Creds, Ops,
    DeviceOf,       \* [Ops -> Devices]: the device a call runs on
    CredOf,         \* [Ops -> Creds]: the passkey its ceremony uses or creates
    Kind,           \* [Ops -> OpKinds]
    Plans,          \* the sets of calls a behaviour may make
    InitialKey,     \* the DEK of an account that is already set up
    NewKey(_),      \* the DEK a "register" or a "drive" call generates
    ZeroKey,        \* the bytes of a DEK after clean()
    HasWrapCache,   \* a PasskeyWrapCache is configured
    MayReject,      \* calls whose outside world may fail or be offline
    MayReload,      \* devices whose page may be closed during the run
    NoKey, NoHandle, NoCred, NoEntry

OpKinds == {"unlock", "recover", "register", "add", "regenerate", "drive",
            "consume", "handshake", "fulfil", "persist", "restore", "check"}
Keys == {InitialKey, ZeroKey} \cup {NewKey(o) : o \in Ops}

ASSUME PasskeyDekAssumption ==
    /\ DeviceOf \in [Ops -> Devices]
    /\ CredOf \in [Ops -> Creds]
    /\ Kind \in [Ops -> OpKinds]
    /\ Plans \subseteq [fresh : BOOLEAN, calls : SUBSET Ops]
    /\ HasWrapCache \in BOOLEAN
    /\ MayReject \subseteq Ops
    /\ MayReload \subseteq Devices
    /\ Ops \cap {"none", "open"} = {}
    /\ NoKey \notin Keys
    /\ NoHandle \notin Ops \X {"current", "previous"}
    /\ NoCred \notin Creds

VARIABLES
    plan,           \* the calls this behaviour may make
    session,        \* [Devices -> the controller's closure variables]
    op,             \* [Ops -> a call's phase and local variables]
    alive,          \* the handles that were built and not destroyed
    passkeyWraps,   \* the rows of PasskeyWrapStorage
    recoveryWrap,   \* the key under the account's recovery wrap
    account,        \* current and pending epoch; history: the key of each
                    \* epoch, the oldest epoch not retired
    requests,       \* [Ops -> the handshake request of the call]
    delivered,      \* [Devices -> the DEK waiting for the device, if any]
    wrapCache,      \* [Devices -> the cached wrap]
    isolated        \* [Devices -> IsolatedKeyCache entry]

serverVars == << passkeyWraps, recoveryWrap, account, requests, delivered >>
cacheVars == << wrapCache, isolated >>
vars == << plan, session, op, alive, serverVars, cacheVars >>

-----------------------------------------------------------------------------
(* Handles.  A call builds at most one current and one previous handle; the *)
(* key inside is the one the call unwrapped or generated.                   *)

Handles == Ops \X {"current", "previous"}
Current(o) == << o, "current" >>
Previous(o) == << o, "previous" >>
KeyOf(h) == IF h[2] = "current" THEN op[h[1]].dek ELSE op[h[1]].older

Wrap == [cred : Creds, epoch : Nat, dek : Keys]
Session == [current : Handles \cup {NoHandle}, previous : Handles \cup {NoHandle},
            unlocked : BOOLEAN, method : {"none", "passkey", "recovery"},
            cred : Creds \cup {NoCred}, publicKey : Creds \cup {NoCred},
            setup : {"pending", "needed", "done"}]
Locked == [current |-> NoHandle, previous |-> NoHandle, unlocked |-> FALSE,
           method |-> "none", cred |-> NoCred, publicKey |-> NoCred,
           setup |-> "pending"]
Idle == [phase |-> "idle", dek |-> NoKey, older |-> NoKey, wrapped |-> NoKey,
         stored |-> NoKey, cred |-> NoCred, epoch |-> 0, loaded |-> {},
         held |-> NoHandle, todo |-> {}, disturbed |-> FALSE]
Waiting == {"guard", "ceremony", "load", "cacheWrap", "build", "buildPrevious",
            "begin", "rewrap", "wrap", "savePasskey", "words", "confirm",
            "saved", "saveRecovery", "deliver", "migrate", "retire", "retired",
            "complete", "publish", "poll", "list", "fulfil", "epoch", "persist",
            "restore", "clear", "count"}
Ended == {"done", "error", "refused", "noFallback", "adoptedDead"}

Init ==
    /\ \E p \in Plans :
         /\ plan = p.calls
         /\ passkeyWraps = IF p.fresh THEN {} ELSE
              {[cred |-> c, epoch |-> 1, dek |-> InitialKey] :
                 c \in {CredOf[o] : o \in {x \in Ops : Kind[x] = "unlock"}}}
         /\ recoveryWrap = IF p.fresh THEN NoKey ELSE InitialKey
    /\ session = [d \in Devices |-> Locked]
    /\ op = [o \in Ops |-> Idle]
    /\ alive = {}
    /\ account = [epoch |-> 1, pending |-> 0, keys |-> << InitialKey >>, oldest |-> 1]
    /\ requests = [o \in Ops |-> "none"]
    /\ delivered = [d \in Devices |-> NoEntry]
    /\ wrapCache = [d \in Devices |-> NoEntry]
    /\ isolated = [d \in Devices |-> NoEntry]

-----------------------------------------------------------------------------
(* The controller's own helpers. *)

Of(o) == session[DeviceOf[o]]
Starts(o, k) == o \in plan /\ op[o].phase = "idle" /\ Kind[o] = k
At(o, p) == op[o].phase = p
Go(o, p) == op' = [op EXCEPT ![o].phase = p]

(* cryptoHandle, userId and unlockCredentialId are all set. *)
UnlockedByPasskey(s) == s.current # NoHandle /\ s.unlocked /\ s.cred # NoCred

(* The handle a rotation promoted is current and its key not stored yet. *)
AwaitsRewrap(o) ==
    Kind[o] = "drive" /\ Of(o).current = Current(o) /\ op[o].stored = NoKey

(* adoptHandle: the handle in place is neither destroyed nor kept.  The    *)
(* history field disturbed marks a rotation whose new handle it replaced.  *)
Adopt(o, method, cred, publicKey, next) ==
    LET d == DeviceOf[o] IN
    /\ session' = [session EXCEPT ![d] =
         [@ EXCEPT !.current = Current(o), !.unlocked = TRUE, !.setup = "done",
                   !.method = method, !.cred = cred, !.publicKey = publicKey]]
    /\ op' = [x \in Ops |->
         IF x = o THEN next
         ELSE [op[x] EXCEPT !.disturbed = @ \/ (DeviceOf[x] = d /\ AwaitsRewrap(x))]]

(* Mutant: the previous handle is destroyed after it was replaced. *)
Promote_DestroysLate(o, p) ==
    LET d == DeviceOf[o] IN
    /\ session' = [session EXCEPT ![d] =
         [@ EXCEPT !.previous = session[d].current, !.current = Current(o)]]
    /\ alive' = (alive \cup {Current(o)}) \ {session[d].current}
    /\ op' = [op EXCEPT ![o].phase = p, ![o].held = session[d].current]

(* The end of beginRotation and consumePendingDeviceWrap. *)
Promote(o, p) ==
    LET d == DeviceOf[o] IN
    /\ session' = [session EXCEPT ![d] =
         [@ EXCEPT !.previous = session[d].current, !.current = Current(o)]]
    /\ alive' = (alive \ {session[d].previous}) \cup {Current(o)}
    /\ op' = [op EXCEPT ![o].phase = p, ![o].held = session[d].current]

(* Mutant: the references are dropped, the handles live on. *)
DestroyHandle_DropsOnly(d) ==
    /\ session' = [session EXCEPT ![d] = [Locked EXCEPT !.setup = session[d].setup]]
    /\ UNCHANGED alive

(* destroyHandle. *)
DestroyHandle(d) ==
    /\ alive' = alive \ {session[d].current, session[d].previous}
    /\ session' = [session EXCEPT ![d] = [Locked EXCEPT !.setup = session[d].setup]]

Lock(d) ==
    /\ DestroyHandle(d)
    /\ UNCHANGED << plan, op, serverVars, cacheVars >>

(* The page is closed: closure variables, handles and calls are gone. *)
Reload(d) ==
    /\ d \in MayReload
    /\ session' = [session EXCEPT ![d] = Locked]
    /\ alive' = {h \in alive : DeviceOf[h[1]] # d}
    /\ op' = [o \in Ops |-> IF DeviceOf[o] = d /\ op[o].phase \in Waiting
                            THEN [op[o] EXCEPT !.phase = "error"] ELSE op[o]]
    /\ UNCHANGED << plan, serverVars, cacheVars >>

-----------------------------------------------------------------------------
(* unlockWithPasskey: ceremony, loadPasskeyWraps or the cached wrap, one or  *)
(* two handles.                                                             *)

Newest(W) == CHOOSE w \in W : \A v \in W : v.epoch <= w.epoch

StartUnlock(o) ==
    /\ Starts(o, "unlock")
    /\ Go(o, "ceremony")
    /\ UNCHANGED << plan, session, alive, serverVars, cacheVars >>

UnlockCeremony(o) ==
    /\ Kind[o] = "unlock" /\ At(o, "ceremony")
    /\ Go(o, "load")
    /\ UNCHANGED << plan, session, alive, serverVars, cacheVars >>

LoadWraps(o) ==
    LET found == {w \in passkeyWraps : w.cred = CredOf[o]} IN
    /\ Kind[o] = "unlock" /\ At(o, "load")
    /\ op' = [op EXCEPT ![o].loaded = found,
                        ![o].phase = IF found = {} THEN "error"
                                     ELSE IF HasWrapCache THEN "cacheWrap" ELSE "build"]
    /\ UNCHANGED << plan, session, alive, serverVars, cacheVars >>

CacheWrap(o) ==
    /\ At(o, "cacheWrap")
    /\ wrapCache' = [wrapCache EXCEPT ![DeviceOf[o]] = Newest(op[o].loaded)]
    /\ Go(o, "build")
    /\ UNCHANGED << plan, session, alive, serverVars, isolated >>

(* Offline, or the cache could not be written: the cached wrap. *)
CachedWrapUsable(o) ==
    wrapCache[DeviceOf[o]] # NoEntry /\ wrapCache[DeviceOf[o]].cred = CredOf[o]

LoadCachedWrap(o) ==
    /\ Kind[o] = "unlock" /\ o \in MayReject
    /\ At(o, "load") \/ At(o, "cacheWrap")
    /\ CachedWrapUsable(o)
    /\ op' = [op EXCEPT ![o].loaded = {wrapCache[DeviceOf[o]]}, ![o].phase = "build"]
    /\ UNCHANGED << plan, session, alive, serverVars, cacheVars >>

(* activate, and in the same turn the start of the previous handle: the one *)
(* in place is destroyed and stays referenced until its successor is built. *)
Unlocked(o) ==
    LET newest == Newest(op[o].loaded)
        rest == op[o].loaded \ {newest}
    IN  /\ Kind[o] = "unlock" /\ At(o, "build")
        /\ Adopt(o, "passkey", CredOf[o], CredOf[o],
             IF rest = {}
               THEN [op[o] EXCEPT !.dek = newest.dek, !.phase = "done"]
               ELSE [op[o] EXCEPT !.dek = newest.dek, !.older = Newest(rest).dek,
                                  !.phase = "buildPrevious"])
        /\ alive' = (alive \ (IF rest = {} THEN {} ELSE {Of(o).previous})) \cup {Current(o)}
        /\ UNCHANGED << plan, serverVars, cacheVars >>

PreviousUnlocked(o) ==
    /\ At(o, "buildPrevious")
    /\ session' = [session EXCEPT ![DeviceOf[o]].previous = Previous(o)]
    /\ alive' = alive \cup {Previous(o)}
    /\ Go(o, "done")
    /\ UNCHANGED << plan, serverVars, cacheVars >>

(* unlockWithRecovery. *)
StartRecover(o) ==
    /\ Starts(o, "recover")
    /\ Go(o, "load")
    /\ UNCHANGED << plan, session, alive, serverVars, cacheVars >>

LoadRecoveryWrap(o) ==
    /\ Kind[o] = "recover" /\ At(o, "load")
    /\ op' = [op EXCEPT ![o].dek = recoveryWrap,
                        ![o].phase = IF recoveryWrap = NoKey THEN "error" ELSE "build"]
    /\ UNCHANGED << plan, session, alive, serverVars, cacheVars >>

Recovered(o) ==
    /\ Kind[o] = "recover" /\ At(o, "build")
    /\ Adopt(o, "recovery", NoCred, NoCred, [op[o] EXCEPT !.phase = "done"])
    /\ alive' = alive \cup {Current(o)}
    /\ UNCHANGED << plan, serverVars, cacheVars >>

(* checkSetupNeeded, which also discards a handle that no user owns. *)
StartCheck(o) ==
    LET d == DeviceOf[o]
        orphan == Of(o).current # NoHandle /\ ~Of(o).unlocked
    IN  /\ Starts(o, "check")
        /\ IF orphan THEN DestroyHandle(d) ELSE UNCHANGED << session, alive >>
        /\ Go(o, IF Of(o).current # NoHandle /\ ~orphan THEN "done" ELSE "count")
        /\ UNCHANGED << plan, serverVars, cacheVars >>

Counted(o) ==
    /\ At(o, "count")
    /\ session' = [session EXCEPT ![DeviceOf[o]].setup =
                     IF passkeyWraps = {} THEN "needed" ELSE "done"]
    /\ Go(o, "done")
    /\ UNCHANGED << plan, alive, serverVars, cacheVars >>

MarkSetupDone(d) ==
    /\ session[d].setup = "needed"
    /\ session' = [session EXCEPT ![d].setup = "done"]
    /\ UNCHANGED << plan, op, alive, serverVars, cacheVars >>

-----------------------------------------------------------------------------
(* Wrapping and storing.  wrapWithKek wraps the handle that is current when  *)
(* the ceremony ends; the row it is stored in is chosen when it resolves.   *)

WrapCurrent(o) ==
    /\ Kind[o] \in {"add", "drive", "handshake"} /\ At(o, "ceremony")
    /\ IF Of(o).current = NoHandle
         THEN Go(o, "error")
         ELSE op' = [op EXCEPT ![o].wrapped = KeyOf(Of(o).current), ![o].phase = "wrap"]
    /\ UNCHANGED << plan, session, alive, serverVars, cacheVars >>

(* Where the wrap goes; without a user or a credential the storage refuses. *)
TargetCred(o) ==
    IF Kind[o] = "add" THEN CredOf[o]
    ELSE IF Of(o).unlocked THEN Of(o).cred ELSE NoCred

(* Mutant: the row is stored although there is no credential for it. *)
Wrapped_Unchecked(o) ==
    /\ At(o, "wrap")
    /\ op' = [op EXCEPT ![o].cred = TargetCred(o), ![o].phase = "savePasskey",
                        ![o].epoch = IF Kind[o] = "add" THEN 1 ELSE @]
    /\ UNCHANGED << plan, session, alive, serverVars, cacheVars >>

Wrapped(o) ==
    /\ At(o, "wrap") /\ TargetCred(o) # NoCred
    /\ op' = [op EXCEPT ![o].cred = TargetCred(o), ![o].phase = "savePasskey",
                        ![o].epoch = IF Kind[o] = "add" THEN 1 ELSE @]
    /\ UNCHANGED << plan, session, alive, serverVars, cacheVars >>

(* Mutant: one row per credential, so a new epoch replaces the old one. *)
StorePasskeyWrap_OnePerCredential(o) ==
    LET row == [cred |-> op[o].cred, epoch |-> op[o].epoch, dek |-> op[o].wrapped]
    IN  /\ At(o, "savePasskey")
        /\ passkeyWraps' = {w \in passkeyWraps : w.cred # row.cred} \cup {row}
        /\ op' = [op EXCEPT ![o].stored = row.dek, ![o].phase = "saved"]
        /\ UNCHANGED << plan, session, alive, recoveryWrap, account, requests,
                        delivered, cacheVars >>

StorePasskeyWrap(o) ==
    LET row == [cred |-> op[o].cred, epoch |-> op[o].epoch, dek |-> op[o].wrapped]
    IN  /\ At(o, "savePasskey")
        /\ passkeyWraps' = {w \in passkeyWraps : w.cred # row.cred \/ w.epoch # row.epoch}
                           \cup {row}
        /\ op' = [op EXCEPT ![o].stored = row.dek, ![o].phase = "saved"]
        /\ UNCHANGED << plan, session, alive, recoveryWrap, account, requests,
                        delivered, cacheVars >>

StoreRecoveryWrap(o) ==
    /\ At(o, "saveRecovery")
    /\ recoveryWrap' = op[o].wrapped
    /\ Go(o, CASE Kind[o] = "register" -> "build"
               [] Kind[o] = "drive" -> "deliver"
               [] OTHER -> "done")
    /\ UNCHANGED << plan, session, alive, passkeyWraps, account, requests,
                    delivered, cacheVars >>

(* registerPasskey and the confirm() it returns, which the app can call     *)
(* again when it rejected: its finally has zeroed the key by then, not the  *)
(* wraps made of it.                                                        *)
StartRegister(o) ==
    /\ Starts(o, "register") /\ Of(o).setup = "needed"
    /\ Go(o, "ceremony")
    /\ UNCHANGED << plan, session, alive, serverVars, cacheVars >>

Registered(o) ==
    /\ Kind[o] = "register" /\ At(o, "ceremony")
    /\ op' = [op EXCEPT ![o].dek = NewKey(o), ![o].wrapped = NewKey(o),
                        ![o].cred = CredOf[o], ![o].epoch = 1, ![o].phase = "confirm"]
    /\ UNCHANGED << plan, session, alive, serverVars, cacheVars >>

Confirm(o) ==
    /\ At(o, "confirm")
    /\ Go(o, IF Kind[o] = "register" THEN "savePasskey" ELSE "saveRecovery")
    /\ UNCHANGED << plan, session, alive, serverVars, cacheVars >>

Confirming(o) == Kind[o] = "register" /\ op[o].phase \in {"savePasskey", "saveRecovery", "build"}

ConfirmRejected(o) ==
    /\ o \in MayReject /\ Confirming(o)
    /\ op' = [op EXCEPT ![o].dek = ZeroKey, ![o].phase = "confirm"]
    /\ UNCHANGED << plan, session, alive, serverVars, cacheVars >>

RegisterSaved(o) ==
    /\ Kind[o] = "register" /\ At(o, "saved")
    /\ Go(o, "saveRecovery")
    /\ UNCHANGED << plan, session, alive, serverVars, cacheVars >>

RegisterActivated(o) ==
    /\ Kind[o] = "register" /\ At(o, "build")
    /\ Adopt(o, "passkey", CredOf[o], CredOf[o], [op[o] EXCEPT !.phase = "done"])
    /\ alive' = alive \cup {Current(o)}
    /\ UNCHANGED << plan, serverVars, cacheVars >>

(* addPasskeyToExistingDek: a row at epoch 1, whatever the current epoch. *)
StartAdd(o) ==
    /\ Starts(o, "add") /\ Of(o).current # NoHandle
    /\ Go(o, "ceremony")
    /\ UNCHANGED << plan, session, alive, serverVars, cacheVars >>

Added(o) ==
    /\ Kind[o] = "add" /\ At(o, "saved")
    /\ session' = [session EXCEPT ![DeviceOf[o]] =
                     [@ EXCEPT !.method = "passkey", !.publicKey = CredOf[o]]]
    /\ Go(o, "done")
    /\ UNCHANGED << plan, alive, serverVars, cacheVars >>

(* regenerateRecoveryWords, alone or as a step of a rotation. *)
StartRegenerate(o) ==
    /\ \/ Starts(o, "regenerate") /\ Of(o).current # NoHandle
       \/ Kind[o] = "drive" /\ At(o, "saved")
    /\ IF Of(o).current = NoHandle
         THEN Go(o, "error")
         ELSE op' = [op EXCEPT ![o].wrapped = KeyOf(Of(o).current), ![o].phase = "words"]
    /\ UNCHANGED << plan, session, alive, serverVars, cacheVars >>

WordsShown(o) ==
    /\ At(o, "words")
    /\ Go(o, "confirm")
    /\ UNCHANGED << plan, session, alive, serverVars, cacheVars >>

-----------------------------------------------------------------------------
(* A rotation, in the order of the comments: the account's guard,           *)
(* beginRotation, rewrapCurrentCredentialAtEpoch, new recovery words, the   *)
(* DEK for the other devices, migration and verification (StoreRotation),   *)
(* retirement of the old wraps, completeRotationSession, completeRotation.  *)

StartDrive(o) ==
    /\ Starts(o, "drive") /\ Of(o).current # NoHandle
    /\ Go(o, "guard")
    /\ UNCHANGED << plan, session, alive, serverVars, cacheVars >>

Guard(o) ==
    /\ At(o, "guard")
    /\ IF account.pending # 0
         THEN Go(o, "refused") /\ UNCHANGED account
         ELSE /\ account' = [account EXCEPT !.pending = account.epoch + 1,
                                            !.keys = Append(@, NewKey(o))]
              /\ op' = [op EXCEPT ![o].epoch = account.epoch + 1, ![o].phase = "begin"]
    /\ UNCHANGED << plan, session, alive, passkeyWraps, recoveryWrap, requests,
                    delivered, cacheVars >>

BeginRotation(o) ==
    /\ At(o, "begin")
    /\ op' = [op EXCEPT ![o].dek = NewKey(o),
                        ![o].phase = IF Of(o).current = NoHandle THEN "error" ELSE "build"]
    /\ UNCHANGED << plan, session, alive, serverVars, cacheVars >>

RotationBegun(o) ==
    /\ Kind[o] = "drive" /\ At(o, "build")
    /\ Promote(o, "rewrap")
    /\ UNCHANGED << plan, serverVars, cacheVars >>

StartRewrap(o) ==
    /\ At(o, "rewrap")
    /\ Go(o, IF UnlockedByPasskey(Of(o)) THEN "ceremony" ELSE "error")
    /\ UNCHANGED << plan, session, alive, serverVars, cacheVars >>

(* External: the app wraps the new DEK for the passkey that each other      *)
(* device registered the public key of.                                     *)
PasskeysOf(d) == {CredOf[o] : o \in {x \in plan : DeviceOf[x] = d /\ Kind[x] \in {"unlock", "add"}}}

Deliver(o) ==
    /\ At(o, "deliver")
    /\ IF Of(o).current = NoHandle
         THEN Go(o, "error") /\ UNCHANGED delivered
         ELSE /\ \E to \in [Devices -> Creds] :
                   /\ \A d \in Devices : PasskeysOf(d) # {} => to[d] \in PasskeysOf(d)
                   /\ delivered' = [d \in Devices |->
                        IF d = DeviceOf[o] \/ PasskeysOf(d) = {} THEN delivered[d]
                        ELSE [dek |-> KeyOf(Of(o).current), epoch |-> op[o].epoch, to |-> to[d]]]
              /\ Go(o, "migrate")
    /\ UNCHANGED << plan, session, alive, passkeyWraps, recoveryWrap, account,
                    requests, cacheVars >>

(* External: a row converts and verifies only while both handles live. *)
Migrates(o) == {Current(o), op[o].held} \subseteq alive

Migrate(o) ==
    /\ At(o, "migrate")
    /\ Go(o, IF Migrates(o) THEN "retire" ELSE "error")
    /\ UNCHANGED << plan, session, alive, serverVars, cacheVars >>

Retire(o) ==
    /\ At(o, "retire")
    /\ passkeyWraps' = {w \in passkeyWraps : w.epoch >= op[o].epoch}
    /\ account' = [account EXCEPT !.oldest = op[o].epoch]
    /\ Go(o, "retired")
    /\ UNCHANGED << plan, session, alive, recoveryWrap, requests, delivered, cacheVars >>

CompleteRotationSession(o) ==
    /\ At(o, "retired")
    /\ alive' = alive \ {Of(o).previous}
    /\ session' = [session EXCEPT ![DeviceOf[o]].previous = NoHandle]
    /\ Go(o, "complete")
    /\ UNCHANGED << plan, serverVars, cacheVars >>

CompleteRotation(o) ==
    /\ At(o, "complete")
    /\ account' = [account EXCEPT !.epoch = op[o].epoch, !.pending = 0]
    /\ Go(o, "done")
    /\ UNCHANGED << plan, session, alive, passkeyWraps, recoveryWrap, requests,
                    delivered, cacheVars >>

-----------------------------------------------------------------------------
(* consumePendingDeviceWrap: the key is stored before it is promoted. *)

StartConsume(o) ==
    LET gift == delivered[DeviceOf[o]] IN
    /\ Starts(o, "consume") /\ UnlockedByPasskey(Of(o)) /\ gift # NoEntry
    /\ op' = [op EXCEPT ![o].dek = gift.dek, ![o].wrapped = gift.dek,
                        ![o].epoch = gift.epoch,
                        ![o].phase = IF gift.to = Of(o).cred THEN "ceremony" ELSE "error"]
    /\ UNCHANGED << plan, session, alive, serverVars, cacheVars >>

ConsumeCeremony(o) ==
    /\ Kind[o] = "consume" /\ At(o, "ceremony")
    /\ Go(o, "build")
    /\ UNCHANGED << plan, session, alive, serverVars, cacheVars >>

(* Mutant: promoted as soon as it is built. *)
ConsumeBuilt_PromotesFirst(o) ==
    /\ Kind[o] = "consume" /\ At(o, "build")
    /\ Promote(o, "wrap")
    /\ UNCHANGED << plan, serverVars, cacheVars >>

ConsumeBuilt(o) ==
    /\ Kind[o] = "consume" /\ At(o, "build")
    /\ alive' = alive \cup {Current(o)}
    /\ Go(o, "wrap")
    /\ UNCHANGED << plan, session, serverVars, cacheVars >>

Consumed(o) ==
    /\ Kind[o] = "consume" /\ At(o, "saved")
    /\ Promote(o, "done")
    /\ UNCHANGED << plan, serverVars, cacheVars >>

(* The ephemeral handshake of a device whose wraps are behind the account's  *)
(* epoch: publishRotationRequest, pollRotationRequest, and the app's setDek  *)
(* and rewrap; fulfillPendingRotationRequests on another device.             *)
StartHandshake(o) ==
    /\ Starts(o, "handshake") /\ UnlockedByPasskey(Of(o))
    /\ \A w \in passkeyWraps : w.cred = Of(o).cred => w.epoch < account.epoch
    /\ op' = [op EXCEPT ![o].epoch = account.epoch, ![o].phase = "publish"]
    /\ UNCHANGED << plan, session, alive, serverVars, cacheVars >>

Published(o) ==
    /\ At(o, "publish")
    /\ requests' = [requests EXCEPT ![o] = "open"]
    /\ Go(o, "poll")
    /\ UNCHANGED << plan, session, alive, passkeyWraps, recoveryWrap, account,
                    delivered, cacheVars >>

Poll(o) ==
    /\ At(o, "poll") /\ requests[o] # "open"
    /\ op' = [op EXCEPT ![o].dek = op[requests[o]].dek, ![o].cred = Of(o).cred,
                        ![o].phase = "build"]
    /\ UNCHANGED << plan, session, alive, serverVars, cacheVars >>

HandshakeActivated(o) ==
    /\ Kind[o] = "handshake" /\ At(o, "build")
    /\ Adopt(o, "passkey", op[o].cred, NoCred, [op[o] EXCEPT !.phase = "rewrap"])
    /\ alive' = alive \cup {Current(o)}
    /\ UNCHANGED << plan, serverVars, cacheVars >>

StartFulfil(o) ==
    /\ Starts(o, "fulfil") /\ Of(o).current # NoHandle
    /\ op' = [op EXCEPT ![o].dek = KeyOf(Of(o).current), ![o].phase = "list"]
    /\ UNCHANGED << plan, session, alive, serverVars, cacheVars >>

ListRequests(o) ==
    LET open == {x \in Ops : requests[x] = "open"} IN
    /\ At(o, "list")
    /\ op' = [op EXCEPT ![o].todo = open, ![o].phase = IF open = {} THEN "done" ELSE "fulfil"]
    /\ UNCHANGED << plan, session, alive, serverVars, cacheVars >>

(* Every request gets the caller's key, whatever epoch it asked for. *)
FulfilOne(o) ==
    /\ At(o, "fulfil")
    /\ \E x \in op[o].todo :
         /\ requests' = [requests EXCEPT ![x] = o]
         /\ op' = [op EXCEPT ![o].todo = @ \ {x},
                             ![o].phase = IF op[o].todo = {x} THEN "done" ELSE "fulfil"]
    /\ UNCHANGED << plan, session, alive, passkeyWraps, recoveryWrap, account,
                    delivered, cacheVars >>

-----------------------------------------------------------------------------
(* Zero-tap.  The epoch is read first, the key that is current afterwards   *)
(* is what the boundary keeps.                                              *)

StartPersist(o) ==
    /\ Starts(o, "persist") /\ Of(o).current # NoHandle /\ Of(o).cred # NoCred
    /\ Go(o, "epoch")
    /\ UNCHANGED << plan, session, alive, serverVars, cacheVars >>

ReadEpochToPersist(o) ==
    /\ Kind[o] = "persist" /\ At(o, "epoch")
    /\ op' = [op EXCEPT ![o].epoch = account.epoch, ![o].phase = "persist"]
    /\ UNCHANGED << plan, session, alive, serverVars, cacheVars >>

Persisted(o) ==
    /\ At(o, "persist")
    /\ isolated' = IF Of(o).current = NoHandle THEN isolated ELSE
         [isolated EXCEPT ![DeviceOf[o]] =
            [dek |-> KeyOf(Of(o).current), epoch |-> op[o].epoch, cred |-> Of(o).cred]]
    /\ Go(o, "done")
    /\ UNCHANGED << plan, session, alive, serverVars, wrapCache >>

StartRestore(o) ==
    /\ Starts(o, "restore")
    /\ Go(o, "restore")
    /\ UNCHANGED << plan, session, alive, serverVars, cacheVars >>

Restored(o) ==
    LET entry == isolated[DeviceOf[o]] IN
    /\ At(o, "restore")
    /\ IF entry = NoEntry
         THEN Go(o, "done") /\ UNCHANGED alive
         ELSE /\ op' = [op EXCEPT ![o].dek = entry.dek, ![o].epoch = entry.epoch,
                                  ![o].cred = entry.cred, ![o].phase = "epoch"]
              /\ alive' = alive \cup {Current(o)}
    /\ UNCHANGED << plan, session, serverVars, cacheVars >>

(* Offline, the entry is adopted unchecked. *)
RestoreAdopted(o) ==
    /\ Kind[o] = "restore" /\ At(o, "epoch")
    /\ account.epoch = op[o].epoch \/ o \in MayReject
    /\ Adopt(o, "passkey", op[o].cred, NoCred, [op[o] EXCEPT !.phase = "done"])
    /\ UNCHANGED << plan, alive, serverVars, cacheVars >>

RestoreStale(o) ==
    /\ Kind[o] = "restore" /\ At(o, "epoch")
    /\ account.epoch # op[o].epoch
    /\ alive' = alive \ {Current(o)}
    /\ Go(o, "clear")
    /\ UNCHANGED << plan, session, serverVars, cacheVars >>

Cleared(o) ==
    /\ At(o, "clear")
    /\ isolated' = [isolated EXCEPT ![DeviceOf[o]] = NoEntry]
    /\ Go(o, "done")
    /\ UNCHANGED << plan, session, alive, serverVars, wrapCache >>

(* The handler of an offline epoch read also catches a clear() that rejects: *)
(* the handle is adopted although it was just destroyed.                     *)
ClearFails(o) ==
    /\ At(o, "clear") /\ o \in MayReject
    /\ Adopt(o, "passkey", op[o].cred, NoCred, [op[o] EXCEPT !.phase = "adoptedDead"])
    /\ UNCHANGED << plan, alive, serverVars, cacheVars >>

-----------------------------------------------------------------------------
(* What the outside world refuses: a ceremony, a request, a handle that     *)
(* cannot be built, a wrap of a handle destroyed meanwhile.                 *)

Rejectable == {"ceremony", "load", "cacheWrap", "build", "buildPrevious", "wrap",
               "savePasskey", "saveRecovery", "guard", "publish", "list", "count"}

Rejected(o) ==
    /\ \/ o \in MayReject /\ op[o].phase \in Rejectable
       \/ At(o, "wrap") /\ TargetCred(o) = NoCred
    /\ ~Confirming(o)
    /\ At(o, "load") \/ At(o, "cacheWrap") => ~(Kind[o] = "unlock" /\ CachedWrapUsable(o))
    /\ Go(o, IF At(o, "buildPrevious") THEN "noFallback" ELSE "error")
    /\ alive' = IF Kind[o] = "consume" /\ op[o].phase \in {"wrap", "savePasskey"}
                THEN alive \ {Current(o)} ELSE alive
    /\ UNCHANGED << plan, session, serverVars, cacheVars >>

OpStep(o) ==
    \/ StartUnlock(o) \/ UnlockCeremony(o) \/ LoadWraps(o) \/ CacheWrap(o)
    \/ LoadCachedWrap(o) \/ Unlocked(o) \/ PreviousUnlocked(o)
    \/ StartRecover(o) \/ LoadRecoveryWrap(o) \/ Recovered(o)
    \/ StartCheck(o) \/ Counted(o)
    \/ WrapCurrent(o) \/ Wrapped(o) \/ StorePasskeyWrap(o) \/ StoreRecoveryWrap(o)
    \/ StartRegister(o) \/ Registered(o) \/ Confirm(o) \/ RegisterSaved(o)
    \/ ConfirmRejected(o) \/ RegisterActivated(o)
    \/ StartAdd(o) \/ Added(o) \/ StartRegenerate(o) \/ WordsShown(o)
    \/ StartDrive(o) \/ Guard(o) \/ BeginRotation(o) \/ RotationBegun(o)
    \/ StartRewrap(o) \/ Deliver(o) \/ Migrate(o) \/ Retire(o)
    \/ CompleteRotationSession(o) \/ CompleteRotation(o)
    \/ StartConsume(o) \/ ConsumeCeremony(o) \/ ConsumeBuilt(o) \/ Consumed(o)
    \/ StartHandshake(o) \/ Published(o) \/ Poll(o) \/ HandshakeActivated(o)
    \/ StartFulfil(o) \/ ListRequests(o) \/ FulfilOne(o)
    \/ StartPersist(o) \/ ReadEpochToPersist(o) \/ Persisted(o)
    \/ StartRestore(o) \/ Restored(o) \/ RestoreAdopted(o) \/ RestoreStale(o)
    \/ Cleared(o) \/ ClearFails(o) \/ Rejected(o)

Next ==
    \/ \E o \in Ops : OpStep(o)
    \/ \E d \in Devices : Lock(d) \/ Reload(d) \/ MarkSetupDone(d)

Spec == Init /\ [][Next]_vars

-----------------------------------------------------------------------------
(* Every variable stays in its domain. *)
TypeOK ==
    /\ plan \subseteq Ops
    /\ session \in [Devices -> Session]
    /\ op \in [Ops -> [phase : {"idle"} \cup Waiting \cup Ended,
                       dek : Keys \cup {NoKey}, older : Keys \cup {NoKey},
                       wrapped : Keys \cup {NoKey}, stored : Keys \cup {NoKey},
                       cred : Creds \cup {NoCred}, epoch : Nat,
                       loaded : SUBSET Wrap, held : Handles \cup {NoHandle},
                       todo : SUBSET Ops, disturbed : BOOLEAN]]
    /\ alive \subseteq Handles
    /\ passkeyWraps \subseteq Wrap
    /\ recoveryWrap \in Keys \cup {NoKey}
    /\ account \in [epoch : Nat, pending : Nat, keys : Seq(Keys), oldest : Nat]
    /\ requests \in [Ops -> Ops \cup {"none", "open"}]

(* getCryptoHandle never hands out a destroyed handle, but for the one a     *)
(* zero-tap restore found stale and could not clear (lines 850-860), and     *)
(* getPreviousCryptoHandle only does while unlockWithPasskey builds the      *)
(* replacement, or after it failed to (lines 582-583).                       *)
AdoptedDead == {Current(o) : o \in {x \in Ops : op[x].phase = "adoptedDead"}}
HandedOutAlive ==
    \A d \in Devices :
        /\ session[d].current # NoHandle =>
             session[d].current \in alive \cup AdoptedDead
        /\ session[d].previous # NoHandle =>
             \/ session[d].previous \in alive \cup AdoptedDead
             \/ \E o \in Ops : /\ Kind[o] = "unlock" /\ DeviceOf[o] = d
                               /\ op[o].phase \in {"buildPrevious", "noFallback"}

(* registerPasskey and consumePendingDeviceWrap store a key before the       *)
(* session uses it: of a call one of whose handles is in a session the wrap  *)
(* was stored, and it is of the key in that handle.  Left out (Zeroed) is a  *)
(* confirm() called again after it rejected, which stores the wraps of the   *)
(* key it generated and goes on with a zeroed one (lines 657-673).           *)
Zeroed == {o \in Ops : Kind[o] = "register" /\ op[o].dek = ZeroKey}
PersistBeforePromote ==
    \A d \in Devices, o \in Ops :
        /\ Kind[o] \in {"register", "consume"}
        /\ Current(o) \in {session[d].current, session[d].previous}
        => /\ op[o].stored = op[o].wrapped
           /\ op[o].dek = op[o].wrapped \/ o \in Zeroed

RetiredKeys == {account.keys[e] : e \in 1 .. account.oldest - 1}
UnsavedKeys == {op[o].dek : o \in {x \in Ops : /\ Kind[x] \in {"drive", "handshake"}
                                               /\ op[x].stored # op[x].dek}}
AnsweredStale(c) ==
    \E o \in Ops : /\ Kind[o] = "handshake" /\ op[o].cred = c
                  /\ op[o].stored \in RetiredKeys \cup {ZeroKey}

(* What a session uses is stored: registration and handshake persist first,  *)
(* and a session unlocked by a passkey can be unlocked by it again.  Some    *)
(* stored wrap of its credential holds its key, unless the key was retired,  *)
(* belongs to a rotation or a handshake that has not rewrapped it, is a      *)
(* zeroed one (Zeroed), or its wrap was overwritten by a handshake answered  *)
(* with an older key (passkeyDekController.ts:650-700, 780-812).             *)
SavedBeforeUsed ==
    /\ PersistBeforePromote
    /\ \A d \in Devices :
          LET s == session[d] IN
          UnlockedByPasskey(s) =>
              \/ \E w \in passkeyWraps : w.cred = s.cred /\ w.dek = KeyOf(s.current)
              \/ KeyOf(s.current) \in RetiredKeys \cup UnsavedKeys \cup {ZeroKey}
              \/ AnsweredStale(s.cred)

(* A rotation that retired the old wraps leaves its own key wrapped, unless  *)
(* another unlock replaced the current handle before the rewrap.  A lock in  *)
(* between is harmless: it destroys the handles the migration needs.         *)
RotationKeyKept ==
    \A o \in Ops :
        /\ Kind[o] = "drive" /\ op[o].phase \in {"retired", "complete", "done"}
        /\ ~op[o].disturbed
        /\ op[o].epoch >= account.oldest
        => \E w \in passkeyWraps : w.dek = op[o].dek
=============================================================================
