-------------------------- MODULE PasskeyDekProofs --------------------------
(***************************************************************************)
(* Proofs about PasskeyDek for every set of devices, credentials, calls    *)
(* and plans.                                                              *)
(*                                                                         *)
(* The guards of the actions name phases, seldom kinds, so the invariant   *)
(* says which phases a call of each kind goes through (Course), from which *)
(* of them on its handle may be in a session (Placed), and what its local  *)
(* variables hold there (CallsOf).  From then on the key inside the handle *)
(* is fixed (Keeps), which is what makes KeyOf a key of the account.       *)
(***************************************************************************)
EXTENDS PasskeyDek, WellFoundedInduction, TLAPS

-----------------------------------------------------------------------------
(* Calls. *)

(* Sets of wraps that have a newest one. *)
WrapSets == {W \in SUBSET Wrap : \E m \in Nat : \A w \in W : w.epoch <= m}

Call == [phase : {"idle"} \cup Waiting \cup Ended,
         dek : Keys \cup {NoKey}, older : Keys \cup {NoKey},
         wrapped : Keys \cup {NoKey}, stored : Keys \cup {NoKey},
         cred : Creds \cup {NoCred}, epoch : Nat,
         loaded : WrapSets, held : Handles \cup {NoHandle},
         todo : SUBSET Ops, disturbed : BOOLEAN]

(* The kinds of calls and the phases they go through. *)
Course(k, p) ==
    \/ p \in {"idle", "done", "error"}
    \/ k = "unlock" /\ p \in {"ceremony", "load", "cacheWrap", "build", "buildPrevious",
                              "noFallback"}
    \/ k = "recover" /\ p \in {"load", "build"}
    \/ k = "register" /\ p \in {"ceremony", "confirm", "savePasskey", "saved",
                                "saveRecovery", "build"}
    \/ k = "add" /\ p \in {"ceremony", "wrap", "savePasskey", "saved"}
    \/ k = "regenerate" /\ p \in {"words", "confirm", "saveRecovery"}
    \/ k = "drive" /\ p \in {"guard", "refused", "begin", "build", "rewrap", "ceremony",
                             "wrap", "savePasskey", "saved", "words", "confirm",
                             "saveRecovery", "deliver", "migrate", "retire", "retired",
                             "complete"}
    \/ k = "consume" /\ p \in {"ceremony", "build", "wrap", "savePasskey", "saved"}
    \/ k = "handshake" /\ p \in {"publish", "poll", "build", "rewrap", "ceremony",
                                 "wrap", "savePasskey", "saved"}
    \/ k = "fulfil" /\ p \in {"list", "fulfil"}
    \/ k = "persist" /\ p \in {"epoch", "persist"}
    \/ k = "restore" /\ p \in {"restore", "epoch", "clear", "adoptedDead"}
    \/ k = "check" /\ p = "count"

(* Those in which the handle of the call may be in a session. *)
Placed(k, p) ==
    \/ k = "unlock" /\ p \in {"buildPrevious", "noFallback", "done", "error"}
    \/ k \in {"recover", "register", "consume", "restore"} /\ p \in {"done", "error"}
    \/ k = "restore" /\ p = "adoptedDead"
    \/ k = "drive" /\ p \in {"rewrap", "ceremony", "wrap", "savePasskey", "saved",
                             "words", "confirm", "saveRecovery", "deliver", "migrate",
                             "retire", "retired", "complete", "done", "error"}
    \/ k = "handshake" /\ p \in {"rewrap", "ceremony", "wrap", "savePasskey", "saved",
                                 "error"}

(* Those in which a call holds a key, before or without a session. *)
Keyed(k, p) ==
    \/ k \in {"recover", "drive", "handshake"} /\ p = "build"
    \/ k = "register" /\ p \in {"confirm", "savePasskey", "saved", "saveRecovery", "build"}
    \/ k = "consume" /\ p \in {"ceremony", "build", "wrap", "savePasskey", "saved"}
    \/ k = "fulfil" /\ p \in {"list", "fulfil", "done", "error"}
    \/ k = "restore" /\ p \in {"epoch", "clear"}

(* Those in which its key is stored. *)
Persistent(k, p) ==
    \/ k = "register" /\ p \in {"saved", "saveRecovery", "build"}
    \/ k = "consume" /\ p = "saved"

Persisting == {"register", "consume"}

(* Those that store a key before they use it use the key of their wrap; a   *)
(* confirm() called again uses the bytes its first call left.               *)
GivenKey(k, r) == r.dek = r.wrapped \/ (k = "register" /\ r.dek = ZeroKey)

CallsOf(k) == {r \in Call :
    /\ Course(k, r.phase)
    /\ Keyed(k, r.phase) =>
         r.dek \in Keys /\ (k \in Persisting => r.wrapped \in Keys /\ GivenKey(k, r))
    /\ Persistent(k, r.phase) => r.stored = r.wrapped
    /\ k = "unlock" /\ r.phase \in {"cacheWrap", "build"} => r.loaded # {}
    /\ r.phase = "buildPrevious" => r.older \in Keys
    /\ r.phase \in {"wrap", "savePasskey"} => r.wrapped \in Keys
    /\ (r.phase = "savePasskey" \/ (k = "register" /\ Keyed(k, r.phase))) =>
         r.cred \in Creds}

(* A call whose handles may be in a session keeps their keys. *)
HasCurrent(k, r) ==
    /\ Placed(k, r.phase) /\ r.dek \in Keys
    /\ k \in Persisting => r.stored = r.wrapped /\ GivenKey(k, r)
HasPrevious(k, r) == k = "unlock" /\ r.phase = "done" /\ r.older \in Keys

Keeps(k, r, next) ==
    /\ HasCurrent(k, r) => HasCurrent(k, next) /\ next.dek = r.dek
    /\ HasPrevious(k, r) => HasPrevious(k, next) /\ next.older = r.older
    /\ k = "fulfil" /\ r.phase # "idle" => next.phase # "idle"
    /\ r.phase \in {"noFallback", "adoptedDead"} => next.phase = r.phase

-----------------------------------------------------------------------------
(* The invariant. *)

Gift == [dek : Keys, epoch : Nat, to : Creds]
Isolated == [dek : Keys, epoch : Nat, cred : Creds \cup {NoCred}]

(* What the devices share, and what a device keeps outside the page. *)
SharedDomains ==
    /\ plan \subseteq Ops
    /\ passkeyWraps \in WrapSets
    /\ recoveryWrap \in Keys \cup {NoKey}
    /\ account \in [epoch : Nat, pending : Nat, keys : Seq(Keys), oldest : Nat]
    /\ requests \in [Ops -> Ops \cup {"none", "open"}]
    /\ delivered \in [Devices -> Gift \cup {NoEntry}]
    /\ wrapCache \in [Devices -> Wrap \cup {NoEntry}]
    /\ isolated \in [Devices -> Isolated \cup {NoEntry}]

Domains ==
    /\ SharedDomains
    /\ session \in [Devices -> Session]
    /\ op \in [Ops -> Call]
    /\ alive \subseteq Handles

CallsRun == \A o \in Ops : op[o] \in CallsOf(Kind[o])

(* A handshake is answered by a call that had a key. *)
Answered ==
    \A o \in Ops :
        /\ requests[o] \in Ops =>
             Kind[requests[o]] = "fulfil" /\ op[requests[o]].phase # "idle"
        /\ op[o].phase = "poll" => requests[o] # "none"

(* The handles a session of a device may hold. *)
HandlesOf(d) == {h \in Handles :
    /\ DeviceOf[h[1]] = d
    /\ \/ h[2] = "current" /\ HasCurrent(Kind[h[1]], op[h[1]])
       \/ h[2] = "previous" /\ HasPrevious(Kind[h[1]], op[h[1]])}

Placement ==
    \A d \in Devices :
        /\ session[d].current \in HandlesOf(d) \cup {NoHandle}
        /\ session[d].previous \in HandlesOf(d) \cup {NoHandle}
        /\ session[d].current = session[d].previous => session[d].current = NoHandle

(* The handle a zero-tap restore has built and not adopted yet. *)
RestoreHolds ==
    \A o \in Ops : Kind[o] = "restore" /\ op[o].phase = "epoch" => Current(o) \in alive

Ready == Domains /\ CallsRun /\ Answered /\ Placement

PInv == Ready /\ RestoreHolds /\ HandedOutAlive

-----------------------------------------------------------------------------
(* Operators. *)

(* Of wraps with bounded epochs one is the newest: Newest is one of them. *)
LEMMA NewestExists ==
    ASSUME NEW W \in WrapSets, W # {}
    PROVE  Newest(W) \in W
<1>1. PICK m \in Nat : \A w \in W : w.epoch <= m
  BY DEF WrapSets
<1> DEFINE T == {m - w.epoch : w \in W}
           R == OpToRel(<, Nat)
<1>2. T \subseteq Nat /\ T # {}
  BY <1>1 DEF WrapSets, Wrap
<1>3. IsWellFoundedOn(R, Nat)
  BY NatLessThanWellFounded
<1>4. \A x, y \in Nat : x < y => << x, y >> \in R
  BY DEF OpToRel
<1> HIDE DEF R
<1>5. \E x \in T : \A y \in T : ~ (<< y, x >> \in R)
  <2> HIDE DEF T
  <2> QED  BY <1>2, <1>3, WFMin
<1>6. PICK w \in W : \A v \in W : ~ (<< m - v.epoch, m - w.epoch >> \in R)
  BY <1>5
<1>7. \A v \in W : v.epoch <= w.epoch
  <2> SUFFICES ASSUME NEW v \in W PROVE v.epoch <= w.epoch  OBVIOUS
  <2>1. m - v.epoch \in Nat /\ m - w.epoch \in Nat /\ v.epoch \in Nat /\ w.epoch \in Nat
    BY <1>1, <1>2 DEF WrapSets, Wrap
  <2>2. ~(m - v.epoch < m - w.epoch)
    BY <2>1, <1>4, <1>6
  <2> QED  BY <2>1, <2>2
<1> QED  BY <1>7 DEF Newest

(* The sets of wraps the code makes have bounded epochs. *)
LEMMA WrapSetsClosed ==
    ASSUME NEW W \in WrapSets
    PROVE  /\ \A V \in SUBSET W : V \in WrapSets
           /\ \A w \in Wrap : {w} \in WrapSets /\ W \cup {w} \in WrapSets
<1>1. PICK m \in Nat : \A w \in W : w.epoch <= m
  BY DEF WrapSets
<1>2. ASSUME NEW V \in SUBSET W PROVE V \in WrapSets
  BY <1>1 DEF WrapSets
<1>3. ASSUME NEW w \in Wrap PROVE {w} \in WrapSets /\ W \cup {w} \in WrapSets
  <2>1. w.epoch \in Nat /\ w.epoch <= m + w.epoch /\ m + w.epoch \in Nat
    BY DEF Wrap
  <2>2. \A v \in W : v.epoch \in Nat /\ v.epoch <= m + w.epoch
    BY <1>1, <2>1 DEF WrapSets, Wrap
  <2>3. W \cup {w} \in WrapSets
    BY <2>1, <2>2 DEF WrapSets
  <2> QED  BY <2>1, <2>3 DEF WrapSets
<1> QED  BY <1>2, <1>3

-----------------------------------------------------------------------------
(* One call at a time: a step takes a call to a phase of its course. *)

CallsMove == op' \in [Ops -> Call]
             /\ \A o \in Ops : op'[o] \in CallsOf(Kind[o]) /\ Keeps(Kind[o], op[o], op'[o])

LEMMA OneCallMoves ==
    ASSUME Ready, NEW o \in Ops, NEW r \in CallsOf(Kind[o]),
           Keeps(Kind[o], op[o], r), op' = [op EXCEPT ![o] = r]
    PROVE  CallsMove
<1>1. r \in Call
  BY DEF CallsOf
<1>2. \A x \in Ops : Keeps(Kind[x], op[x], op[x])
  BY DEF Keeps
<1> QED  BY <1>1, <1>2 DEF CallsMove, Ready, Domains, SharedDomains, CallsRun

(* What a call that only goes on needs, from phase q to phase p. *)
MayGo(k, r, p) ==
    LET q == r.phase IN
    /\ Course(k, p)
    /\ Keyed(k, p) => Keyed(k, q)
    /\ Persistent(k, p) => Persistent(k, q)
    /\ k = "unlock" /\ p \in {"cacheWrap", "build"} => q = "cacheWrap"
    /\ p \notin {"idle", "buildPrevious"}
    /\ p \in {"wrap", "savePasskey"} => r.wrapped \in Keys
    /\ p = "savePasskey" => r.cred \in Creds
    /\ Placed(k, q) => Placed(k, p)
    /\ k = "unlock" => q # "done"
    /\ q \notin {"noFallback", "adoptedDead"}

Phases == {"idle"} \cup Waiting \cup Ended

LEMMA CoursePhases == \A k \in OpKinds : \A p : Course(k, p) => p \in Phases
BY DEF Course, Phases, Waiting, Ended

LEMMA PhaseChanges ==
    ASSUME NEW r \in Call, NEW p \in Phases
    PROVE  LET n == [r EXCEPT !.phase = p]
           IN  /\ n \in Call /\ n.phase = p /\ n.dek = r.dek /\ n.older = r.older
               /\ n.wrapped = r.wrapped /\ n.stored = r.stored /\ n.cred = r.cred
               /\ n.loaded = r.loaded
BY DEF Call, Phases

LEMMA GoMoves ==
    ASSUME Ready, NEW o \in Ops, NEW p, MayGo(Kind[o], op[o], p), Go(o, p)
    PROVE  CallsMove
<1> DEFINE r == op[o]
           n == [r EXCEPT !.phase = p]
           k == Kind[o]
<1>1. k \in OpKinds /\ r \in Call /\ r \in CallsOf(k)
  BY PasskeyDekAssumption DEF Ready, Domains, SharedDomains, CallsRun
<1>2. p \in Phases
  BY <1>1, CoursePhases DEF MayGo
<1>3. /\ n \in Call /\ n.phase = p /\ n.dek = r.dek /\ n.older = r.older
      /\ n.wrapped = r.wrapped /\ n.stored = r.stored /\ n.cred = r.cred
      /\ n.loaded = r.loaded
  BY <1>1, <1>2, PhaseChanges
<1>4. MayGo(k, r, p)
  OBVIOUS
<1>5. op' = [op EXCEPT ![o] = n]
  BY DEF Go
<1> HIDE DEF n, r, k
<1>6. n \in CallsOf(k)
  BY <1>1, <1>3, <1>4 DEF CallsOf, MayGo, GivenKey
<1>7. Keeps(k, r, n)
  BY <1>3, <1>4 DEF Keeps, MayGo, HasCurrent, HasPrevious, GivenKey
<1> QED
  BY <1>5, <1>6, <1>7, OneCallMoves DEF k, r

(* The steps that only change the phase of the call. *)
LEMMA WaitingMoves ==
    ASSUME Ready, NEW o \in Ops,
           \/ StartUnlock(o) \/ UnlockCeremony(o) \/ CacheWrap(o) \/ PreviousUnlocked(o)
           \/ StartRecover(o) \/ StartCheck(o) \/ Counted(o) \/ StoreRecoveryWrap(o)
           \/ StartRegister(o) \/ Confirm(o) \/ RegisterSaved(o) \/ StartAdd(o) \/ Added(o)
           \/ WordsShown(o) \/ StartPersist(o) \/ Persisted(o) \/ StartRestore(o)
           \/ RestoreStale(o) \/ Cleared(o) \/ Rejected(o)
    PROVE  CallsMove
<1> USE DEF At, Starts, MayGo, Course, Keyed, Persistent, Placed
<1>0. op[o] \in CallsOf(Kind[o]) /\ Kind[o] \in OpKinds
  BY PasskeyDekAssumption DEF Ready, CallsRun
<1>1. CASE StartUnlock(o)
  BY <1>1, GoMoves DEF StartUnlock
<1>2. CASE UnlockCeremony(o)
  BY <1>2, GoMoves DEF UnlockCeremony
<1>3. CASE CacheWrap(o)
  BY <1>0, <1>3, GoMoves DEF CacheWrap, CallsOf
<1>4. CASE PreviousUnlocked(o)
  BY <1>0, <1>4, GoMoves DEF PreviousUnlocked, CallsOf
<1>5. CASE StartRecover(o)
  BY <1>5, GoMoves DEF StartRecover
<1>6. CASE StartCheck(o)
  BY <1>6, GoMoves DEF StartCheck
<1>7. CASE Counted(o)
  BY <1>0, <1>7, GoMoves DEF Counted, CallsOf
<1>8. CASE StoreRecoveryWrap(o)
  BY <1>0, <1>8, GoMoves DEF StoreRecoveryWrap, CallsOf
<1>9. CASE StartRegister(o)
  BY <1>9, GoMoves DEF StartRegister
<1>10. CASE Confirm(o)
  BY <1>0, <1>10, GoMoves DEF Confirm, CallsOf, Persisting
<1>11. CASE RegisterSaved(o)
  BY <1>11, GoMoves DEF RegisterSaved
<1>12. CASE StartAdd(o)
  BY <1>12, GoMoves DEF StartAdd
<1>13. CASE Added(o)
  BY <1>13, GoMoves DEF Added
<1>14. CASE WordsShown(o)
  BY <1>0, <1>14, GoMoves DEF WordsShown, CallsOf
<1>15. CASE StartPersist(o)
  BY <1>15, GoMoves DEF StartPersist
<1>16. CASE Persisted(o)
  BY <1>0, <1>16, GoMoves DEF Persisted, CallsOf
<1>17. CASE StartRestore(o)
  BY <1>17, GoMoves DEF StartRestore
<1>18. CASE RestoreStale(o)
  BY <1>18, GoMoves DEF RestoreStale
<1>19. CASE Cleared(o)
  BY <1>0, <1>19, GoMoves DEF Cleared, CallsOf
<1>20. CASE Rejected(o)
  <2>1. CASE At(o, "buildPrevious")
    BY <1>0, <1>20, <2>1, GoMoves DEF Rejected, CallsOf
  <2>2. CASE ~At(o, "buildPrevious")
    BY <1>0, <1>20, <2>2, GoMoves DEF Rejected, CallsOf, Rejectable
  <2> QED  BY <2>1, <2>2
<1> QED
  BY <1>1, <1>2, <1>3, <1>4, <1>5, <1>6, <1>7, <1>8, <1>9, <1>10, <1>11, <1>12,
     <1>13, <1>14, <1>15, <1>16, <1>17, <1>18, <1>19, <1>20

LEMMA RotationMoves ==
    ASSUME Ready, NEW o \in Ops,
           \/ StartDrive(o) \/ (Guard(o) /\ account.pending # 0) \/ StartRewrap(o)
           \/ Deliver(o) \/ Migrate(o) \/ Retire(o) \/ CompleteRotationSession(o)
           \/ CompleteRotation(o) \/ ConsumeCeremony(o) \/ ConsumeBuilt(o) \/ Published(o)
    PROVE  CallsMove
<1> USE DEF At, Starts, MayGo, Course, Keyed, Persistent, Placed
<1>0. op[o] \in CallsOf(Kind[o]) /\ Kind[o] \in OpKinds
  BY PasskeyDekAssumption DEF Ready, CallsRun
<1>1. CASE StartDrive(o)
  BY <1>1, GoMoves DEF StartDrive
<1>2. CASE Guard(o) /\ account.pending # 0
  BY <1>0, <1>2, GoMoves DEF Guard, CallsOf
<1>3. CASE StartRewrap(o)
  BY <1>0, <1>3, GoMoves DEF StartRewrap, CallsOf
<1>4. CASE Deliver(o)
  BY <1>0, <1>4, GoMoves DEF Deliver, CallsOf
<1>5. CASE Migrate(o)
  BY <1>0, <1>5, GoMoves DEF Migrate, CallsOf
<1>6. CASE Retire(o)
  BY <1>0, <1>6, GoMoves DEF Retire, CallsOf
<1>7. CASE CompleteRotationSession(o)
  BY <1>0, <1>7, GoMoves DEF CompleteRotationSession, CallsOf
<1>8. CASE CompleteRotation(o)
  BY <1>0, <1>8, GoMoves DEF CompleteRotation, CallsOf
<1>9. CASE ConsumeCeremony(o)
  BY <1>9, GoMoves DEF ConsumeCeremony
<1>10. CASE ConsumeBuilt(o)
  BY <1>0, <1>10, GoMoves DEF ConsumeBuilt, CallsOf, Persisting
<1>11. CASE Published(o)
  BY <1>0, <1>11, GoMoves DEF Published, CallsOf
<1> QED
  BY <1>1, <1>2, <1>3, <1>4, <1>5, <1>6, <1>7, <1>8, <1>9, <1>10, <1>11

(* The handle that is current in a session holds a key. *)
LEMMA SessionKeys ==
    ASSUME Ready, NEW d \in Devices, session[d].current # NoHandle
    PROVE  KeyOf(session[d].current) \in Keys
BY DEF Ready, Placement, HandlesOf, KeyOf, HasCurrent, HasPrevious

(* The steps that read something into the call's local variables. *)
LEMMA LoadingMoves ==
    ASSUME Ready, NEW o \in Ops,
           \/ LoadWraps(o) \/ LoadCachedWrap(o) \/ LoadRecoveryWrap(o) \/ StartConsume(o)
           \/ Poll(o) \/ StartFulfil(o) \/ ListRequests(o) \/ FulfilOne(o)
           \/ ReadEpochToPersist(o) \/ Restored(o) \/ StartHandshake(o)
    PROVE  CallsMove
<1> DEFINE r == op[o]
<1>0. /\ r \in CallsOf(Kind[o]) /\ Kind[o] \in OpKinds /\ r \in Call
      /\ DeviceOf[o] \in Devices /\ CredOf[o] \in Creds
  BY PasskeyDekAssumption DEF Ready, Domains, SharedDomains, CallsRun
<1> USE DEF At, Starts, Of
<1>1. CASE LoadWraps(o)
  <2> DEFINE found == {w \in passkeyWraps : w.cred = CredOf[o]}
             p == IF found = {} THEN "error" ELSE IF HasWrapCache THEN "cacheWrap" ELSE "build"
             n == [r EXCEPT !.loaded = found, !.phase = p]
  <2>1. found \in WrapSets
    BY WrapSetsClosed DEF Ready, Domains, SharedDomains
  <2>2. op' = [op EXCEPT ![o] = n]
    BY <1>1 DEF LoadWraps
  <2>3. n \in CallsOf(Kind[o])
    <3>0. p \in {"error", "cacheWrap", "build"} /\ (p # "error" => found # {})
      OBVIOUS
    <3> HIDE DEF found, p
    <3>4. p \in {"idle"} \cup Waiting \cup Ended
      BY <3>0 DEF Waiting, Ended
    <3>1. n \in Call
      BY <1>0, <2>1, <3>4 DEF Call
    <3>2. n.loaded = found /\ n.phase = p
      BY <1>0 DEF Call
    <3> HIDE DEF n
    <3> QED
      BY <3>0, <3>1, <3>2, <1>0, <1>1
      DEF CallsOf, Course, Keyed, Persistent, Persisting, LoadWraps
  <2>4. Keeps(Kind[o], r, n)
    BY <1>0, <1>1 DEF LoadWraps, Keeps, HasCurrent, HasPrevious, Placed
  <2> QED  BY <2>2, <2>3, <2>4, OneCallMoves
<1>2. CASE LoadCachedWrap(o)
  <2> DEFINE w == wrapCache[DeviceOf[o]]
             n == [r EXCEPT !.loaded = {w}, !.phase = "build"]
  <2>0. w \in Wrap /\ passkeyWraps \in WrapSets
    BY <1>0, <1>2 DEF Ready, Domains, SharedDomains, LoadCachedWrap, CachedWrapUsable
  <2>1. {w} \in WrapSets
    <3> HIDE DEF w
    <3> QED  BY <2>0, WrapSetsClosed
  <2>2. op' = [op EXCEPT ![o] = n]
    BY <1>2 DEF LoadCachedWrap
  <2>3. n \in CallsOf(Kind[o])
    <3>1. n \in Call
      BY <1>0, <1>2, <2>1 DEF Call, Waiting, Ended, LoadCachedWrap
    <3>2. n.loaded = {w} /\ n.phase = "build"
      BY <1>0 DEF Call
    <3> HIDE DEF n
    <3> QED
      BY <3>1, <3>2, <1>0, <1>2, <2>1
      DEF CallsOf, Course, Keyed, Persistent, Persisting, LoadCachedWrap
  <2>4. Keeps(Kind[o], r, n)
    BY <1>0, <1>2 DEF LoadCachedWrap, Keeps, HasCurrent, HasPrevious, Placed
  <2> QED  BY <2>2, <2>3, <2>4, OneCallMoves
<1>3. CASE LoadRecoveryWrap(o)
  <2> DEFINE n == [r EXCEPT !.dek = recoveryWrap,
                            !.phase = IF recoveryWrap = NoKey THEN "error" ELSE "build"]
  <2>2. op' = [op EXCEPT ![o] = n]
    BY <1>3 DEF LoadRecoveryWrap
  <2>3. n \in CallsOf(Kind[o])
    <3>1. n \in Call
      BY <1>0, <1>3 DEF Call, Waiting, Ended, Ready, Domains, SharedDomains, LoadRecoveryWrap
    <3>2. n.dek = recoveryWrap /\ n.phase = (IF recoveryWrap = NoKey THEN "error" ELSE "build")
      BY <1>0 DEF Call
    <3> HIDE DEF n
    <3> QED
      BY <3>1, <3>2, <1>0, <1>3
      DEF CallsOf, Course, Keyed, Persistent, Persisting, Ready, Domains, SharedDomains, LoadRecoveryWrap
  <2>4. Keeps(Kind[o], r, n)
    BY <1>0, <1>3 DEF LoadRecoveryWrap, Keeps, HasCurrent, HasPrevious, Placed
  <2> QED  BY <2>2, <2>3, <2>4, OneCallMoves
<1>4. CASE StartConsume(o)
  <2> DEFINE gift == delivered[DeviceOf[o]]
             p == IF gift.to = Of(o).cred THEN "ceremony" ELSE "error"
             n == [r EXCEPT !.dek = gift.dek, !.wrapped = gift.dek, !.epoch = gift.epoch,
                            !.phase = p]
  <2>1. gift \in Gift
    BY <1>0, <1>4 DEF Ready, Domains, SharedDomains, StartConsume
  <2>2. op' = [op EXCEPT ![o] = n]
    BY <1>4 DEF StartConsume
  <2>3. n \in CallsOf(Kind[o])
    <3>0. p \in {"ceremony", "error"}
      OBVIOUS
    <3> HIDE DEF p
    <3>4. p \in {"idle"} \cup Waiting \cup Ended
      BY <3>0 DEF Waiting, Ended
    <3>5. gift.dek \in Keys /\ gift.epoch \in Nat
      BY <2>1 DEF Gift
    <3> HIDE DEF gift
    <3>1. n \in Call
      BY <1>0, <3>4, <3>5 DEF Call
    <3>2. n.dek = gift.dek /\ n.wrapped = gift.dek /\ n.epoch = gift.epoch /\ n.phase = p
      BY <1>0 DEF Call
    <3> HIDE DEF n
    <3> QED
      BY <3>0, <3>1, <3>2, <1>0, <1>4, <2>1
      DEF CallsOf, Course, Keyed, Persistent, Persisting, GivenKey, Gift, StartConsume
  <2>4. Keeps(Kind[o], r, n)
    BY <1>0, <1>4 DEF StartConsume, Keeps, HasCurrent, HasPrevious, Placed
  <2> QED  BY <2>2, <2>3, <2>4, OneCallMoves
<1>5. CASE Poll(o)
  <2> DEFINE from == op[requests[o]]
             n == [r EXCEPT !.dek = from.dek, !.cred = Of(o).cred, !.phase = "build"]
  <2>1. requests[o] \in Ops
    BY <1>0, <1>5 DEF Ready, Domains, SharedDomains, Answered, Poll
  <2>2. op' = [op EXCEPT ![o] = n]
    BY <1>5 DEF Poll
  <2>3. from.dek \in Keys
    BY <2>1 DEF Ready, Answered, CallsRun, CallsOf, Course, Keyed
  <2>4. Of(o).cred \in Creds \cup {NoCred}
    BY <1>0 DEF Ready, Domains, SharedDomains, Session
  <2>5. Kind[o] = "handshake"
    BY <1>0, <1>5 DEF Poll, CallsOf, Course
  <2>6. n \in CallsOf(Kind[o])
    <3>1. n \in Call
      BY <1>0, <1>5, <2>3, <2>4, <2>5 DEF Call, Waiting, Ended, Poll
    <3>2. n.dek = from.dek /\ n.cred = Of(o).cred /\ n.phase = "build"
      BY <1>0 DEF Call
    <3> HIDE DEF n
    <3> QED
      BY <3>1, <3>2, <1>0, <1>5, <2>3, <2>4, <2>5
      DEF CallsOf, Course, Keyed, Persistent, Persisting, Poll
  <2>7. Keeps(Kind[o], r, n)
    BY <1>0, <1>5, <2>5 DEF Poll, Keeps, HasCurrent, HasPrevious, Placed
  <2> QED  BY <2>2, <2>6, <2>7, OneCallMoves
<1>6. CASE StartFulfil(o)
  <2> DEFINE k == KeyOf(Of(o).current)
             n == [r EXCEPT !.dek = k, !.phase = "list"]
  <2>1. k \in Keys
    BY <1>0, <1>6, SessionKeys DEF StartFulfil
  <2>2. op' = [op EXCEPT ![o] = n]
    BY <1>6 DEF StartFulfil
  <2>3. n \in CallsOf(Kind[o])
    <3>1. n \in Call
      BY <1>0, <1>6, <2>1 DEF Call, Waiting, Ended, StartFulfil
    <3>2. n.dek = k /\ n.phase = "list"
      BY <1>0 DEF Call
    <3> HIDE DEF n
    <3> QED
      BY <3>1, <3>2, <1>0, <1>6, <2>1
      DEF CallsOf, Course, Keyed, Persistent, Persisting, StartFulfil
  <2>4. Keeps(Kind[o], r, n)
    BY <1>0, <1>6 DEF StartFulfil, Keeps, HasCurrent, HasPrevious, Placed
  <2> QED  BY <2>2, <2>3, <2>4, OneCallMoves
<1>7. CASE ListRequests(o)
  <2> DEFINE open == {x \in Ops : requests[x] = "open"}
             p == IF open = {} THEN "done" ELSE "fulfil"
             n == [r EXCEPT !.todo = open, !.phase = p]
  <2>2. op' = [op EXCEPT ![o] = n]
    BY <1>7 DEF ListRequests
  <2>3. n \in CallsOf(Kind[o])
    <3>0. p \in {"done", "fulfil"} /\ open \in SUBSET Ops
      OBVIOUS
    <3> HIDE DEF p, open
    <3>1. n \in Call
      BY <1>0, <3>0 DEF Call, Waiting, Ended
    <3>2. n.phase = p /\ n.dek = r.dek
      BY <1>0 DEF Call
    <3> HIDE DEF n
    <3> QED
      BY <3>0, <3>1, <3>2, <1>0, <1>7
      DEF CallsOf, Course, Keyed, Persistent, Persisting, ListRequests
  <2>4. Keeps(Kind[o], r, n)
    BY <1>0, <1>7 DEF ListRequests, Keeps, HasCurrent, HasPrevious, Placed, CallsOf, Course
  <2> QED  BY <2>2, <2>3, <2>4, OneCallMoves
<1>8. CASE FulfilOne(o)
  <2> PICK x \in r.todo :
        op' = [op EXCEPT ![o].todo = @ \ {x},
                         ![o].phase = IF op[o].todo = {x} THEN "done" ELSE "fulfil"]
    BY <1>8 DEF FulfilOne
  <2> DEFINE p == IF r.todo = {x} THEN "done" ELSE "fulfil"
             n == [r EXCEPT !.todo = r.todo \ {x}, !.phase = p]
  <2>2. op' = [op EXCEPT ![o] = n]
    OBVIOUS
  <2>3. n \in CallsOf(Kind[o])
    <3>0. p \in {"done", "fulfil"} /\ r.todo \ {x} \in SUBSET Ops
      BY <1>0 DEF Call
    <3> HIDE DEF p
    <3>4. p \in {"idle"} \cup Waiting \cup Ended
      BY <3>0 DEF Waiting, Ended
    <3>1. n \in Call
      BY <1>0, <3>0, <3>4 DEF Call
    <3>2. n.phase = p /\ n.dek = r.dek
      BY <1>0 DEF Call
    <3> HIDE DEF n
    <3> QED
      BY <3>0, <3>1, <3>2, <1>0, <1>8
      DEF CallsOf, Course, Keyed, Persistent, Persisting, FulfilOne
  <2>4. Keeps(Kind[o], r, n)
    BY <1>0, <1>8 DEF FulfilOne, Keeps, HasCurrent, HasPrevious, Placed, CallsOf, Course
  <2> QED  BY <2>2, <2>3, <2>4, OneCallMoves
<1>9. CASE ReadEpochToPersist(o)
  <2> DEFINE n == [r EXCEPT !.epoch = account.epoch, !.phase = "persist"]
  <2>2. op' = [op EXCEPT ![o] = n]
    BY <1>9 DEF ReadEpochToPersist
  <2>3. n \in CallsOf(Kind[o])
    <3>1. n \in Call
      BY <1>0, <1>9 DEF Call, Waiting, Ended, Ready, Domains, SharedDomains, ReadEpochToPersist
    <3>2. n.epoch = account.epoch /\ n.phase = "persist"
      BY <1>0 DEF Call
    <3> HIDE DEF n
    <3> QED
      BY <3>1, <3>2, <1>0, <1>9
      DEF CallsOf, Course, Keyed, Persistent, Persisting, Ready, Domains, SharedDomains, ReadEpochToPersist
  <2>4. Keeps(Kind[o], r, n)
    BY <1>0, <1>9 DEF ReadEpochToPersist, Keeps, HasCurrent, HasPrevious, Placed
  <2> QED  BY <2>2, <2>3, <2>4, OneCallMoves
<1>10. CASE Restored(o)
  <2> DEFINE entry == isolated[DeviceOf[o]]
             n == [r EXCEPT !.dek = entry.dek, !.epoch = entry.epoch,
                            !.cred = entry.cred, !.phase = "epoch"]
  <2>0. Kind[o] = "restore"
    BY <1>0, <1>10 DEF Restored, CallsOf, Course
  <2>1. CASE entry = NoEntry
    <3>1. Go(o, "done")
      BY <1>10, <2>1 DEF Restored
    <3>2. MayGo(Kind[o], op[o], "done")
      BY <1>10, <2>0 DEF Restored, MayGo, Course, Keyed, Persistent, Placed
    <3> QED  BY <3>1, <3>2, GoMoves
  <2>2. CASE entry # NoEntry
    <3>1. entry \in Isolated
      BY <1>0, <2>2 DEF Ready, Domains, SharedDomains
    <3>2. op' = [op EXCEPT ![o] = n]
      BY <1>10, <2>2 DEF Restored
    <3>3. n \in CallsOf(Kind[o])
      <4>1. n \in Call
        BY <1>0, <2>0, <3>1 DEF Call, Waiting, Ended, Isolated
      <4>2. n.dek = entry.dek /\ n.epoch = entry.epoch /\ n.cred = entry.cred /\ n.phase = "epoch"
        BY <1>0 DEF Call
      <4> HIDE DEF n
      <4> QED
        BY <4>1, <4>2, <1>0, <2>0, <3>1
        DEF CallsOf, Course, Keyed, Persistent, Persisting, Isolated
    <3>4. Keeps(Kind[o], r, n)
      BY <1>10, <2>0 DEF Restored, Keeps, HasCurrent, HasPrevious, Placed
    <3> QED  BY <3>2, <3>3, <3>4, OneCallMoves
  <2> QED  BY <2>1, <2>2
<1>11. CASE StartHandshake(o)
  <2> DEFINE n == [r EXCEPT !.epoch = account.epoch, !.phase = "publish"]
  <2>2. op' = [op EXCEPT ![o] = n]
    BY <1>11 DEF StartHandshake
  <2>3. n \in CallsOf(Kind[o])
    <3>1. n \in Call
      BY <1>0, <1>11 DEF Call, Waiting, Ended, Ready, Domains, SharedDomains, StartHandshake
    <3>2. n.epoch = account.epoch /\ n.phase = "publish"
      BY <1>0 DEF Call
    <3> HIDE DEF n
    <3> QED
      BY <3>1, <3>2, <1>0, <1>11
      DEF CallsOf, Course, Keyed, Persistent, Persisting, Ready, Domains, SharedDomains, StartHandshake
  <2>4. Keeps(Kind[o], r, n)
    BY <1>0, <1>11 DEF StartHandshake, Keeps, HasCurrent, HasPrevious, Placed
  <2> QED  BY <2>2, <2>3, <2>4, OneCallMoves
<1> QED
  BY <1>1, <1>2, <1>3, <1>4, <1>5, <1>6, <1>7, <1>8, <1>9, <1>10, <1>11

(* The steps that wrap, store and promote. *)
LEMMA WrappingMoves ==
    ASSUME Ready, NEW o \in Ops,
           \/ WrapCurrent(o) \/ Wrapped(o) \/ StorePasskeyWrap(o) \/ Registered(o)
           \/ StartRegenerate(o) \/ Guard(o) \/ BeginRotation(o) \/ RotationBegun(o)
           \/ Consumed(o) \/ ConfirmRejected(o)
    PROVE  CallsMove
<1> DEFINE r == op[o]
           k == KeyOf(Of(o).current)
<1>0. /\ r \in CallsOf(Kind[o]) /\ Kind[o] \in OpKinds /\ r \in Call
      /\ DeviceOf[o] \in Devices /\ CredOf[o] \in Creds /\ NewKey(o) \in Keys
      /\ Of(o) \in Session
  BY PasskeyDekAssumption DEF Ready, Domains, SharedDomains, CallsRun, Keys, Of
<1>00. Of(o).current # NoHandle => k \in Keys
  BY <1>0, SessionKeys DEF Of
<1> HIDE DEF k
<1> USE DEF At, Starts
<1>1. CASE WrapCurrent(o)
  <2> DEFINE n == [r EXCEPT !.wrapped = k, !.phase = "wrap"]
  <2>1. CASE Of(o).current = NoHandle
    BY <1>1, <2>1, GoMoves DEF WrapCurrent, MayGo, Course, Keyed, Persistent, Placed
  <2>2. CASE Of(o).current # NoHandle
    <3>1. op' = [op EXCEPT ![o] = n]
      BY <1>1, <2>2 DEF WrapCurrent, k
    <3>2. n \in CallsOf(Kind[o])
      <4>1. n \in Call
        BY <1>0, <1>00, <1>1, <2>2 DEF Call, Waiting, Ended, WrapCurrent
      <4>2. n.wrapped = k /\ n.phase = "wrap"
        BY <1>0 DEF Call
      <4> HIDE DEF n
      <4> QED
        BY <4>1, <4>2, <1>0, <1>00, <1>1, <2>2
        DEF CallsOf, Course, Keyed, Persistent, Persisting, WrapCurrent
    <3>3. Keeps(Kind[o], r, n)
      BY <1>0, <1>1 DEF WrapCurrent, Keeps, HasCurrent, HasPrevious, Placed, Call, Persisting
    <3> QED  BY <3>1, <3>2, <3>3, OneCallMoves
  <2> QED  BY <2>1, <2>2
<1>2. CASE Wrapped(o)
  <2> DEFINE c == TargetCred(o)
             e == IF Kind[o] = "add" THEN 1 ELSE r.epoch
             n == [r EXCEPT !.cred = c, !.phase = "savePasskey", !.epoch = e]
  <2>1. c \in Creds /\ e \in Nat
    BY <1>0, <1>2 DEF Wrapped, TargetCred, Session, Call
  <2>2. op' = [op EXCEPT ![o] = n]
    BY <1>2 DEF Wrapped
  <2> HIDE DEF c, e
  <2>3. n \in CallsOf(Kind[o])
    <3>1. n \in Call
      BY <1>0, <1>2, <2>1 DEF Call, Waiting, Ended, Wrapped
    <3>2. /\ n.cred = c /\ n.phase = "savePasskey" /\ n.dek = r.dek
          /\ n.wrapped = r.wrapped /\ n.stored = r.stored
      BY <1>0 DEF Call
    <3> HIDE DEF n
    <3> QED
      BY <3>1, <3>2, <1>0, <1>2, <2>1
      DEF CallsOf, Course, Keyed, Persistent, Persisting, GivenKey, Wrapped
  <2>4. Keeps(Kind[o], r, n)
    BY <1>0, <1>2 DEF Wrapped, Keeps, HasCurrent, HasPrevious, Placed, CallsOf, Call, Course,
                      Persisting
  <2> QED  BY <2>2, <2>3, <2>4, OneCallMoves
<1>3. CASE StorePasskeyWrap(o)
  <2> DEFINE n == [r EXCEPT !.stored = r.wrapped, !.phase = "saved"]
  <2>1. op' = [op EXCEPT ![o] = n]
    BY <1>0, <1>3 DEF StorePasskeyWrap, Call
  <2>2. n \in CallsOf(Kind[o])
    <3>1. n \in Call
      BY <1>0, <1>3 DEF Call, Waiting, Ended, StorePasskeyWrap
    <3>2. /\ n.stored = r.wrapped /\ n.phase = "saved" /\ n.dek = r.dek
          /\ n.wrapped = r.wrapped /\ n.cred = r.cred
      BY <1>0 DEF Call
    <3> HIDE DEF n
    <3> QED
      BY <3>1, <3>2, <1>0, <1>3
      DEF CallsOf, Course, Keyed, Persistent, Persisting, GivenKey, StorePasskeyWrap
  <2>3. Keeps(Kind[o], r, n)
    BY <1>0, <1>3 DEF StorePasskeyWrap, Keeps, HasCurrent, HasPrevious, Placed, CallsOf,
                      Call, Course, Persisting
  <2> QED  BY <2>1, <2>2, <2>3, OneCallMoves
<1>4. CASE Registered(o)
  <2> DEFINE n == [r EXCEPT !.dek = NewKey(o), !.wrapped = NewKey(o), !.cred = CredOf[o],
                            !.epoch = 1, !.phase = "confirm"]
  <2>1. op' = [op EXCEPT ![o] = n]
    BY <1>4 DEF Registered
  <2>2. n \in CallsOf(Kind[o])
    <3>1. n \in Call
      BY <1>0, <1>4 DEF Call, Waiting, Ended, Registered
    <3>2. /\ n.dek = NewKey(o) /\ n.wrapped = NewKey(o) /\ n.cred = CredOf[o]
          /\ n.epoch = 1 /\ n.phase = "confirm"
      BY <1>0 DEF Call
    <3> HIDE DEF n
    <3> QED
      BY <3>1, <3>2, <1>0, <1>4
      DEF CallsOf, Course, Keyed, Persistent, Persisting, GivenKey, Registered
  <2>3. Keeps(Kind[o], r, n)
    BY <1>0, <1>4 DEF Registered, Keeps, HasCurrent, HasPrevious, Placed
  <2> QED  BY <2>1, <2>2, <2>3, OneCallMoves
<1>10. CASE ConfirmRejected(o)
  <2> DEFINE n == [r EXCEPT !.dek = ZeroKey, !.phase = "confirm"]
  <2>0. /\ Kind[o] = "register" /\ ~Placed(Kind[o], r.phase) /\ Keyed(Kind[o], r.phase)
        /\ r.phase \in Waiting
    BY <1>10 DEF ConfirmRejected, Confirming, Placed, Keyed, Waiting
  <2>1. op' = [op EXCEPT ![o] = n]
    BY <1>10 DEF ConfirmRejected
  <2>2. n \in CallsOf(Kind[o])
    <3>0. ZeroKey \in Keys
      BY DEF Keys
    <3>1. n \in Call
      BY <1>0, <3>0 DEF Call, Waiting
    <3>2. /\ n.dek = ZeroKey /\ n.phase = "confirm"
          /\ n.wrapped = r.wrapped /\ n.cred = r.cred
      BY <1>0 DEF Call
    <3> HIDE DEF n
    <3> QED
      BY <3>0, <3>1, <3>2, <1>0, <2>0
      DEF CallsOf, Course, Keyed, Persistent, Persisting, GivenKey
  <2>3. Keeps(Kind[o], r, n)
    BY <2>0 DEF Keeps, HasCurrent, HasPrevious, Waiting
  <2> QED  BY <2>1, <2>2, <2>3, OneCallMoves
<1>5. CASE StartRegenerate(o)
  <2> DEFINE n == [r EXCEPT !.wrapped = k, !.phase = "words"]
  <2>1. CASE Of(o).current = NoHandle
    BY <1>5, <2>1, GoMoves DEF StartRegenerate, MayGo, Course, Keyed, Persistent, Placed
  <2>2. CASE Of(o).current # NoHandle
    <3>1. op' = [op EXCEPT ![o] = n]
      BY <1>5, <2>2 DEF StartRegenerate, k
    <3>2. n \in CallsOf(Kind[o])
      <4>1. n \in Call
        BY <1>0, <1>00, <1>5, <2>2 DEF Call, Waiting, Ended, StartRegenerate
      <4>2. n.wrapped = k /\ n.phase = "words"
        BY <1>0 DEF Call
      <4> HIDE DEF n
      <4> QED
        BY <4>1, <4>2, <1>0, <1>00, <1>5, <2>2
        DEF CallsOf, Course, Keyed, Persistent, Persisting, StartRegenerate
    <3>3. Keeps(Kind[o], r, n)
      BY <1>0, <1>5 DEF StartRegenerate, Keeps, HasCurrent, HasPrevious, Placed, Call,
                        Persisting
    <3> QED  BY <3>1, <3>2, <3>3, OneCallMoves
  <2> QED  BY <2>1, <2>2
<1>6. CASE Guard(o)
  <2> DEFINE n == [r EXCEPT !.epoch = account.epoch + 1, !.phase = "begin"]
  <2>1. CASE account.pending # 0
    BY <1>6, <2>1, RotationMoves
  <2>2. CASE account.pending = 0
    <3>1. op' = [op EXCEPT ![o] = n]
      BY <1>6, <2>2 DEF Guard
    <3>2. n \in CallsOf(Kind[o])
      <4>1. n \in Call
        <5>1. account.epoch + 1 \in Nat
          BY DEF Ready, Domains, SharedDomains
        <5> QED  BY <1>0, <5>1 DEF Call, Waiting, Ended
      <4>2. n.epoch = account.epoch + 1 /\ n.phase = "begin"
        BY <1>0 DEF Call
      <4> HIDE DEF n
      <4> QED
        BY <4>1, <4>2, <1>0, <1>6
        DEF CallsOf, Course, Keyed, Persistent, Persisting, Guard, Ready, Domains, SharedDomains
    <3>3. Keeps(Kind[o], r, n)
      BY <1>0, <1>6 DEF Guard, Keeps, HasCurrent, HasPrevious, Placed, CallsOf, Course
    <3> QED  BY <3>1, <3>2, <3>3, OneCallMoves
  <2> QED  BY <2>1, <2>2
<1>7. CASE BeginRotation(o)
  <2> DEFINE p == IF Of(o).current = NoHandle THEN "error" ELSE "build"
             n == [r EXCEPT !.dek = NewKey(o), !.phase = p]
  <2>1. op' = [op EXCEPT ![o] = n]
    BY <1>7 DEF BeginRotation
  <2>2. n \in CallsOf(Kind[o])
    <3>0. p \in {"error", "build"}
      OBVIOUS
    <3> HIDE DEF p
    <3>1. n \in Call
      BY <1>0, <3>0 DEF Call, Waiting, Ended
    <3>2. n.dek = NewKey(o) /\ n.phase = p
      BY <1>0 DEF Call
    <3> HIDE DEF n
    <3> QED
      BY <3>0, <3>1, <3>2, <1>0, <1>7
      DEF CallsOf, Course, Keyed, Persistent, Persisting, BeginRotation
  <2>3. Keeps(Kind[o], r, n)
    BY <1>0, <1>7 DEF BeginRotation, Keeps, HasCurrent, HasPrevious, Placed, CallsOf, Course
  <2> QED  BY <2>1, <2>2, <2>3, OneCallMoves
<1>8. CASE RotationBegun(o)
  <2> DEFINE h == session[DeviceOf[o]].current
             n == [r EXCEPT !.phase = "rewrap", !.held = h]
  <2>1. h \in Handles \cup {NoHandle}
    BY <1>0 DEF Ready, Domains, SharedDomains, Session
  <2>2. op' = [op EXCEPT ![o] = n]
    BY <1>8 DEF RotationBegun, Promote
  <2> HIDE DEF h
  <2>3. n \in CallsOf(Kind[o])
    <3>1. n \in Call
      BY <1>0, <1>8, <2>1 DEF Call, Waiting, Ended, RotationBegun
    <3>2. n.phase = "rewrap" /\ n.held = h
      BY <1>0 DEF Call
    <3> HIDE DEF n
    <3> QED
      BY <3>1, <3>2, <1>0, <1>8, <2>1
      DEF CallsOf, Course, Keyed, Persistent, Persisting, RotationBegun
  <2>4. Keeps(Kind[o], r, n)
    BY <1>0, <1>8 DEF RotationBegun, Keeps, HasCurrent, HasPrevious, Placed
  <2> QED  BY <2>2, <2>3, <2>4, OneCallMoves
<1>9. CASE Consumed(o)
  <2> DEFINE h == session[DeviceOf[o]].current
             n == [r EXCEPT !.phase = "done", !.held = h]
  <2>1. h \in Handles \cup {NoHandle}
    BY <1>0 DEF Ready, Domains, SharedDomains, Session
  <2>2. op' = [op EXCEPT ![o] = n]
    BY <1>9 DEF Consumed, Promote
  <2> HIDE DEF h
  <2>3. n \in CallsOf(Kind[o])
    <3>1. n \in Call
      BY <1>0, <1>9, <2>1 DEF Call, Waiting, Ended, Consumed
    <3>2. n.phase = "done" /\ n.held = h
      BY <1>0 DEF Call
    <3> HIDE DEF n
    <3> QED
      BY <3>1, <3>2, <1>0, <1>9, <2>1
      DEF CallsOf, Course, Keyed, Persistent, Persisting, Consumed
  <2>4. Keeps(Kind[o], r, n)
    BY <1>0, <1>9 DEF Consumed, Keeps, HasCurrent, HasPrevious, Placed
  <2> QED  BY <2>2, <2>3, <2>4, OneCallMoves
<1> QED
  BY <1>1, <1>2, <1>3, <1>4, <1>5, <1>6, <1>7, <1>8, <1>9,
     <1>10

(* adoptHandle also marks the rotation it disturbs. *)
LEMMA AdoptMoves ==
    ASSUME Ready, NEW o \in Ops, NEW n \in CallsOf(Kind[o]), Keeps(Kind[o], op[o], n),
           NEW mark \in [Ops -> BOOLEAN],
           op' = [x \in Ops |-> IF x = o THEN n
                                ELSE [op[x] EXCEPT !.disturbed = @ \/ mark[x]]]
    PROVE  CallsMove
<1>1. ASSUME NEW x \in Ops, x # o
      PROVE  op'[x] \in CallsOf(Kind[x]) /\ Keeps(Kind[x], op[x], op'[x])
  <2> DEFINE r == op[x]
             m == [r EXCEPT !.disturbed = r.disturbed \/ mark[x]]
  <2>1. op'[x] = m /\ r \in CallsOf(Kind[x])
    BY <1>1 DEF Ready, CallsRun
  <2>2. (r.disturbed \/ mark[x]) \in BOOLEAN
    BY <2>1 DEF CallsOf, Call
  <2>3. m \in CallsOf(Kind[x])
    BY <2>1, <2>2 DEF CallsOf, Call, GivenKey
  <2>4. Keeps(Kind[x], r, m)
    BY <2>1 DEF Keeps, CallsOf, Call, HasCurrent, HasPrevious, GivenKey
  <2> QED  BY <2>1, <2>3, <2>4
<1>2. op'[o] = n
  OBVIOUS
<1>3. \A x \in Ops : op'[x] \in CallsOf(Kind[x]) /\ Keeps(Kind[x], op[x], op'[x])
  BY <1>1, <1>2
<1>4. \A x \in Ops : op'[x] \in Call
  BY <1>3 DEF CallsOf
<1> QED  BY <1>3, <1>4 DEF CallsMove

(* The steps that end in adoptHandle. *)
LEMMA AdoptingMoves ==
    ASSUME Ready, NEW o \in Ops,
           \/ Unlocked(o) \/ Recovered(o) \/ RegisterActivated(o) \/ HandshakeActivated(o)
           \/ RestoreAdopted(o) \/ ClearFails(o)
    PROVE  CallsMove
<1> DEFINE r == op[o]
           mark == [x \in Ops |-> DeviceOf[x] = DeviceOf[o] /\ AwaitsRewrap(x)]
           to(p) == [r EXCEPT !.phase = p]
<1>0. /\ r \in CallsOf(Kind[o]) /\ Kind[o] \in OpKinds /\ r \in Call
      /\ CredOf[o] \in Creds /\ mark \in [Ops -> BOOLEAN]
  BY PasskeyDekAssumption DEF Ready, Domains, SharedDomains, CallsRun, AwaitsRewrap
<1>1. ASSUME NEW m, NEW c, NEW k, NEW n \in CallsOf(Kind[o]), Keeps(Kind[o], r, n),
             Adopt(o, m, c, k, n)
      PROVE  CallsMove
  <2>1. op' = [x \in Ops |-> IF x = o THEN n
                             ELSE [op[x] EXCEPT !.disturbed = @ \/ mark[x]]]
    BY <1>1 DEF Adopt
  <2> HIDE DEF mark
  <2> QED  BY <1>0, <1>1, <2>1, AdoptMoves
<1> HIDE DEF mark
<1>2. ASSUME NEW m, NEW c, NEW k, NEW p \in Phases, MayGo(Kind[o], r, p),
             Adopt(o, m, c, k, to(p))
      PROVE  CallsMove
  <2>1. /\ to(p) \in Call /\ to(p).phase = p /\ to(p).dek = r.dek
        /\ to(p).older = r.older /\ to(p).wrapped = r.wrapped
        /\ to(p).stored = r.stored /\ to(p).cred = r.cred /\ to(p).loaded = r.loaded
    BY <1>0, PhaseChanges
  <2> HIDE DEF to
  <2>2. to(p) \in CallsOf(Kind[o])
    BY <1>0, <1>2, <2>1 DEF CallsOf, MayGo, GivenKey
  <2>3. Keeps(Kind[o], r, to(p))
    BY <1>2, <2>1 DEF Keeps, MayGo, HasCurrent, HasPrevious, GivenKey
  <2> QED  BY <1>1, <1>2, <2>2, <2>3
<1>3. CASE Unlocked(o)
  <2> DEFINE newest == Newest(r.loaded)
             rest == r.loaded \ {newest}
             a == [r EXCEPT !.dek = newest.dek, !.phase = "done"]
             b == [r EXCEPT !.dek = newest.dek, !.older = Newest(rest).dek,
                            !.phase = "buildPrevious"]
  <2>1. newest \in Wrap /\ rest \in WrapSets /\ (rest # {} => Newest(rest) \in Wrap)
    <3>1. r.loaded \in WrapSets /\ r.loaded # {}
      BY <1>0, <1>3 DEF Unlocked, At, CallsOf, Call
    <3>2. newest \in r.loaded
      BY <3>1, NewestExists
    <3>3. rest \in WrapSets
      BY <3>1, WrapSetsClosed
    <3>4. rest # {} => Newest(rest) \in rest
      BY <3>3, NewestExists
    <3> QED  BY <3>1, <3>2, <3>3, <3>4 DEF WrapSets
  <2>2. Adopt(o, "passkey", CredOf[o], CredOf[o], IF rest = {} THEN a ELSE b)
    BY <1>3 DEF Unlocked
  <2>3. Kind[o] = "unlock" /\ r.phase = "build"
    BY <1>3 DEF Unlocked, At
  <2> HIDE DEF newest, rest
  <2>4. a \in CallsOf(Kind[o]) /\ Keeps(Kind[o], r, a)
    <3>1. a \in Call
      BY <1>0, <2>1 DEF Call, Waiting, Ended, Wrap
    <3>2. a.dek = newest.dek /\ a.phase = "done"
      BY <1>0 DEF Call
    <3> HIDE DEF a
    <3> QED
      BY <2>3, <3>1, <3>2 DEF CallsOf, Course, Keyed, Persistent, Keeps, HasCurrent,
                              HasPrevious, Placed
  <2>5. ASSUME rest # {} PROVE b \in CallsOf(Kind[o]) /\ Keeps(Kind[o], r, b)
    <3> DEFINE w == Newest(rest)
    <3>1. w.dek \in Keys /\ newest.dek \in Keys
      BY <2>1, <2>5 DEF Wrap
    <3>2. b \in Call
      BY <1>0, <3>1 DEF Call, Waiting, Ended
    <3>3. b.dek = newest.dek /\ b.phase = "buildPrevious" /\ b.older = w.dek
      BY <1>0 DEF Call
    <3> HIDE DEF b, w
    <3> QED
      BY <2>3, <3>1, <3>2, <3>3 DEF CallsOf, Course, Keyed, Persistent, Keeps, HasCurrent,
                              HasPrevious, Placed
  <2> HIDE DEF a, b
  <2>6. CASE rest = {}
    BY <1>1, <2>2, <2>4, <2>6
  <2>7. CASE rest # {}
    BY <1>1, <2>2, <2>5, <2>7
  <2> QED  BY <2>6, <2>7
<1> USE DEF At, MayGo, Course, Keyed, Persistent, Placed, Phases, Waiting, Ended
<1>4. CASE Recovered(o)
  BY <1>2, <1>4 DEF Recovered
<1>5. CASE RegisterActivated(o)
  BY <1>2, <1>5 DEF RegisterActivated
<1>6. CASE HandshakeActivated(o)
  BY <1>2, <1>6 DEF HandshakeActivated
<1>7. CASE RestoreAdopted(o)
  BY <1>2, <1>7 DEF RestoreAdopted
<1>8. CASE ClearFails(o)
  <2>1. Kind[o] = "restore" /\ r.phase = "clear"
    BY <1>0, <1>8 DEF ClearFails, CallsOf
  <2> QED  BY <1>2, <1>8, <2>1 DEF ClearFails
<1> QED  BY <1>3, <1>4, <1>5, <1>6, <1>7, <1>8

LEMMA OpStepMoves ==
    ASSUME Ready, NEW o \in Ops, OpStep(o)
    PROVE  CallsMove
BY WaitingMoves, RotationMoves, LoadingMoves, WrappingMoves, AdoptingMoves DEF OpStep

LEMMA SteadyCalls ==
    ASSUME Ready, UNCHANGED op
    PROVE  CallsMove
BY DEF Ready, Domains, SharedDomains, CallsRun, CallsMove, Keeps

LEMMA ReloadMoves ==
    ASSUME Ready, NEW d \in Devices, Reload(d)
    PROVE  CallsMove
<1>1. ASSUME NEW o \in Ops
      PROVE  op'[o] \in CallsOf(Kind[o]) /\ Keeps(Kind[o], op[o], op'[o])
  <2> DEFINE r == op[o]
             n == [r EXCEPT !.phase = "error"]
  <2>1. r \in CallsOf(Kind[o]) /\ r \in Call /\ Kind[o] \in OpKinds
    BY PasskeyDekAssumption DEF Ready, Domains, SharedDomains, CallsRun
  <2>2. CASE DeviceOf[o] = d /\ r.phase \in Waiting
    <3>1. op'[o] = n
      BY <2>2 DEF Reload
    <3>2. n \in Call
      BY <2>1 DEF Call, Waiting, Ended
    <3>3. n.phase = "error" /\ n.dek = r.dek /\ n.stored = r.stored /\ n.wrapped = r.wrapped
      BY <2>1 DEF Call
    <3> HIDE DEF n
    <3>4. n \in CallsOf(Kind[o])
      BY <2>1, <2>2, <3>2, <3>3 DEF CallsOf, Course, Keyed, Persistent, Waiting, GivenKey
    <3>5. Keeps(Kind[o], r, n)
      BY <2>1, <2>2, <3>3
      DEF Keeps, HasCurrent, HasPrevious, Placed, CallsOf, Course, Waiting, GivenKey
    <3> QED  BY <3>1, <3>4, <3>5
  <2>3. CASE ~(DeviceOf[o] = d /\ r.phase \in Waiting)
    BY <2>1, <2>3 DEF Reload, Keeps
  <2> QED  BY <2>2, <2>3
<1>2. op' \in [Ops -> Call]
  <2>1. \A o \in Ops : op'[o] \in Call
    BY <1>1 DEF CallsOf
  <2> QED  BY <2>1 DEF Reload
<1> QED  BY <1>1, <1>2 DEF CallsMove

-----------------------------------------------------------------------------
(* Sessions and handles. *)

(* A handle that a session may hold stays one. *)
LEMMA HandlesStay ==
    ASSUME Ready, CallsMove, NEW d \in Devices
    PROVE  HandlesOf(d) \subseteq HandlesOf(d)'
BY DEF CallsMove, Keeps, HandlesOf, HasCurrent, HasPrevious, Handles

(* A step that leaves the sessions alone and destroys nothing. *)
Calm ==
    /\ session' = session
    /\ alive \subseteq alive' /\ alive' \subseteq Handles
    /\ \A x \in Ops :
         /\ op[x].phase = "buildPrevious" =>
              op'[x].phase \in {"buildPrevious", "noFallback"}
         /\ Kind[x] = "restore" /\ op'[x].phase = "epoch" =>
              op[x].phase = "epoch" \/ Current(x) \in alive'
         /\ op'[x].phase = "poll" => op[x].phase = "poll" \/ requests'[x] # "none"
(* A call that goes on by itself. *)
Alone(o) ==
    /\ session' = session
    /\ alive' \in {alive, alive \cup {Current(o)}}
    /\ \A x \in Ops \ {o} : op'[x] = op[x]
    /\ op[o].phase # "buildPrevious" /\ op'[o].phase # "poll"
    /\ Kind[o] = "restore" /\ op'[o].phase = "epoch" => Current(o) \in alive'
Kept == UNCHANGED << plan, serverVars, cacheVars >>

(* The steps of a call that touch nothing but the call. *)
LEMMA CalmSteps ==
    ASSUME PInv, NEW o \in Ops,
           \/ StartUnlock(o) \/ UnlockCeremony(o) \/ LoadWraps(o)
           \/ LoadCachedWrap(o) \/ StartRecover(o) \/ LoadRecoveryWrap(o)
           \/ WrapCurrent(o) \/ Wrapped(o) \/ StartRegister(o) \/ Registered(o)
           \/ Confirm(o) \/ RegisterSaved(o) \/ StartAdd(o) \/ StartRegenerate(o)
           \/ WordsShown(o) \/ ConfirmRejected(o)
    PROVE  Alone(o) /\ Kept
<1>0. op \in [Ops -> Call] /\ Course(Kind[o], op[o].phase)
  BY DEF PInv, Ready, Domains, CallsRun, CallsOf
<1> USE DEF Alone, Kept, At, Starts, Go, Call
<1>1. CASE StartUnlock(o)
  BY <1>0, <1>1 DEF StartUnlock
<1>2. CASE UnlockCeremony(o)
  BY <1>0, <1>2 DEF UnlockCeremony
<1>3. CASE LoadWraps(o)
  BY <1>0, <1>3 DEF LoadWraps
<1>4. CASE LoadCachedWrap(o)
  BY <1>0, <1>4 DEF LoadCachedWrap
<1>5. CASE StartRecover(o)
  BY <1>0, <1>5 DEF StartRecover
<1>6. CASE LoadRecoveryWrap(o)
  BY <1>0, <1>6 DEF LoadRecoveryWrap
<1>7. CASE WrapCurrent(o)
  BY <1>0, <1>7 DEF WrapCurrent
<1>8. CASE Wrapped(o)
  BY <1>0, <1>8 DEF Wrapped
<1>9. CASE StartRegister(o)
  BY <1>0, <1>9 DEF StartRegister
<1>10. CASE Registered(o)
  BY <1>0, <1>10 DEF Registered
<1>11. CASE Confirm(o)
  BY <1>0, <1>11 DEF Confirm
<1>12. CASE RegisterSaved(o)
  BY <1>0, <1>12 DEF RegisterSaved
<1>13. CASE StartAdd(o)
  BY <1>0, <1>13 DEF StartAdd
<1>14. CASE StartRegenerate(o)
  BY <1>0, <1>14 DEF StartRegenerate
<1>15. CASE WordsShown(o)
  BY <1>0, <1>15 DEF WordsShown
<1>16. CASE ConfirmRejected(o)
  BY <1>0, <1>16 DEF ConfirmRejected
<1> QED
  BY <1>1, <1>2, <1>3, <1>4, <1>5, <1>6, <1>7, <1>8, <1>9, <1>10, <1>11, <1>12, <1>13, <1>14, <1>15,
     <1>16

(* Likewise. *)
LEMMA CalmRotationSteps ==
    ASSUME PInv, NEW o \in Ops,
           \/ StartDrive(o) \/ BeginRotation(o) \/ StartRewrap(o) \/ Migrate(o)
           \/ StartConsume(o) \/ ConsumeCeremony(o) \/ ConsumeBuilt(o)
           \/ StartHandshake(o) \/ Poll(o) \/ StartFulfil(o) \/ ListRequests(o)
           \/ StartPersist(o) \/ ReadEpochToPersist(o) \/ StartRestore(o)
           \/ Restored(o)
    PROVE  Alone(o) /\ Kept
<1>0. op \in [Ops -> Call] /\ Course(Kind[o], op[o].phase)
  BY DEF PInv, Ready, Domains, CallsRun, CallsOf
<1> USE DEF Alone, Kept, At, Starts, Go, Call
<1>1. CASE StartDrive(o)
  BY <1>0, <1>1 DEF StartDrive
<1>2. CASE BeginRotation(o)
  BY <1>0, <1>2 DEF BeginRotation
<1>3. CASE StartRewrap(o)
  BY <1>0, <1>3 DEF StartRewrap
<1>4. CASE Migrate(o)
  BY <1>0, <1>4 DEF Migrate
<1>5. CASE StartConsume(o)
  BY <1>0, <1>5 DEF StartConsume
<1>6. CASE ConsumeCeremony(o)
  BY <1>0, <1>6 DEF ConsumeCeremony
<1>7. CASE ConsumeBuilt(o)
  BY <1>0, <1>7 DEF ConsumeBuilt, Current, Handles
<1>8. CASE StartHandshake(o)
  BY <1>0, <1>8 DEF StartHandshake
<1>9. CASE Poll(o)
  BY <1>0, <1>9 DEF Poll
<1>10. CASE StartFulfil(o)
  BY <1>0, <1>10 DEF StartFulfil
<1>11. CASE ListRequests(o)
  BY <1>0, <1>11 DEF ListRequests
<1>12. CASE StartPersist(o)
  BY <1>0, <1>12 DEF StartPersist
<1>13. CASE ReadEpochToPersist(o)
  BY <1>0, <1>13 DEF ReadEpochToPersist
<1>14. CASE StartRestore(o)
  BY <1>0, <1>14 DEF StartRestore
<1>15. CASE Restored(o)
  BY <1>0, <1>15 DEF Restored, Current, Handles
<1> QED
  BY <1>1, <1>2, <1>3, <1>4, <1>5, <1>6, <1>7, <1>8, <1>9, <1>10, <1>11, <1>12, <1>13, <1>14, <1>15

LEMMA AloneIsCalm ==
    ASSUME Ready, NEW o \in Ops, Alone(o)
    PROVE  Calm
BY DEF Ready, Domains, Alone, Calm, Current, Handles

(* Nothing is asked or answered. *)
LEMMA AnswersStay ==
    ASSUME Ready, CallsMove, requests' = requests,
           \A x \in Ops : op'[x].phase = "poll" => op[x].phase = "poll"
    PROVE  Answered'
BY DEF Ready, Answered, CallsMove, Keeps

(* The steps of a call that change what is shared or cached. *)
LEMMA SharedSteps ==
    ASSUME PInv, NEW o \in Ops,
           \/ CacheWrap(o) \/ StorePasskeyWrap(o) \/ StoreRecoveryWrap(o) \/ Guard(o)
           \/ Deliver(o) \/ Retire(o) \/ CompleteRotation(o) \/ Persisted(o) \/ Cleared(o)
    PROVE  Alone(o) /\ SharedDomains' /\ requests' = requests
<1>0. /\ op \in [Ops -> Call] /\ Course(Kind[o], op[o].phase) /\ op[o] \in CallsOf(Kind[o])
      /\ SharedDomains /\ Ready /\ DeviceOf[o] \in Devices /\ NewKey(o) \in Keys
      /\ session \in [Devices -> Session]
  BY PasskeyDekAssumption DEF PInv, Ready, Domains, CallsRun, CallsOf, Keys
<1> USE DEF At, Go
<1>1. CASE CacheWrap(o)
  <2>1. op[o].loaded \in WrapSets /\ op[o].loaded # {}
    BY <1>0, <1>1 DEF CacheWrap, CallsOf, Call, Course
  <2>2. Newest(op[o].loaded) \in Wrap
    BY <2>1, NewestExists DEF WrapSets
  <2>3. Alone(o)
    BY <1>0, <1>1 DEF CacheWrap, Alone, Call
  <2>4. SharedDomains' /\ requests' = requests
    BY <1>0, <1>1, <2>2 DEF CacheWrap, SharedDomains, serverVars
  <2> QED  BY <2>3, <2>4
<1>2. CASE StorePasskeyWrap(o)
  <2> DEFINE row == [cred |-> op[o].cred, epoch |-> op[o].epoch, dek |-> op[o].wrapped]
             left == {w \in passkeyWraps : w.cred # row.cred \/ w.epoch # row.epoch}
  <2>1. row \in Wrap
    BY <1>0, <1>2 DEF StorePasskeyWrap, CallsOf, Call, Wrap
  <2>2. left \in WrapSets
    BY <1>0, WrapSetsClosed DEF SharedDomains
  <2>3. left \cup {row} \in WrapSets
    <3> HIDE DEF left, row
    <3> QED  BY <2>1, <2>2, WrapSetsClosed
  <2>4. passkeyWraps' = left \cup {row}
    BY <1>2 DEF StorePasskeyWrap
  <2> HIDE DEF left, row
  <2>5. Alone(o)
    BY <1>0, <1>2 DEF StorePasskeyWrap, Alone, Call
  <2>6. SharedDomains' /\ requests' = requests
    BY <1>0, <1>2, <2>3, <2>4 DEF StorePasskeyWrap, SharedDomains, cacheVars
  <2> QED  BY <2>5, <2>6
<1>3. CASE StoreRecoveryWrap(o)
  <2>1. op[o].wrapped \in Keys \cup {NoKey}
    BY <1>0 DEF Call
  <2>2. Alone(o)
    BY <1>0, <1>3 DEF StoreRecoveryWrap, Alone, Call, Course
  <2>3. SharedDomains' /\ requests' = requests
    BY <1>0, <1>3, <2>1 DEF StoreRecoveryWrap, SharedDomains, cacheVars
  <2> QED  BY <2>2, <2>3
<1>4. CASE Guard(o)
  <2>1. Alone(o)
    BY <1>0, <1>4 DEF Guard, Alone, Call, Course
  <2>2. CASE account.pending # 0
    BY <1>0, <1>4, <2>1, <2>2 DEF Guard, SharedDomains, cacheVars
  <2>3. CASE account.pending = 0
    <3> DEFINE k == Append(account.keys, NewKey(o))
               e == account.epoch + 1
    <3>1. k \in Seq(Keys) /\ e \in Nat
      BY <1>0 DEF SharedDomains
    <3>2. account' = [account EXCEPT !.pending = e, !.keys = k]
      BY <1>4, <2>3 DEF Guard
    <3> HIDE DEF k, e
    <3>3. account' \in [epoch : Nat, pending : Nat, keys : Seq(Keys), oldest : Nat]
      BY <1>0, <3>1, <3>2 DEF SharedDomains
    <3> QED
      BY <1>0, <1>4, <2>1, <3>3 DEF Guard, SharedDomains, cacheVars
  <2> QED  BY <2>2, <2>3
<1>5. CASE Deliver(o)
  <2>1. Alone(o)
    BY <1>0, <1>5 DEF Deliver, Alone, Call, Course
  <2>2. delivered' \in [Devices -> Gift \cup {NoEntry}]
    <3>1. CASE Of(o).current = NoHandle
      BY <1>0, <1>5, <3>1 DEF Deliver, SharedDomains
    <3>2. CASE Of(o).current # NoHandle
      <4> DEFINE k == KeyOf(Of(o).current)
                 e == op[o].epoch
      <4>1. k \in Keys /\ e \in Nat
        BY <1>0, <3>2, SessionKeys DEF Of, Call
      <4>2. PICK to \in [Devices -> Creds] :
              delivered' = [d \in Devices |->
                        IF d = DeviceOf[o] \/ PasskeysOf(d) = {} THEN delivered[d]
                        ELSE [dek |-> k, epoch |-> e, to |-> to[d]]]
        BY <1>5, <3>2 DEF Deliver
      <4> HIDE DEF k, e
      <4> QED  BY <1>0, <4>1, <4>2 DEF SharedDomains, Gift
    <3> QED  BY <3>1, <3>2
  <2>3. SharedDomains' /\ requests' = requests
    BY <1>0, <1>5, <2>2 DEF Deliver, SharedDomains, cacheVars
  <2> QED  BY <2>1, <2>3
<1>6. CASE Retire(o)
  <2>1. Alone(o)
    BY <1>0, <1>6 DEF Retire, Alone, Call
  <2>2. passkeyWraps' \in WrapSets
    BY <1>0, <1>6, WrapSetsClosed DEF Retire, SharedDomains
  <2>3. account' \in [epoch : Nat, pending : Nat, keys : Seq(Keys), oldest : Nat]
    <3>1. op[o].epoch \in Nat
      BY <1>0 DEF Call
    <3> QED  BY <1>0, <1>6, <3>1 DEF Retire, SharedDomains
  <2>4. SharedDomains' /\ requests' = requests
    BY <1>0, <1>6, <2>2, <2>3 DEF Retire, SharedDomains, cacheVars
  <2> QED  BY <2>1, <2>4
<1>7. CASE CompleteRotation(o)
  <2>1. Alone(o)
    BY <1>0, <1>7 DEF CompleteRotation, Alone, Call, Course
  <2>2. account' \in [epoch : Nat, pending : Nat, keys : Seq(Keys), oldest : Nat]
    <3>1. op[o].epoch \in Nat
      BY <1>0 DEF Call
    <3> QED  BY <1>0, <1>7, <3>1 DEF CompleteRotation, SharedDomains
  <2>3. SharedDomains' /\ requests' = requests
    BY <1>0, <1>7, <2>2 DEF CompleteRotation, SharedDomains, cacheVars
  <2> QED  BY <2>1, <2>3
<1>8. CASE Persisted(o)
  <2>1. Alone(o)
    BY <1>0, <1>8 DEF Persisted, Alone, Call, Course
  <2>2. isolated' \in [Devices -> Isolated \cup {NoEntry}]
    <3>1. CASE Of(o).current = NoHandle
      BY <1>0, <1>8, <3>1 DEF Persisted, SharedDomains
    <3>2. CASE Of(o).current # NoHandle
      <4> DEFINE k == KeyOf(Of(o).current)
                 e == op[o].epoch
                 c == Of(o).cred
      <4>1. k \in Keys /\ e \in Nat /\ c \in Creds \cup {NoCred}
        BY <1>0, <3>2, SessionKeys DEF Of, Call, Session
      <4>2. isolated' = [isolated EXCEPT ![DeviceOf[o]] =
                           [dek |-> k, epoch |-> e, cred |-> c]]
        BY <1>8, <3>2 DEF Persisted
      <4> HIDE DEF k, e, c
      <4> QED  BY <1>0, <4>1, <4>2 DEF SharedDomains, Isolated
    <3> QED  BY <3>1, <3>2
  <2>3. SharedDomains' /\ requests' = requests
    BY <1>0, <1>8, <2>2 DEF Persisted, SharedDomains, serverVars
  <2> QED  BY <2>1, <2>3
<1>9. CASE Cleared(o)
  <2>1. Alone(o)
    BY <1>0, <1>9 DEF Cleared, Alone, Call, Course
  <2>2. SharedDomains' /\ requests' = requests
    BY <1>0, <1>9 DEF Cleared, SharedDomains, serverVars
  <2> QED  BY <2>1, <2>2
<1> QED
  BY <1>1, <1>2, <1>3, <1>4, <1>5, <1>6, <1>7, <1>8, <1>9

(* The handshake. *)
LEMMA RequestSteps ==
    ASSUME PInv, CallsMove, NEW o \in Ops, Published(o) \/ FulfilOne(o)
    PROVE  Calm /\ SharedDomains' /\ Answered'
<1>0. /\ op \in [Ops -> Call] /\ Course(Kind[o], op[o].phase) /\ SharedDomains
      /\ requests \in [Ops -> Ops \cup {"none", "open"}] /\ alive \subseteq Handles
      /\ "none" \notin Ops /\ "open" \notin Ops
  BY PasskeyDekAssumption DEF PInv, Ready, Domains, SharedDomains, CallsRun, CallsOf
<1>1. CASE Published(o)
  <2>1. /\ requests' = [requests EXCEPT ![o] = "open"] /\ op'[o].phase = "poll"
        /\ op[o].phase = "publish" /\ \A x \in Ops \ {o} : op'[x] = op[x]
    BY <1>0, <1>1 DEF Published, Go, At, Call
  <2>2. Calm
    BY <1>0, <1>1, <2>1 DEF Published, Calm
  <2>3. SharedDomains'
    BY <1>0, <1>1, <2>1 DEF Published, SharedDomains, cacheVars
  <2>4. Answered'
    BY <1>0, <2>1 DEF PInv, Ready, Answered, CallsMove, Keeps
  <2> QED  BY <2>2, <2>3, <2>4
<1>2. CASE FulfilOne(o)
  <2>1. PICK x \in op[o].todo :
          /\ requests' = [requests EXCEPT ![x] = o]
          /\ op' = [op EXCEPT ![o].todo = @ \ {x},
                              ![o].phase = IF op[o].todo = {x} THEN "done" ELSE "fulfil"]
    BY <1>2 DEF FulfilOne
  <2>2. /\ op'[o].phase \in {"done", "fulfil"} /\ op[o].phase = "fulfil"
        /\ \A y \in Ops \ {o} : op'[y] = op[y]
    <3> DEFINE p == IF op[o].todo = {x} THEN "done" ELSE "fulfil"
               t == op[o].todo \ {x}
    <3>1. op' = [op EXCEPT ![o].todo = t, ![o].phase = p]
      BY <2>1
    <3>2. p \in {"done", "fulfil"}
      OBVIOUS
    <3> HIDE DEF p, t
    <3>3. op[o].phase = "fulfil"
      BY <1>2 DEF FulfilOne, At
    <3>4. op[o] \in Call
      BY <1>0
    <3>5. op'[o].phase = p /\ \A y \in Ops \ {o} : op'[y] = op[y]
      BY <1>0, <3>1, <3>4 DEF Call
    <3> QED  BY <3>2, <3>3, <3>5
  <2>3. Kind[o] = "fulfil" /\ o # "none" /\ x \in Ops
    BY <1>0, <2>2 DEF Course, Call
  <2>4. Calm
    BY <1>0, <1>2, <2>2 DEF FulfilOne, Calm
  <2>5. SharedDomains'
    BY <1>0, <1>2, <2>1, <2>3 DEF FulfilOne, SharedDomains, cacheVars
  <2>6. Answered'
    <3>1. ASSUME NEW y \in Ops, requests'[y] # requests[y]
          PROVE  requests'[y] = o /\ op'[o].phase # "idle"
      BY <1>0, <2>1, <2>2, <3>1 DEF SharedDomains
    <3>2. \A y \in Ops : Kind[y] = "fulfil" /\ op[y].phase # "idle" => op'[y].phase # "idle"
      BY <2>2
    <3>3. Answered
      BY <1>0 DEF PInv, Ready
    <3> SUFFICES ASSUME NEW y \in Ops
                 PROVE  /\ requests'[y] \in Ops =>
                              Kind[requests'[y]] = "fulfil" /\ op'[requests'[y]].phase # "idle"
                        /\ op'[y].phase = "poll" => requests'[y] # "none"
      BY DEF Answered
    <3>4. op'[y].phase = "poll" => op[y].phase = "poll"
      BY <2>2
    <3>5. CASE requests'[y] # requests[y]
      BY <2>3, <3>1, <3>5
    <3>6. CASE requests'[y] = requests[y]
      BY <3>2, <3>3, <3>4, <3>6 DEF Answered
    <3> QED  BY <3>5, <3>6
  <2> QED  BY <2>4, <2>5, <2>6
<1> QED  BY <1>1, <1>2

(* A device on which a replacement for a destroyed previous handle is on its *)
(* way, or failed.                                                           *)
Exempt(d) ==
    \E o \in Ops : /\ Kind[o] = "unlock" /\ DeviceOf[o] = d
                   /\ op[o].phase \in {"buildPrevious", "noFallback"}

LEMMA DeadStayAdopted ==
    ASSUME PInv, CallsMove
    PROVE  AdoptedDead \subseteq AdoptedDead'
BY DEF CallsMove, Keeps, AdoptedDead, Current

LEMMA CalmKeeps ==
    ASSUME PInv, CallsMove, Calm, SharedDomains', Answered'
    PROVE  PInv'
<1>1. Domains' /\ CallsRun'
  BY DEF PInv, Ready, Domains, Calm, CallsMove, CallsRun
<1>2. Placement'
  BY HandlesStay DEF PInv, Ready, Placement, Calm
<1>3. RestoreHolds'
  BY DEF PInv, RestoreHolds, Calm
<1>4. \A d \in Devices : Exempt(d) => Exempt(d)'
  BY DEF Exempt, Calm, CallsMove, Keeps
<1>5. HandedOutAlive'
  BY <1>4, DeadStayAdopted DEF PInv, HandedOutAlive, Calm, Exempt
<1> QED  BY <1>1, <1>2, <1>3, <1>5 DEF PInv, Ready

(* A handle a restore has built is in no session yet. *)
LEMMA RestoreUnplaced ==
    ASSUME PInv, NEW x \in Ops, Kind[x] = "restore", op[x].phase = "epoch",
           NEW d \in Devices
    PROVE  Current(x) \notin {session[d].current, session[d].previous}
<1>1. Current(x) # NoHandle
  BY PasskeyDekAssumption DEF Current
<1>2. Current(x) \notin HandlesOf(d)
  BY DEF HandlesOf, HasCurrent, Current, Placed
<1> QED  BY <1>1, <1>2 DEF PInv, Ready, Placement

(* What a step that changes the session of device d owes. *)
LEMMA SessionKeeps ==
    ASSUME PInv, CallsMove, SharedDomains', Answered', NEW d \in Devices,
           session' \in [Devices -> Session],
           \A e \in Devices \ {d} : session'[e] = session[e],
           session'[d].current \in HandlesOf(d)' \cup {NoHandle},
           session'[d].previous \in HandlesOf(d)' \cup {NoHandle},
           session'[d].current = session'[d].previous => session'[d].current = NoHandle,
           alive' \subseteq Handles,
           \A h \in alive : DeviceOf[h[1]] # d => h \in alive',
           session'[d].current # NoHandle =>
             session'[d].current \in alive' \cup AdoptedDead',
           session'[d].previous # NoHandle =>
             session'[d].previous \in alive' \cup AdoptedDead' \/ Exempt(d)',
           \A x \in Ops : DeviceOf[x] # d /\ op[x].phase = "buildPrevious" =>
                            op'[x].phase \in {"buildPrevious", "noFallback"},
           RestoreHolds'
    PROVE  PInv'
<1>1. Domains' /\ CallsRun'
  BY DEF PInv, Ready, Domains, CallsMove, CallsRun
<1>2. Placement'
  BY HandlesStay DEF PInv, Ready, Placement
<1>3. \A e \in Devices \ {d} : Exempt(e) => Exempt(e)'
  BY DEF Exempt, CallsMove, Keeps
<1>4. \A e \in Devices \ {d} : \A h \in HandlesOf(e) : h \in alive => h \in alive'
  BY DEF HandlesOf
<1>5. ASSUME NEW e \in Devices \ {d}
      PROVE  /\ session'[e].current # NoHandle =>
                  session'[e].current \in alive' \cup AdoptedDead'
             /\ session'[e].previous # NoHandle =>
                  session'[e].previous \in alive' \cup AdoptedDead' \/ Exempt(e)'
  <2>1. /\ session[e].current # NoHandle => session[e].current \in alive \cup AdoptedDead
        /\ session[e].previous # NoHandle =>
             session[e].previous \in alive \cup AdoptedDead \/ Exempt(e)
    BY DEF PInv, HandedOutAlive, Exempt
  <2>2. /\ session[e].current \in HandlesOf(e) \cup {NoHandle}
        /\ session[e].previous \in HandlesOf(e) \cup {NoHandle}
    BY DEF PInv, Ready, Placement
  <2> QED  BY <1>3, <1>4, <2>1, <2>2, DeadStayAdopted
<1>6. HandedOutAlive'
  BY <1>5 DEF HandedOutAlive, Exempt
<1> QED  BY <1>1, <1>2, <1>6 DEF PInv, Ready

(* The steps that destroy a handle no session holds. *)
LEMMA DropSteps ==
    ASSUME PInv, CallsMove, NEW o \in Ops, RestoreStale(o) \/ Rejected(o)
    PROVE  PInv'
<1>0. /\ op \in [Ops -> Call] /\ Course(Kind[o], op[o].phase) /\ SharedDomains
      /\ alive \subseteq Handles
  BY DEF PInv, Ready, Domains, CallsRun, CallsOf
<1>1. /\ session' = session /\ UNCHANGED << plan, serverVars, cacheVars >>
      /\ \A x \in Ops \ {o} : op'[x] = op[x]
  BY <1>0 DEF RestoreStale, Rejected, Go
<1>2. /\ op'[o].phase \in {"clear", "error", "noFallback"}
      /\ op[o].phase = "buildPrevious" => op'[o].phase = "noFallback"
      /\ \/ alive' = alive
         \/ alive' = alive \ {Current(o)} /\ ~Placed(Kind[o], op[o].phase)
  <2>1. CASE RestoreStale(o)
    BY <1>0, <2>1 DEF RestoreStale, Go, At, Call, Placed
  <2>2. CASE Rejected(o)
    BY <1>0, <2>2 DEF Rejected, Go, At, Call, Placed
  <2> QED  BY <2>1, <2>2
<1>3. SharedDomains' /\ requests' = requests
  BY <1>0, <1>1 DEF SharedDomains, serverVars, cacheVars
<1>4. Answered'
  <2>1. \A x \in Ops : op'[x].phase = "poll" => op[x].phase = "poll"
    BY <1>1, <1>2
  <2> QED  BY <1>3, <2>1, AnswersStay DEF PInv
<1>5. Domains' /\ CallsRun'
  BY <1>0, <1>1, <1>2, <1>3 DEF PInv, Ready, Domains, CallsMove, CallsRun
<1>6. Placement'
  BY <1>1, HandlesStay DEF PInv, Ready, Placement
<1>7. RestoreHolds'
  <2>1. \A x \in Ops \ {o} : Current(x) # Current(o)
    BY DEF Current
  <2> QED  BY <1>1, <1>2, <2>1 DEF PInv, RestoreHolds
<1>8. \A d \in Devices : Exempt(d) => Exempt(d)'
  BY <1>1, <1>2 DEF Exempt, CallsMove, Keeps
<1>9. \A d \in Devices : \A h \in HandlesOf(d) : h \in alive => h \in alive'
  <2>1. ~Placed(Kind[o], op[o].phase) => \A d \in Devices : Current(o) \notin HandlesOf(d)
    BY DEF HandlesOf, HasCurrent, Current
  <2> QED  BY <1>2, <2>1
<1>10. HandedOutAlive'
  BY <1>1, <1>8, <1>9, DeadStayAdopted
     DEF PInv, Ready, Placement, HandedOutAlive, Exempt
<1> QED  BY <1>4, <1>5, <1>6, <1>7, <1>10 DEF PInv, Ready

(* The steps that change only what a session says of itself. *)
LEMMA SessionNotes ==
    ASSUME PInv, CallsMove, Kept, NEW d \in Devices,
           alive' = alive, session' \in [Devices -> Session],
           \A e \in Devices \ {d} : session'[e] = session[e],
           session'[d].current = session[d].current,
           session'[d].previous = session[d].previous,
           \A x \in Ops : /\ op[x].phase = "buildPrevious" => op'[x].phase = "buildPrevious"
                          /\ op'[x].phase \in {"poll", "epoch"} => op'[x].phase = op[x].phase
    PROVE  PInv'
<1>1. SharedDomains' /\ requests' = requests
  BY DEF PInv, Ready, Domains, SharedDomains, Kept, serverVars, cacheVars
<1>2. Answered'
  BY <1>1, AnswersStay DEF PInv
<1>3. RestoreHolds'
  BY DEF PInv, RestoreHolds
<1>4. Exempt(d) => Exempt(d)'
  BY DEF Exempt, CallsMove, Keeps
<1>5. alive' \subseteq Handles
  BY DEF PInv, Ready, Domains
<1>6. /\ session'[d].current \in HandlesOf(d)' \cup {NoHandle}
      /\ session'[d].previous \in HandlesOf(d)' \cup {NoHandle}
      /\ session'[d].current = session'[d].previous => session'[d].current = NoHandle
  BY HandlesStay DEF PInv, Ready, Placement
<1>7. /\ session'[d].current # NoHandle => session'[d].current \in alive' \cup AdoptedDead'
      /\ session'[d].previous # NoHandle =>
           session'[d].previous \in alive' \cup AdoptedDead' \/ Exempt(d)'
  BY <1>4, DeadStayAdopted DEF PInv, HandedOutAlive, Exempt
<1> QED  BY <1>1, <1>2, <1>3, <1>5, <1>6, <1>7, SessionKeeps

LEMMA NoteSteps ==
    ASSUME PInv, CallsMove, NEW o \in Ops, Counted(o) \/ Added(o)
    PROVE  PInv'
<1>0. /\ op \in [Ops -> Call] /\ Course(Kind[o], op[o].phase)
      /\ session \in [Devices -> Session] /\ DeviceOf[o] \in Devices /\ CredOf[o] \in Creds
  BY PasskeyDekAssumption DEF PInv, Ready, Domains, CallsRun, CallsOf
<1> DEFINE d == DeviceOf[o]
<1>1. /\ Kept /\ alive' = alive
      /\ op'[o].phase = "done" /\ op[o].phase # "buildPrevious"
      /\ \A x \in Ops \ {o} : op'[x] = op[x]
  BY <1>0 DEF Counted, Added, Kept, Go, At, Call
<1>2. /\ session' \in [Devices -> Session]
      /\ \A e \in Devices \ {d} : session'[e] = session[e]
      /\ session'[d].current = session[d].current
      /\ session'[d].previous = session[d].previous
  <2>1. CASE Counted(o)
    <3> DEFINE v == IF passkeyWraps = {} THEN "needed" ELSE "done"
    <3>1. session' = [session EXCEPT ![d].setup = v] /\ v \in {"needed", "done"}
      BY <2>1 DEF Counted
    <3> HIDE DEF v
    <3> QED  BY <1>0, <3>1 DEF Session
  <2>2. CASE Added(o)
    <3> DEFINE t == [session[d] EXCEPT !.method = "passkey", !.publicKey = CredOf[o]]
    <3>1. session' = [session EXCEPT ![d] = t]
      BY <2>2 DEF Added
    <3>2. session[d] \in Session /\ CredOf[o] \in Creds
      BY <1>0, PasskeyDekAssumption
    <3>3. t \in Session
      BY <3>2 DEF Session
    <3>4. t.current = session[d].current /\ t.previous = session[d].previous
      BY <3>2 DEF Session
    <3> HIDE DEF t
    <3> QED  BY <1>0, <3>1, <3>3, <3>4
  <2> QED  BY <2>1, <2>2
<1> QED  BY <1>0, <1>1, <1>2, SessionNotes

LEMMA MarkSetupDoneStep ==
    ASSUME PInv, NEW d \in Devices, MarkSetupDone(d)
    PROVE  PInv'
<1>0. session \in [Devices -> Session] /\ CallsMove
  BY SteadyCalls DEF PInv, Ready, Domains, MarkSetupDone
<1>1. Kept /\ alive' = alive /\ op' = op
  BY DEF MarkSetupDone, Kept
<1>2. /\ session' \in [Devices -> Session]
      /\ \A e \in Devices \ {d} : session'[e] = session[e]
      /\ session'[d].current = session[d].current
      /\ session'[d].previous = session[d].previous
  BY <1>0 DEF MarkSetupDone, Session
<1> QED  BY <1>0, <1>1, <1>2, SessionNotes

(* adoptHandle. *)
LEMMA AdoptKeeps ==
    ASSUME PInv, CallsMove, Kept, NEW o \in Ops, NEW m \in {"passkey", "recovery"},
           NEW c \in Creds \cup {NoCred}, NEW k \in Creds \cup {NoCred}, NEW n,
           Adopt(o, m, c, k, n), HasCurrent(Kind[o], n),
           ~Placed(Kind[o], op[o].phase), n.phase \notin {"poll", "epoch"},
           alive' \subseteq Handles,
           \A h \in alive : h \in alive' \/ h = session[DeviceOf[o]].previous,
           session[DeviceOf[o]].previous \in alive =>
             session[DeviceOf[o]].previous \in alive' \/ n.phase = "buildPrevious",
           Kind[o] = "unlock" \/ n.phase # "buildPrevious",
           Current(o) \in alive' \/ n.phase = "adoptedDead"
    PROVE  PInv'
<1> DEFINE d == DeviceOf[o]
           s == session[d]
<1>0. /\ op \in [Ops -> Call] /\ session \in [Devices -> Session] /\ d \in Devices
      /\ Course(Kind[o], op[o].phase) /\ s \in Session
      /\ \A x \in Ops : Course(Kind[x], op[x].phase)
  BY PasskeyDekAssumption DEF PInv, Ready, Domains, CallsRun, CallsOf
<1>1. op'[o] = n /\ \A x \in Ops \ {o} : op'[x].phase = op[x].phase
  BY <1>0 DEF Adopt, Call
<1>2. /\ session' \in [Devices -> Session]
      /\ \A e \in Devices \ {d} : session'[e] = session[e]
      /\ session'[d].current = Current(o) /\ session'[d].previous = s.previous
  <2>1. session' = [session EXCEPT ![d] =
         [s EXCEPT !.current = Current(o), !.unlocked = TRUE, !.setup = "done",
                   !.method = m, !.cred = c, !.publicKey = k]]
    BY DEF Adopt
  <2>2. Current(o) \in Handles
    BY DEF Current, Handles
  <2> QED  BY <1>0, <2>1, <2>2 DEF Session
<1>3. SharedDomains' /\ requests' = requests
  BY DEF PInv, Ready, Domains, SharedDomains, Kept, serverVars, cacheVars
<1>4. Answered'
  BY <1>1, <1>3, AnswersStay DEF PInv
<1>5. Current(o) \notin HandlesOf(d) /\ Current(o) # NoHandle
  BY PasskeyDekAssumption DEF HandlesOf, HasCurrent, Current
<1>6. s.previous \in HandlesOf(d) \cup {NoHandle} /\ s.previous # Current(o)
  BY <1>0, <1>5 DEF PInv, Ready, Placement
<1>7. Current(o) \in HandlesOf(d)'
  BY <1>1 DEF HandlesOf, Current, Handles
<1>8. Kind[o] = "unlock" => op[o].phase # "buildPrevious"
  BY DEF Placed
<1>9. Exempt(d) \/ n.phase = "buildPrevious" => Exempt(d)'
  BY <1>1, <1>8 DEF Exempt, Placed
<1>10. \A x \in Ops : op[x].phase = "buildPrevious" => op'[x].phase = "buildPrevious"
  <2>1. op[o].phase # "buildPrevious"
    BY <1>0, <1>8 DEF Course
  <2> QED  BY <1>1, <2>1
<1>11. RestoreHolds'
  BY <1>0, <1>1, RestoreUnplaced DEF PInv, RestoreHolds
<1>12. Current(o) \in alive' \cup AdoptedDead'
  BY <1>1 DEF AdoptedDead
<1>13. s.previous # NoHandle =>
         s.previous \in alive' \cup AdoptedDead' \/ Exempt(d)'
  BY <1>0, <1>9, DeadStayAdopted DEF PInv, HandedOutAlive, Exempt
<1>14. \A h \in alive : DeviceOf[h[1]] # d => h \in alive'
  <2>1. NoHandle \notin alive
    BY PasskeyDekAssumption DEF PInv, Ready, Domains, Handles
  <2>2. s.previous \in HandlesOf(d) => DeviceOf[s.previous[1]] = d
    BY DEF HandlesOf
  <2> QED  BY <1>6, <2>1, <2>2
<1>15. s.previous \in HandlesOf(d)' \cup {NoHandle}
  BY <1>0, <1>6, HandlesStay DEF PInv
<1> QED
  BY <1>0, <1>2, <1>3, <1>4, <1>6, <1>7, <1>10, <1>11, <1>12, <1>13, <1>14, <1>15,
     <1>5, SessionKeeps

LEMMA AdoptSteps ==
    ASSUME PInv, CallsMove, NEW o \in Ops,
           \/ Unlocked(o) \/ Recovered(o) \/ RegisterActivated(o) \/ HandshakeActivated(o)
           \/ RestoreAdopted(o) \/ ClearFails(o)
    PROVE  PInv'
<1> DEFINE r == op[o]
           d == DeviceOf[o]
           to(p) == [r EXCEPT !.phase = p]
<1>0. /\ r \in CallsOf(Kind[o]) /\ r \in Call /\ CredOf[o] \in Creds
      /\ alive \subseteq Handles /\ Current(o) \in Handles
  BY PasskeyDekAssumption DEF PInv, Ready, Domains, CallsRun, Current, Handles
<1>1. \A p \in Phases :
        /\ to(p).phase = p /\ to(p).dek = r.dek
        /\ to(p).stored = r.stored /\ to(p).wrapped = r.wrapped
  BY <1>0, PhaseChanges
<1>2. CASE Unlocked(o)
  <2> DEFINE newest == Newest(r.loaded)
             rest == r.loaded \ {newest}
             a == [r EXCEPT !.dek = newest.dek, !.phase = "done"]
             b == [r EXCEPT !.dek = newest.dek, !.older = Newest(rest).dek,
                            !.phase = "buildPrevious"]
             n == IF rest = {} THEN a ELSE b
  <2>1. newest.dek \in Keys
    <3>1. r.loaded \in WrapSets /\ r.loaded # {}
      BY <1>0, <1>2 DEF Unlocked, At, CallsOf, Call
    <3>2. newest \in r.loaded
      BY <3>1, NewestExists
    <3> QED  BY <3>1, <3>2 DEF WrapSets, Wrap
  <2>2. /\ Adopt(o, "passkey", CredOf[o], CredOf[o], n)
        /\ Kind[o] = "unlock" /\ r.phase = "build" /\ Kept
        /\ alive' = (alive \ (IF rest = {} THEN {} ELSE {session[d].previous}))
                    \cup {Current(o)}
    BY <1>2 DEF Unlocked, At, Kept, Of
  <2>3. /\ n.dek = newest.dek
        /\ n.phase = IF rest = {} THEN "done" ELSE "buildPrevious"
    <3>1. a.dek = newest.dek /\ a.phase = "done"
      BY <1>0 DEF Call
    <3>2. b.dek = newest.dek /\ b.phase = "buildPrevious"
      BY <1>0 DEF Call
    <3> HIDE DEF a, b
    <3> QED  BY <3>1, <3>2
  <2> HIDE DEF n, newest, rest
  <2>4. HasCurrent(Kind[o], n)
    BY <2>1, <2>2, <2>3 DEF HasCurrent, Placed, Persisting
  <2> QED
    BY <1>0, <2>2, <2>3, <2>4, AdoptKeeps DEF Placed
<1> HIDE DEF to
<1>3. CASE Recovered(o)
  <2>1. /\ Adopt(o, "recovery", NoCred, NoCred, to("done")) /\ Kept
        /\ Kind[o] = "recover" /\ r.phase = "build" /\ alive' = alive \cup {Current(o)}
    BY <1>3 DEF Recovered, At, Kept, to
  <2>2. HasCurrent(Kind[o], to("done"))
    BY <1>0, <1>1, <2>1 DEF HasCurrent, Placed, Persisting, CallsOf, Keyed, Phases, Ended
  <2>3. to("done").phase = "done"
    BY <1>1 DEF Phases, Ended
  <2> QED  BY <1>0, <2>1, <2>2, <2>3, AdoptKeeps DEF Placed
<1>4. CASE RegisterActivated(o)
  <2>1. /\ Adopt(o, "passkey", CredOf[o], CredOf[o], to("done")) /\ Kept
        /\ Kind[o] = "register" /\ r.phase = "build" /\ alive' = alive \cup {Current(o)}
    BY <1>4 DEF RegisterActivated, At, Kept, to
  <2>2. HasCurrent(Kind[o], to("done"))
    BY <1>0, <1>1, <2>1
    DEF HasCurrent, Placed, CallsOf, Keyed, Persistent, Persisting, GivenKey, Phases, Ended
  <2>3. to("done").phase = "done"
    BY <1>1 DEF Phases, Ended
  <2> QED  BY <1>0, <2>1, <2>2, <2>3, AdoptKeeps DEF Placed
<1>5. CASE HandshakeActivated(o)
  <2>1. /\ Adopt(o, "passkey", r.cred, NoCred, to("rewrap")) /\ Kept
        /\ Kind[o] = "handshake" /\ r.phase = "build" /\ alive' = alive \cup {Current(o)}
    BY <1>5 DEF HandshakeActivated, At, Kept, to
  <2>2. HasCurrent(Kind[o], to("rewrap"))
    BY <1>0, <1>1, <2>1 DEF HasCurrent, Placed, Persisting, CallsOf, Keyed, Phases, Waiting
  <2>3. to("rewrap").phase = "rewrap" /\ r.cred \in Creds \cup {NoCred}
    BY <1>0, <1>1 DEF Phases, Waiting, Call
  <2> QED  BY <1>0, <2>1, <2>2, <2>3, AdoptKeeps DEF Placed
<1>6. CASE RestoreAdopted(o)
  <2>1. /\ Adopt(o, "passkey", r.cred, NoCred, to("done")) /\ Kept
        /\ Kind[o] = "restore" /\ r.phase = "epoch" /\ alive' = alive
    BY <1>6 DEF RestoreAdopted, At, Kept, to
  <2>2. HasCurrent(Kind[o], to("done"))
    BY <1>0, <1>1, <2>1 DEF HasCurrent, Placed, Persisting, CallsOf, Keyed, Phases, Ended
  <2>3. to("done").phase = "done" /\ r.cred \in Creds \cup {NoCred}
    BY <1>0, <1>1 DEF Phases, Ended, Call
  <2>4. Current(o) \in alive
    BY <2>1 DEF PInv, RestoreHolds
  <2> QED  BY <1>0, <2>1, <2>2, <2>3, <2>4, AdoptKeeps DEF Placed
<1>7. CASE ClearFails(o)
  <2>1. /\ Adopt(o, "passkey", r.cred, NoCred, to("adoptedDead")) /\ Kept
        /\ r.phase = "clear" /\ alive' = alive
    BY <1>7 DEF ClearFails, At, Kept, to
  <2>2. Kind[o] = "restore"
    BY <1>0, <2>1 DEF CallsOf, Course
  <2>3. HasCurrent(Kind[o], to("adoptedDead"))
    BY <1>0, <1>1, <2>1, <2>2
    DEF HasCurrent, Placed, Persisting, CallsOf, Keyed, Phases, Ended
  <2>4. to("adoptedDead").phase = "adoptedDead" /\ r.cred \in Creds \cup {NoCred}
    BY <1>0, <1>1 DEF Phases, Ended, Call
  <2> QED  BY <1>0, <2>1, <2>2, <2>3, <2>4, AdoptKeeps DEF Placed
<1> QED  BY <1>2, <1>3, <1>4, <1>5, <1>6, <1>7

(* The end of beginRotation and consumePendingDeviceWrap: the handle that    *)
(* was current becomes the previous one, the one before it is destroyed.     *)
LEMMA PromoteSteps ==
    ASSUME PInv, CallsMove, NEW o \in Ops, RotationBegun(o) \/ Consumed(o)
    PROVE  PInv'
<1> DEFINE r == op[o]
           d == DeviceOf[o]
           s == session[d]
<1>0. /\ r \in CallsOf(Kind[o]) /\ r \in Call /\ op \in [Ops -> Call] /\ d \in Devices
      /\ alive \subseteq Handles /\ Current(o) \in Handles
      /\ session \in [Devices -> Session] /\ s \in Session /\ NoHandle \notin Handles
  BY PasskeyDekAssumption DEF PInv, Ready, Domains, CallsRun, Current, Handles
<1>1. PICK p \in {"rewrap", "done"} :
        /\ Promote(o, p) /\ Kept
        /\ HasCurrent(Kind[o], [r EXCEPT !.phase = p])
        /\ ~Placed(Kind[o], r.phase) /\ r.phase # "buildPrevious"
  <2>1. CASE RotationBegun(o)
    <3>1. Promote(o, "rewrap") /\ Kept /\ Kind[o] = "drive" /\ r.phase = "build"
      BY <2>1 DEF RotationBegun, At, Kept
    <3>2. HasCurrent(Kind[o], [r EXCEPT !.phase = "rewrap"])
      BY <1>0, <3>1 DEF HasCurrent, Placed, Persisting, CallsOf, Keyed, Call
    <3> QED  BY <3>1, <3>2 DEF Placed
  <2>2. CASE Consumed(o)
    <3>1. Promote(o, "done") /\ Kept /\ Kind[o] = "consume" /\ r.phase = "saved"
      BY <2>2 DEF Consumed, At, Kept
    <3>2. HasCurrent(Kind[o], [r EXCEPT !.phase = "done"])
      BY <1>0, <3>1 DEF HasCurrent, Placed, Persisting, Persistent, CallsOf, Keyed, Call,
                           GivenKey
    <3> QED  BY <3>1, <3>2 DEF Placed
  <2> QED  BY <2>1, <2>2
<1>2. /\ session' = [session EXCEPT ![d] =
                       [s EXCEPT !.previous = s.current, !.current = Current(o)]]
      /\ alive' = (alive \ {s.previous}) \cup {Current(o)}
      /\ op' = [op EXCEPT ![o].phase = p, ![o].held = s.current]
  BY <1>1 DEF Promote
<1>3. /\ op'[o].phase = p /\ op'[o].dek = r.dek
      /\ op'[o].stored = r.stored /\ op'[o].wrapped = r.wrapped
      /\ \A x \in Ops \ {o} : op'[x] = op[x]
  BY <1>0, <1>2 DEF Call
<1>4. HasCurrent(Kind[o], op'[o])
  BY <1>0, <1>1, <1>3 DEF HasCurrent, Call, GivenKey
<1>5. Current(o) \in HandlesOf(d)'
  BY <1>0, <1>4 DEF HandlesOf, Current
<1>6. /\ session' \in [Devices -> Session]
      /\ \A e \in Devices \ {d} : session'[e] = session[e]
      /\ session'[d].current = Current(o) /\ session'[d].previous = s.current
  BY <1>0, <1>2 DEF Session
<1>7. /\ s.current \in HandlesOf(d) \cup {NoHandle}
      /\ s.previous \in HandlesOf(d) \cup {NoHandle}
      /\ s.current = s.previous => s.current = NoHandle
  BY <1>0 DEF PInv, Ready, Placement
<1>8. Current(o) \notin HandlesOf(d)
  BY <1>1 DEF HandlesOf, HasCurrent, Current
<1>9. SharedDomains' /\ requests' = requests
  BY <1>1 DEF PInv, Ready, Domains, SharedDomains, Kept, serverVars, cacheVars
<1>10. Answered'
  BY <1>1, <1>3, <1>9, AnswersStay DEF PInv
<1>11. RestoreHolds'
  BY <1>0, <1>1, <1>2, <1>3, RestoreUnplaced DEF PInv, RestoreHolds
<1>12. \A h \in alive : DeviceOf[h[1]] # d => h \in alive'
  BY <1>0, <1>2, <1>7 DEF HandlesOf
<1>13. s.current # NoHandle => s.current \in alive' \cup AdoptedDead'
  BY <1>0, <1>2, <1>7, DeadStayAdopted DEF PInv, HandedOutAlive
<1>14. s.current \in HandlesOf(d)' \cup {NoHandle}
  BY <1>0, <1>7, HandlesStay DEF PInv
<1>15. \A x \in Ops : DeviceOf[x] # d /\ op[x].phase = "buildPrevious" =>
                        op'[x].phase \in {"buildPrevious", "noFallback"}
  BY <1>3
<1>16. alive' \subseteq Handles /\ Current(o) \in alive'
  BY <1>0, <1>2
<1> QED
  BY <1>0, <1>5, <1>6, <1>7, <1>8, <1>9, <1>10, <1>11, <1>12, <1>13, <1>14, <1>15, <1>16,
     SessionKeeps

(* destroyHandle, by a lock or for a handle no user owns. *)
LEMMA DestroyKeeps ==
    ASSUME PInv, CallsMove, Kept, NEW d \in Devices, DestroyHandle(d),
           \A x \in Ops : /\ op[x].phase = "buildPrevious" => op'[x].phase = "buildPrevious"
                          /\ op'[x].phase \in {"poll", "epoch"} => op'[x].phase = op[x].phase
    PROVE  PInv'
<1> DEFINE s == session[d]
<1>0. /\ alive \subseteq Handles /\ NoHandle \notin Handles
      /\ session \in [Devices -> Session] /\ s \in Session
  BY PasskeyDekAssumption DEF PInv, Ready, Domains, Handles
<1>1. /\ session' = [session EXCEPT ![d] = [Locked EXCEPT !.setup = s.setup]]
      /\ alive' = alive \ {s.current, s.previous}
  BY DEF DestroyHandle
<1>2. /\ session' \in [Devices -> Session]
      /\ \A e \in Devices \ {d} : session'[e] = session[e]
      /\ session'[d].current = NoHandle /\ session'[d].previous = NoHandle
  BY <1>0, <1>1 DEF Session, Locked
<1>3. /\ s.current \in HandlesOf(d) \cup {NoHandle}
      /\ s.previous \in HandlesOf(d) \cup {NoHandle}
  BY DEF PInv, Ready, Placement
<1>4. \A h \in alive : DeviceOf[h[1]] # d => h \in alive'
  BY <1>0, <1>1, <1>3 DEF HandlesOf
<1>5. RestoreHolds'
  BY <1>1, RestoreUnplaced DEF PInv, RestoreHolds
<1>6. SharedDomains' /\ requests' = requests
  BY DEF PInv, Ready, Domains, SharedDomains, Kept, serverVars, cacheVars
<1>7. Answered'
  BY <1>6, AnswersStay DEF PInv
<1> QED  BY <1>0, <1>1, <1>2, <1>4, <1>5, <1>6, <1>7, SessionKeeps

LEMMA LockStep ==
    ASSUME PInv, NEW d \in Devices, Lock(d)
    PROVE  PInv'
<1>1. CallsMove /\ Kept /\ op' = op
  BY SteadyCalls DEF PInv, Lock, Kept
<1> QED  BY <1>1, DestroyKeeps DEF Lock

LEMMA CheckStep ==
    ASSUME PInv, CallsMove, NEW o \in Ops, StartCheck(o)
    PROVE  PInv'
<1> DEFINE d == DeviceOf[o]
<1>0. /\ op \in [Ops -> Call] /\ session \in [Devices -> Session] /\ d \in Devices
  BY PasskeyDekAssumption DEF PInv, Ready, Domains
<1>1. /\ Kept /\ op[o].phase = "idle"
      /\ \A x \in Ops \ {o} : op'[x] = op[x]
      /\ DestroyHandle(d) \/ UNCHANGED << session, alive >>
  BY <1>0 DEF StartCheck, Starts, Go, Kept
<1>2. op'[o].phase \in {"done", "count"}
  <2> DEFINE p == IF Of(o).current # NoHandle /\ ~(Of(o).current # NoHandle /\ ~Of(o).unlocked)
                  THEN "done" ELSE "count"
  <2>1. op' = [op EXCEPT ![o].phase = p] /\ p \in {"done", "count"}
    BY DEF StartCheck, Go
  <2> HIDE DEF p
  <2> QED  BY <1>0, <2>1 DEF Call
<1>3. \A x \in Ops :
        /\ op[x].phase = "buildPrevious" => op'[x].phase = "buildPrevious"
        /\ op'[x].phase \in {"poll", "epoch"} => op'[x].phase = op[x].phase
  BY <1>1, <1>2
<1>4. CASE DestroyHandle(d)
  BY <1>0, <1>1, <1>3, <1>4, DestroyKeeps
<1>5. CASE UNCHANGED << session, alive >>
  BY <1>0, <1>1, <1>3, <1>5, SessionNotes
<1> QED  BY <1>1, <1>4, <1>5

(* The replacement of the previous handle arrives. *)
LEMMA PreviousStep ==
    ASSUME PInv, CallsMove, NEW o \in Ops, PreviousUnlocked(o)
    PROVE  PInv'
<1> DEFINE d == DeviceOf[o]
           s == session[d]
<1>0. /\ op \in [Ops -> Call] /\ session \in [Devices -> Session] /\ d \in Devices
      /\ op[o] \in CallsOf(Kind[o]) /\ s \in Session
      /\ alive \subseteq Handles /\ Previous(o) \in Handles /\ NoHandle \notin Handles
  BY PasskeyDekAssumption DEF PInv, Ready, Domains, CallsRun, Previous, Handles
<1>1. /\ Kept /\ op[o].phase = "buildPrevious" /\ op' = [op EXCEPT ![o].phase = "done"]
      /\ session' = [session EXCEPT ![d].previous = Previous(o)]
      /\ alive' = alive \cup {Previous(o)}
  BY DEF PreviousUnlocked, At, Go, Kept
<1>2. /\ op'[o].phase = "done" /\ op'[o].older = op[o].older
      /\ \A x \in Ops \ {o} : op'[x] = op[x]
  BY <1>0, <1>1 DEF Call
<1>3. Kind[o] = "unlock" /\ op[o].older \in Keys
  BY <1>0, <1>1 DEF CallsOf, Course
<1>4. /\ session' \in [Devices -> Session]
      /\ \A e \in Devices \ {d} : session'[e] = session[e]
      /\ session'[d].current = s.current /\ session'[d].previous = Previous(o)
  BY <1>0, <1>1 DEF Session
<1>5. Previous(o) \in HandlesOf(d)'
  BY <1>0, <1>2, <1>3 DEF HandlesOf, HasPrevious, Previous
<1>6. s.current # Previous(o)
  <2>1. Previous(o) \notin HandlesOf(d)
    BY <1>1 DEF HandlesOf, HasPrevious, Previous
  <2> QED  BY <1>0, <2>1 DEF PInv, Ready, Placement
<1>7. SharedDomains' /\ requests' = requests
  BY <1>1 DEF PInv, Ready, Domains, SharedDomains, Kept, serverVars, cacheVars
<1>8. Answered'
  BY <1>2, <1>7, AnswersStay DEF PInv
<1>9. RestoreHolds'
  BY <1>1, <1>2 DEF PInv, RestoreHolds
<1>10. s.current \in HandlesOf(d)' \cup {NoHandle}
  BY <1>0, HandlesStay DEF PInv, Ready, Placement
<1>11. s.current # NoHandle => s.current \in alive' \cup AdoptedDead'
  BY <1>0, <1>1, DeadStayAdopted DEF PInv, HandedOutAlive
<1>12. \A x \in Ops : DeviceOf[x] # d /\ op[x].phase = "buildPrevious" =>
                        op'[x].phase \in {"buildPrevious", "noFallback"}
  BY <1>2
<1>13. alive' \subseteq Handles /\ Previous(o) \in alive' /\ \A h \in alive : h \in alive'
  BY <1>0, <1>1
<1> HIDE DEF s
<1> QED
  BY <1>0, <1>4, <1>5, <1>6, <1>7, <1>8, <1>9, <1>10, <1>11, <1>12, <1>13, SessionKeeps

(* completeRotationSession destroys the previous handle. *)
LEMMA CompleteStep ==
    ASSUME PInv, CallsMove, NEW o \in Ops, CompleteRotationSession(o)
    PROVE  PInv'
<1> DEFINE d == DeviceOf[o]
           s == session[d]
<1>0. /\ op \in [Ops -> Call] /\ session \in [Devices -> Session] /\ d \in Devices
      /\ s \in Session /\ alive \subseteq Handles /\ NoHandle \notin Handles
  BY PasskeyDekAssumption DEF PInv, Ready, Domains, Handles
<1>1. /\ Kept /\ op[o].phase = "retired" /\ op' = [op EXCEPT ![o].phase = "complete"]
      /\ session' = [session EXCEPT ![d].previous = NoHandle]
      /\ alive' = alive \ {s.previous}
  BY DEF CompleteRotationSession, At, Go, Kept, Of
<1>2. op'[o].phase = "complete" /\ \A x \in Ops \ {o} : op'[x] = op[x]
  BY <1>0, <1>1 DEF Call
<1>3. /\ session' \in [Devices -> Session]
      /\ \A e \in Devices \ {d} : session'[e] = session[e]
      /\ session'[d].current = s.current /\ session'[d].previous = NoHandle
  BY <1>0, <1>1 DEF Session
<1>4. /\ s.current \in HandlesOf(d) \cup {NoHandle}
      /\ s.previous \in HandlesOf(d) \cup {NoHandle}
      /\ s.current = s.previous => s.current = NoHandle
  BY <1>0 DEF PInv, Ready, Placement
<1>5. SharedDomains' /\ requests' = requests
  BY <1>1 DEF PInv, Ready, Domains, SharedDomains, Kept, serverVars, cacheVars
<1>6. Answered'
  BY <1>2, <1>5, AnswersStay DEF PInv
<1>7. RestoreHolds'
  BY <1>0, <1>1, <1>2, RestoreUnplaced DEF PInv, RestoreHolds
<1>8. s.current \in HandlesOf(d)' \cup {NoHandle}
  BY <1>0, <1>4, HandlesStay DEF PInv
<1>9. s.current # NoHandle => s.current \in alive' \cup AdoptedDead'
  BY <1>0, <1>1, <1>4, DeadStayAdopted DEF PInv, HandedOutAlive
<1>10. \A x \in Ops : DeviceOf[x] # d /\ op[x].phase = "buildPrevious" =>
                        op'[x].phase \in {"buildPrevious", "noFallback"}
  BY <1>2
<1>11. alive' \subseteq Handles /\ \A h \in alive : DeviceOf[h[1]] # d => h \in alive'
  BY <1>0, <1>1, <1>4 DEF HandlesOf
<1> HIDE DEF s
<1> QED
  BY <1>0, <1>3, <1>5, <1>6, <1>7, <1>8, <1>9, <1>10, <1>11, SessionKeeps

LEMMA ReloadStep ==
    ASSUME PInv, NEW d \in Devices, Reload(d)
    PROVE  PInv'
<1>0. /\ session \in [Devices -> Session] /\ alive \subseteq Handles /\ CallsMove
  BY ReloadMoves DEF PInv, Ready, Domains
<1>1. /\ session' = [session EXCEPT ![d] = Locked]
      /\ alive' = {h \in alive : DeviceOf[h[1]] # d} /\ Kept
      /\ \A x \in Ops : op'[x] = IF DeviceOf[x] = d /\ op[x].phase \in Waiting
                                 THEN [op[x] EXCEPT !.phase = "error"] ELSE op[x]
  BY DEF Reload, Kept
<1>2. /\ session' \in [Devices -> Session]
      /\ \A e \in Devices \ {d} : session'[e] = session[e]
      /\ session'[d].current = NoHandle /\ session'[d].previous = NoHandle
  BY <1>0, <1>1, PasskeyDekAssumption DEF Session, Locked
<1>3. \A x \in Ops :
        /\ DeviceOf[x] # d => op'[x] = op[x]
        /\ op'[x].phase \in {"poll", "epoch"} => op'[x] = op[x] /\ DeviceOf[x] # d
  <2> SUFFICES ASSUME NEW x \in Ops
               PROVE  /\ DeviceOf[x] # d => op'[x] = op[x]
                      /\ op'[x].phase \in {"poll", "epoch"} => op'[x] = op[x] /\ DeviceOf[x] # d
    OBVIOUS
  <2>1. op[x] \in Call
    BY DEF PInv, Ready, Domains
  <2> QED  BY <1>1, <2>1 DEF Call, Waiting
<1>4. SharedDomains' /\ requests' = requests
  BY <1>1 DEF PInv, Ready, Domains, SharedDomains, Kept, serverVars, cacheVars
<1>5. Answered'
  BY <1>0, <1>3, <1>4, AnswersStay DEF PInv
<1>6. RestoreHolds'
  BY <1>1, <1>3 DEF PInv, RestoreHolds, Current
<1>7. \A x \in Ops : DeviceOf[x] # d /\ op[x].phase = "buildPrevious" =>
                        op'[x].phase \in {"buildPrevious", "noFallback"}
  BY <1>3
<1> QED  BY <1>0, <1>1, <1>2, <1>4, <1>5, <1>6, <1>7, SessionKeeps

-----------------------------------------------------------------------------
(* The invariant. *)

LEMMA PInvInit == Init => PInv
<1> SUFFICES ASSUME Init PROVE PInv
  OBVIOUS
<1>1. Idle \in Call
  <2>1. {} \in WrapSets
    BY DEF WrapSets
  <2> QED  BY <2>1 DEF Idle, Call
<1>2. PICK p \in Plans :
        /\ plan = p.calls
        /\ passkeyWraps = IF p.fresh THEN {} ELSE
              {[cred |-> c, epoch |-> 1, dek |-> InitialKey] :
                 c \in {CredOf[o] : o \in {x \in Ops : Kind[x] = "unlock"}}}
        /\ recoveryWrap = IF p.fresh THEN NoKey ELSE InitialKey
  BY DEF Init
<1>3. passkeyWraps \in WrapSets
  <2>1. passkeyWraps \subseteq Wrap
    BY <1>2, PasskeyDekAssumption DEF Wrap, Keys
  <2>2. \A w \in passkeyWraps : w.epoch <= 1
    BY <1>2
  <2> QED  BY <2>1, <2>2 DEF WrapSets
<1>4. SharedDomains
  <2>1. << InitialKey >> \in Seq(Keys)
    BY DEF Keys
  <2>2. recoveryWrap \in Keys \cup {NoKey} /\ plan \subseteq Ops
    BY <1>2, PasskeyDekAssumption DEF Keys
  <2> QED  BY <1>3, <2>1, <2>2 DEF Init, SharedDomains
<1>5. Domains
  BY <1>1, <1>4 DEF Init, Domains, Locked, Session
<1>6. CallsRun
  <2>1. Idle.phase = "idle"
    BY DEF Idle
  <2> QED  BY <1>1, <2>1 DEF Init, CallsRun, CallsOf, Course, Keyed, Persistent
<1>7. Answered /\ RestoreHolds
  BY PasskeyDekAssumption DEF Init, Answered, RestoreHolds, Idle
<1>8. Placement /\ HandedOutAlive
  BY DEF Init, Placement, HandedOutAlive, Locked
<1> QED  BY <1>5, <1>6, <1>7, <1>8 DEF PInv, Ready

LEMMA PInvStep == PInv /\ [Next]_vars => PInv'
<1> SUFFICES ASSUME PInv, [Next]_vars PROVE PInv'
  OBVIOUS
<1>0. Ready
  BY DEF PInv
<1>1. ASSUME NEW o \in Ops, OpStep(o) PROVE PInv'
  <2>0. CallsMove
    BY <1>0, <1>1, OpStepMoves
  <2>1. ASSUME Alone(o), Kept PROVE PInv'
    <3>1. Calm
      BY <1>0, <2>1, AloneIsCalm
    <3>2. SharedDomains' /\ requests' = requests
      BY <2>1 DEF PInv, Ready, Domains, SharedDomains, Kept, serverVars, cacheVars
    <3>3. Answered'
      BY <1>0, <2>0, <2>1, <3>2, AnswersStay DEF Alone
    <3> QED  BY <2>0, <3>1, <3>2, <3>3, CalmKeeps
  <2>2. ASSUME Alone(o), SharedDomains', requests' = requests PROVE PInv'
    <3>1. Calm
      BY <1>0, <2>2, AloneIsCalm
    <3>2. Answered'
      BY <1>0, <2>0, <2>2, AnswersStay DEF Alone
    <3> QED  BY <2>0, <2>2, <3>1, <3>2, CalmKeeps
  <2> QED
    BY <1>1, <2>0, <2>1, <2>2, CalmSteps, CalmRotationSteps, SharedSteps, RequestSteps,
       CalmKeeps, DropSteps, NoteSteps, AdoptSteps, PromoteSteps, CheckStep, PreviousStep,
       CompleteStep
    DEF OpStep
<1>2. ASSUME NEW d \in Devices, Lock(d) \/ Reload(d) \/ MarkSetupDone(d) PROVE PInv'
  BY <1>2, LockStep, ReloadStep, MarkSetupDoneStep
<1>3. CASE UNCHANGED vars
  <2>1. CallsMove /\ Calm
    BY <1>0, <1>3, SteadyCalls DEF vars, Calm, Ready, Domains
  <2>2. SharedDomains' /\ requests' = requests
    BY <1>0, <1>3 DEF Ready, Domains, SharedDomains, vars, serverVars, cacheVars
  <2>3. Answered'
    BY <1>0, <1>3, <2>1, <2>2, AnswersStay DEF vars
  <2> QED  BY <2>1, <2>2, <2>3, CalmKeeps
<1> QED  BY <1>1, <1>2, <1>3 DEF Next

LEMMA PInvHolds == Spec => []PInv
<1> QED  BY PInvInit, PInvStep, PTL DEF Spec

(* A wrapped, stored or held key is a key of the account in every state of   *)
(* every run, whatever interleaving of calls, locks and reloads: KeyOf never *)
(* reads the key of a handle that was not built.                             *)
THEOREM TypeCorrect == Spec => []TypeOK
<1>1. PInv => TypeOK
  <2>1. Call \subseteq
          [phase : {"idle"} \cup Waiting \cup Ended,
           dek : Keys \cup {NoKey}, older : Keys \cup {NoKey},
           wrapped : Keys \cup {NoKey}, stored : Keys \cup {NoKey},
           cred : Creds \cup {NoCred}, epoch : Nat,
           loaded : SUBSET Wrap, held : Handles \cup {NoHandle},
           todo : SUBSET Ops, disturbed : BOOLEAN]
    BY DEF Call, WrapSets
  <2> QED
    BY <2>1 DEF PInv, Ready, Domains, SharedDomains, TypeOK, WrapSets
<1> QED  BY <1>1, PInvHolds, PTL

(* getCryptoHandle hands out live handles only: locks, failed calls, two     *)
(* unlocks at once, promotions and reloads never leave a destroyed handle in *)
(* the session, but for the two cases HandedOutAlive names                   *)
(* (passkeyDekController.ts:439-452, 555-603, 729-745, 815-822, 847-862).    *)
THEOREM HandlesAlive == Spec => []HandedOutAlive
<1>1. PInv => HandedOutAlive
  BY DEF PInv
<1> QED  BY <1>1, PInvHolds, PTL

(* registerPasskey and consumePendingDeviceWrap put a key into the session   *)
(* only once a wrap of it is stored, whatever runs in between and however     *)
(* often a save rejected before; the key of a confirm() called again is the  *)
(* zero bytes that the first call left, and nothing but that (Zeroed).  It   *)
(* is the first part of SavedBeforeUsed (passkeyDekController.ts:640-673,    *)
(* 784-822).                                                                 *)
THEOREM PersistsFirst == Spec => []PersistBeforePromote
<1>1. PInv => PersistBeforePromote
  <2> SUFFICES ASSUME PInv, NEW d \in Devices, NEW o \in Ops,
                      Kind[o] \in {"register", "consume"},
                      Current(o) \in {session[d].current, session[d].previous}
               PROVE  /\ op[o].stored = op[o].wrapped
                      /\ op[o].dek = op[o].wrapped \/ o \in Zeroed
    BY DEF PersistBeforePromote
  <2>1. Current(o) # NoHandle
    BY PasskeyDekAssumption DEF Current
  <2>2. Current(o) \in HandlesOf(d)
    BY <2>1 DEF PInv, Ready, Placement
  <2> QED  BY <2>2 DEF HandlesOf, HasCurrent, Current, Persisting, GivenKey, Zeroed
<1> QED  BY <1>1, PInvHolds, PTL
=============================================================================
