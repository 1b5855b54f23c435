------------------------- MODULE ReactBindingsProofs --------------------------
(***************************************************************************)
(* Proofs about ReactBindings for every set of users, keys, hooks and ids  *)
(* and every plan of calls.                                                *)
(***************************************************************************)
EXTENDS ReactBindings, FiniteSetTheorems, TLAPS

(* A call in flight belongs to a session that has been, and a load that    *)
(* compares or has confirmed a cached entry has one.                       *)
SoundOp(i, o) ==
    /\ o.session \in 1 .. session
    /\ o.stage = "hash" => CallOf(i) \in {"reload", "mutate"} /\ o.base \in Entries
    /\ o.stage = "read" => CallOf(i) \in {"reload", "mutate", "rangeReload"}
    /\ o.stage = "loaded" =>
          /\ CallOf(i) \in {"reload", "mutate", "rangeReload"}
          /\ CallOf(i) # "rangeReload" /\ ~o.fresh => o.base \in Entries

SlotType == [Users -> [Keys -> Entries \cup {NoSlot}]]
RangeType == [Users -> RangeEntries \cup {NoSlot}]
FetchType == [Users -> [Targets -> Fetches \cup {NoFetch}]]
CrowdType == [Users -> [Keys -> Crowds]]

StoreTyped ==
    /\ row \in [Users -> [Keys -> Values]]
    /\ slot \in SlotType
    /\ epoch \in [Users -> Nat]
    /\ range \in RangeType
    /\ crowd \in CrowdType
    /\ behind \in SUBSET Users
RegistryTyped == fetch \in FetchType /\ hook \in [Hooks -> HookStates]
OpsTyped == op \in [Ops -> OpStates] /\ \A i \in Ops : SoundOp(i, op[i])

KeyedTyped == StoreTyped /\ RegistryTyped /\ OpsTyped

-----------------------------------------------------------------------------
(* The plan and the numbers it gives.                                      *)

LEMMA SessionFacts ==
    ASSUME SessionTypeOK
    PROVE  /\ session \in Nat /\ session >= 1 /\ session < NeverSeen
           /\ \A n \in 1 .. session : UserOf(n) \in Users
           /\ UserOf(1) \in Users
<1>1. /\ plan \in Plans /\ session \in 1 .. Len(plan.users)
      /\ plan.users \in Seq(Users) /\ Len(plan.users) < NeverSeen
  BY PlanAssumption DEF SessionTypeOK
<1>2. Len(plan.users) \in Nat /\ \A n \in 1 .. Len(plan.users) : plan.users[n] \in Users
  BY <1>1
<1> QED BY <1>1, <1>2 DEF UserOf, NeverSeen

(* What a call is given is not stored; the schema makes the call's of it.  *)
LEMMA PassedFacts ==
    ASSUME NEW i \in 1 .. 9
    PROVE  Passed(i) \in PassedValues /\ Parse(Passed(i)) = i
BY DEF Passed, PassedValues, Parse, Unparsed

LEMMA StoredParse ==
    ASSUME NEW v, v \in Values \cup ItemValues PROVE Parse(v) = v
BY DEF Values, ItemValues, Absent, Old, Foreign, NoRow, Listed, Elsewhere, Parse, Unparsed

LEMMA ContentType ==
    ASSUME NEW v PROVE /\ v \in Values \cup PassedValues => Parse(v) \in Values
                       /\ v \in ItemValues \cup PassedValues => Parse(v) \in ItemValues
<1>1. CASE v \in Values \cup ItemValues
  BY <1>1, StoredParse DEF Values, ItemValues, Absent, Old, Foreign, NoRow, Listed, Elsewhere,
                           PassedValues, Passed, Unparsed
<1>2. CASE v \in PassedValues
  BY <1>2 DEF PassedValues, Passed, Parse, Unparsed, Values, Old, ItemValues
<1> QED BY <1>1, <1>2

LEMMA OpFacts ==
    ASSUME SessionTypeOK, NEW i \in Ops
    PROVE  /\ CallOf(i) \in Calls /\ KeysOf(i) \subseteq Keys /\ i \in Values /\ i \in 1 .. 9
           /\ Passed(i) \in PassedValues /\ WrittenThrough(i) \in Values \cup PassedValues
           /\ CallOf(i) \notin {"createMany", "rangeReload"} =>
                 TheKey(i) \in Keys /\ KeysOf(i) = {TheKey(i)}
<1>1. /\ plan \in Plans /\ plan.ops \in Seq([call : Calls, keys : SUBSET Keys])
      /\ Len(plan.ops) < Old
      /\ \A j \in DOMAIN plan.ops : plan.ops[j].call \notin {"createMany", "rangeReload"}
              => \E k \in Keys : plan.ops[j].keys = {k}
  BY KeyedAssumption DEF SessionTypeOK
<1>2. i \in DOMAIN plan.ops /\ plan.ops[i] \in [call : Calls, keys : SUBSET Keys]
  <2> DEFINE Op == [call : Calls, keys : SUBSET Keys]
             s == plan.ops
  <2>1. s \in Seq(Op) /\ i \in 1 .. Len(s)
    BY <1>1 DEF Ops
  <2> HIDE DEF Op, s
  <2>2. i \in DOMAIN s /\ s[i] \in Op
    BY <2>1
  <2> QED BY <2>2 DEF Op, s
<1>3. i \in 1 .. 9 /\ i \in Values
  BY <1>1 DEF Ops, Values, Old
<1>4. CallOf(i) \notin {"createMany", "rangeReload"} => \E k \in Keys : KeysOf(i) = {k}
  BY <1>1, <1>2 DEF CallOf, KeysOf
<1> QED BY <1>2, <1>3, <1>4, PassedFacts DEF CallOf, KeysOf, TheKey, WrittenThrough

LEMMA OpUserType ==
    ASSUME SessionTypeOK, OpsTyped, NEW i \in Ops
    PROVE  OpUser(i) \in Users
BY SessionFacts DEF OpsTyped, SoundOp, OpUser

-----------------------------------------------------------------------------
(* The types of what the helpers return.                                   *)

LEMMA HashType ==
    ASSUME NEW v \in Values
    PROVE  HashOf(v) \in Values \cup {Null}
BY DEF HashOf

LEMMA LoadedType ==
    ASSUME NEW v \in Values, NEW who \in {"effect", "gap", "reload", "load", "save", "write"}
    PROVE  Loaded(v, who) \in Entries
BY HashType DEF Loaded, Entries

LEMMA SetCrowdType ==
    ASSUME StoreTyped, NEW u \in Users, NEW ks, NEW change \in [Crowds -> Crowds]
    PROVE  SetCrowd(u, ks, change) \in CrowdType
BY DEF StoreTyped, CrowdType, SetCrowd

LEMMA ChangeTypes ==
    Late \in [Crowds -> Crowds] /\ Healed \in [Crowds -> Crowds] /\ NotHealed \in [Crowds -> Crowds]
BY DEF Late, Healed, NotHealed, Crowds

LEMMA CrowdOfType ==
    ASSUME StoreTyped, NEW u \in Users
    PROVE  /\ \A ks : CrowdOfWrite(u, ks) \in CrowdType
           /\ \A k \in Keys : CrowdOfRead(u, k) \in CrowdType
<1>1. ASSUME NEW ks PROVE CrowdOfWrite(u, ks) \in CrowdType
  BY ChangeTypes DEF StoreTyped, CrowdType, CrowdOfWrite, Crowds
<1>2. ASSUME NEW k \in Keys PROVE CrowdOfRead(u, k) \in CrowdType
  BY ChangeTypes DEF StoreTyped, CrowdType, CrowdOfRead, Crowds
<1> QED BY <1>1, <1>2

LEMMA AfterWriteType ==
    ASSUME RegistryTyped, OpsTyped, NEW u \in Users
    PROVE  /\ FetchAfterWrite(u) \in FetchType
           /\ \A v \in Users, t \in Targets : FetchAfterWrite(u)[v][t] = NoFetch
                                              <=> fetch[v][t] = NoFetch
           /\ OpsAfterWrite(u) \in [Ops -> OpStates]
           /\ \A i \in Ops : \E b \in BOOLEAN : OpsAfterWrite(u)[i] = [op[i] EXCEPT !.stale = b]
<1>0. RangeTarget \in Targets
  BY DEF Targets
<1> DEFINE f == fetch[u][RangeTarget]
           g == [f EXCEPT !.stale = TRUE]
<1>1. /\ FetchAfterWrite(u) \in FetchType
      /\ \A v \in Users, t \in Targets : FetchAfterWrite(u)[v][t] = NoFetch
                                         <=> fetch[v][t] = NoFetch
  <2>1. CASE f = NoFetch \/ ~f.read
    BY <2>1 DEF RegistryTyped, FetchAfterWrite
  <2>2. CASE f # NoFetch /\ f.read
    <3>1. f \in Fetches
      BY <1>0, <2>2 DEF RegistryTyped, FetchType
    <3>2. g \in Fetches /\ g # NoFetch
      BY <3>1, KeyedNullAssumption DEF Fetches
    <3>3. FetchAfterWrite(u) = [fetch EXCEPT ![u] = [fetch[u] EXCEPT ![RangeTarget] = g]]
      BY <1>0, <2>2 DEF RegistryTyped, FetchType, FetchAfterWrite
    <3> HIDE DEF f, g
    <3> QED BY <1>0, <2>2, <3>2, <3>3 DEF RegistryTyped, FetchType, f
  <2> QED BY <2>1, <2>2
<1>3. OpsAfterWrite(u) \in [Ops -> OpStates]
  BY DEF OpsTyped, OpStates, OpsAfterWrite
<1>4. ASSUME NEW i \in Ops
      PROVE  \E b \in BOOLEAN : OpsAfterWrite(u)[i] = [op[i] EXCEPT !.stale = b]
  BY DEF OpsTyped, OpStates, OpsAfterWrite
<1> QED BY <1>1, <1>3, <1>4

-----------------------------------------------------------------------------
(* The calls: what their steps keep.                                       *)

(* What every step but a lock does to the cache: nothing is emptied, and   *)
(* an effect or a reload fills it for the user signed in.                  *)
CacheStep ==
    /\ \A u \in Users, k \in Keys : slot'[u][k] = NoSlot => slot[u][k] = NoSlot
    /\ \A u \in Users : range'[u] = NoSlot => range[u] = NoSlot
    /\ \A u \in Users : ~SignedIn(u) =>
          /\ \A k \in Keys : slot'[u][k] = slot[u][k]
                             \/ slot'[u][k].by \notin {"effect", "reload"}
          /\ range'[u] = range[u] \/ range'[u].by = "gap"

SameSession == UNCHANGED << plan, session, unlocked >>

(* What a step of call i keeps, the registries apart. *)
CallKeeps == StoreTyped' /\ OpsTyped' /\ CacheStep

LEMMA IdleOpType == IdleOp \in OpStates
<1>1. NoRows \in [Keys -> Values]
  BY DEF NoRows, Values
<1>2. "idle" \in Stages
  BY DEF Stages
<1> QED BY <1>1, <1>2 DEF IdleOp, OpStates

(* A call that begins. *)
BegunOp(stage, n, base, hash, tries) ==
    [IdleOp EXCEPT !.stage = stage, !.session = n, !.base = base, !.expected = hash,
                   !.tries = tries]

LEMMA BegunType ==
    ASSUME NEW stage \in Stages, NEW n \in Nat, NEW base \in Entries \cup {NoSlot},
           NEW hash \in Values \cup {Null}, NEW tries \in Nat
    PROVE  LET o == BegunOp(stage, n, base, hash, tries)
           IN  /\ o \in OpStates /\ o.stage = stage /\ o.session = n
               /\ o.base = base /\ o.expected = hash
<1>1. DOMAIN IdleOp = {"stage", "session", "base", "rows", "fresh", "expected", "stale",
                       "bumped", "tries"}
  BY DEF IdleOp
<1> QED BY <1>1, IdleOpType DEF OpStates, BegunOp

LEMMA IdleType ==
    ASSUME SessionTypeOK
    PROVE  /\ [IdleOp EXCEPT !.stage = "done"] \in OpStates
           /\ \A i \in Ops : SoundOp(i, [IdleOp EXCEPT !.stage = "done"])
<1> DEFINE o == [IdleOp EXCEPT !.stage = "done"]
<1>1. "done" \in Stages
  BY DEF Stages
<1>2. o \in OpStates
  BY <1>1, IdleOpType DEF OpStates
<1>3. o.stage = "done" /\ o.session = 1
  BY DEF IdleOp
<1> HIDE DEF o
<1>4. \A i \in Ops : SoundOp(i, o)
  BY <1>3, SessionFacts DEF SoundOp
<1> QED BY <1>2, <1>4 DEF o

LEMMA OpReplaced ==
    ASSUME SessionTypeOK, OpsTyped, SameSession, NEW i \in Ops, NEW o \in OpStates,
           SoundOp(i, o), op' = [op EXCEPT ![i] = o]
    PROVE  OpsTyped'
<1>1. Ops' = Ops /\ op' \in [Ops -> OpStates]
  BY DEF OpsTyped, SameSession, Ops
<1>2. ASSUME NEW j \in Ops PROVE SoundOp(j, op'[j])
  BY <1>2 DEF OpsTyped
<1>3. \A j \in Ops : SoundOp(j, op[j])' <=> SoundOp(j, op'[j])
  BY DEF SoundOp, SameSession, CallOf
<1> QED BY <1>1, <1>2, <1>3 DEF OpsTyped

LEMMA CacheUntouched == ASSUME slot' = slot, range' = range PROVE CacheStep
BY DEF CacheStep

LEMMA SlotReplaced ==
    ASSUME StoreTyped, NEW u \in Users, NEW k \in Keys, NEW e \in Entries,
           slot' = [slot EXCEPT ![u][k] = e], range' = range,
           e.by \in {"effect", "reload"} => SignedIn(u)
    PROVE  slot' \in SlotType /\ CacheStep
<1>1. slot' \in SlotType
  BY DEF StoreTyped, SlotType
<1>2. e # NoSlot
  BY KeyedNullAssumption
<1>3. \A v \in Users, l \in Keys : slot'[v][l] = IF v = u /\ l = k THEN e ELSE slot[v][l]
  BY DEF StoreTyped, SlotType
<1> QED BY <1>1, <1>2, <1>3 DEF CacheStep

LEMMA SaveKeeps ==
    ASSUME SessionTypeOK, KeyedTyped, SameSession, NEW i \in Ops, Save(i)
    PROVE  CallKeeps
<1> USE DEF KeyedTyped
<1>0. CallOf(i) = "save"
  BY DEF Save, CanBegin
<1>1. PICK n \in Callbacks(TheKey(i)) :
         LET u == UserOf(n)
             k == TheKey(i)
             previous == slot[u][k]
             hash == IF previous = NoSlot THEN Null ELSE previous.hash
         IN  /\ slot' = [slot EXCEPT ![u][k] =
                             [data |-> Passed(i), hash |-> hash, by |-> "save"]]
             /\ op' = Began(i, n, "send", previous, hash, 0)
             /\ crowd' = CrowdOfWrite(u, {k})
  BY DEF Save
<1> DEFINE u == UserOf(n)
           k == TheKey(i)
           previous == slot[u][k]
           hash == IF previous = NoSlot THEN Null ELSE previous.hash
           e == [data |-> Passed(i), hash |-> hash, by |-> "save"]
           o == BegunOp("send", n, previous, hash, 0)
<1>2. n \in 1 .. session /\ u \in Users /\ k \in Keys /\ Passed(i) \in PassedValues
  BY <1>0, SessionFacts, OpFacts DEF Callbacks
<1>3. previous \in Entries \cup {NoSlot}
  BY <1>2 DEF StoreTyped, SlotType
<1>4. hash \in Values \cup {Null}
  BY <1>3 DEF Entries
<1>5. e \in Entries /\ e.by = "save"
  BY <1>2, <1>4 DEF Entries
<1>6. o \in OpStates /\ o.stage = "send" /\ o.session = n
  <2>1. "send" \in Stages /\ n \in Nat /\ 0 \in Nat
    BY <1>2, SessionFacts DEF Stages
  <2> HIDE DEF previous, hash
  <2> QED BY <1>3, <1>4, <2>1, BegunType
<1>7. SoundOp(i, o)
  BY <1>2, <1>6 DEF SoundOp
<1>8. op' = [op EXCEPT ![i] = o] /\ slot' = [slot EXCEPT ![u][k] = e] /\ range' = range
  BY <1>1 DEF Began, BegunOp, Save
<1> HIDE DEF e, o
<1>9. OpsTyped'
  BY <1>6, <1>7, <1>8, OpReplaced
<1>10. slot' \in SlotType /\ CacheStep
  BY <1>2, <1>5, <1>8, SlotReplaced
<1>11. crowd' \in CrowdType
  BY <1>1, <1>2, CrowdOfType
<1>12. StoreTyped'
  BY <1>10, <1>11 DEF Save, StoreTyped
<1> QED BY <1>9, <1>10, <1>12 DEF CallKeeps

LEMMA BeginKeeps ==
    ASSUME SessionTypeOK, KeyedTyped, SameSession, NEW i \in Ops, NEW n \in 1 .. session,
           NEW tries \in Nat, op' = BeganLoad(i, n, tries),
           CallOf(i) \in {"reload", "mutate"}
    PROVE  OpsTyped'
<1> USE DEF KeyedTyped
<1> DEFINE u == UserOf(n)
           k == TheKey(i)
           o == BegunOp(LoadStage(u, k), n, slot[u][k], Null, tries)
<1>1. u \in Users /\ k \in Keys
  BY SessionFacts, OpFacts
<1>2. slot[u][k] \in Entries \cup {NoSlot}
  BY <1>1 DEF StoreTyped, SlotType
<1>3. /\ LoadStage(u, k) \in {"hash", "read"}
      /\ LoadStage(u, k) = "hash" => slot[u][k] \in Entries
  BY <1>2 DEF LoadStage
<1>4. /\ o \in OpStates /\ o.stage = LoadStage(u, k) /\ o.session = n
      /\ o.base = slot[u][k]
  <2> DEFINE stage == LoadStage(u, k)
             base == slot[u][k]
  <2>1. stage \in Stages /\ n \in Nat /\ Null \in Values \cup {Null}
    BY <1>3, SessionFacts DEF Stages
  <2>2. base \in Entries \cup {NoSlot}
    BY <1>2
  <2> HIDE DEF stage, base
  <2>3. BegunOp(stage, n, base, Null, tries) \in OpStates
    BY <2>1, <2>2, BegunType
  <2>4. LET b == BegunOp(stage, n, base, Null, tries)
        IN  b.stage = stage /\ b.session = n /\ b.base = base
    BY <2>1, <2>2, BegunType
  <2> QED BY <2>3, <2>4 DEF stage, base
<1>5. op' = [op EXCEPT ![i] = o]
  BY DEF BeganLoad, Began, BegunOp
<1> HIDE DEF o, u, k
<1>6. SoundOp(i, o)
  BY <1>3, <1>4 DEF SoundOp
<1> QED BY <1>4, <1>5, <1>6, OpReplaced

LEMMA MutateAndReloadKeep ==
    ASSUME SessionTypeOK, KeyedTyped, SameSession, NEW i \in Ops, Mutate(i) \/ Reload(i)
    PROVE  CallKeeps
<1> USE DEF KeyedTyped
<1>1. CASE Mutate(i)
  <2>1. /\ op' = BeganLoad(i, session, MaxAttempts) /\ CallOf(i) = "mutate"
        /\ crowd' = CrowdOfWrite(UserOf(session), KeysOf(i))
        /\ UNCHANGED << row, slot, epoch, range, behind >>
    BY <1>1 DEF Mutate, CanBegin
  <2>2. MaxAttempts \in Nat /\ session \in 1 .. session /\ UserOf(session) \in Users
    BY SessionFacts DEF MaxAttempts
  <2>3. OpsTyped'
    BY <2>1, <2>2, BeginKeeps
  <2>4. StoreTyped' /\ CacheStep
    BY <2>1, <2>2, CrowdOfType, CacheUntouched DEF StoreTyped
  <2> QED BY <2>3, <2>4 DEF CallKeeps
<1>2. CASE Reload(i)
  <2>1. PICK n \in Callbacks(TheKey(i)) : /\ op' = BeganLoad(i, n, 0)
                                          /\ crowd' = CrowdOfRead(UserOf(n), TheKey(i))
    BY <1>2 DEF Reload
  <2>2. /\ n \in 1 .. session /\ UserOf(n) \in Users /\ CallOf(i) = "reload"
        /\ TheKey(i) \in Keys /\ UNCHANGED << row, slot, epoch, range, behind >>
    BY <1>2, SessionFacts, OpFacts DEF Reload, CanBegin, Callbacks
  <2>3. OpsTyped'
    BY <2>1, <2>2, BeginKeeps
  <2>4. StoreTyped' /\ CacheStep
    BY <2>1, <2>2, CrowdOfType, CacheUntouched DEF StoreTyped
  <2> QED BY <2>3, <2>4 DEF CallKeeps
<1> QED BY <1>1, <1>2

LEMMA WriteAndRangeReloadKeep ==
    ASSUME SessionTypeOK, KeyedTyped, SameSession, NEW i \in Ops, Write(i) \/ RangeReload(i)
    PROVE  CallKeeps
<1> USE DEF KeyedTyped
<1>0. ASSUME NEW n \in 1 .. session, NEW stage \in {"send", "read"},
             stage = "read" => CallOf(i) = "rangeReload",
             op' = Began(i, n, stage, NoSlot, Null, 0)
      PROVE  OpsTyped'
  <2> DEFINE o == BegunOp(stage, n, NoSlot, Null, 0)
  <2>1. o \in OpStates /\ o.stage = stage /\ o.session = n
    BY SessionFacts, BegunType DEF Stages
  <2>2. op' = [op EXCEPT ![i] = o]
    BY <1>0 DEF Began, BegunOp
  <2> HIDE DEF o
  <2>3. SoundOp(i, o)
    BY <1>0, <2>1 DEF SoundOp
  <2> QED BY <2>1, <2>2, <2>3, OpReplaced
<1>1. CASE Write(i)
  <2>1. /\ op' = Began(i, session, "send", NoSlot, Null, 0)
        /\ crowd' = CrowdOfWrite(UserOf(session), KeysOf(i))
        /\ UNCHANGED << row, slot, epoch, range, behind >>
    BY <1>1 DEF Write
  <2>2. session \in 1 .. session /\ UserOf(session) \in Users
    BY SessionFacts
  <2>3. OpsTyped'
    BY <1>0, <2>1, <2>2
  <2>4. StoreTyped' /\ CacheStep
    BY <2>1, <2>2, CrowdOfType, CacheUntouched DEF StoreTyped
  <2> QED BY <2>3, <2>4 DEF CallKeeps
<1>2. CASE RangeReload(i)
  <2>1. PICK n \in Callbacks(RangeTarget) : op' = Began(i, n, "read", NoSlot, Null, 0)
    BY <1>2 DEF RangeReload
  <2>2. n \in 1 .. session /\ CallOf(i) = "rangeReload"
        /\ UNCHANGED << row, slot, epoch, range, crowd, behind >>
    BY <1>2 DEF RangeReload, CanBegin, Callbacks
  <2>3. OpsTyped'
    BY <1>0, <2>1, <2>2
  <2>4. StoreTyped' /\ CacheStep
    BY <2>2, CacheUntouched DEF StoreTyped
  <2> QED BY <2>3, <2>4 DEF CallKeeps
<1> QED BY <1>1, <1>2

LEMMA LoadedEntryType ==
    ASSUME SessionTypeOK, KeyedTyped, NEW i \in Ops, op[i].stage = "loaded",
           CallOf(i) \in {"reload", "mutate"}
    PROVE  /\ LoadedEntry(i) \in Entries
           /\ op[i].fresh => LoadedEntry(i).by = "load"
<1>1. op[i].rows \in [Keys -> Values] /\ SoundOp(i, op[i]) /\ TheKey(i) \in Keys
  BY OpFacts DEF KeyedTyped, OpsTyped, OpStates
<1>2. CASE op[i].fresh
  <2>1. op[i].rows[TheKey(i)] \in Values
    BY <1>1
  <2>2. LoadedEntry(i) = Loaded(op[i].rows[TheKey(i)], "load")
    BY <1>2 DEF LoadedEntry
  <2>3. LoadedEntry(i) \in Entries
    BY <2>1, <2>2, LoadedType
  <2> QED BY <2>2, <2>3 DEF Loaded
<1>3. CASE ~op[i].fresh
  BY <1>1, <1>3 DEF LoadedEntry, SoundOp
<1> QED BY <1>2, <1>3

LEMMA SlotOfLoadKeeps ==
    ASSUME SessionTypeOK, KeyedTyped, NEW i \in Ops, op[i].stage = "loaded",
           CallOf(i) \in {"reload", "mutate"}, slot' = SlotOfLoad(i), range' = range
    PROVE  slot' \in SlotType /\ CacheStep
<1>1. OpUser(i) \in Users /\ TheKey(i) \in Keys
  BY OpUserType, OpFacts DEF KeyedTyped
<1>2. CASE Hashed /\ op[i].fresh
  <2>1. slot' = [slot EXCEPT ![OpUser(i)][TheKey(i)] = LoadedEntry(i)]
    BY <1>2 DEF SlotOfLoad
  <2>2. LoadedEntry(i) \in Entries /\ LoadedEntry(i).by = "load"
    BY <1>2, LoadedEntryType
  <2> QED BY <1>1, <2>1, <2>2, SlotReplaced DEF KeyedTyped
<1>3. CASE ~(Hashed /\ op[i].fresh)
  BY <1>3, CacheUntouched DEF SlotOfLoad, KeyedTyped, StoreTyped
<1> QED BY <1>2, <1>3

(* A step that moves a call to its next stage. *)
LEMMA StageKeeps ==
    ASSUME SessionTypeOK, OpsTyped, SameSession, NEW i \in Ops, NEW s \in Stages,
           op' = [op EXCEPT ![i].stage = s],
           \/ s \notin {"hash", "read", "loaded"}
           \/ s \in {"read", "loaded"} /\ op[i].stage = "hash"
    PROVE  OpsTyped'
<1> DEFINE o == [op[i] EXCEPT !.stage = s]
<1>1. op[i] \in OpStates /\ SoundOp(i, op[i])
  BY DEF OpsTyped
<1>2. o \in OpStates /\ o.stage = s /\ o.session = op[i].session /\ o.base = op[i].base
  BY <1>1 DEF OpStates
<1>3. op' = [op EXCEPT ![i] = o]
  BY DEF OpsTyped
<1> HIDE DEF o
<1>4. SoundOp(i, o)
  BY <1>1, <1>2 DEF SoundOp
<1> QED BY <1>2, <1>3, <1>4, OpReplaced

LEMMA ReadStepsKeep ==
    ASSUME SessionTypeOK, KeyedTyped, SameSession, NEW i \in Ops, GetHash(i) \/ ReadsRows(i)
    PROVE  CallKeeps
<1>0. OpUser(i) \in Users
  BY OpUserType DEF KeyedTyped
<1>1. UNCHANGED << row, slot, epoch, range, crowd, behind >>
  BY DEF GetHash, ReadsRows
<1>2. StoreTyped' /\ CacheStep
  BY <1>1, CacheUntouched DEF KeyedTyped, StoreTyped
<1>3. CASE GetHash(i)
  <2>1. PICK s \in {"loaded", "read"} : op' = [op EXCEPT ![i].stage = s]
    BY <1>3 DEF GetHash
  <2>2. s \in Stages /\ op[i].stage = "hash"
    BY <1>3 DEF GetHash, Stages
  <2>3. OpsTyped'
    BY <2>1, <2>2, StageKeeps DEF KeyedTyped
  <2> QED BY <1>2, <2>3 DEF CallKeeps
<1>4. CASE ReadsRows(i)
  <2> DEFINE o == [op[i] EXCEPT !.stage = "loaded", !.rows = ListByKeyRange(OpUser(i)),
                                !.fresh = TRUE]
  <2>1. op[i] \in OpStates /\ SoundOp(i, op[i]) /\ op[i].stage = "read"
    BY <1>4 DEF KeyedTyped, OpsTyped, ReadsRows
  <2>2. ListByKeyRange(OpUser(i)) \in [Keys -> Values] /\ "loaded" \in Stages
    BY <1>0 DEF KeyedTyped, StoreTyped, ListByKeyRange, Stages
  <2>3. o \in OpStates /\ o.stage = "loaded" /\ o.session = op[i].session /\ o.fresh
    BY <2>1, <2>2 DEF OpStates
  <2>4. op' = [op EXCEPT ![i] = o]
    BY <1>4 DEF KeyedTyped, OpsTyped, ReadsRows
  <2> HIDE DEF o
  <2>5. SoundOp(i, o)
    BY <2>1, <2>3 DEF SoundOp
  <2>6. OpsTyped'
    BY <2>3, <2>4, <2>5, OpReplaced DEF KeyedTyped
  <2> QED BY <1>2, <2>6 DEF CallKeeps
<1> QED BY <1>3, <1>4

LEMMA ReloadsKeep ==
    ASSUME SessionTypeOK, KeyedTyped, SameSession, NEW i \in Ops,
           ReloadResolves(i) \/ RangeReloadResolves(i)
    PROVE  CallKeeps
<1> DEFINE u == OpUser(i)
           k == TheKey(i)
<1>0. u \in Users
  BY OpUserType DEF KeyedTyped
<1>1. op' = [op EXCEPT ![i] = [IdleOp EXCEPT !.stage = "done"]]
  BY DEF ReloadResolves, RangeReloadResolves
<1>2. OpsTyped'
  BY <1>1, IdleType, OpReplaced DEF KeyedTyped
<1>3. CASE ReloadResolves(i)
  <2>0. CallOf(i) = "reload" /\ op[i].stage = "loaded" /\ k \in Keys
    BY <1>3, OpFacts DEF ReloadResolves
  <2>1. LoadedEntry(i) \in Entries
    BY <2>0, LoadedEntryType
  <2>2. slot' \in SlotType /\ CacheStep
    <3>1. CASE StillSignedIn(u)
      <4> DEFINE e == [LoadedEntry(i) EXCEPT !.by = "reload"]
      <4>1. e \in Entries
        BY <2>1 DEF Entries
      <4>2. slot' = [slot EXCEPT ![u][k] = e]
        <5>1. slot' = [SlotOfLoad(i) EXCEPT ![u][k] = e]
          BY <1>3, <3>1 DEF ReloadResolves
        <5> HIDE DEF e
        <5> QED BY <1>0, <2>0, <5>1 DEF SlotOfLoad, KeyedTyped, StoreTyped, SlotType
      <4>3. range' = range /\ SignedIn(u)
        BY <1>3, <3>1 DEF ReloadResolves, StillSignedIn
      <4> HIDE DEF e
      <4> QED BY <1>0, <2>0, <4>1, <4>2, <4>3, SlotReplaced DEF KeyedTyped
    <3>2. CASE ~StillSignedIn(u)
      <4>1. slot' = SlotOfLoad(i) /\ range' = range
        BY <1>3, <3>2 DEF ReloadResolves
      <4> QED BY <2>0, <4>1, SlotOfLoadKeeps
    <3> QED BY <3>1, <3>2
  <2>3. crowd' \in CrowdType
    BY <1>0, <1>3, SetCrowdType, ChangeTypes DEF ReloadResolves, KeyedTyped
  <2> QED BY <1>2, <1>3, <2>2, <2>3 DEF ReloadResolves, CallKeeps, KeyedTyped, StoreTyped
<1>4. CASE RangeReloadResolves(i)
  <2> DEFINE e == [rows |-> op[i].rows, epoch |-> epoch[u], by |-> "reload"]
  <2>1. e \in RangeEntries
    BY <1>0 DEF KeyedTyped, OpsTyped, OpStates, StoreTyped, RangeEntries
  <2>2. UNCHANGED << row, slot, epoch, crowd >>
    BY <1>4 DEF RangeReloadResolves
  <2>3. range' = IF SignedIn(u) THEN [range EXCEPT ![u] = e] ELSE range
    BY <1>4 DEF RangeReloadResolves, StillSignedIn
  <2> HIDE DEF e
  <2>4. range' \in RangeType
    BY <1>0, <2>1, <2>3 DEF KeyedTyped, StoreTyped, RangeType
  <2>5. e # NoSlot
    BY <2>1, KeyedNullAssumption
  <2>6. \A v \in Users : range'[v] = range[v] \/ (v = u /\ range'[v] = e /\ SignedIn(u))
    BY <2>3 DEF KeyedTyped, StoreTyped, RangeType
  <2>7. CacheStep
    BY <2>2, <2>5, <2>6 DEF CacheStep
  <2>8. behind' \in SUBSET Users
    BY <1>0, <1>4 DEF RangeReloadResolves, KeyedTyped, StoreTyped
  <2> QED BY <1>2, <2>2, <2>4, <2>7, <2>8 DEF CallKeeps, KeyedTyped, StoreTyped
<1> QED BY <1>3, <1>4

LEMMA MutateComputesKeeps ==
    ASSUME SessionTypeOK, KeyedTyped, SameSession, NEW i \in Ops, MutateComputes(i)
    PROVE  CallKeeps
<1> DEFINE e == LoadedEntry(i)
           o == [op[i] EXCEPT !.stage = "send", !.expected = e.hash]
<1>0. op[i].stage = "loaded" /\ CallOf(i) = "mutate"
  BY DEF MutateComputes
<1>1. e \in Entries
  BY <1>0, LoadedEntryType
<1> HIDE DEF e
<1>2. op[i] \in OpStates /\ SoundOp(i, op[i]) /\ "send" \in Stages
  BY DEF KeyedTyped, OpsTyped, Stages
<1>3. o \in OpStates /\ o.stage = "send" /\ o.session = op[i].session
  BY <1>1, <1>2 DEF OpStates, Entries
<1>4. op' = [op EXCEPT ![i] = o]
  BY DEF MutateComputes, KeyedTyped, OpsTyped, e
<1> HIDE DEF o
<1>5. OpsTyped'
  BY <1>2, <1>3, <1>4, OpReplaced DEF SoundOp, KeyedTyped
<1>6. slot' \in SlotType /\ CacheStep
  BY <1>0, SlotOfLoadKeeps DEF MutateComputes
<1> QED BY <1>5, <1>6 DEF MutateComputes, CallKeeps, KeyedTyped, StoreTyped

(* A write that lands, here or on another device, touches the rows and     *)
(* what has been read of the range.                                        *)
LEMMA StaleKeeps ==
    ASSUME SessionTypeOK, KeyedTyped, SameSession, NEW u \in Users,
           op' = OpsAfterWrite(u)
    PROVE  OpsTyped'
<1>0. Ops' = Ops
  BY DEF SameSession, Ops
<1>1. op' \in [Ops -> OpStates]
  BY AfterWriteType DEF KeyedTyped
<1>2. ASSUME NEW j \in Ops PROVE SoundOp(j, op'[j])
  <2>1. PICK b \in BOOLEAN : op'[j] = [op[j] EXCEPT !.stale = b]
    BY AfterWriteType DEF KeyedTyped
  <2>2. op[j] \in OpStates /\ SoundOp(j, op[j])
    BY DEF KeyedTyped, OpsTyped
  <2>3. /\ op'[j].session = op[j].session /\ op'[j].stage = op[j].stage
        /\ op'[j].base = op[j].base /\ op'[j].fresh = op[j].fresh
    BY <2>1, <2>2 DEF OpStates
  <2> QED BY <2>2, <2>3 DEF SoundOp
<1>3. \A j \in Ops : SoundOp(j, op[j])' <=> SoundOp(j, op'[j])
  BY DEF SoundOp, SameSession, CallOf
<1> QED BY <1>0, <1>1, <1>2, <1>3 DEF OpsTyped

(* The registry after a write: the same fetches.                           *)
SameFetches ==
    /\ fetch' \in FetchType
    /\ \A u \in Users, t \in Targets : fetch'[u][t] = NoFetch <=> fetch[u][t] = NoFetch

LEMMA LandsKeeps ==
    ASSUME SessionTypeOK, KeyedTyped, SameSession, NEW i \in Ops, Lands(i)
    PROVE  CallKeeps /\ SameFetches
<1> DEFINE u == OpUser(i)
           o == [OpsAfterWrite(u)[i] EXCEPT !.stage = "landed"]
<1>0. u \in Users /\ i \in Values
  BY OpUserType, OpFacts DEF KeyedTyped
<1>1. /\ OpsAfterWrite(u) \in [Ops -> OpStates]
      /\ \A j \in Ops : \E b \in BOOLEAN : OpsAfterWrite(u)[j] = [op[j] EXCEPT !.stale = b]
  BY <1>0, AfterWriteType DEF KeyedTyped
<1>2. op' = [OpsAfterWrite(u) EXCEPT ![i] = o]
  BY <1>1 DEF Lands
<1>3. "landed" \in Stages
  BY DEF Stages
<1>4. /\ o \in OpStates /\ o.stage = "landed" /\ o.session = op[i].session
  <2> DEFINE w == OpsAfterWrite(u)[i]
  <2>1. op[i] \in OpStates /\ w \in OpStates
    BY <1>1 DEF KeyedTyped, OpsTyped
  <2>2. PICK b \in BOOLEAN : w = [op[i] EXCEPT !.stale = b]
    BY <1>1
  <2>3. w.session = op[i].session
    BY <2>1, <2>2 DEF OpStates
  <2> HIDE DEF w
  <2>4. [w EXCEPT !.stage = "landed"] \in OpStates
        /\ [w EXCEPT !.stage = "landed"].stage = "landed"
        /\ [w EXCEPT !.stage = "landed"].session = w.session
    BY <1>3, <2>1 DEF OpStates
  <2> QED BY <2>3, <2>4 DEF w
<1>5. op' \in [Ops -> OpStates] /\ Ops' = Ops
  BY <1>1, <1>2, <1>4 DEF SameSession, Ops
<1>6. ASSUME NEW j \in Ops PROVE SoundOp(j, op'[j])
  <2>1. op[j] \in OpStates /\ SoundOp(j, op[j])
    BY DEF KeyedTyped, OpsTyped
  <2>2. CASE j = i
    BY <1>1, <1>2, <1>4, <2>1, <2>2 DEF SoundOp
  <2>3. CASE j # i
    <3>1. PICK b \in BOOLEAN : op'[j] = [op[j] EXCEPT !.stale = b]
      BY <1>1, <1>2, <2>3
    <3>2. /\ op'[j].session = op[j].session /\ op'[j].stage = op[j].stage
          /\ op'[j].base = op[j].base /\ op'[j].fresh = op[j].fresh
      BY <2>1, <3>1 DEF OpStates
    <3> QED BY <2>1, <3>2 DEF SoundOp
  <2> QED BY <2>2, <2>3
<1>7. \A j \in Ops : SoundOp(j, op[j])' <=> SoundOp(j, op'[j])
  BY DEF SoundOp, SameSession, CallOf
<1>8. OpsTyped'
  BY <1>5, <1>6, <1>7 DEF OpsTyped
<1>9. SameFetches
  BY <1>0, AfterWriteType DEF Lands, SameFetches, KeyedTyped
<1>10. row' \in [Users -> [Keys -> Values]]
  BY <1>0 DEF Lands, KeyedTyped, StoreTyped
<1>11. UNCHANGED << slot, epoch, range, crowd >> /\ behind' \in SUBSET Users
  BY <1>0 DEF Lands, KeyedTyped, StoreTyped
<1>12. StoreTyped' /\ CacheStep
  BY <1>10, <1>11, CacheUntouched DEF KeyedTyped, StoreTyped
<1> QED BY <1>8, <1>9, <1>12 DEF CallKeeps

LEMMA RefusedKeeps ==
    ASSUME SessionTypeOK, KeyedTyped, SameSession, NEW i \in Ops, Refused(i)
    PROVE  CallKeeps
<1>1. PICK s \in {"second", "conflict"} : op' = [op EXCEPT ![i].stage = s]
  BY DEF Refused
<1>2. s \in Stages /\ s \notin {"hash", "read", "loaded"}
  BY DEF Stages
<1>3. OpsTyped'
  BY <1>1, <1>2, StageKeeps DEF KeyedTyped
<1> QED BY <1>3, CacheUntouched DEF Refused, CallKeeps, KeyedTyped, StoreTyped

(* save() puts back what it found.                                         *)
LEMMA RollbackKeeps ==
    ASSUME SessionTypeOK, KeyedTyped, NEW i \in Ops, range' = range,
           slot' = IF CallOf(i) = "save" THEN RolledBack(i) ELSE slot
    PROVE  slot' \in SlotType /\ CacheStep
<1> DEFINE e == [op[i].base EXCEPT !.by = "save"]
<1>1. CASE CallOf(i) = "save" /\ op[i].base # NoSlot
  <2>1. op[i].base \in Entries /\ OpUser(i) \in Users /\ TheKey(i) \in Keys
    BY <1>1, OpUserType, OpFacts DEF KeyedTyped, OpsTyped, OpStates
  <2>2. e \in Entries /\ e.by = "save"
    BY <2>1 DEF Entries
  <2>3. slot' = [slot EXCEPT ![OpUser(i)][TheKey(i)] = e]
    BY <1>1 DEF RolledBack
  <2> HIDE DEF e
  <2> QED BY <2>1, <2>2, <2>3, SlotReplaced DEF KeyedTyped
<1>2. CASE ~(CallOf(i) = "save" /\ op[i].base # NoSlot)
  BY <1>2, CacheUntouched DEF RolledBack, KeyedTyped, StoreTyped
<1> QED BY <1>1, <1>2

LEMMA SaveResolvesKeeps ==
    ASSUME SessionTypeOK, KeyedTyped, SameSession, NEW i \in Ops, SaveResolves(i)
    PROVE  CallKeeps
<1> DEFINE e == [data |-> Passed(i), hash |-> SavedHash(i), by |-> "save"]
<1>1. OpsTyped'
  BY IdleType, OpReplaced DEF SaveResolves, KeyedTyped
<1>2. /\ OpUser(i) \in Users /\ TheKey(i) \in Keys
      /\ i \in Values /\ Passed(i) \in PassedValues
  BY OpUserType, OpFacts DEF KeyedTyped, SaveResolves
<1>3. e \in Entries /\ e.by = "save"
  BY <1>2 DEF Entries, SavedHash
<1>4. slot' = [slot EXCEPT ![OpUser(i)][TheKey(i)] = e] /\ range' = range
  BY DEF SaveResolves
<1> HIDE DEF e
<1>5. slot' \in SlotType /\ CacheStep
  BY <1>2, <1>3, <1>4, SlotReplaced DEF KeyedTyped
<1> QED BY <1>1, <1>5 DEF SaveResolves, CallKeeps, KeyedTyped, StoreTyped

LEMMA WriteResolvesKeeps ==
    ASSUME SessionTypeOK, KeyedTyped, SameSession, NEW i \in Ops, WriteResolves(i)
    PROVE  CallKeeps
<1> DEFINE u == OpUser(i)
           e == [data |-> WrittenThrough(i), hash |-> HashOf(i), by |-> "write"]
           done == [IdleOp EXCEPT !.stage = "done"]
<1>1. u \in Users /\ i \in Values /\ WrittenThrough(i) \in Values \cup PassedValues
  BY OpUserType, OpFacts DEF KeyedTyped
<1>2. e \in Entries /\ e # NoSlot /\ e.by = "write"
  BY <1>1, HashType, KeyedNullAssumption DEF Entries
<1>3. slot' = [slot EXCEPT ![u] = [k \in Keys |-> IF k \in KeysOf(i) THEN e ELSE slot[u][k]]]
  BY <1>1 DEF WriteResolves, KeyedTyped, StoreTyped, SlotType
<1>4. UNCHANGED << row, range, crowd, behind >> /\ epoch' \in [Users -> Nat]
  BY <1>1 DEF WriteResolves, Bumped, KeyedTyped, StoreTyped
<1> HIDE DEF e
<1>5. slot' \in SlotType
  BY <1>1, <1>2, <1>3 DEF KeyedTyped, StoreTyped, SlotType
<1>6. \A v \in Users, k \in Keys : slot'[v][k] = slot[v][k] \/ slot'[v][k] = e
  BY <1>1, <1>3 DEF KeyedTyped, StoreTyped, SlotType
<1>7. CacheStep
  BY <1>2, <1>4, <1>6 DEF CacheStep
<1>8. done \in OpStates /\ \A j \in Ops : SoundOp(j, done)
  BY IdleType
<1> HIDE DEF done
<1>9. ASSUME NEW j \in Ops
      PROVE  op'[j] = done \/ \E b \in BOOLEAN : op'[j] = [op[j] EXCEPT !.bumped = b]
  <2>1. op[j] \in OpStates
    BY DEF KeyedTyped, OpsTyped
  <2>2. op[j] = [op[j] EXCEPT !.bumped = op[j].bumped] /\ op[j].stale \in BOOLEAN
        /\ op[j].bumped \in BOOLEAN
    BY <2>1 DEF OpStates
  <2> QED BY <2>2 DEF WriteResolves, done
<1>10. ASSUME NEW j \in Ops PROVE op'[j] \in OpStates /\ SoundOp(j, op'[j])
  <2>1. CASE op'[j] = done
    BY <1>8, <2>1
  <2>2. ASSUME NEW b \in BOOLEAN, op'[j] = [op[j] EXCEPT !.bumped = b]
        PROVE  op'[j] \in OpStates /\ SoundOp(j, op'[j])
    <3>1. op[j] \in OpStates /\ SoundOp(j, op[j])
      BY DEF KeyedTyped, OpsTyped
    <3>2. /\ op'[j] \in OpStates
          /\ op'[j].session = op[j].session /\ op'[j].stage = op[j].stage
          /\ op'[j].base = op[j].base /\ op'[j].fresh = op[j].fresh
      BY <2>2, <3>1 DEF OpStates
    <3> QED BY <3>1, <3>2 DEF SoundOp
  <2> QED BY <1>9, <2>1, <2>2
<1>11. op' \in [Ops -> OpStates] /\ Ops' = Ops
  <2>1. op' = [j \in Ops |-> op'[j]]
    BY DEF WriteResolves
  <2> QED BY <1>10, <2>1 DEF SameSession, Ops
<1>12. \A j \in Ops : SoundOp(j, op[j])' <=> SoundOp(j, op'[j])
  BY DEF SoundOp, SameSession, CallOf
<1>13. OpsTyped'
  BY <1>10, <1>11, <1>12 DEF OpsTyped
<1> QED BY <1>4, <1>5, <1>7, <1>13 DEF CallKeeps, KeyedTyped, StoreTyped

LEMMA ConflictResolvesKeeps ==
    ASSUME SessionTypeOK, KeyedTyped, SameSession, NEW i \in Ops, ConflictResolves(i)
    PROVE  CallKeeps
<1>0. OpUser(i) \in Users
  BY OpUserType DEF KeyedTyped
<1>1. slot' \in SlotType /\ CacheStep
  BY RollbackKeeps DEF ConflictResolves
<1>2. crowd' \in CrowdType
  BY <1>0, SetCrowdType, ChangeTypes DEF ConflictResolves, KeyedTyped, StoreTyped
<1>3. OpsTyped'
  <2>1. CASE CallOf(i) = "mutate" /\ op[i].tries > 1
    <3>1. op[i].session \in 1 .. session /\ op[i].tries - 1 \in Nat
      BY <2>1 DEF KeyedTyped, OpsTyped, SoundOp, OpStates
    <3>2. op' = BeganLoad(i, op[i].session, op[i].tries - 1)
      BY <2>1 DEF ConflictResolves
    <3> QED BY <2>1, <3>1, <3>2, BeginKeeps
  <2>2. CASE ~(CallOf(i) = "mutate" /\ op[i].tries > 1)
    BY <2>2, IdleType, OpReplaced DEF ConflictResolves, KeyedTyped
  <2> QED BY <2>1, <2>2
<1> QED BY <1>1, <1>2, <1>3 DEF ConflictResolves, CallKeeps, KeyedTyped, StoreTyped

LEMMA FailsKeeps ==
    ASSUME SessionTypeOK, KeyedTyped, SameSession, NEW i \in Ops, Fails(i)
    PROVE  CallKeeps
<1>0. OpUser(i) \in Users
  BY OpUserType DEF KeyedTyped
<1>1. slot' \in SlotType /\ CacheStep
  BY RollbackKeeps DEF Fails
<1>2. crowd' \in CrowdType
  BY <1>0, SetCrowdType, ChangeTypes DEF Fails, KeyedTyped
<1>3. OpsTyped'
  BY IdleType, OpReplaced DEF Fails, KeyedTyped
<1>4. behind' \in SUBSET Users
  BY <1>0 DEF Fails, KeyedTyped, StoreTyped
<1> QED BY <1>1, <1>2, <1>3, <1>4 DEF Fails, CallKeeps, KeyedTyped, StoreTyped

LEMMA ForeignWriteKeeps ==
    ASSUME SessionTypeOK, KeyedTyped, SameSession, NEW u \in Users, NEW k \in Keys,
           ForeignWrite(u, k)
    PROVE  CallKeeps /\ SameFetches
<1>1. OpsTyped'
  BY StaleKeeps DEF ForeignWrite
<1>2. SameFetches
  BY AfterWriteType DEF ForeignWrite, SameFetches, KeyedTyped
<1>3. row' \in [Users -> [Keys -> Values]] /\ behind' \in SUBSET Users
  BY DEF ForeignWrite, KeyedTyped, StoreTyped, Values
<1>4. crowd' \in CrowdType
  BY SetCrowdType, ChangeTypes DEF ForeignWrite, KeyedTyped
<1>5. CacheStep
  BY CacheUntouched DEF ForeignWrite
<1> QED BY <1>1, <1>2, <1>3, <1>4, <1>5 DEF ForeignWrite, CallKeeps, KeyedTyped, StoreTyped

-----------------------------------------------------------------------------
(* The registries of fetches and the hooks that wait for them.             *)

Filled(u, t) == IF t = RangeTarget THEN range[u] # NoSlot ELSE slot[u][t] # NoSlot

(* The dependencies an effect last ran for are those of a render that was. *)
SeenBefore(h) == hook[h].seen[1] \in 0 .. session \cup {NeverSeen, Unmounted}
(* A hook that waits does so for a fetch in the registry.                  *)
HookWaits(h) ==
    hook[h].waits => /\ hook[h].seen[1] \in 1 .. session
                     /\ fetch[UserOf(hook[h].seen[1])][TargetOf[h]] # NoFetch
(* One whose effect ran in this session waits, has failed or has its slot. *)
HookShown(h) ==
    unlocked /\ hook[h].seen[1] = session =>
        hook[h].error \/ hook[h].waits \/ Filled(UserOf(session), TargetOf[h])

Active == {ut \in Users \X Targets : fetch[ut[1]][ut[2]] # NoFetch}
Counted == IsFiniteSet(Active) /\ activity = Cardinality(Active)

HooksInv ==
    /\ RegistryTyped
    /\ \A h \in Hooks : SeenBefore(h) /\ HookWaits(h) /\ HookShown(h)
    /\ Counted

(* Whatever the slots of a user hold while that user is not signed in, no  *)
(* effect and no reload put there.                                         *)
FilledBy ==
    \A u \in Users : ~SignedIn(u) =>
        /\ \A k \in Keys : slot[u][k] # NoSlot => slot[u][k].by \notin {"effect", "reload"}
        /\ range[u] # NoSlot => range[u].by = "gap"

LEMMA FilledByKept ==
    ASSUME SameSession, CacheStep, FilledBy
    PROVE  FilledBy'
<1>1. \A u \in Users : SignedIn(u)' <=> SignedIn(u)
  BY DEF SameSession, SignedIn, UserOf
<1> QED BY <1>1 DEF CacheStep, FilledBy

LEMMA FilledStays ==
    ASSUME CacheStep, NEW u \in Users, NEW t \in Targets, Filled(u, t)
    PROVE  Filled(u, t)'
BY DEF CacheStep, Filled, Targets

LEMMA HookFacts ==
    ASSUME RegistryTyped, NEW h \in Hooks
    PROVE  /\ hook[h] \in HookStates /\ TargetOf[h] \in Targets
           /\ hook[h].seen[1] \in 0 .. Unmounted /\ hook[h].seen[2] \in Nat
BY KeyedAssumption DEF RegistryTyped, HookStates

LEMMA CountKept == ASSUME SameFetches, activity' = activity, Counted PROVE Counted'
<1>1. Active' = Active
  BY DEF SameFetches, Active
<1> QED BY <1>1 DEF Counted

LEMMA CountAdded ==
    ASSUME RegistryTyped, Counted, NEW u \in Users, NEW t \in Targets, NEW f \in Fetches,
           fetch[u][t] = NoFetch, fetch' = [fetch EXCEPT ![u][t] = f],
           activity' = activity + 1
    PROVE  Counted'
<1>1. f # NoFetch
  BY KeyedNullAssumption
<1>2. Active' = Active \cup {<< u, t >>} /\ << u, t >> \notin Active
  BY <1>1 DEF RegistryTyped, FetchType, Active
<1> QED BY <1>2, FS_AddElement DEF Counted

LEMMA CountRemoved ==
    ASSUME RegistryTyped, Counted, NEW u \in Users, NEW t \in Targets,
           fetch[u][t] # NoFetch, Deregister(u, t)
    PROVE  Counted'
<1>1. Active' = Active \ {<< u, t >>} /\ << u, t >> \in Active
  BY DEF RegistryTyped, FetchType, Active, Deregister
<1>2. activity' = activity - 1
  BY DEF Deregister
<1> QED BY <1>1, <1>2, FS_RemoveElement DEF Counted

(* A step of a call, or of another device.                                 *)
LEMMA CallsKeepHooks ==
    ASSUME SessionTypeOK, SameSession, HooksInv, CacheStep, SameFetches,
           hook' = hook, activity' = activity
    PROVE  HooksInv'
<1>1. RegistryTyped' /\ Counted'
  BY CountKept DEF HooksInv, RegistryTyped, SameFetches
<1>2. ASSUME NEW h \in Hooks PROVE (SeenBefore(h) /\ HookWaits(h) /\ HookShown(h))'
  <2>1. SeenBefore(h) /\ HookWaits(h) /\ HookShown(h) /\ TargetOf[h] \in Targets
    BY HookFacts DEF HooksInv
  <2>2. SeenBefore(h)'
    BY <2>1 DEF SeenBefore, SameSession
  <2>3. HookWaits(h)'
    <3>1. ASSUME hook[h].waits PROVE UserOf(hook[h].seen[1]) \in Users
      BY <2>1, <3>1, SessionFacts DEF HookWaits
    <3> QED BY <2>1, <3>1 DEF HookWaits, SameSession, SameFetches, UserOf
  <2>4. HookShown(h)'
    <3>1. UserOf(session) \in Users /\ UserOf(session)' = UserOf(session)
      BY SessionFacts DEF SameSession, UserOf
    <3>2. Filled(UserOf(session), TargetOf[h]) => Filled(UserOf(session), TargetOf[h])'
      <4> DEFINE u == UserOf(session)
      <4>1. u' = u /\ u \in Users
        BY <3>1
      <4>2. PICK v \in Users : v = u
        BY <4>1
      <4>3. Filled(v, TargetOf[h]) => Filled(v, TargetOf[h])'
        BY <2>1, FilledStays
      <4> QED BY <4>1, <4>2, <4>3 DEF Filled
    <3> QED BY <2>1, <3>2 DEF HookShown, SameSession
  <2> QED BY <2>2, <2>3, <2>4
<1> QED BY <1>1, <1>2 DEF HooksInv

(* A fetch leaves the registry and releases who waits for it: with the     *)
(* slot filled, or with an error.                                          *)
LEMMA DeregisterKeepsHooks ==
    ASSUME SessionTypeOK, SameSession, HooksInv, CacheStep,
           NEW u \in Users, NEW t \in Targets, NEW failed \in BOOLEAN,
           fetch[u][t] # NoFetch, Deregister(u, t),
           hook' = Released(Waiting(u, t), failed),
           failed \/ Waiting(u, t) = {} \/ Filled(u, t)'
    PROVE  HooksInv'
<1> USE DEF HooksInv
<1>1. fetch' = [fetch EXCEPT ![u][t] = NoFetch]
  BY DEF Deregister
<1>2. fetch' \in FetchType
  BY <1>1 DEF RegistryTyped, FetchType
<1>3. ASSUME NEW h \in Hooks
      PROVE  /\ hook'[h] = IF h \in Waiting(u, t)
                           THEN [hook[h] EXCEPT !.waits = FALSE, !.error = failed] ELSE hook[h]
             /\ hook'[h] \in HookStates /\ hook'[h].seen = hook[h].seen
             /\ h \in Waiting(u, t) => hook'[h].waits = FALSE /\ hook'[h].error = failed
             /\ h \notin Waiting(u, t) => hook'[h] = hook[h]
  BY HookFacts DEF Released, HookStates
<1>4. hook' \in [Hooks -> HookStates]
  BY <1>3 DEF Released
<1>5. Counted'
  BY CountRemoved
<1>6. ASSUME NEW h \in Hooks PROVE (SeenBefore(h) /\ HookWaits(h) /\ HookShown(h))'
  <2>1. SeenBefore(h) /\ HookWaits(h) /\ HookShown(h) /\ TargetOf[h] \in Targets
    BY HookFacts
  <2>2. SeenBefore(h)'
    BY <1>3, <2>1 DEF SeenBefore, SameSession
  <2>3. HookWaits(h)'
    <3>1. SUFFICES ASSUME hook'[h].waits
                   PROVE  /\ hook'[h].seen[1] \in 1 .. session
                          /\ fetch'[UserOf(hook'[h].seen[1])][TargetOf[h]] # NoFetch
      BY DEF HookWaits, SameSession, UserOf
    <3>2. h \notin Waiting(u, t) /\ hook'[h] = hook[h]
      BY <1>3, <3>1
    <3>3. /\ hook[h].seen[1] \in 1 .. session
          /\ fetch[UserOf(hook[h].seen[1])][TargetOf[h]] # NoFetch
      BY <2>1, <3>1, <3>2 DEF HookWaits
    <3>4. UserOf(hook[h].seen[1]) \in Users
      BY <3>3, SessionFacts
    <3>5. UserOf(hook[h].seen[1]) # u \/ TargetOf[h] # t
      BY <3>1, <3>2 DEF Waiting
    <3>6. fetch'[UserOf(hook[h].seen[1])][TargetOf[h]]
             = fetch[UserOf(hook[h].seen[1])][TargetOf[h]]
      BY <1>1, <2>1, <3>4, <3>5 DEF RegistryTyped, FetchType
    <3> QED BY <3>2, <3>3, <3>6
  <2>4. HookShown(h)'
    <3>1. SUFFICES ASSUME unlocked, hook[h].seen[1] = session, ~hook'[h].error,
                          ~hook'[h].waits
                   PROVE  Filled(UserOf(session), TargetOf[h])'
      BY <1>3 DEF HookShown, SameSession
    <3>2. PICK v \in Users : v = UserOf(session)
      BY SessionFacts
    <3>3. v = UserOf(session)'
      BY <3>2 DEF SameSession, UserOf
    <3>4. CASE h \in Waiting(u, t)
      <4>1. v = u /\ TargetOf[h] = t
        BY <3>1, <3>2, <3>4 DEF Waiting
      <4>2. ~failed
        BY <1>3, <3>1, <3>4
      <4>3. Filled(u, t)'
        BY <3>4, <4>2
      <4> QED BY <3>3, <4>1, <4>3 DEF Filled
    <3>5. CASE h \notin Waiting(u, t)
      <4>1. Filled(v, TargetOf[h])
        BY <1>3, <2>1, <3>1, <3>2, <3>5 DEF HookShown
      <4>2. Filled(v, TargetOf[h])'
        BY <2>1, <4>1, FilledStays
      <4> QED BY <3>3, <4>2 DEF Filled
    <3> QED BY <3>4, <3>5
  <2> QED BY <2>2, <2>3, <2>4
<1> QED BY <1>2, <1>4, <1>5, <1>6 DEF RegistryTyped

(* An effect that fills a slot belongs to the user signed in.              *)
LEMMA EffectFillsSignedIn ==
    ASSUME SessionTypeOK, HooksInv, NEW u \in Users, NEW t \in Targets,
           EffectName(Waiting(u, t)) = "effect"
    PROVE  SignedIn(u)
<1>1. PICK h \in Waiting(u, t) : ~InGap(h)
  BY DEF EffectName
<1>2. h \in Hooks /\ hook[h].waits /\ UserOf(hook[h].seen[1]) = u /\ HookWaits(h)
  BY <1>1 DEF Waiting, HooksInv
<1>3. hook[h].seen[1] \in 1 .. session /\ hook[h].seen[1] = Handle
  BY <1>1, <1>2 DEF HookWaits, InGap
<1> QED BY <1>2, <1>3, SessionFacts DEF Handle, Locked, SignedIn

LEMMA KeyFetchKeeps ==
    ASSUME SessionTypeOK, KeyedTyped, HooksInv, SameSession, NEW u \in Users, NEW k \in Keys,
           KeyFetchResolves(u, k)
    PROVE  StoreTyped' /\ CacheStep /\ HooksInv' /\ op' = op
<1> DEFINE f == fetch[u][k]
           hs == Waiting(u, k)
<1>0. f # NoFetch /\ k \in Targets /\ k # RangeTarget
  BY KeyedAssumption DEF KeyFetchResolves, Targets
<1>1. f.rows[k] \in Values
  BY <1>0 DEF KeyedTyped, RegistryTyped, FetchType, Fetches
<1>2. crowd' \in CrowdType
  BY SetCrowdType, ChangeTypes DEF KeyFetchResolves, KeyedTyped
<1>3. range' = range /\ UNCHANGED << row, epoch, op, behind >>
  BY DEF KeyFetchResolves
<1>4. ASSUME NEW who \in {"effect", "gap", "load"},
             slot' = [slot EXCEPT ![u][k] = Loaded(f.rows[k], who)],
             who = "effect" => SignedIn(u)
      PROVE  slot' \in SlotType /\ CacheStep /\ Filled(u, k)'
  <2> DEFINE e == Loaded(f.rows[k], who)
  <2>1. e \in Entries /\ e.by = who
    BY <1>1, LoadedType DEF Loaded
  <2>2. slot' = [slot EXCEPT ![u][k] = e]
    BY <1>4
  <2> HIDE DEF e, f
  <2>3. slot' \in SlotType /\ CacheStep
    <3>1. (e.by \in {"effect", "reload"} => SignedIn(u)) /\ StoreTyped /\ range' = range
      BY <1>3, <1>4, <2>1 DEF KeyedTyped
    <3> QED BY <2>1, <2>2, <3>1, SlotReplaced
  <2>4. slot'[u][k] = e
    BY <2>2 DEF KeyedTyped, StoreTyped, SlotType
  <2> QED BY <1>0, <2>1, <2>3, <2>4, KeyedNullAssumption DEF Filled
<1>5. slot' \in SlotType /\ CacheStep /\ (hs = {} \/ Filled(u, k)')
  <2>1. CASE hs # {}
    <3>1. slot' = [slot EXCEPT ![u][k] = Loaded(f.rows[k], EffectName(hs))]
      BY <2>1 DEF KeyFetchResolves
    <3>2. EffectName(hs) \in {"effect", "gap"} /\ (EffectName(hs) = "effect" => SignedIn(u))
      BY <1>0, EffectFillsSignedIn DEF EffectName
    <3> HIDE DEF hs, f
    <3> QED BY <1>4, <3>1, <3>2
  <2>2. CASE hs = {} /\ Hashed
    <3>1. slot' = [slot EXCEPT ![u][k] = Loaded(f.rows[k], "load")]
      BY <2>2 DEF KeyFetchResolves
    <3> HIDE DEF hs, f
    <3> QED BY <1>4, <3>1
  <2>3. CASE hs = {} /\ ~Hashed
    BY <1>3, <2>3, CacheUntouched DEF KeyFetchResolves, KeyedTyped, StoreTyped
  <2> QED BY <2>1, <2>2, <2>3
<1>6. Deregister(u, k) /\ hook' = Released(Waiting(u, k), FALSE)
  BY DEF KeyFetchResolves
<1>7. HooksInv'
  BY <1>0, <1>5, <1>6, DeregisterKeepsHooks
<1> QED BY <1>2, <1>3, <1>5, <1>7 DEF KeyedTyped, StoreTyped

LEMMA RangeFetchKeeps ==
    ASSUME SessionTypeOK, KeyedTyped, HooksInv, SameSession, NEW u \in Users,
           RangeFetchResolves(u)
    PROVE  StoreTyped' /\ CacheStep /\ HooksInv' /\ op' = op
<1> DEFINE f == fetch[u][RangeTarget]
           hs == Waiting(u, RangeTarget)
<1>0. f # NoFetch /\ RangeTarget \in Targets
  BY DEF RangeFetchResolves, Targets
<1>1. f.rows \in [Keys -> Values]
  BY <1>0 DEF KeyedTyped, RegistryTyped, FetchType, Fetches
<1>2. UNCHANGED << row, slot, epoch, op, crowd >> /\ behind' \in SUBSET Users
  BY DEF RangeFetchResolves, KeyedTyped, StoreTyped
<1>3. range' \in RangeType /\ CacheStep /\ (hs = {} \/ Filled(u, RangeTarget)')
  <2>1. CASE hs = {}
    BY <1>2, <2>1, CacheUntouched DEF RangeFetchResolves, KeyedTyped, StoreTyped
  <2>2. CASE hs # {}
    <3>1. PICK h \in hs : range' = [range EXCEPT ![u] =
             [rows |-> f.rows, epoch |-> hook[h].seen[2], by |-> EffectName(hs)]]
      BY <2>2 DEF RangeFetchResolves
    <3> DEFINE e == [rows |-> f.rows, epoch |-> hook[h].seen[2], by |-> EffectName(hs)]
    <3>2. EffectName(hs) \in {"effect", "gap"} /\ (EffectName(hs) = "effect" => SignedIn(u))
      BY <1>0, EffectFillsSignedIn DEF EffectName
    <3>3. hook[h].seen[2] \in Nat
      BY HookFacts DEF Waiting, HooksInv
    <3>4. e \in RangeEntries /\ (e.by = "gap" \/ SignedIn(u))
      <4> HIDE DEF f, hs
      <4> QED BY <1>1, <3>2, <3>3 DEF RangeEntries
    <3>5. range' = [range EXCEPT ![u] = e]
      BY <3>1
    <3> HIDE DEF e
    <3>6. e # NoSlot
      BY <3>4, KeyedNullAssumption
    <3>7. \A v \in Users : range'[v] = IF v = u THEN e ELSE range[v]
      BY <3>5 DEF KeyedTyped, StoreTyped, RangeType
    <3>8. range' \in RangeType
      BY <3>4, <3>5 DEF KeyedTyped, StoreTyped, RangeType
    <3>9. CacheStep
      BY <1>2, <3>4, <3>6, <3>7 DEF CacheStep
    <3> QED BY <3>6, <3>7, <3>8, <3>9 DEF Filled
  <2> QED BY <2>1, <2>2
<1>4. Deregister(u, RangeTarget) /\ hook' = Released(Waiting(u, RangeTarget), FALSE)
  BY DEF RangeFetchResolves
<1>5. HooksInv'
  BY <1>0, <1>3, <1>4, DeregisterKeepsHooks
<1> QED BY <1>2, <1>3, <1>5 DEF KeyedTyped, StoreTyped

LEMMA FetchFailsKeeps ==
    ASSUME SessionTypeOK, KeyedTyped, HooksInv, SameSession, NEW u \in Users,
           NEW t \in Targets, FetchFails(u, t)
    PROVE  StoreTyped' /\ CacheStep /\ HooksInv' /\ op' = op
<1>1. /\ UNCHANGED << row, slot, epoch, range, op, behind >>
      /\ fetch[u][t] # NoFetch /\ Deregister(u, t) /\ hook' = Released(Waiting(u, t), TRUE)
  BY DEF FetchFails
<1>2. crowd' \in CrowdType
  BY SetCrowdType, ChangeTypes DEF FetchFails, KeyedTyped, StoreTyped
<1>3. CacheStep
  BY <1>1, CacheUntouched
<1>4. HooksInv'
  BY <1>1, <1>3, DeregisterKeepsHooks
<1> QED BY <1>1, <1>2, <1>3, <1>4 DEF KeyedTyped, StoreTyped

(* Effects that run, and hooks that unmount: one hook changes.             *)
LEMMA HookReplacedKeeps ==
    ASSUME SessionTypeOK, SameSession, HooksInv, NEW h \in Hooks, NEW s \in HookStates,
           hook' = [hook EXCEPT ![h] = s], Counted', fetch' \in FetchType,
           UNCHANGED << slot, range >>,
           \A u \in Users, t \in Targets : fetch[u][t] # NoFetch => fetch'[u][t] # NoFetch,
           s.seen[1] \in 0 .. session \cup {NeverSeen, Unmounted},
           s.waits => /\ s.seen[1] \in 1 .. session
                      /\ fetch'[UserOf(s.seen[1])][TargetOf[h]] # NoFetch,
           unlocked /\ s.seen[1] = session =>
              s.error \/ s.waits \/ Filled(UserOf(session), TargetOf[h])
    PROVE  HooksInv'
<1> USE DEF HooksInv
<1>1. RegistryTyped'
  BY DEF RegistryTyped
<1>2. ASSUME NEW g \in Hooks PROVE (SeenBefore(g) /\ HookWaits(g) /\ HookShown(g))'
  <2>1. SeenBefore(g) /\ HookWaits(g) /\ HookShown(g) /\ TargetOf[g] \in Targets
    BY HookFacts
  <2>2. hook'[g] = IF g = h THEN s ELSE hook[g]
    BY DEF RegistryTyped
  <2>3. SeenBefore(g)'
    BY <2>1, <2>2 DEF SeenBefore, SameSession
  <2>4. HookWaits(g)'
    <3>1. CASE g = h
      BY <2>2, <3>1 DEF HookWaits, SameSession, UserOf
    <3>2. CASE g # h
      <4>1. ASSUME hook[g].waits PROVE UserOf(hook[g].seen[1]) \in Users
        BY <2>1, <4>1, SessionFacts DEF HookWaits
      <4> QED BY <2>1, <2>2, <3>2, <4>1 DEF HookWaits, SameSession, UserOf
    <3> QED BY <3>1, <3>2
  <2>5. HookShown(g)'
    <3>1. Filled(UserOf(session), TargetOf[g])' <=> Filled(UserOf(session), TargetOf[g])
      BY DEF Filled, SameSession, UserOf
    <3> QED BY <2>1, <2>2, <3>1 DEF HookShown, SameSession
  <2> QED BY <2>3, <2>4, <2>5
<1> QED BY <1>1, <1>2

LEMMA DepsType ==
    ASSUME SessionTypeOK, StoreTyped, NEW h \in Hooks
    PROVE  /\ Deps(h) \in (0 .. Unmounted) \X Nat
           /\ Deps(h)[1] = Handle /\ Handle \in 0 .. session
           /\ unlocked => Handle = session
<1>1. Handle \in 0 .. session /\ Handle \in 0 .. Unmounted /\ (unlocked => Handle = session)
  BY SessionFacts DEF Handle, Locked, NeverSeen, Unmounted
<1>2. epoch[UserOf(session)] \in Nat
  BY SessionFacts DEF StoreTyped
<1> QED BY <1>1, <1>2 DEF Deps

LEMMA SkipKeeps ==
    ASSUME SessionTypeOK, KeyedTyped, HooksInv, SameSession, NEW h \in Hooks, EffectSkips(h)
    PROVE  StoreTyped' /\ CacheStep /\ HooksInv' /\ op' = op
<1> DEFINE s == [seen |-> Deps(h), waits |-> FALSE, error |-> FALSE]
<1>1. /\ UNCHANGED << row, slot, epoch, range, fetch, activity, op, crowd, behind >>
      /\ hook' = [hook EXCEPT ![h] = s]
  BY DEF EffectSkips
<1>2. StoreTyped' /\ CacheStep
  BY <1>1, CacheUntouched DEF KeyedTyped, StoreTyped
<1>3. s \in HookStates /\ s.seen = Deps(h) /\ ~s.waits
  BY DepsType DEF HookStates, KeyedTyped
<1>4. s.seen[1] \in 0 .. session
  BY DepsType DEF KeyedTyped
<1>5. ASSUME unlocked PROVE Filled(UserOf(session), TargetOf[h])
  BY <1>5 DEF EffectSkips, HasCurrent, Filled
<1> HIDE DEF s
<1>6. Counted' /\ fetch' \in FetchType
  BY <1>1, CountKept DEF HooksInv, SameFetches, RegistryTyped
<1>7. HooksInv'
  BY <1>1, <1>3, <1>4, <1>5, <1>6, HookReplacedKeeps
<1> QED BY <1>1, <1>2, <1>7

LEMMA UnmountKeeps ==
    ASSUME SessionTypeOK, KeyedTyped, HooksInv, SameSession, NEW h \in Hooks, Unmount(h)
    PROVE  StoreTyped' /\ CacheStep /\ HooksInv' /\ op' = op
<1> DEFINE s == [seen |-> Gone, waits |-> FALSE, error |-> FALSE]
<1>1. /\ UNCHANGED << row, slot, epoch, range, fetch, activity, op, crowd, behind >>
      /\ hook' = [hook EXCEPT ![h] = s]
  BY DEF Unmount
<1>2. StoreTyped' /\ CacheStep
  BY <1>1, CacheUntouched DEF KeyedTyped, StoreTyped
<1>3. s \in HookStates /\ s.seen[1] = Unmounted /\ ~s.waits
  BY DEF HookStates, Gone, Unmounted
<1> HIDE DEF s
<1>4. Counted' /\ fetch' \in FetchType
  BY <1>1, CountKept DEF HooksInv, SameFetches, RegistryTyped
<1>5. Unmounted # session
  BY SessionFacts DEF Unmounted, NeverSeen
<1>6. HooksInv'
  BY <1>1, <1>3, <1>4, <1>5, HookReplacedKeeps
<1> QED BY <1>1, <1>2, <1>6

LEMMA FreshFetchType ==
    ASSUME NEW n \in Nat
    PROVE  FreshFetch(n) \in Fetches
BY DEF FreshFetch, Fetches, NoRows, Values

LEMMA EffectFetchKeeps ==
    ASSUME SessionTypeOK, KeyedTyped, HooksInv, SameSession, NEW h \in Hooks, EffectFetches(h)
    PROVE  StoreTyped' /\ CacheStep /\ HooksInv' /\ op' = op
<1> DEFINE u == UserOf(session)
           t == TargetOf[h]
           s == [seen |-> Deps(h), waits |-> TRUE, error |-> FALSE]
<1>1. /\ UNCHANGED << row, slot, epoch, range, op >> /\ unlocked /\ Deduped(u, t)
      /\ hook' = [hook EXCEPT ![h] = s]
  BY DEF EffectFetches
<1>2. u \in Users /\ t \in Targets /\ session \in Nat
  BY SessionFacts, HookFacts DEF HooksInv
<1>3. crowd' \in CrowdType
  <2>1. t # RangeTarget => t \in Keys
    BY <1>2 DEF Targets
  <2> QED BY <1>2, <2>1, CrowdOfType DEF EffectFetches, KeyedTyped, StoreTyped
<1>4. behind' \in SUBSET Users
  BY <1>2 DEF EffectFetches, KeyedTyped, StoreTyped
<1>5. StoreTyped' /\ CacheStep
  BY <1>1, <1>3, <1>4, CacheUntouched DEF KeyedTyped, StoreTyped
<1>6. s \in HookStates /\ s.seen = Deps(h) /\ s.waits
  BY DepsType DEF HookStates, KeyedTyped
<1>7. s.seen[1] = session /\ s.seen[1] \in 1 .. session
  BY <1>1, DepsType, SessionFacts DEF KeyedTyped
<1> HIDE DEF s
<1>8. /\ fetch' \in FetchType /\ Counted' /\ fetch'[u][t] # NoFetch
      /\ \A v \in Users, r \in Targets : fetch[v][r] # NoFetch => fetch'[v][r] # NoFetch
  <2>1. CASE fetch[u][t] # NoFetch
    <3>1. UNCHANGED << fetch, activity >>
      BY <1>1, <2>1 DEF Deduped
    <3> QED BY <2>1, <3>1, CountKept DEF HooksInv, SameFetches, RegistryTyped
  <2>2. CASE fetch[u][t] = NoFetch
    <3> DEFINE f == FreshFetch(session)
    <3>1. fetch' = [fetch EXCEPT ![u][t] = f] /\ activity' = activity + 1
      BY <1>1, <2>2 DEF Deduped
    <3>2. f \in Fetches /\ f # NoFetch
      BY <1>2, FreshFetchType, KeyedNullAssumption
    <3> HIDE DEF f, u, t
    <3>3. Counted'
      BY <1>2, <2>2, <3>1, <3>2, CountAdded DEF HooksInv
    <3> QED BY <1>2, <3>1, <3>2, <3>3 DEF HooksInv, RegistryTyped, FetchType
  <2> QED BY <2>1, <2>2
<1>9. HooksInv'
  <2>1. fetch'[UserOf(s.seen[1])][TargetOf[h]] # NoFetch
    BY <1>7, <1>8
  <2>2. /\ s.seen[1] \in 0 .. session \cup {NeverSeen, Unmounted}
        /\ unlocked /\ s.seen[1] = session =>
              s.error \/ s.waits \/ Filled(UserOf(session), TargetOf[h])
        /\ UNCHANGED << slot, range >>
    BY <1>1, <1>2, <1>6, <1>7
  <2>3. hook' = [hook EXCEPT ![h] = s]
    BY <1>1
  <2> HIDE DEF u, t
  <2> QED BY <1>6, <1>7, <1>8, <2>1, <2>2, <2>3, HookReplacedKeeps
<1> QED BY <1>1, <1>5, <1>9

LEMMA FetchReadsKeeps ==
    ASSUME SessionTypeOK, KeyedTyped, HooksInv, SameSession, NEW u \in Users,
           NEW t \in Targets, FetchReads(u, t)
    PROVE  StoreTyped' /\ CacheStep /\ HooksInv' /\ op' = op
<1> DEFINE g == [fetch[u][t] EXCEPT !.read = TRUE, !.rows = ListByKeyRange(u)]
<1>1. /\ UNCHANGED << row, slot, epoch, range, activity, hook, op, crowd, behind >>
      /\ fetch[u][t] # NoFetch
  BY DEF FetchReads
<1>2. StoreTyped' /\ CacheStep
  BY <1>1, CacheUntouched DEF KeyedTyped, StoreTyped
<1>3. fetch[u][t] \in Fetches
  BY <1>1 DEF KeyedTyped, RegistryTyped, FetchType
<1>4. ListByKeyRange(u) \in [Keys -> Values]
  BY DEF KeyedTyped, StoreTyped, ListByKeyRange
<1>5. g \in Fetches /\ g # NoFetch
  BY <1>3, <1>4, KeyedNullAssumption DEF Fetches
<1>6. fetch' = [fetch EXCEPT ![u] = [fetch[u] EXCEPT ![t] = g]]
  BY DEF FetchReads, KeyedTyped, RegistryTyped, FetchType
<1> HIDE DEF g
<1>7. SameFetches
  BY <1>1, <1>5, <1>6 DEF KeyedTyped, RegistryTyped, FetchType, SameFetches
<1>8. HooksInv'
  BY <1>1, <1>2, <1>7, CallsKeepHooks
<1> QED BY <1>1, <1>2, <1>8

-----------------------------------------------------------------------------
(* The keyed store as a whole.                                             *)

KeyedInv == KeyedTyped /\ HooksInv /\ FilledBy

LEMMA CallStep ==
    ASSUME SessionTypeOK, KeyedInv, SameSession, CallKeeps, SameFetches,
           hook' = hook, activity' = activity
    PROVE  KeyedInv'
<1>1. HooksInv'
  BY CallsKeepHooks DEF KeyedInv, CallKeeps
<1>2. FilledBy'
  BY FilledByKept DEF KeyedInv, CallKeeps
<1> QED BY <1>1, <1>2 DEF KeyedInv, KeyedTyped, CallKeeps, HooksInv

LEMMA HookStep ==
    ASSUME SessionTypeOK, KeyedInv, SameSession, StoreTyped', CacheStep, HooksInv', op' = op
    PROVE  KeyedInv'
<1>1. FilledBy'
  BY FilledByKept DEF KeyedInv
<1>2. \A i \in Ops : SoundOp(i, op[i])' <=> SoundOp(i, op[i])
  BY DEF SoundOp, SameSession, CallOf
<1>3. OpsTyped'
  BY <1>2 DEF KeyedInv, KeyedTyped, OpsTyped, SameSession, Ops
<1> QED BY <1>1, <1>3 DEF KeyedInv, KeyedTyped, HooksInv

(* Every step of the hooks, the calls and other devices, whatever it takes *)
(* from what is left of the behaviour.                                     *)
HookSteps ==
    \/ \E h \in Hooks : EffectSkips(h) \/ EffectFetches(h) \/ Unmount(h)
    \/ \E u \in Users :
          \/ \E t \in Targets : FetchReads(u, t) \/ FetchFails(u, t)
          \/ \E k \in Keys : KeyFetchResolves(u, k)
          \/ RangeFetchResolves(u)
CallSteps(i) ==
    \/ Save(i) \/ Write(i) \/ Mutate(i) \/ Reload(i) \/ RangeReload(i)
    \/ GetHash(i) \/ ReadsRows(i) \/ ReloadResolves(i) \/ RangeReloadResolves(i)
    \/ MutateComputes(i) \/ Lands(i) \/ Refused(i)
    \/ SaveResolves(i) \/ WriteResolves(i) \/ ConflictResolves(i) \/ Fails(i)

LEMMA HookStepsKeep ==
    ASSUME SessionTypeOK, KeyedInv, SameSession, HookSteps
    PROVE  KeyedInv'
<1> USE DEF KeyedInv
<1>1. StoreTyped' /\ CacheStep /\ HooksInv' /\ op' = op
  <2>1. ASSUME NEW h \in Hooks, EffectSkips(h)
        PROVE  StoreTyped' /\ CacheStep /\ HooksInv' /\ op' = op
    BY <2>1, SkipKeeps
  <2>2. ASSUME NEW h \in Hooks, EffectFetches(h)
        PROVE  StoreTyped' /\ CacheStep /\ HooksInv' /\ op' = op
    BY <2>2, EffectFetchKeeps
  <2>3. ASSUME NEW h \in Hooks, Unmount(h) PROVE StoreTyped' /\ CacheStep /\ HooksInv' /\ op' = op
    BY <2>3, UnmountKeeps
  <2>4. ASSUME NEW u \in Users, NEW t \in Targets, FetchReads(u, t)
        PROVE  StoreTyped' /\ CacheStep /\ HooksInv' /\ op' = op
    BY <2>4, FetchReadsKeeps
  <2>5. ASSUME NEW u \in Users, NEW t \in Targets, FetchFails(u, t)
        PROVE  StoreTyped' /\ CacheStep /\ HooksInv' /\ op' = op
    BY <2>5, FetchFailsKeeps
  <2>6. ASSUME NEW u \in Users, NEW k \in Keys, KeyFetchResolves(u, k)
        PROVE  StoreTyped' /\ CacheStep /\ HooksInv' /\ op' = op
    BY <2>6, KeyFetchKeeps
  <2>7. ASSUME NEW u \in Users, RangeFetchResolves(u)
        PROVE  StoreTyped' /\ CacheStep /\ HooksInv' /\ op' = op
    BY <2>7, RangeFetchKeeps
  <2> QED BY <2>1, <2>2, <2>3, <2>4, <2>5, <2>6, <2>7 DEF HookSteps
<1> QED BY <1>1, HookStep

LEMMA CallStepsKeep ==
    ASSUME SessionTypeOK, KeyedInv, SameSession, NEW i \in Ops, CallSteps(i)
    PROVE  KeyedInv'
<1>0. KeyedTyped /\ fetch \in FetchType
  BY DEF KeyedInv, KeyedTyped, RegistryTyped
<1>1. hook' = hook /\ activity' = activity /\ (Lands(i) \/ fetch' = fetch)
  BY DEF CallSteps, Save, Write, Mutate, Reload, RangeReload, GetHash, ReadsRows,
         ReloadResolves, RangeReloadResolves, MutateComputes, Lands, Refused, SaveResolves,
         WriteResolves, ConflictResolves, Fails
<1>2. CallKeeps
  BY <1>0, SaveKeeps, WriteAndRangeReloadKeep, MutateAndReloadKeep, ReadStepsKeep, ReloadsKeep,
     MutateComputesKeeps, LandsKeeps, RefusedKeeps, SaveResolvesKeeps, WriteResolvesKeeps,
     ConflictResolvesKeeps, FailsKeeps DEF CallSteps
<1>3. SameFetches
  BY <1>0, <1>1, LandsKeeps DEF SameFetches
<1> QED BY <1>1, <1>2, <1>3, CallStep

LEMMA ForeignWriteStep ==
    ASSUME SessionTypeOK, KeyedInv, SameSession, NEW u \in Users, NEW k \in Keys,
           ForeignWrite(u, k)
    PROVE  KeyedInv'
<1>1. CallKeeps /\ SameFetches
  BY ForeignWriteKeeps DEF KeyedInv
<1>2. hook' = hook /\ activity' = activity
  BY DEF ForeignWrite
<1> QED BY <1>1, <1>2, CallStep

LEMMA KeyedUnchanged ==
    ASSUME SessionTypeOK, KeyedInv, SameSession, UNCHANGED keyedVars
    PROVE  KeyedInv'
<1>1. CacheStep /\ SameFetches /\ hook' = hook /\ activity' = activity
  BY CacheUntouched DEF keyedVars, SameFetches, KeyedInv, KeyedTyped, RegistryTyped
<1>2. HooksInv'
  BY <1>1, CallsKeepHooks DEF KeyedInv
<1> QED BY <1>1, <1>2, HookStep DEF keyedVars, KeyedInv, KeyedTyped, StoreTyped

LEMMA KeyedLocks ==
    ASSUME SessionTypeOK, KeyedInv, Lock, WipeKeyed
    PROVE  KeyedInv'
<1> USE DEF KeyedInv, KeyedTyped
<1>1. UNCHANGED << row, fetch, activity, hook, op, plan, session >> /\ unlocked' = FALSE
  BY DEF Lock, WipeKeyed
<1>2. /\ \A u \in Users, k \in Keys : slot'[u][k] = NoSlot
      /\ \A u \in Users : range'[u] = NoSlot
      /\ slot' \in SlotType /\ range' \in RangeType
      /\ epoch' \in [Users -> Nat] /\ behind' \in SUBSET Users
  BY DEF WipeKeyed, SlotType, RangeType, StoreTyped
<1>3. crowd' \in CrowdType
  BY DEF WipeKeyed, CrowdType, Crowds, StoreTyped
<1>4. StoreTyped' /\ RegistryTyped'
  BY <1>1, <1>2, <1>3 DEF StoreTyped, RegistryTyped
<1>5. \A i \in Ops : SoundOp(i, op[i])' <=> SoundOp(i, op[i])
  BY <1>1 DEF SoundOp, CallOf
<1>6. OpsTyped'
  BY <1>1, <1>5 DEF OpsTyped, Ops
<1>7. Counted'
  BY <1>1 DEF HooksInv, Counted, Active
<1>8. \A h \in Hooks : (SeenBefore(h) /\ HookWaits(h) /\ HookShown(h))'
  BY <1>1 DEF HooksInv, SeenBefore, HookWaits, HookShown, UserOf
<1>9. FilledBy'
  BY <1>2 DEF FilledBy
<1> QED BY <1>4, <1>6, <1>7, <1>8, <1>9 DEF HooksInv

LEMMA KeyedUnlocks ==
    ASSUME SessionTypeOK, KeyedInv, Unlock, UNCHANGED keyedVars
    PROVE  KeyedInv'
<1> USE DEF KeyedInv, KeyedTyped
<1>1. /\ UNCHANGED << row, slot, epoch, range, fetch, activity, hook, op, crowd, behind, plan >>
      /\ ~unlocked /\ session' = session + 1 /\ session < Len(plan.users)
  BY DEF Unlock, keyedVars
<1>2. session \in Nat /\ session >= 1 /\ session + 1 < NeverSeen
  <2>1. plan.users \in Seq(Users) /\ Len(plan.users) < NeverSeen
    BY PlanAssumption DEF SessionTypeOK
  <2> QED BY <1>1, <2>1, SessionFacts DEF NeverSeen
<1>3. StoreTyped' /\ RegistryTyped' /\ Counted'
  BY <1>1 DEF StoreTyped, RegistryTyped, HooksInv, Counted, Active
<1>4. ASSUME NEW i \in Ops PROVE SoundOp(i, op[i])'
  <2>1. SoundOp(i, op[i])
    BY DEF OpsTyped
  <2>2. op[i].session \in 1 .. session + 1
    BY <1>2, <2>1 DEF SoundOp
  <2> QED BY <1>1, <2>1, <2>2 DEF SoundOp, CallOf
<1>5. OpsTyped'
  BY <1>1, <1>4 DEF OpsTyped, Ops
<1>6. ASSUME NEW h \in Hooks PROVE (SeenBefore(h) /\ HookWaits(h) /\ HookShown(h))'
  <2>1. SeenBefore(h) /\ HookWaits(h)
    BY DEF HooksInv
  <2>2. /\ hook[h].seen[1] \in 0 .. session + 1 \cup {NeverSeen, Unmounted}
        /\ hook[h].seen[1] # session + 1
    BY <1>2, <2>1 DEF SeenBefore, NeverSeen, Unmounted
  <2>3. hook[h].waits => hook[h].seen[1] \in 1 .. session + 1
    BY <1>2, <2>1 DEF HookWaits
  <2> QED BY <1>1, <2>1, <2>2, <2>3 DEF SeenBefore, HookWaits, HookShown, UserOf
<1>7. FilledBy'
  BY <1>1 DEF FilledBy, SignedIn
<1> QED BY <1>3, <1>5, <1>6, <1>7 DEF HooksInv

LEMMA KeyedStarts ==
    ASSUME SessionInit, SessionTypeOK, KeyedInit
    PROVE  KeyedInv
<1>1. plan.stored \subseteq Keys /\ session = 1
  BY KeyedAssumption DEF SessionInit
<1>2. StoreTyped
  BY DEF KeyedInit, StoreTyped, SlotType, RangeType, CrowdType, Crowds, Values
<1>3. NotYet \in (0 .. Unmounted) \X Nat /\ Gone \in (0 .. Unmounted) \X Nat
  BY DEF NotYet, Gone, NeverSeen, Unmounted
<1>4. RegistryTyped
  BY <1>3 DEF KeyedInit, RegistryTyped, FetchType, HookStates
<1>5. IdleOp.stage = "idle" /\ IdleOp.session = 1
  BY DEF IdleOp
<1>6. OpsTyped
  BY <1>1, <1>5, IdleOpType DEF KeyedInit, OpsTyped, SoundOp
<1>7. Active = {}
  BY DEF KeyedInit, Active
<1>8. Counted
  BY <1>7, FS_EmptySet DEF Counted, KeyedInit
<1>9. ASSUME NEW h \in Hooks PROVE SeenBefore(h) /\ HookWaits(h) /\ HookShown(h)
  <2>1. hook[h].seen[1] \in {NeverSeen, Unmounted} /\ ~hook[h].waits
    BY DEF KeyedInit, NotYet, Gone
  <2>2. session # NeverSeen /\ session # Unmounted
    BY <1>1 DEF NeverSeen, Unmounted
  <2> QED BY <2>1, <2>2 DEF SeenBefore, HookWaits, HookShown
<1>10. FilledBy
  BY DEF KeyedInit, FilledBy
<1> QED BY <1>2, <1>4, <1>6, <1>8, <1>9, <1>10 DEF KeyedInv, KeyedTyped, HooksInv

-----------------------------------------------------------------------------
(* The collection: its types, the mounted hook and its calls.              *)

ListsType == [Users -> Lists \cup {NoList}]

CollectionTyped ==
    /\ record \in [Users -> [Ids -> ItemValues]]
    /\ items \in ListsType
    /\ view \in Views
    /\ edit \in [Edits -> EditStates]
    /\ disorder \in SUBSET Users /\ strayed \in SUBSET Users

EditsSound == \A i \in Edits : edit[i].session \in 1 .. session
ViewSound ==
    /\ view.seen \in 0 .. session \cup {NeverSeen, Unmounted}
    /\ view.listing # "no" => view.seen \in 1 .. session
    /\ unlocked /\ view.seen = session =>
          view.error \/ view.listing # "no" \/ items[UserOf(session)] # NoList
ListedBy ==
    \A u \in Users : ~SignedIn(u) /\ items[u] # NoList => items[u].by # "effect"

CollectionInv == CollectionTyped /\ EditsSound /\ ViewSound /\ ListedBy

(* What every step but a lock does to the lists.                           *)
ItemsStep ==
    /\ items' \in ListsType
    /\ \A u \in Users : items'[u] = NoList => items[u] = NoList
    /\ \A u \in Users : ~SignedIn(u) => items'[u] = items[u] \/ items'[u].by # "effect"

LEMMA EditFacts ==
    ASSUME SessionTypeOK, NEW i \in Edits
    PROVE  /\ IdOf(i) \in Ids /\ EditOf(i) \in EditCalls /\ i \in ItemValues /\ i \in 1 .. 9
           /\ Passed(i) \in PassedValues
<1>1. plan \in Plans /\ plan.calls \in Seq([call : EditCalls, id : Ids]) /\ Len(plan.calls) < 10
  BY CollectionAssumption DEF SessionTypeOK
<1> DEFINE Call == [call : EditCalls, id : Ids]
           s == plan.calls
<1>2. s \in Seq(Call) /\ i \in 1 .. Len(s)
  BY <1>1 DEF Edits
<1>3. i \in 1 .. 9
  BY <1>1, <1>2
<1> HIDE DEF Call, s
<1>4. s[i] \in Call
  BY <1>2
<1> QED BY <1>3, <1>4, PassedFacts DEF Call, s, IdOf, EditOf, ItemValues

LEMMA EditUserType ==
    ASSUME SessionTypeOK, EditsSound, NEW i \in Edits
    PROVE  EditUser(i) \in Users
BY SessionFacts DEF EditsSound, EditUser

LEMMA ItemsIntro ==
    ASSUME NEW list, NEW S \in SUBSET Ids, list \in [S -> ItemEntries]
    PROVE  list \in Items
BY DEF Items, ItemEntries

LEMMA ItemsElim ==
    ASSUME NEW list \in Items
    PROVE  DOMAIN list \in SUBSET Ids /\ list \in [DOMAIN list -> ItemEntries]
BY DEF Items, ItemEntries

LEMMA EmptyListType == EmptyList \in Items
<1>1. EmptyList \in [{} -> ItemEntries]
  BY DEF EmptyList
<1> QED BY <1>1, ItemsIntro

LEMMA ItemHashType ==
    ASSUME NEW v \in ItemValues
    PROVE  ItemHash(v) \in ItemValues \cup {None}
BY DEF ItemHash

LEMMA ListAllType ==
    ASSUME CollectionTyped, NEW u \in Users
    PROVE  ListAll(u) \in Items
<1> DEFINE S == {y \in Ids : record[u][y] # NoRow}
<1>1. ASSUME NEW x \in S
      PROVE  [data |-> record[u][x], hash |-> ItemHash(record[u][x])] \in ItemEntries
  <2>1. record[u][x] \in ItemValues
    BY DEF CollectionTyped
  <2> QED BY <2>1, ItemHashType DEF ItemEntries
<1>2. ListAll(u) \in [S -> ItemEntries]
  BY <1>1 DEF ListAll
<1>3. S \in SUBSET Ids
  OBVIOUS
<1> QED BY <1>2, <1>3, ItemsIntro

LEMMA FoundType ==
    ASSUME CollectionTyped, NEW u \in Users
    PROVE  Found(u) \in Items
BY EmptyListType DEF CollectionTyped, ListsType, Lists, Found

LEMMA HashInType ==
    ASSUME NEW list \in Items, NEW x
    PROVE  HashIn(list, x) \in ItemValues \cup {None}
BY ItemsElim DEF HashIn, ItemEntries

LEMMA EditedType ==
    ASSUME NEW list \in Items, NEW x, NEW v \in ItemValues \cup PassedValues, NEW h \in ItemValues \cup {None}
    PROVE  Edited(list, x, v, h) \in Items
<1> DEFINE S == DOMAIN list
<1>1. S \in SUBSET Ids /\ list \in [S -> ItemEntries]
  BY ItemsElim
<1>2. Edited(list, x, v, h) \in [S -> ItemEntries]
  BY <1>1 DEF Edited, ItemEntries
<1> QED BY <1>1, <1>2, ItemsIntro

LEMMA OptimisticType ==
    ASSUME SessionTypeOK, NEW i \in Edits, NEW list \in Items,
           NEW h \in ItemValues \cup {None}, EditOf(i) # "create"
    PROVE  Optimistic(i, list, h) \in Items
<1>1. EditOf(i) \in {"update", "remove"} /\ Passed(i) \in PassedValues
  BY EditFacts DEF EditCalls
<1>2. CASE EditOf(i) = "update"
  BY <1>1, <1>2, EditedType DEF Optimistic
<1>3. CASE EditOf(i) = "remove"
  <2> DEFINE S == DOMAIN list \ {IdOf(i)}
  <2>1. DOMAIN list \in SUBSET Ids /\ list \in [DOMAIN list -> ItemEntries]
    BY ItemsElim
  <2>2. Optimistic(i, list, h) = [x \in S |-> list[x]]
    BY <1>3 DEF Optimistic, Restrict
  <2>3. Optimistic(i, list, h) \in [S -> ItemEntries] /\ S \in SUBSET Ids
    BY <2>1, <2>2
  <2> QED BY <2>3, ItemsIntro
<1> QED BY <1>1, <1>2, <1>3

LEMMA OutcomeType ==
    ASSUME SessionTypeOK, CollectionTyped, NEW i \in Edits
    PROVE  Outcome(i) \in Items
<1> DEFINE previous == edit[i].previous
           x == IdOf(i)
           S == DOMAIN previous \cup {x}
<1>1. previous \in Items /\ x \in Ids /\ i \in ItemValues /\ Passed(i) \in PassedValues
  BY EditFacts DEF CollectionTyped, EditStates
<1>2. CASE EditOf(i) = "create"
  <2>1. DOMAIN previous \in SUBSET Ids /\ previous \in [DOMAIN previous -> ItemEntries]
    BY <1>1, ItemsElim
  <2>2. Outcome(i) = [y \in S |-> IF y = x THEN [data |-> Passed(i), hash |-> None]
                                   ELSE previous[y]]
    BY <1>2 DEF Outcome
  <2>3. [data |-> Passed(i), hash |-> None] \in ItemEntries
    BY <1>1 DEF ItemEntries
  <2>4. Outcome(i) \in [S -> ItemEntries] /\ S \in SUBSET Ids
    BY <1>1, <2>1, <2>2, <2>3
  <2> QED BY <2>4, ItemsIntro
<1>3. CASE EditOf(i) # "create"
  <2> DEFINE h == IF plan.kind = "locked" THEN i ELSE None
  <2>1. h \in ItemValues \cup {None}
    BY <1>1
  <2>2. Outcome(i) = Edited(previous, x, Passed(i), h)
    BY <1>3 DEF Outcome
  <2> HIDE DEF h, previous, x
  <2> QED BY <1>1, <2>1, <2>2, EditedType
<1> QED BY <1>2, <1>3

(* A list is shown: no effect did that.                                    *)
LEMMA ShownKeeps ==
    ASSUME CollectionTyped, NEW u \in Users, NEW list \in Items,
           NEW who \in {"effect", "gap", "call"},
           items' = [items EXCEPT ![u] = [all |-> list, by |-> who]],
           who = "effect" => SignedIn(u)
    PROVE  ItemsStep
<1> DEFINE e == [all |-> list, by |-> who]
<1>1. e \in Lists /\ e # NoList /\ e.by = who
  BY NoListAssumption DEF Lists
<1>2. items' = [items EXCEPT ![u] = e]
  OBVIOUS
<1> HIDE DEF e
<1>3. \A v \in Users : items'[v] = IF v = u THEN e ELSE items[v]
  BY <1>2 DEF CollectionTyped, ListsType
<1>4. items' \in ListsType
  BY <1>1, <1>2 DEF CollectionTyped, ListsType
<1> QED BY <1>1, <1>3, <1>4 DEF ItemsStep

LEMMA ItemsUntouched == ASSUME CollectionTyped, items' = items PROVE ItemsStep
BY DEF CollectionTyped, ItemsStep

LEMMA ListedByKept ==
    ASSUME SameSession, ItemsStep, ListedBy
    PROVE  ListedBy'
<1>1. \A u \in Users : SignedIn(u)' <=> SignedIn(u)
  BY DEF SameSession, SignedIn, UserOf
<1> QED BY <1>1 DEF ItemsStep, ListedBy

LEMMA ViewKept ==
    ASSUME SessionTypeOK, SameSession, ItemsStep, ViewSound, view' = view
    PROVE  ViewSound'
<1>1. UserOf(session) \in Users /\ UserOf(session)' = UserOf(session)
  BY SessionFacts DEF SameSession, UserOf
<1>2. items'[UserOf(session)] = NoList => items[UserOf(session)] = NoList
  BY <1>1 DEF ItemsStep
<1> QED BY <1>1, <1>2 DEF ViewSound, SameSession

LEMMA EditReplaced ==
    ASSUME SameSession, NEW i \in Edits, NEW e \in EditStates, CollectionTyped, EditsSound,
           e.session \in 1 .. session, edit' = [edit EXCEPT ![i] = e]
    PROVE  edit' \in [Edits -> EditStates]' /\ EditsSound'
<1>1. Edits' = Edits
  BY DEF SameSession, Edits
<1> QED BY <1>1 DEF CollectionTyped, EditsSound, SameSession, EditStates

(* What a step of the collection keeps.                                    *)
LEMMA EditStep ==
    ASSUME SessionTypeOK, SameSession, CollectionInv, ItemsStep, view' = view,
           record' \in [Users -> [Ids -> ItemValues]], NEW i \in Edits, NEW e \in EditStates,
           e.session \in 1 .. session, edit' = [edit EXCEPT ![i] = e],
           disorder' \in SUBSET Users, strayed' \in SUBSET Users
    PROVE  CollectionInv'
<1>1. edit' \in [Edits -> EditStates]' /\ EditsSound'
  BY EditReplaced DEF CollectionInv
<1>2. ViewSound' /\ ListedBy'
  BY ViewKept, ListedByKept DEF CollectionInv
<1>3. items' \in ListsType
  BY DEF ItemsStep
<1> QED BY <1>1, <1>2, <1>3 DEF CollectionInv, CollectionTyped

LEMMA ViewStep ==
    ASSUME SessionTypeOK, SameSession, CollectionInv, ItemsStep, edit' = edit,
           record' \in [Users -> [Ids -> ItemValues]], view' \in Views, ViewSound',
           disorder' \in SUBSET Users, strayed' \in SUBSET Users
    PROVE  CollectionInv'
<1>1. Edits' = Edits
  BY DEF SameSession, Edits
<1>2. ListedBy' /\ items' \in ListsType
  BY ListedByKept DEF CollectionInv, ItemsStep
<1> QED BY <1>1, <1>2 DEF CollectionInv, CollectionTyped, EditsSound, SameSession

LEMMA DoneEdit ==
    ASSUME SessionTypeOK
    PROVE  /\ [IdleEdit EXCEPT !.stage = "done"] \in EditStates
           /\ [IdleEdit EXCEPT !.stage = "done"].session \in 1 .. session
           /\ IdleEdit \in EditStates
BY EmptyListType, SessionFacts DEF IdleEdit, EditStates

LEMMA ListStepsKeep ==
    ASSUME SessionTypeOK, SameSession, CollectionInv,
           ListSkipped \/ ListStarts \/ ListReads \/ ListResolves \/ ListFails \/ ViewUnmounts
    PROVE  CollectionInv'
<1> USE DEF CollectionInv
<1>0. /\ session \in Nat /\ session >= 1 /\ session < NeverSeen /\ EmptyList \in Items
      /\ UserOf(session) \in Users /\ \A n \in 1 .. session : UserOf(n) \in Users
      /\ UserOf(session)' = UserOf(session)
  BY SessionFacts, EmptyListType DEF SameSession, UserOf
<1>1. view \in Views
  BY DEF CollectionTyped
<1>2. CASE ListSkipped
  <2>1. /\ view' = [view EXCEPT !.seen = Handle, !.listing = "no", !.rows = EmptyList,
                                !.error = FALSE]
        /\ UNCHANGED << record, items, edit, disorder, strayed >>
        /\ ~unlocked \/ items[UserOf(session)] # NoList
    BY <1>2 DEF ListSkipped
  <2>2. Handle \in 0 .. session /\ Handle \in Nat
    BY <1>0 DEF Handle, Locked
  <2>3. view' \in Views /\ view'.seen = Handle /\ view'.listing = "no"
    BY <1>0, <1>1, <2>1, <2>2 DEF Views
  <2>4. ViewSound'
    BY <1>0, <2>1, <2>2, <2>3 DEF ViewSound, SameSession
  <2> QED BY <2>1, <2>3, <2>4, ItemsUntouched, ViewStep DEF CollectionTyped
<1>3. CASE ListStarts
  <2>1. /\ view' = [seen |-> Handle, listing |-> "sent", rows |-> EmptyList, error |-> FALSE]
        /\ UNCHANGED << record, items, edit, strayed >> /\ unlocked
    BY <1>3 DEF ListStarts
  <2>2. Handle = session
    BY <2>1 DEF Handle
  <2>3. view' \in Views /\ view'.seen = session /\ view'.listing = "sent"
    BY <1>0, <2>1, <2>2 DEF Views
  <2>4. ViewSound'
    BY <1>0, <2>3 DEF ViewSound, SameSession
  <2>5. disorder' \in SUBSET Users
    BY <1>0, <1>3 DEF ListStarts, CollectionTyped
  <2> QED BY <2>1, <2>3, <2>4, <2>5, ItemsUntouched, ViewStep DEF CollectionTyped
<1>4. CASE ListReads
  <2>1. /\ view' = [view EXCEPT !.listing = "read", !.rows = ListAll(UserOf(view.seen))]
        /\ UNCHANGED << record, items, edit, disorder, strayed >> /\ view.listing = "sent"
    BY <1>4 DEF ListReads
  <2>2. UserOf(view.seen) \in Users
    BY <1>0, <2>1 DEF ViewSound
  <2>3. ListAll(UserOf(view.seen)) \in Items
    BY <2>2, ListAllType
  <2>4. /\ view' \in Views /\ view'.seen = view.seen /\ view'.listing = "read"
    BY <1>1, <2>1, <2>3 DEF Views
  <2>5. ViewSound'
    BY <2>1, <2>4 DEF ViewSound, SameSession
  <2> QED BY <2>1, <2>4, <2>5, ItemsUntouched, ViewStep DEF CollectionTyped
<1>5. CASE ListResolves
  <2> DEFINE who == IF view.seen = Handle THEN "effect" ELSE "gap"
             u == UserOf(view.seen)
  <2>1. /\ view' = [view EXCEPT !.listing = "no", !.rows = EmptyList]
        /\ UNCHANGED << record, edit, disorder, strayed >> /\ view.listing = "read"
        /\ items' = [items EXCEPT ![u] = [all |-> view.rows, by |-> who]]
    BY <1>5 DEF ListResolves
  <2>2. u \in Users /\ view.seen \in 1 .. session /\ view.rows \in Items
    BY <1>0, <1>1, <2>1 DEF ViewSound, Views
  <2>3. who \in {"effect", "gap", "call"} /\ (who = "effect" => SignedIn(u))
    BY <1>0, <2>2 DEF Handle, Locked, SignedIn
  <2>4. ItemsStep
    <3> HIDE DEF who, u
    <3> QED BY <2>1, <2>2, <2>3, ShownKeeps
  <2>5. view' \in Views /\ view'.seen = view.seen /\ view'.listing = "no"
    BY <1>0, <1>1, <2>1 DEF Views
  <2>6. view.seen = session => items'[UserOf(session)] # NoList
    <3>1. [all |-> view.rows, by |-> who] # NoList
      BY <2>2, <2>3, NoListAssumption DEF Lists
    <3> QED BY <2>1, <2>2, <3>1 DEF CollectionTyped, ListsType
  <2>7. ViewSound'
    BY <1>0, <2>2, <2>5, <2>6 DEF ViewSound, SameSession
  <2> QED BY <2>1, <2>4, <2>5, <2>7, ViewStep DEF CollectionTyped
<1>6. CASE ListFails
  <2>1. /\ view' = [view EXCEPT !.listing = "no", !.rows = EmptyList, !.error = TRUE]
        /\ UNCHANGED << record, items, edit, disorder, strayed >>
    BY <1>6 DEF ListFails
  <2>2. view' \in Views /\ view'.seen = view.seen /\ view'.listing = "no" /\ view'.error
    BY <1>0, <1>1, <2>1 DEF Views
  <2>3. ViewSound'
    BY <2>2 DEF ViewSound, SameSession
  <2> QED BY <2>1, <2>2, <2>3, ItemsUntouched, ViewStep DEF CollectionTyped
<1>7. CASE ViewUnmounts
  <2>1. /\ view' = [seen |-> Unmounted, listing |-> "no", rows |-> EmptyList, error |-> FALSE]
        /\ UNCHANGED << record, items, edit, disorder, strayed >>
    BY <1>7 DEF ViewUnmounts
  <2>2. view' \in Views /\ view'.seen = Unmounted /\ view'.listing = "no"
    BY <1>0, <2>1 DEF Views, Unmounted
  <2>3. ViewSound'
    BY <1>0, <2>2 DEF ViewSound, SameSession, Unmounted, NeverSeen
  <2> QED BY <2>1, <2>2, <2>3, ItemsUntouched, ViewStep DEF CollectionTyped
<1> QED BY <1>2, <1>3, <1>4, <1>5, <1>6, <1>7

EditSteps(i) ==
    EditBegins(i) \/ EditLands(i) \/ EditRefused(i) \/ EditResolves(i) \/ EditConflicts(i)
    \/ EditFails(i)

LEMMA EditStepsKeep ==
    ASSUME SessionTypeOK, SameSession, CollectionInv, NEW i \in Edits, EditSteps(i)
    PROVE  CollectionInv'
<1> USE DEF CollectionInv
<1> DEFINE done == [IdleEdit EXCEPT !.stage = "done"]
<1>0. /\ edit[i] \in EditStates /\ edit[i].session \in 1 .. session
      /\ EditUser(i) \in Users /\ i \in ItemValues /\ edit[i].previous \in Items
      /\ IdOf(i) \in Ids /\ EditOf(i) \in EditCalls
  BY EditFacts, EditUserType DEF CollectionTyped, EditsSound, EditStates
<1>1. done \in EditStates /\ done.session \in 1 .. session
  BY DoneEdit
<1> HIDE DEF done
<1>2. CASE EditBegins(i)
  <2> DEFINE n == view.seen
             u == UserOf(n)
             previous == Found(u)
             hash == HashIn(previous, IdOf(i))
             e == [stage |-> "sent", session |-> n, previous |-> previous, expected |-> hash]
  <2>1. /\ n \in 1 .. session /\ edit' = [edit EXCEPT ![i] = e]
        /\ items' = IF EditOf(i) = "create" THEN items
                    ELSE Shown(u, Optimistic(i, previous, hash))
        /\ UNCHANGED << record, view, strayed >>
        /\ disorder' \in {disorder, disorder \cup {u}}
    BY <1>2 DEF EditBegins
  <2>2. u \in Users /\ n \in Nat
    BY <2>1, SessionFacts
  <2>3. previous \in Items
    BY <2>2, FoundType
  <2> HIDE DEF previous
  <2>4. hash \in ItemValues \cup {None}
    BY <2>3, HashInType
  <2> HIDE DEF hash
  <2>5. e \in EditStates /\ e.session = n
    BY <2>2, <2>3, <2>4 DEF EditStates
  <2> HIDE DEF e
  <2>6. ItemsStep
    <3>1. CASE EditOf(i) = "create"
      BY <2>1, <3>1, ItemsUntouched
    <3>2. CASE EditOf(i) # "create"
      <4>1. Optimistic(i, previous, hash) \in Items
        BY <2>3, <2>4, <3>2, OptimisticType
      <4>2. items' = [items EXCEPT ![u] = [all |-> Optimistic(i, previous, hash), by |-> "call"]]
        BY <2>1, <3>2 DEF Shown
      <4> HIDE DEF u, n
      <4> QED BY <2>2, <4>1, <4>2, ShownKeeps
    <3> QED BY <3>1, <3>2
  <2>7. record' \in [Users -> [Ids -> ItemValues]] /\ disorder' \in SUBSET Users
        /\ strayed' \in SUBSET Users
    BY <2>1, <2>2 DEF CollectionTyped
  <2> QED BY <2>1, <2>5, <2>6, <2>7, EditStep
<1>3. CASE EditLands(i)
  <2> DEFINE e == [edit[i] EXCEPT !.stage = "landed"]
  <2>1. e \in EditStates /\ e.session = edit[i].session
    BY <1>0 DEF EditStates
  <2>2. edit' = [edit EXCEPT ![i] = e] /\ UNCHANGED << items, view, disorder, strayed >>
    BY <1>3 DEF EditLands, CollectionTyped
  <2>3. record' \in [Users -> [Ids -> ItemValues]]
    <3> DEFINE u == EditUser(i)
               x == IdOf(i)
    <3>1. PICK v \in ItemValues : record' = [record EXCEPT ![u][x] = v]
      <4>1. record[u][x] \in ItemValues /\ NoRow \in ItemValues
        BY <1>0 DEF CollectionTyped, ItemValues
      <4>2. CASE EditOf(i) = "create"
        BY <1>0, <1>3, <4>2 DEF EditLands
      <4>3. CASE EditOf(i) = "remove"
        BY <1>3, <4>1, <4>3 DEF EditLands
      <4>4. CASE EditOf(i) \notin {"create", "remove"}
        <5>1. record' = [record EXCEPT ![u][x] =
                            IF plan.kind = "locked" THEN i ELSE UpdateById(@, i)]
          BY <1>3, <4>4 DEF EditLands
        <5>2. UpdateById(record[u][x], i) \in ItemValues
          BY <1>0, <4>1 DEF UpdateById
        <5>3. record' = [record EXCEPT ![u][x] =
                            IF plan.kind = "locked" THEN i ELSE UpdateById(record[u][x], i)]
          BY <1>0, <5>1 DEF CollectionTyped
        <5> QED BY <1>0, <5>2, <5>3
      <4> QED BY <4>2, <4>3, <4>4
    <3> QED BY <1>0, <3>1 DEF CollectionTyped
  <2> HIDE DEF e
  <2> QED BY <1>0, <2>1, <2>2, <2>3, ItemsUntouched, EditStep DEF CollectionTyped
<1>4. CASE EditRefused(i)
  <2>1. PICK s \in {"second", "conflict"} : edit' = [edit EXCEPT ![i].stage = s]
    BY <1>4 DEF EditRefused
  <2> DEFINE e == [edit[i] EXCEPT !.stage = s]
  <2>2. e \in EditStates /\ e.session = edit[i].session
    BY <1>0 DEF EditStates
  <2>3. edit' = [edit EXCEPT ![i] = e] /\ UNCHANGED << record, items, view, disorder, strayed >>
    BY <1>4, <2>1 DEF EditRefused, CollectionTyped
  <2> HIDE DEF e
  <2> QED BY <1>0, <2>2, <2>3, ItemsUntouched, EditStep DEF CollectionTyped
<1>5. CASE EditResolves(i)
  <2>1. edit' = [edit EXCEPT ![i] = done] /\ UNCHANGED << record, view, disorder, strayed >>
    BY <1>5 DEF EditResolves, done
  <2>2. ItemsStep
    <3>1. CASE EditOf(i) = "remove"
      BY <1>5, <3>1, ItemsUntouched DEF EditResolves
    <3>2. CASE EditOf(i) # "remove"
      <4>1. Outcome(i) \in Items
        BY OutcomeType
      <4>2. items' = [items EXCEPT ![EditUser(i)] = [all |-> Outcome(i), by |-> "call"]]
        BY <1>5, <3>2 DEF EditResolves, Shown
      <4> QED BY <1>0, <4>1, <4>2, ShownKeeps
    <3> QED BY <3>1, <3>2
  <2> QED BY <1>1, <2>1, <2>2, EditStep DEF CollectionTyped
<1>6. CASE EditConflicts(i) \/ EditFails(i)
  <2>1. /\ edit' = [edit EXCEPT ![i] = done] /\ UNCHANGED << record, view, disorder >>
        /\ strayed' \in {strayed, strayed \cup {EditUser(i)}}
        /\ items' = [items EXCEPT ![EditUser(i)] = [all |-> edit[i].previous, by |-> "call"]]
    BY <1>6 DEF EditConflicts, EditFails, done, Restored, Shown
  <2>2. ItemsStep
    BY <1>0, <2>1, ShownKeeps
  <2>3. strayed' \in SUBSET Users
    BY <1>0, <2>1 DEF CollectionTyped
  <2> QED BY <1>1, <2>1, <2>2, <2>3, EditStep DEF CollectionTyped
<1> QED BY <1>2, <1>3, <1>4, <1>5, <1>6 DEF EditSteps

LEMMA ForeignEditKeeps ==
    ASSUME SessionTypeOK, SameSession, CollectionInv, NEW u \in Users, NEW x \in Ids,
           ForeignEdit(u, x) \/ ForeignRemove(u, x)
    PROVE  CollectionInv'
<1> USE DEF CollectionInv
<1>1. UNCHANGED << items, view, edit, disorder >> /\ strayed' \in SUBSET Users
  BY DEF ForeignEdit, ForeignRemove, CollectionTyped
<1>2. record' \in [Users -> [Ids -> ItemValues]]
  BY DEF ForeignEdit, ForeignRemove, CollectionTyped, ItemValues
<1>3. ItemsStep /\ ViewSound'
  BY <1>1, ItemsUntouched, ViewKept
<1> QED BY <1>1, <1>2, <1>3, ViewStep DEF CollectionTyped

LEMMA CollectionUnchanged ==
    ASSUME SessionTypeOK, SameSession, CollectionInv, UNCHANGED collectionVars
    PROVE  CollectionInv'
<1>1. ItemsStep
  BY ItemsUntouched DEF CollectionInv, collectionVars
<1>2. ViewSound'
  BY <1>1, ViewKept DEF CollectionInv, collectionVars
<1> QED BY <1>1, <1>2, ViewStep DEF CollectionInv, CollectionTyped, collectionVars

LEMMA CollectionLocks ==
    ASSUME SessionTypeOK, CollectionInv, Lock, WipeCollection
    PROVE  CollectionInv'
<1> USE DEF CollectionInv
<1>1. UNCHANGED << record, view, edit, plan, session >> /\ unlocked' = FALSE
  BY DEF Lock, WipeCollection
<1>2. /\ items' \in ListsType /\ \A u \in Users : items'[u] = NoList
      /\ disorder' \in SUBSET Users /\ strayed' \in SUBSET Users
  BY DEF WipeCollection, ListsType, CollectionTyped
<1>3. Edits' = Edits
  BY <1>1 DEF Edits
<1>4. EditsSound' /\ ViewSound' /\ ListedBy'
  BY <1>1, <1>2, <1>3 DEF EditsSound, ViewSound, ListedBy
<1> QED BY <1>1, <1>2, <1>3, <1>4 DEF CollectionTyped

LEMMA CollectionUnlocks ==
    ASSUME SessionTypeOK, CollectionInv, Unlock, UNCHANGED collectionVars
    PROVE  CollectionInv'
<1> USE DEF CollectionInv
<1>1. /\ UNCHANGED << record, items, view, edit, disorder, strayed, plan >>
      /\ ~unlocked /\ session' = session + 1 /\ session < Len(plan.users)
  BY DEF Unlock, collectionVars
<1>2. session \in Nat /\ session >= 1 /\ session + 1 < NeverSeen
  <2>1. plan.users \in Seq(Users) /\ Len(plan.users) < NeverSeen
    BY PlanAssumption DEF SessionTypeOK
  <2> QED BY <1>1, <2>1, SessionFacts DEF NeverSeen
<1>3. Edits' = Edits
  BY <1>1 DEF Edits
<1>4. EditsSound'
  <2>1. ASSUME NEW i \in Edits PROVE edit[i].session \in 1 .. session + 1
    BY <1>2 DEF EditsSound
  <2> QED BY <1>1, <1>3, <2>1 DEF EditsSound
<1>5. /\ view.seen \in 0 .. session + 1 \cup {NeverSeen, Unmounted} /\ view.seen # session + 1
      /\ view.listing # "no" => view.seen \in 1 .. session + 1
  BY <1>2 DEF ViewSound, NeverSeen, Unmounted
<1>6. ViewSound'
  BY <1>1, <1>5 DEF ViewSound
<1>7. ListedBy'
  BY <1>1 DEF ListedBy, SignedIn
<1> QED BY <1>1, <1>3, <1>4, <1>6, <1>7 DEF CollectionTyped

LEMMA CollectionStarts ==
    ASSUME SessionInit, SessionTypeOK, CollectionInit
    PROVE  CollectionInv
<1>1. session = 1 /\ plan.listed \subseteq Ids
  BY CollectionAssumption DEF SessionInit
<1>2. record \in [Users -> [Ids -> ItemValues]] /\ items \in ListsType
  BY DEF CollectionInit, ItemValues, ListsType
<1>3. view \in Views /\ view.seen \in {NeverSeen, Unmounted} /\ view.listing = "no"
  BY EmptyListType DEF CollectionInit, Views, NeverSeen, Unmounted
<1>4. edit \in [Edits -> EditStates]
  BY DoneEdit DEF CollectionInit
<1>5. EditsSound
  BY <1>1 DEF CollectionInit, EditsSound, IdleEdit
<1>6. ViewSound
  BY <1>1, <1>3 DEF ViewSound, NeverSeen, Unmounted
<1>7. ListedBy
  BY DEF CollectionInit, ListedBy
<1> QED BY <1>2, <1>3, <1>4, <1>5, <1>6, <1>7 DEF CollectionInit, CollectionInv, CollectionTyped

-----------------------------------------------------------------------------
(* The steps of the bindings, by what they leave alone.                    *)

KeyedSteps ==
    \/ HookSteps
    \/ \E i \in Ops : CallSteps(i)
    \/ \E u \in Users, k \in Keys : ForeignWrite(u, k)
ListSteps == ListSkipped \/ ListStarts \/ ListReads \/ ListResolves \/ ListFails \/ ViewUnmounts
CollectionSteps ==
    \/ ListSteps
    \/ \E i \in Edits : EditSteps(i)
    \/ \E u \in Users, x \in Ids : ForeignEdit(u, x) \/ ForeignRemove(u, x)
StepOfSession ==
    \/ KeyedSteps /\ UNCHANGED collectionVars
    \/ CollectionSteps /\ UNCHANGED keyedVars
    \/ UNCHANGED << keyedVars, collectionVars >>

LEMMA SpendKeeps ==
    ASSUME SessionTypeOK, NEW what \in {"faults", "foreign", "leaves"}, Spend(what)
    PROVE  SessionTypeOK' /\ SameSession
BY DEF SessionTypeOK, Spend, SameSession

LEMMA FaultKeeps ==
    ASSUME SessionTypeOK, NEW n, Fault(n)
    PROVE  SessionTypeOK' /\ SameSession
<1>1. CASE SessionOver(n)
  BY <1>1 DEF Fault, sessionVars, SessionTypeOK, SameSession
<1>2. CASE ~SessionOver(n)
  BY <1>2, SpendKeeps DEF Fault
<1> QED BY <1>1, <1>2

LEMMA StepCases ==
    ASSUME SessionTypeOK, [Next]_vars
    PROVE  \/ SessionTypeOK' /\ SameSession /\ StepOfSession
           \/ SessionTypeOK' /\ SessionLocks
           \/ SessionTypeOK' /\ SessionUnlocks
<1>0. UNCHANGED sessionVars => SessionTypeOK' /\ SameSession
  BY DEF sessionVars, SessionTypeOK, SameSession
<1>1. CASE Internal
  <2>1. CASE KeyedInternal /\ UNCHANGED << sessionVars, collectionVars >>
    <3>1. KeyedSteps
      BY <2>1 DEF KeyedInternal, KeyedSteps, HookSteps, CallSteps
    <3> QED BY <1>0, <2>1, <3>1 DEF StepOfSession
  <2>2. CASE CollectionInternal /\ UNCHANGED << sessionVars, keyedVars >>
    <3>1. CollectionSteps
      BY <2>2 DEF CollectionInternal, CollectionSteps, ListSteps, EditSteps
    <3> QED BY <1>0, <2>2, <3>1 DEF StepOfSession
  <2> QED BY <1>1, <2>1, <2>2 DEF Internal
<1>2. CASE KeyedFault
  <2>1. UNCHANGED collectionVars
    BY <1>2 DEF KeyedFault
  <2>2. CASE \E u \in Users, t \in Targets : FetchFails(u, t) /\ Fault(fetch[u][t].session)
    <3>1. KeyedSteps /\ SessionTypeOK' /\ SameSession
      BY <2>2, FaultKeeps DEF KeyedSteps, HookSteps
    <3> QED BY <2>1, <3>1 DEF StepOfSession
  <2>3. CASE \E i \in Ops : Fails(i) /\ Fault(op[i].session)
    <3>1. KeyedSteps /\ SessionTypeOK' /\ SameSession
      BY <2>3, FaultKeeps DEF KeyedSteps, CallSteps
    <3> QED BY <2>1, <3>1 DEF StepOfSession
  <2> QED BY <1>2, <2>2, <2>3 DEF KeyedFault
<1>3. CASE CollectionFault
  <2>1. UNCHANGED keyedVars
    BY <1>3 DEF CollectionFault
  <2>2. CASE ListFails /\ Fault(view.seen)
    <3>1. CollectionSteps /\ SessionTypeOK' /\ SameSession
      BY <2>2, FaultKeeps DEF CollectionSteps, ListSteps
    <3> QED BY <2>1, <3>1 DEF StepOfSession
  <2>3. CASE \E i \in Edits : EditFails(i) /\ Fault(edit[i].session)
    <3>1. CollectionSteps /\ SessionTypeOK' /\ SameSession
      BY <2>3, FaultKeeps DEF CollectionSteps, EditSteps
    <3> QED BY <2>1, <3>1 DEF StepOfSession
  <2> QED BY <1>3, <2>2, <2>3 DEF CollectionFault
<1>4. CASE KeyedCall
  <2>1. KeyedSteps /\ UNCHANGED << sessionVars, collectionVars >>
    BY <1>4 DEF KeyedCall, KeyedSteps, CallSteps
  <2> QED BY <1>0, <2>1 DEF StepOfSession
<1>5. CASE CollectionCall
  <2>1. CollectionSteps /\ UNCHANGED << sessionVars, keyedVars >>
    BY <1>5 DEF CollectionCall, CollectionSteps, EditSteps
  <2> QED BY <1>0, <2>1 DEF StepOfSession
<1>6. CASE Leave
  <2>1. SessionTypeOK' /\ SameSession
    BY <1>6, SpendKeeps DEF Leave
  <2>2. CASE \E h \in Hooks : Unmount(h) /\ UNCHANGED collectionVars
    BY <2>1, <2>2 DEF StepOfSession, KeyedSteps, HookSteps
  <2>3. CASE ViewUnmounts /\ UNCHANGED keyedVars
    BY <2>1, <2>3 DEF StepOfSession, CollectionSteps, ListSteps
  <2> QED BY <1>6, <2>2, <2>3 DEF Leave
<1>7. CASE OtherDevice
  <2>1. SessionTypeOK' /\ SameSession
    BY <1>7, SpendKeeps DEF OtherDevice
  <2>2. PICK u \in Range(plan.users) :
          \/ /\ \E k \in UNION {KeysOf(i) : i \in Ops} : ForeignWrite(u, k)
             /\ UNCHANGED collectionVars
          \/ /\ \E i \in Edits : ForeignEdit(u, IdOf(i)) \/ ForeignRemove(u, IdOf(i))
             /\ UNCHANGED keyedVars
    BY <1>7 DEF OtherDevice
  <2>3. u \in Users
    <3>1. plan.users \in Seq(Users)
      BY PlanAssumption DEF SessionTypeOK
    <3>2. plan.users \in [1 .. Len(plan.users) -> Users]
      BY <3>1
    <3> QED BY <2>2, <3>2 DEF Range
  <2>4. CASE \E k \in UNION {KeysOf(i) : i \in Ops} :
                ForeignWrite(u, k) /\ UNCHANGED collectionVars
    <3>1. UNION {KeysOf(i) : i \in Ops} \subseteq Keys
      BY OpFacts
    <3> QED BY <2>1, <2>3, <2>4, <3>1 DEF StepOfSession, KeyedSteps
  <2>5. CASE \E i \in Edits :
                (ForeignEdit(u, IdOf(i)) \/ ForeignRemove(u, IdOf(i))) /\ UNCHANGED keyedVars
    BY <2>1, <2>3, <2>5, EditFacts DEF StepOfSession, CollectionSteps
  <2> QED BY <2>2, <2>4, <2>5
<1>8. CASE SessionLocks
  BY <1>8 DEF SessionLocks, Lock, SessionTypeOK
<1>9. CASE SessionUnlocks
  <2>1. session \in Nat /\ session + 1 \in 1 .. Len(plan.users)
    <3>1. plan.users \in Seq(Users)
      BY PlanAssumption DEF SessionTypeOK
    <3> QED BY <1>9, <3>1 DEF SessionUnlocks, Unlock, SessionTypeOK
  <2> QED BY <1>9, <2>1 DEF SessionUnlocks, Unlock, SessionTypeOK
<1>10. CASE UNCHANGED vars
  BY <1>0, <1>10 DEF vars, StepOfSession
<1> QED BY <1>1, <1>2, <1>3, <1>4, <1>5, <1>6, <1>7, <1>8, <1>9, <1>10 DEF Next

-----------------------------------------------------------------------------
(* The invariant of the bindings.                                          *)

BindingsInv == SessionTypeOK /\ KeyedInv /\ CollectionInv

LEMMA BindingsStart == Init => BindingsInv
<1> SUFFICES ASSUME Init PROVE BindingsInv
  OBVIOUS
<1>1. SessionTypeOK
  <2>1. plan \in Plans /\ plan.users \in Seq(Users) /\ plan.users # << >>
        /\ plan.left \in [faults : Nat, foreign : Nat, leaves : Nat]
    BY PlanAssumption DEF Init, SessionInit
  <2>2. 1 \in 1 .. Len(plan.users)
    BY <2>1
  <2> QED BY <2>1, <2>2 DEF Init, SessionInit, SessionTypeOK
<1> QED BY <1>1, KeyedStarts, CollectionStarts DEF Init, BindingsInv

LEMMA BindingsStep == BindingsInv /\ [Next]_vars => BindingsInv'
<1> SUFFICES ASSUME BindingsInv, [Next]_vars PROVE BindingsInv'
  OBVIOUS
<1> USE DEF BindingsInv
<1>1. CASE SessionTypeOK' /\ SameSession /\ StepOfSession
  <2>1. CASE KeyedSteps /\ UNCHANGED collectionVars
    <3>1. KeyedInv'
      BY <1>1, <2>1, HookStepsKeep, CallStepsKeep, ForeignWriteStep DEF KeyedSteps
    <3> QED BY <1>1, <2>1, <3>1, CollectionUnchanged
  <2>2. CASE CollectionSteps /\ UNCHANGED keyedVars
    <3>1. CollectionInv'
      BY <1>1, <2>2, ListStepsKeep, EditStepsKeep, ForeignEditKeeps
      DEF CollectionSteps, ListSteps
    <3> QED BY <1>1, <2>2, <3>1, KeyedUnchanged
  <2>3. CASE UNCHANGED << keyedVars, collectionVars >>
    BY <1>1, <2>3, KeyedUnchanged, CollectionUnchanged
  <2> QED BY <1>1, <2>1, <2>2, <2>3 DEF StepOfSession
<1>2. CASE SessionTypeOK' /\ SessionLocks
  BY <1>2, KeyedLocks, CollectionLocks DEF SessionLocks
<1>3. CASE SessionTypeOK' /\ SessionUnlocks
  BY <1>3, KeyedUnlocks, CollectionUnlocks DEF SessionUnlocks
<1> QED BY <1>1, <1>2, <1>3, StepCases

(* The invariant holds in every reachable state, for every plan of calls.  *)
THEOREM Invariant == Spec => []BindingsInv
<1>1. Init => BindingsInv
  BY BindingsStart
<1>2. BindingsInv /\ [Next]_vars => BindingsInv'
  BY BindingsStep
<1> QED BY <1>1, <1>2, PTL DEF Spec

(* The variables keep their types, and inFlightCount is the number of      *)
(* fetches in the registries: what joins, resolves or fails a fetch counts *)
(* it once, whoever has unmounted, locked or rendered anew meanwhile.      *)
THEOREM TypeCorrect == Spec => []TypeOK
<1>1. BindingsInv => TypeOK
  BY DEF BindingsInv, KeyedInv, KeyedTyped, StoreTyped, RegistryTyped, OpsTyped, HooksInv,
         Counted, Active, CollectionInv, CollectionTyped, SlotType, RangeType, FetchType,
         CrowdType, ListsType, TypeOK
<1> QED BY <1>1, Invariant, PTL

(* No hook is left loading: when nothing is under way, every mounted hook  *)
(* of an unlocked session has something to show or an error.  A hook that  *)
(* waits has a fetch in the registry, and the fetch that leaves it fills   *)
(* the slot or reports the error to each hook that waits.                  *)
THEOREM NoHookLeftLoading == Spec => []LoadedAtRest
<1>1. BindingsInv => LoadedAtRest
  <2> SUFFICES ASSUME BindingsInv, AtRest, unlocked PROVE LoadedAtRest
    BY DEF LoadedAtRest
  <2> USE DEF BindingsInv
  <2>1. ASSUME NEW h \in Hooks, Mounted(h)
        PROVE  hook[h].error \/ Filled(Me, TargetOf[h])
    <3>1. hook[h].seen = Deps(h)
      BY <2>1 DEF AtRest, Rendered, Mounted
    <3>2. hook[h].seen[1] = session
      BY <3>1, DepsType DEF KeyedInv, KeyedTyped
    <3>3. HookWaits(h) /\ HookShown(h) /\ TargetOf[h] \in Targets
      BY HookFacts DEF KeyedInv, HooksInv
    <3>4. ~hook[h].waits
      BY <3>2, <3>3, SessionFacts DEF AtRest, HookWaits
    <3> QED BY <3>2, <3>3, <3>4 DEF HookShown, Me
  <2>2. view.seen # Unmounted => view.error \/ items[Me] # NoList
    BY DEF AtRest, ViewRendered, Handle, CollectionInv, ViewSound, Me
  <2> QED BY <2>1, <2>2 DEF LoadedAtRest, Filled
<1> QED BY <1>1, Invariant, PTL

(* Nothing an effect or a reload() reads enters the cache of a user who is *)
(* not signed in: an effect fills the slot of the user of the render it    *)
(* belongs to, a reload asks for the identity after its await.             *)
THEOREM LockedOutIsNotFilled == Spec => []OnlyCallsFillLocked
<1>1. BindingsInv => OnlyCallsFillLocked
  BY DEF BindingsInv, KeyedInv, FilledBy, CollectionInv, ListedBy, OnlyCallsFillLocked
<1> QED BY <1>1, Invariant, PTL
=============================================================================
