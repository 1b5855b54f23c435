-------------------------- MODULE ReactContentProofs --------------------------
(***************************************************************************)
(* Proofs about ReactBindings: what the slots of the cache say of the rows *)
(* on the server, for every set of users, keys, hooks and ids and every    *)
(* plan of calls.                                                          *)
(***************************************************************************)
EXTENDS ReactBindingsProofs

(* What the schema makes of the entries that the steps leave.              *)

LEMMA LoadedContent == ASSUME NEW v \in Values, NEW who PROVE Content(Loaded(v, who)) = v
BY StoredParse DEF Content, Loaded

LEMMA KeptContent ==
    ASSUME NEW e \in Entries, NEW who
    PROVE  Content([e EXCEPT !.by = who]) = Content(e) /\ [e EXCEPT !.by = who].hash = e.hash
BY DEF Content, Entries

LEMMA EntryContent == ASSUME NEW e \in Entries PROVE Content(e) \in Values
BY ContentType DEF Content, Entries

LEMMA CallContent ==
    ASSUME SessionTypeOK, NEW i \in Ops, NEW h, NEW who
    PROVE  /\ Content([data |-> Passed(i), hash |-> h, by |-> who]) = i
           /\ Content([data |-> WrittenThrough(i), hash |-> h, by |-> who]) = i
BY OpFacts, PassedFacts, StoredParse DEF Content, WrittenThrough

LEMMA FetchedValue ==
    ASSUME KeyedTyped, NEW u \in Users, NEW k \in Keys, KeyFetchResolves(u, k)
    PROVE  fetch[u][k].rows[k] \in Values
<1>1. fetch[u][k] # NoFetch /\ k \in Targets
  BY DEF KeyFetchResolves, Targets
<1>2. fetch[u][k] \in Fetches
  BY <1>1 DEF KeyedTyped, RegistryTyped, FetchType
<1> QED BY <1>2 DEF Fetches

LEMMA EditContent ==
    ASSUME NEW i \in 1 .. 9, NEW h
    PROVE  Content([data |-> Passed(i), hash |-> h]) = i
BY PassedFacts DEF Content

LEMMA ItemContent ==
    ASSUME NEW v \in ItemValues, NEW h PROVE Content([data |-> v, hash |-> h]) = v
BY StoredParse DEF Content

(* The hash of an entry vouches for its data, where no two writes met.     *)

Honest(e) == e.hash \in {Null, Content(e)}

(* Call i, in state o, is under way on key k of user u.                    *)
On(i, o, u, k) ==
    o.stage \notin {"idle", "done"} /\ UserOf(o.session) = u /\ k \in KeysOf(i)
(* It may put the entry it began with back into the slot.                  *)
Based(i, o) ==
    \/ CallOf(i) = "save"
    \/ o.stage = "hash"
    \/ o.stage = "loaded" /\ ~o.fresh /\ CallOf(i) # "rangeReload"
(* It has shown an entry with the data of the call and an older hash.      *)
Unsaved(i, o) == CallOf(i) = "save" /\ o.base # NoSlot

HonestKey(u, k, ops, entry) ==
    /\ \A i \in Ops : On(i, ops[i], u, k) /\ Based(i, ops[i]) /\ ops[i].base # NoSlot
                      => Honest(ops[i].base)
    /\ \/ entry = NoSlot \/ Honest(entry)
       \/ \E i \in Ops : On(i, ops[i], u, k) /\ Unsaved(i, ops[i])
    /\ \A i, j \in Ops : /\ On(i, ops[i], u, k) /\ CallOf(i) \notin Reads
                         /\ On(j, ops[j], u, k) /\ CallOf(j) \notin Reads
                         => i = j

KeysHonest ==
    \A u \in Users, k \in Keys : crowd[u][k] # "mixed" => HonestKey(u, k, op, slot[u][k])

LEMMA LoadedHonest == ASSUME NEW v \in Values, NEW who PROVE Honest(Loaded(v, who))
BY LoadedContent DEF Honest, Loaded, HashOf

LEMMA KeptHonest ==
    ASSUME NEW e \in Entries, NEW who, Honest(e) PROVE Honest([e EXCEPT !.by = who])
BY KeptContent DEF Honest

(* One call moves on: what it may put back is honest, it does not meet     *)
(* another write, and the slot is honest or as before.                     *)
LEMMA OneCallMoves ==
    ASSUME NEW u, NEW k, NEW ops, DOMAIN ops = Ops, NEW entry, HonestKey(u, k, ops, entry),
           NEW i \in Ops, NEW o, NEW next,
           On(i, o, u, k) /\ Based(i, o) /\ o.base # NoSlot => Honest(o.base),
           On(i, o, u, k) /\ CallOf(i) \notin Reads =>
              \/ On(i, ops[i], u, k)
              \/ \A j \in Ops : On(j, ops[j], u, k) => CallOf(j) \in Reads,
           \/ next = NoSlot \/ Honest(next)
           \/ On(i, o, u, k) /\ Unsaved(i, o)
           \/ /\ next = entry
              /\ On(i, ops[i], u, k) /\ Unsaved(i, ops[i])
                 => On(i, o, u, k) /\ Unsaved(i, o)
    PROVE  HonestKey(u, k, [ops EXCEPT ![i] = o], next)
<1> DEFINE ops2 == [ops EXCEPT ![i] = o]
<1>0. \A j \in Ops : ops2[j] = IF j = i THEN o ELSE ops[j]
  OBVIOUS
<1> HIDE DEF ops2
<1>1. \A j \in Ops : On(j, ops2[j], u, k) /\ Based(j, ops2[j]) /\ ops2[j].base # NoSlot
                     => Honest(ops2[j].base)
  BY <1>0 DEF HonestKey
<1>2. \/ next = NoSlot \/ Honest(next)
      \/ \E j \in Ops : On(j, ops2[j], u, k) /\ Unsaved(j, ops2[j])
  <2>1. CASE On(i, o, u, k) /\ Unsaved(i, o)
    BY <1>0, <2>1
  <2>2. CASE /\ next = entry
             /\ On(i, ops[i], u, k) /\ Unsaved(i, ops[i])
                => On(i, o, u, k) /\ Unsaved(i, o)
    BY <1>0, <2>2 DEF HonestKey
  <2> QED BY <2>1, <2>2
<1>3. \A j, l \in Ops : /\ On(j, ops2[j], u, k) /\ CallOf(j) \notin Reads
                        /\ On(l, ops2[l], u, k) /\ CallOf(l) \notin Reads
                        => j = l
  BY <1>0 DEF HonestKey
<1> QED BY <1>1, <1>2, <1>3 DEF HonestKey, ops2

(* What is noted of other calls does not matter.                           *)
LEMMA NotesDoNotMatter ==
    ASSUME NEW u, NEW k, NEW ops, NEW ops2, NEW entry, HonestKey(u, k, ops, entry),
           \A i \in Ops : /\ ops2[i].stage = ops[i].stage /\ ops2[i].session = ops[i].session
                          /\ ops2[i].base = ops[i].base /\ ops2[i].fresh = ops[i].fresh
    PROVE  HonestKey(u, k, ops2, entry)
<1>1. ASSUME NEW i \in Ops
      PROVE  /\ On(i, ops2[i], u, k) <=> On(i, ops[i], u, k)
             /\ Based(i, ops2[i]) <=> Based(i, ops[i])
             /\ Unsaved(i, ops2[i]) <=> Unsaved(i, ops[i])
             /\ ops2[i].base = ops[i].base
  BY DEF On, Based, Unsaved
<1> QED BY <1>1 DEF HonestKey

LEMMA SlotRefilled ==
    ASSUME NEW u, NEW k, NEW ops, NEW entry, NEW next, HonestKey(u, k, ops, entry),
           next = entry \/ next = NoSlot \/ Honest(next)
    PROVE  HonestKey(u, k, ops, next)
BY DEF HonestKey

(* What was mixed stays so, until a lock; and a write that meets a write,  *)
(* or a comparing load that meets one, mixes.                              *)
LEMMA MixedStays ==
    ASSUME StoreTyped, NEW v \in Users, NEW u \in Users, NEW k \in Keys
    PROVE  /\ \A ks : \A change \in {Late, Healed, NotHealed} :
                 SetCrowd(v, ks, change)[u][k] # "mixed" => crowd[u][k] # "mixed"
           /\ \A ks : CrowdOfWrite(v, ks)[u][k] # "mixed" =>
                 crowd[u][k] # "mixed" /\ (u = v /\ k \in ks => ~WriteMeets(u, k))
           /\ \A l \in Keys : CrowdOfRead(v, l)[u][k] # "mixed" =>
                 /\ crowd[u][k] # "mixed"
                 /\ u = v /\ k = l /\ LoadStage(u, k) = "hash" => ~WriteMeets(u, k)
<1>0. crowd[u][k] \in Crowds /\ crowd \in CrowdType
  BY DEF StoreTyped, CrowdType
<1>1. \A change \in {Late, Healed, NotHealed} :
         crowd[u][k] = "mixed" => change[crowd[u][k]] = "mixed"
  BY <1>0 DEF Late, Healed, NotHealed
<1>2. ASSUME NEW ks, NEW change \in {Late, Healed, NotHealed},
             SetCrowd(v, ks, change)[u][k] # "mixed"
      PROVE  crowd[u][k] # "mixed"
  <2>1. SetCrowd(v, ks, change)[u][k] \in {crowd[u][k], change[crowd[u][k]]}
    BY <1>0 DEF SetCrowd, CrowdType
  <2> QED BY <1>1, <1>2, <2>1
<1>3. ASSUME NEW ks, CrowdOfWrite(v, ks)[u][k] # "mixed"
      PROVE  crowd[u][k] # "mixed" /\ (u = v /\ k \in ks => ~WriteMeets(u, k))
  <2>1. CASE u = v
    <3>1. CrowdOfWrite(v, ks)[u][k] =
            IF k \notin ks THEN crowd[u][k]
            ELSE IF WriteMeets(u, k) THEN "mixed"
            ELSE IF Meets(u, k) THEN Late[crowd[u][k]] ELSE crowd[u][k]
      BY <1>0, <2>1 DEF CrowdOfWrite, CrowdType
    <3> QED BY <1>1, <1>3, <3>1
  <2>2. CASE u # v
    BY <1>0, <1>3, <2>2 DEF CrowdOfWrite, CrowdType
  <2> QED BY <2>1, <2>2
<1>4. ASSUME NEW l \in Keys, CrowdOfRead(v, l)[u][k] # "mixed"
      PROVE  /\ crowd[u][k] # "mixed"
             /\ u = v /\ k = l /\ LoadStage(u, k) = "hash" => ~WriteMeets(u, k)
  <2>1. CASE u = v /\ k = l
    <3>1. CrowdOfRead(v, l)[u][k] =
            IF WriteMeets(u, k)
            THEN IF LoadStage(u, k) = "hash" THEN "mixed" ELSE Late[crowd[u][k]]
            ELSE IF crowd[u][k] = "late" /\ ~Meets(u, k) THEN "healing" ELSE crowd[u][k]
      BY <1>0, <2>1 DEF CrowdOfRead, CrowdType
    <3> QED BY <1>1, <1>4, <3>1
  <2>2. CASE ~(u = v /\ k = l)
    BY <1>0, <1>4, <2>2 DEF CrowdOfRead, CrowdType
  <2> QED BY <2>1, <2>2
<1> QED BY <1>2, <1>3, <1>4

LEMMA WriteMeetsOn ==
    ASSUME NEW u, NEW k, ~WriteMeets(u, k)
    PROVE  \A j \in Ops : On(j, op[j], u, k) => CallOf(j) \in Reads
BY DEF WriteMeets, Writing, InFlight, On, OpUser

(* Without a write under way the slot is honest.                           *)
LEMMA QuietSlot ==
    ASSUME NEW u, NEW k, HonestKey(u, k, op, slot[u][k]),
           \A j \in Ops : On(j, op[j], u, k) => CallOf(j) # "save"
    PROVE  slot[u][k] = NoSlot \/ Honest(slot[u][k])
BY DEF HonestKey, Unsaved

LEMMA KeysHonestLater ==
    ASSUME SameSession,
           \A u \in Users, k \in Keys :
              crowd'[u][k] # "mixed" => HonestKey(u, k, op', slot'[u][k])
    PROVE  KeysHonest'
<1>1. ASSUME NEW u, NEW k
      PROVE  HonestKey(u, k, op, slot[u][k])' <=> HonestKey(u, k, op', slot'[u][k])
  BY DEF SameSession, HonestKey, On, Based, Unsaved, Honest, Ops, UserOf, KeysOf, CallOf
<1> QED BY <1>1 DEF KeysHonest

LEMMA BegunFields ==
    ASSUME NEW stage, NEW n, NEW base, NEW hash, NEW tries
    PROVE  LET o == BegunOp(stage, n, base, hash, tries)
           IN  o.stage = stage /\ o.session = n /\ o.base = base
BY DEF BegunOp, IdleOp

LEMMA DoneIsOver ==
    ASSUME NEW i, NEW u, NEW k
    PROVE  ~On(i, [IdleOp EXCEPT !.stage = "done"], u, k)
BY DEF On, IdleOp

HashPre == SessionTypeOK /\ KeyedTyped /\ SameSession /\ KeysHonest

(* A write begins.                                                         *)
LEMMA WritesBeginHonest ==
    ASSUME HashPre, NEW i \in Ops, Save(i) \/ Write(i) \/ Mutate(i)
    PROVE  KeysHonest'
<1> USE DEF HashPre
<1>0. op \in [Ops -> OpStates] /\ op[i].stage = "idle" /\ StoreTyped
  BY DEF KeyedTyped, OpsTyped, Save, Write, Mutate, CanBegin
<1> SUFFICES ASSUME NEW u \in Users, NEW k \in Keys, crowd'[u][k] # "mixed"
             PROVE  HonestKey(u, k, op', slot'[u][k])
  BY KeysHonestLater
<1>1. ~On(i, op[i], u, k)
  BY <1>0 DEF On
<1>2. CASE Save(i)
  <2>0. CallOf(i) = "save" /\ TheKey(i) \in Keys /\ KeysOf(i) = {TheKey(i)}
    BY <1>2, OpFacts DEF Save, CanBegin
  <2>1. PICK n \in Callbacks(TheKey(i)) :
           LET v == UserOf(n)
               l == TheKey(i)
               previous == slot[v][l]
               hash == IF previous = NoSlot THEN Null ELSE previous.hash
           IN  /\ slot' = [slot EXCEPT ![v][l] =
                             [data |-> Passed(i), hash |-> hash, by |-> "save"]]
               /\ op' = Began(i, n, "send", previous, hash, 0)
               /\ crowd' = CrowdOfWrite(v, {l})
    BY <1>2 DEF Save
  <2> DEFINE v == UserOf(n)
             l == TheKey(i)
             previous == slot[v][l]
             hash == IF previous = NoSlot THEN Null ELSE previous.hash
             e == [data |-> Passed(i), hash |-> hash, by |-> "save"]
             o == BegunOp("send", n, previous, hash, 0)
  <2>2. v \in Users
    BY SessionFacts DEF Callbacks
  <2>3. crowd[u][k] # "mixed" /\ (u = v /\ k = l => ~WriteMeets(u, k))
    BY <1>0, <2>0, <2>1, <2>2, MixedStays
  <2>4. HonestKey(u, k, op, slot[u][k])
    BY <2>3 DEF KeysHonest
  <2>5. /\ op' = [op EXCEPT ![i] = o] /\ o.stage = "send" /\ o.session = n /\ o.base = previous
        /\ slot'[u][k] = IF u = v /\ k = l THEN e ELSE slot[u][k]
    BY <1>0, <2>0, <2>1, <2>2, BegunFields DEF Began, BegunOp, StoreTyped, SlotType
  <2> HIDE DEF o
  <2>6. CASE u = v /\ k = l
    <3>1. \A j \in Ops : On(j, op[j], u, k) => CallOf(j) \in Reads
      BY <2>3, <2>6, WriteMeetsOn
    <3>2. o.base = NoSlot \/ Honest(o.base)
      BY <2>4, <2>5, <2>6, <3>1, QuietSlot DEF Reads
    <3>3. On(i, o, u, k)
      BY <2>0, <2>5, <2>6 DEF On
    <3>4. Honest(slot'[u][k]) \/ Unsaved(i, o)
      BY <2>0, <2>5, <2>6 DEF Honest, Unsaved
    <3> QED BY <1>0, <2>4, <2>5, <3>1, <3>2, <3>3, <3>4, OneCallMoves
  <2>7. CASE ~(u = v /\ k = l)
    <3>1. ~On(i, o, u, k) /\ slot'[u][k] = slot[u][k]
      BY <2>0, <2>5, <2>7 DEF On
    <3> QED BY <1>0, <1>1, <2>4, <2>5, <3>1, OneCallMoves
  <2> QED BY <2>6, <2>7
<1>3. CASE Write(i)
  <2> DEFINE o == BegunOp("send", session, NoSlot, Null, 0)
             v == UserOf(session)
  <2>1. /\ op' = [op EXCEPT ![i] = o] /\ o.base = NoSlot /\ o.session = session
        /\ crowd' = CrowdOfWrite(v, KeysOf(i)) /\ slot' = slot /\ v \in Users
    BY <1>3, SessionFacts, BegunFields DEF Write, Began, BegunOp
  <2> HIDE DEF o
  <2>2. crowd[u][k] # "mixed" /\ (u = v /\ k \in KeysOf(i) => ~WriteMeets(u, k))
    BY <1>0, <2>1, MixedStays
  <2>3. HonestKey(u, k, op, slot[u][k])
    BY <2>2 DEF KeysHonest
  <2>4. On(i, o, u, k) => \A j \in Ops : On(j, op[j], u, k) => CallOf(j) \in Reads
    BY <2>1, <2>2, WriteMeetsOn DEF On
  <2> QED BY <1>0, <1>1, <2>1, <2>3, <2>4, OneCallMoves
<1>4. CASE Mutate(i)
  <2> DEFINE v == UserOf(session)
             l == TheKey(i)
             o == BegunOp(LoadStage(v, l), session, slot[v][l], Null, MaxAttempts)
  <2>0. CallOf(i) = "mutate" /\ KeysOf(i) = {l}
    BY <1>4, OpFacts DEF Mutate, CanBegin
  <2>1. /\ op' = [op EXCEPT ![i] = o] /\ o.base = slot[v][l] /\ o.session = session
        /\ crowd' = CrowdOfWrite(v, KeysOf(i)) /\ slot' = slot /\ v \in Users
    BY <1>4, SessionFacts, BegunFields DEF Mutate, BeganLoad, Began, BegunOp
  <2> HIDE DEF o
  <2>2. crowd[u][k] # "mixed" /\ (u = v /\ k \in KeysOf(i) => ~WriteMeets(u, k))
    BY <1>0, <2>1, MixedStays
  <2>3. HonestKey(u, k, op, slot[u][k])
    BY <2>2 DEF KeysHonest
  <2>4. On(i, o, u, k) => /\ u = v /\ k = l
                          /\ \A j \in Ops : On(j, op[j], u, k) => CallOf(j) \in Reads
    BY <2>0, <2>1, <2>2, WriteMeetsOn DEF On
  <2>5. On(i, o, u, k) => o.base = NoSlot \/ Honest(o.base)
    BY <2>1, <2>3, <2>4, QuietSlot DEF Reads
  <2> QED BY <1>0, <1>1, <2>1, <2>3, <2>4, <2>5, OneCallMoves
<1> QED BY <1>2, <1>3, <1>4

LEMMA ReloadsBeginHonest ==
    ASSUME HashPre, NEW i \in Ops, Reload(i) \/ RangeReload(i)
    PROVE  KeysHonest'
<1> USE DEF HashPre
<1>0. op \in [Ops -> OpStates] /\ op[i].stage = "idle" /\ StoreTyped
  BY DEF KeyedTyped, OpsTyped, Reload, RangeReload, CanBegin
<1> SUFFICES ASSUME NEW u \in Users, NEW k \in Keys, crowd'[u][k] # "mixed"
             PROVE  HonestKey(u, k, op', slot'[u][k])
  BY KeysHonestLater
<1>1. ~On(i, op[i], u, k)
  BY <1>0 DEF On
<1>2. CASE Reload(i)
  <2>1. PICK n \in Callbacks(TheKey(i)) : /\ op' = BeganLoad(i, n, 0)
                                          /\ crowd' = CrowdOfRead(UserOf(n), TheKey(i))
    BY <1>2 DEF Reload
  <2> DEFINE v == UserOf(n)
             l == TheKey(i)
             o == BegunOp(LoadStage(v, l), n, slot[v][l], Null, 0)
  <2>0. CallOf(i) = "reload" /\ KeysOf(i) = {l} /\ l \in Keys /\ v \in Users
    BY <1>2, OpFacts, SessionFacts DEF Reload, CanBegin, Callbacks
  <2>2. /\ op' = [op EXCEPT ![i] = o] /\ slot' = slot /\ o.stage = LoadStage(v, l)
        /\ o.base = slot[v][l] /\ o.session = n
    <3>1. op' = [op EXCEPT ![i] = o]
      BY <2>1 DEF BeganLoad, Began, BegunOp
    <3>2. slot' = slot
      BY <1>2 DEF Reload
    <3> QED BY <3>1, <3>2, BegunFields
  <2> HIDE DEF o
  <2>3. /\ crowd[u][k] # "mixed"
        /\ u = v /\ k = l /\ LoadStage(u, k) = "hash" => ~WriteMeets(u, k)
    BY <1>0, <2>0, <2>1, MixedStays
  <2>4. HonestKey(u, k, op, slot[u][k])
    BY <2>3 DEF KeysHonest
  <2>5. ASSUME On(i, o, u, k), Based(i, o) PROVE o.base = NoSlot \/ Honest(o.base)
    <3>1. u = v /\ k = l /\ LoadStage(u, k) = "hash"
      BY <2>0, <2>2, <2>5 DEF On, Based, LoadStage
    <3>2. \A j \in Ops : On(j, op[j], u, k) => CallOf(j) \in Reads
      BY <2>3, <3>1, WriteMeetsOn
    <3> QED BY <2>2, <2>4, <3>1, <3>2, QuietSlot DEF Reads
  <2> QED BY <1>0, <1>1, <2>0, <2>2, <2>4, <2>5, OneCallMoves DEF Reads
<1>3. CASE RangeReload(i)
  <2>1. PICK n \in Callbacks(RangeTarget) : op' = Began(i, n, "read", NoSlot, Null, 0)
    BY <1>3 DEF RangeReload
  <2> DEFINE o == BegunOp("read", n, NoSlot, Null, 0)
  <2>2. /\ op' = [op EXCEPT ![i] = o] /\ slot' = slot /\ crowd' = crowd /\ o.base = NoSlot
        /\ CallOf(i) \in Reads
    <3>1. op' = [op EXCEPT ![i] = o]
      BY <2>1 DEF Began, BegunOp
    <3>2. slot' = slot /\ crowd' = crowd /\ CallOf(i) \in Reads
      BY <1>3 DEF RangeReload, CanBegin, Reads
    <3> QED BY <3>1, <3>2, BegunFields
  <2> HIDE DEF o
  <2>3. HonestKey(u, k, op, slot[u][k])
    BY <2>2 DEF KeysHonest
  <2> QED BY <1>0, <1>1, <2>2, <2>3, OneCallMoves
<1> QED BY <1>2, <1>3

(* A call moves on, and its slot is as before or honest.                   *)
LEMMA CallMovesHonest ==
    ASSUME HashPre, NEW i \in Ops, NEW o, op' = [op EXCEPT ![i] = o],
           NEW u \in Users, NEW k \in Keys, crowd[u][k] # "mixed",
           \/ o.stage = "done"
           \/ /\ o.stage # "idle" /\ o.session = op[i].session /\ o.base = op[i].base
              /\ op[i].stage \notin {"idle", "done"}
              /\ Based(i, o) => Based(i, op[i]),
           \/ slot'[u][k] = NoSlot \/ Honest(slot'[u][k])
           \/ slot'[u][k] = slot[u][k] /\ (o.stage # "done" \/ ~Unsaved(i, op[i]))
    PROVE  HonestKey(u, k, op', slot'[u][k])
<1>0. op \in [Ops -> OpStates] /\ HonestKey(u, k, op, slot[u][k])
  BY DEF HashPre, KeyedTyped, OpsTyped, KeysHonest
<1>1. CASE o.stage = "done"
  <2>1. ~On(i, o, u, k)
    BY <1>1 DEF On
  <2> QED BY <1>0, <1>1, <2>1, OneCallMoves
<1>2. CASE /\ o.stage \notin {"idle", "done"} /\ o.session = op[i].session
           /\ o.base = op[i].base /\ op[i].stage \notin {"idle", "done"}
           /\ Based(i, o) => Based(i, op[i])
  <2>1. On(i, o, u, k) <=> On(i, op[i], u, k)
    BY <1>2 DEF On
  <2>2. Unsaved(i, o) <=> Unsaved(i, op[i])
    BY <1>2 DEF Unsaved
  <2>3. On(i, o, u, k) /\ Based(i, o) /\ o.base # NoSlot => Honest(o.base)
    BY <1>0, <1>2, <2>1 DEF HonestKey
  <2> QED BY <1>0, <1>2, <2>1, <2>2, <2>3, OneCallMoves
<1> QED BY <1>1, <1>2

(* What a load resolves to is honest.                                      *)
LEMMA LoadedEntryHonest ==
    ASSUME HashPre, NEW i \in Ops, op[i].stage = "loaded", CallOf(i) \in {"reload", "mutate"},
           crowd[OpUser(i)][TheKey(i)] # "mixed"
    PROVE  Honest(LoadedEntry(i))
<1>1. CASE op[i].fresh
  <2>1. op[i].rows[TheKey(i)] \in Values
    BY OpFacts DEF HashPre, KeyedTyped, OpsTyped, OpStates
  <2> QED BY <1>1, <2>1, LoadedHonest DEF LoadedEntry
<1>2. CASE ~op[i].fresh
  <2>1. /\ OpUser(i) \in Users /\ TheKey(i) \in Keys /\ KeysOf(i) = {TheKey(i)}
        /\ op[i].base \in Entries
    BY <1>2, OpUserType, OpFacts DEF HashPre, KeyedTyped, OpsTyped, SoundOp
  <2>2. On(i, op[i], OpUser(i), TheKey(i)) /\ Based(i, op[i]) /\ op[i].base # NoSlot
    BY <1>2, <2>1, KeyedNullAssumption DEF On, OpUser, Based
  <2>3. HonestKey(OpUser(i), TheKey(i), op, slot[OpUser(i)][TheKey(i)])
    BY <2>1 DEF HashPre, KeysHonest
  <2> QED BY <1>2, <2>2, <2>3 DEF HonestKey, LoadedEntry
<1> QED BY <1>1, <1>2

(* Loads: they read, compare and resolve.                                  *)
LEMMA LoadsStayHonest ==
    ASSUME HashPre, NEW i \in Ops,
           \/ GetHash(i) \/ ReadsRows(i) \/ ReloadResolves(i) \/ RangeReloadResolves(i)
           \/ MutateComputes(i) \/ Refused(i)
    PROVE  KeysHonest'
<1> USE DEF HashPre
<1> SUFFICES ASSUME NEW u \in Users, NEW k \in Keys, crowd'[u][k] # "mixed"
             PROVE  HonestKey(u, k, op', slot'[u][k])
  BY KeysHonestLater
<1>0. /\ op \in [Ops -> OpStates] /\ op[i] \in OpStates /\ SoundOp(i, op[i])
      /\ StoreTyped /\ OpUser(i) \in Users
      /\ CallOf(i) # "rangeReload" /\ CallOf(i) # "createMany" =>
            TheKey(i) \in Keys /\ KeysOf(i) = {TheKey(i)}
  BY OpFacts, OpUserType DEF KeyedTyped, OpsTyped
<1>1. CASE GetHash(i)
  <2>1. PICK s \in {"loaded", "read"} : op' = [op EXCEPT ![i].stage = s]
    BY <1>1 DEF GetHash
  <2> DEFINE o == [op[i] EXCEPT !.stage = s]
  <2>2. /\ op' = [op EXCEPT ![i] = o] /\ o.stage = s /\ o.session = op[i].session
        /\ o.base = op[i].base /\ op[i].stage = "hash" /\ slot' = slot /\ crowd' = crowd
    BY <1>0, <1>1, <2>1 DEF GetHash, OpStates
  <2> HIDE DEF o
  <2>3. Based(i, op[i])
    BY <2>2 DEF Based
  <2> QED BY <2>2, <2>3, CallMovesHonest
<1>2. CASE ReadsRows(i)
  <2> DEFINE o == [op[i] EXCEPT !.stage = "loaded", !.rows = ListByKeyRange(OpUser(i)),
                                !.fresh = TRUE]
  <2>1. /\ op' = [op EXCEPT ![i] = o] /\ o.stage = "loaded" /\ o.session = op[i].session
        /\ o.base = op[i].base /\ o.fresh /\ op[i].stage = "read"
        /\ slot' = slot /\ crowd' = crowd
    BY <1>0, <1>2 DEF ReadsRows, OpStates
  <2> HIDE DEF o
  <2>2. Based(i, o) => Based(i, op[i])
    BY <2>1 DEF Based
  <2> QED BY <2>1, <2>2, CallMovesHonest
<1>3. CASE ReloadResolves(i)
  <2> DEFINE o == [IdleOp EXCEPT !.stage = "done"]
             v == OpUser(i)
             l == TheKey(i)
  <2>1. /\ op' = [op EXCEPT ![i] = o] /\ o.stage = "done"
        /\ CallOf(i) = "reload" /\ op[i].stage = "loaded"
        /\ v \in Users /\ l \in Keys
    BY <1>0, <1>3 DEF ReloadResolves, IdleOp
  <2>2. crowd[u][k] # "mixed"
    BY <1>0, <1>3, MixedStays DEF ReloadResolves
  <2>3. slot'[u][k] = slot[u][k] \/ Honest(slot'[u][k])
    <3>1. CASE u = v /\ k = l
      <4>1. LoadedEntry(i) \in Entries /\ Honest(LoadedEntry(i))
        BY <2>1, <2>2, <3>1, LoadedEntryType, LoadedEntryHonest
      <4>2. Honest([LoadedEntry(i) EXCEPT !.by = "reload"])
        BY <4>1, KeptHonest
      <4>3. slot'[u][k] \in {slot[u][k], LoadedEntry(i), [LoadedEntry(i) EXCEPT !.by = "reload"]}
        BY <1>0, <1>3, <2>1, <3>1 DEF ReloadResolves, SlotOfLoad, StoreTyped, SlotType
      <4> QED BY <4>1, <4>2, <4>3
    <3>2. CASE ~(u = v /\ k = l)
      BY <1>0, <1>3, <2>1, <3>2 DEF ReloadResolves, SlotOfLoad, StoreTyped, SlotType
    <3> QED BY <3>1, <3>2
  <2>4. ~Unsaved(i, op[i])
    BY <2>1 DEF Unsaved
  <2> HIDE DEF o
  <2> QED BY <2>1, <2>2, <2>3, <2>4, CallMovesHonest
<1>4. CASE RangeReloadResolves(i)
  <2> DEFINE o == [IdleOp EXCEPT !.stage = "done"]
  <2>1. /\ op' = [op EXCEPT ![i] = o] /\ o.stage = "done" /\ ~Unsaved(i, op[i])
        /\ slot' = slot /\ crowd' = crowd
    BY <1>4 DEF RangeReloadResolves, IdleOp, Unsaved
  <2> HIDE DEF o
  <2> QED BY <2>1, CallMovesHonest
<1>5. CASE MutateComputes(i)
  <2> DEFINE o == [op[i] EXCEPT !.stage = "send", !.expected = LoadedEntry(i).hash]
             v == OpUser(i)
             l == TheKey(i)
  <2>1. /\ op' = [op EXCEPT ![i] = o] /\ o.stage = "send" /\ o.session = op[i].session
        /\ o.base = op[i].base /\ CallOf(i) = "mutate" /\ op[i].stage = "loaded"
        /\ crowd' = crowd
    BY <1>0, <1>5 DEF MutateComputes, OpStates
  <2>2. slot'[u][k] = slot[u][k] \/ Honest(slot'[u][k])
    <3>1. CASE u = v /\ k = l
      <4>1. Honest(LoadedEntry(i))
        BY <2>1, <3>1, LoadedEntryHonest
      <4>2. slot'[u][k] \in {slot[u][k], LoadedEntry(i)}
        BY <1>0, <1>5, <2>1, <3>1 DEF MutateComputes, SlotOfLoad, StoreTyped, SlotType
      <4> QED BY <4>1, <4>2
    <3>2. CASE ~(u = v /\ k = l)
      BY <1>0, <1>5, <2>1, <3>2 DEF MutateComputes, SlotOfLoad, StoreTyped, SlotType
    <3> QED BY <3>1, <3>2
  <2> HIDE DEF o
  <2>3. ~Based(i, o)
    BY <2>1 DEF Based
  <2> QED BY <2>1, <2>2, <2>3, CallMovesHonest
<1>6. CASE Refused(i)
  <2>1. PICK s \in {"second", "conflict"} : op' = [op EXCEPT ![i].stage = s]
    BY <1>6 DEF Refused
  <2> DEFINE o == [op[i] EXCEPT !.stage = s]
  <2>2. /\ op' = [op EXCEPT ![i] = o] /\ o.stage = s /\ o.session = op[i].session
        /\ o.base = op[i].base /\ op[i].stage \in {"send", "second"}
        /\ slot' = slot /\ crowd' = crowd
    BY <1>0, <1>6, <2>1 DEF Refused, OpStates
  <2> HIDE DEF o
  <2>3. Based(i, o) => Based(i, op[i])
    BY <2>2 DEF Based
  <2> QED BY <2>2, <2>3, CallMovesHonest
<1> QED BY <1>1, <1>2, <1>3, <1>4, <1>5, <1>6

(* Saves and other writes that end.                                        *)
LEMMA EndsStayHonest ==
    ASSUME HashPre, NEW i \in Ops, SaveResolves(i) \/ Fails(i) \/ ConflictResolves(i)
    PROVE  KeysHonest'
<1> USE DEF HashPre
<1> DEFINE done == [IdleOp EXCEPT !.stage = "done"]
           v == OpUser(i)
           l == TheKey(i)
<1> SUFFICES ASSUME NEW u \in Users, NEW k \in Keys, crowd'[u][k] # "mixed"
             PROVE  HonestKey(u, k, op', slot'[u][k])
  BY KeysHonestLater
<1>0. /\ op \in [Ops -> OpStates] /\ op[i] \in OpStates /\ SoundOp(i, op[i])
      /\ StoreTyped /\ v \in Users /\ done.stage = "done"
      /\ CallOf(i) # "rangeReload" /\ CallOf(i) # "createMany" =>
            l \in Keys /\ KeysOf(i) = {l}
  BY OpFacts, OpUserType DEF KeyedTyped, OpsTyped, IdleOp
<1>1. crowd[u][k] # "mixed"
  BY <1>0, MixedStays DEF SaveResolves, Fails, ConflictResolves
<1>2. HonestKey(u, k, op, slot[u][k])
  BY <1>1 DEF KeysHonest
(* A call that ends without its write: a save puts back what it found.     *)
<1>3. ASSUME op' = [op EXCEPT ![i] = done], op[i].stage \notin {"idle", "done"},
             slot' = IF CallOf(i) = "save" THEN RolledBack(i) ELSE slot
      PROVE  HonestKey(u, k, op', slot'[u][k])
  <2>1. CASE ~Unsaved(i, op[i])
    <3>1. slot' = slot
      BY <1>3, <2>1 DEF Unsaved, RolledBack
    <3> HIDE DEF done
    <3> QED BY <1>0, <1>1, <1>3, <2>1, <3>1, CallMovesHonest
  <2>2. CASE Unsaved(i, op[i])
    <3>1. /\ CallOf(i) = "save" /\ op[i].base # NoSlot /\ op[i].base \in Entries
          /\ l \in Keys /\ KeysOf(i) = {l}
          /\ slot' = [slot EXCEPT ![v][l] = [op[i].base EXCEPT !.by = "save"]]
      BY <1>0, <1>3, <2>2 DEF Unsaved, RolledBack, OpStates
    <3>2. CASE u = v /\ k = l
      <4>1. On(i, op[i], u, k) /\ Based(i, op[i])
        BY <1>3, <3>1, <3>2 DEF On, OpUser, Based
      <4>2. Honest(op[i].base)
        BY <1>2, <3>1, <4>1 DEF HonestKey
      <4>3. Honest([op[i].base EXCEPT !.by = "save"])
        BY <3>1, <4>2, KeptHonest
      <4>4. Honest(slot'[u][k])
        BY <1>0, <3>1, <3>2, <4>3 DEF StoreTyped, SlotType
      <4> HIDE DEF done
      <4> QED BY <1>0, <1>1, <1>3, <4>4, CallMovesHonest
    <3>3. CASE ~(u = v /\ k = l)
      <4>1. slot'[u][k] = slot[u][k]
        BY <1>0, <3>1, <3>3 DEF StoreTyped, SlotType
      <4>2. ~On(i, op[i], u, k) /\ ~On(i, done, u, k)
        BY <3>1, <3>3, DoneIsOver DEF On, OpUser
      <4> HIDE DEF done
      <4> QED BY <1>0, <1>2, <1>3, <4>1, <4>2, OneCallMoves
    <3> QED BY <3>2, <3>3
  <2> QED BY <2>1, <2>2
<1>4. CASE SaveResolves(i)
  <2>1. /\ CallOf(i) = "save" /\ op' = [op EXCEPT ![i] = done] /\ op[i].stage = "landed"
        /\ slot' = [slot EXCEPT ![v][l] =
                        [data |-> Passed(i), hash |-> SavedHash(i), by |-> "save"]]
        /\ l \in Keys /\ KeysOf(i) = {l}
    BY <1>0, <1>4 DEF SaveResolves
  <2>2. CASE u = v /\ k = l
    <3> DEFINE e == [data |-> Passed(i), hash |-> SavedHash(i), by |-> "save"]
    <3>0. Honest(e)
      BY CallContent DEF HashPre, Honest, SavedHash
    <3>1. Honest(slot'[u][k])
      BY <1>0, <2>1, <2>2, <3>0 DEF StoreTyped, SlotType
    <3> HIDE DEF done
    <3> QED BY <1>0, <1>1, <2>1, <3>1, CallMovesHonest
  <2>3. CASE ~(u = v /\ k = l)
    <3>1. slot'[u][k] = slot[u][k]
      BY <1>0, <2>1, <2>3 DEF StoreTyped, SlotType
    <3>2. ~On(i, op[i], u, k) /\ ~On(i, done, u, k)
      BY <2>1, <2>3, DoneIsOver DEF On, OpUser
    <3> HIDE DEF done
    <3> QED BY <1>0, <1>2, <2>1, <3>1, <3>2, OneCallMoves
  <2> QED BY <2>2, <2>3
<1>5. CASE Fails(i)
  BY <1>3, <1>5 DEF Fails, InFlight
<1>6. CASE ConflictResolves(i)
  <2>1. CASE CallOf(i) = "mutate" /\ op[i].tries > 1
    <3> DEFINE n == op[i].session
               o == BegunOp(LoadStage(v, l), n, slot[v][l], Null, op[i].tries - 1)
    <3>1. op' = BeganLoad(i, n, op[i].tries - 1) /\ slot' = slot /\ op[i].stage = "conflict"
      BY <1>6, <2>1 DEF ConflictResolves
    <3>2. op' = [op EXCEPT ![i] = o]
      BY <3>1 DEF BeganLoad, Began, BegunOp, OpUser
    <3>3. o.base = slot[v][l] /\ o.session = n
      BY BegunFields
    <3> HIDE DEF o
    <3>4. KeysOf(i) = {l}
      BY <1>0, <2>1
    <3>5. On(i, o, u, k) => u = v /\ k = l /\ On(i, op[i], u, k)
      BY <3>1, <3>3, <3>4 DEF On, OpUser
    <3>6. ASSUME On(i, o, u, k) PROVE o.base = NoSlot \/ Honest(o.base)
      <4>1. \A j \in Ops : On(j, op[j], u, k) => CallOf(j) # "save"
        BY <1>2, <2>1, <3>5, <3>6 DEF HonestKey, Reads
      <4> QED BY <1>2, <3>3, <3>5, <3>6, <4>1, QuietSlot
    <3>7. ~Unsaved(i, op[i])
      BY <2>1 DEF Unsaved
    <3> QED BY <1>0, <1>2, <3>1, <3>2, <3>5, <3>6, <3>7, OneCallMoves
  <2>2. CASE ~(CallOf(i) = "mutate" /\ op[i].tries > 1)
    BY <1>3, <1>6, <2>2 DEF ConflictResolves
  <2> QED BY <2>1, <2>2
<1> QED BY <1>4, <1>5, <1>6

(* Writes that land, and those that end well.                              *)
LEMMA WritesStayHonest ==
    ASSUME HashPre, NEW i \in Ops, Lands(i) \/ WriteResolves(i)
    PROVE  KeysHonest'
<1> USE DEF HashPre
<1> SUFFICES ASSUME NEW u \in Users, NEW k \in Keys, crowd'[u][k] # "mixed"
             PROVE  HonestKey(u, k, op', slot'[u][k])
  BY KeysHonestLater
<1>0. /\ op \in [Ops -> OpStates] /\ op[i] \in OpStates
      /\ StoreTyped /\ OpUser(i) \in Users /\ crowd' = crowd
  BY OpUserType DEF KeyedTyped, OpsTyped, Lands, WriteResolves
<1>1. HonestKey(u, k, op, slot[u][k])
  BY <1>0 DEF KeysHonest
<1>2. CASE Lands(i)
  <2> DEFINE ops2 == OpsAfterWrite(OpUser(i))
             o == [ops2[i] EXCEPT !.stage = "landed"]
  <2>1. /\ ops2 \in [Ops -> OpStates]
        /\ \A j \in Ops : \E b \in BOOLEAN : ops2[j] = [op[j] EXCEPT !.stale = b]
    BY <1>0, AfterWriteType DEF KeyedTyped
  <2>2. op' = [ops2 EXCEPT ![i] = o] /\ slot' = slot /\ op[i].stage \in {"send", "second"}
    BY <1>2, <2>1 DEF Lands
  <2> HIDE DEF ops2
  <2>3. \A j \in Ops : /\ ops2[j].stage = op[j].stage /\ ops2[j].session = op[j].session
                       /\ ops2[j].base = op[j].base /\ ops2[j].fresh = op[j].fresh
    BY <1>0, <2>1 DEF OpStates
  <2>4. HonestKey(u, k, ops2, slot[u][k])
    BY <1>1, <2>3, NotesDoNotMatter
  <2>5. /\ o.stage = "landed" /\ o.session = ops2[i].session /\ o.base = ops2[i].base
        /\ ops2[i].stage \in {"send", "second"}
    BY <2>1, <2>2, <2>3 DEF OpStates
  <2> HIDE DEF o
  <2>6. /\ On(i, o, u, k) <=> On(i, ops2[i], u, k)
        /\ Unsaved(i, o) <=> Unsaved(i, ops2[i])
        /\ Based(i, o) => Based(i, ops2[i])
    BY <2>5 DEF On, Unsaved, Based
  <2>7. On(i, o, u, k) /\ Based(i, o) /\ o.base # NoSlot => Honest(o.base)
    BY <2>4, <2>5, <2>6 DEF HonestKey
  <2> QED BY <2>1, <2>2, <2>4, <2>6, <2>7, OneCallMoves
<1>3. CASE WriteResolves(i)
  <2> DEFINE done == [IdleOp EXCEPT !.stage = "done"]
             ops2 == [op EXCEPT ![i] = done]
             e == [data |-> WrittenThrough(i), hash |-> HashOf(i), by |-> "write"]
  <2>1. /\ CallOf(i) \in {"set", "mutate", "createMany"} /\ done.stage = "done"
        /\ slot' = [slot EXCEPT ![OpUser(i)] =
                       [l \in Keys |-> IF l \in KeysOf(i) THEN e ELSE slot[OpUser(i)][l]]]
    BY <1>0, <1>3 DEF WriteResolves, IdleOp, StoreTyped, SlotType
  <2>2. slot'[u][k] \in {slot[u][k], e}
    <3> HIDE DEF e
    <3> QED BY <1>0, <2>1 DEF StoreTyped, SlotType
  <2>3. Honest(e)
    BY <1>0, CallContent DEF Honest, HashOf
  <2>4. ~On(i, done, u, k) /\ ~Unsaved(i, op[i])
    BY <2>1, DoneIsOver DEF Unsaved
  <2> HIDE DEF e
  <2>5. HonestKey(u, k, ops2, slot'[u][k])
    <3> HIDE DEF done
    <3> QED BY <1>0, <1>1, <2>2, <2>3, <2>4, OneCallMoves
  <2>6. ASSUME NEW j \in Ops
        PROVE  /\ op'[j].stage = ops2[j].stage /\ op'[j].session = ops2[j].session
               /\ op'[j].base = ops2[j].base /\ op'[j].fresh = ops2[j].fresh
    <3>1. op'[j] = IF j = i THEN done
                   ELSE IF op[j].stage = "loaded" /\ OpUser(j) = OpUser(i)
                   THEN [op[j] EXCEPT !.bumped = op[j].stale] ELSE op[j]
      BY <1>3 DEF WriteResolves
    <3>2. ops2[j] = IF j = i THEN done ELSE op[j]
      BY <1>0
    <3>3. op[j] \in OpStates
      BY <1>0
    <3> HIDE DEF done, ops2
    <3> QED BY <3>1, <3>2, <3>3 DEF OpStates
  <2> HIDE DEF ops2
  <2> QED BY <2>5, <2>6, NotesDoNotMatter
<1> QED BY <1>2, <1>3

LEMMA HooksStayHonest ==
    ASSUME HashPre, HookSteps
    PROVE  KeysHonest'
<1> USE DEF HashPre
<1> SUFFICES ASSUME NEW u \in Users, NEW k \in Keys, crowd'[u][k] # "mixed"
             PROVE  HonestKey(u, k, op', slot'[u][k])
  BY KeysHonestLater
<1>0. StoreTyped /\ op' = op
  BY DEF KeyedTyped, HookSteps, EffectSkips, EffectFetches, Unmount, FetchReads, FetchFails,
         KeyFetchResolves, RangeFetchResolves
<1>1. crowd[u][k] # "mixed" /\ (slot'[u][k] = slot[u][k] \/ Honest(slot'[u][k]))
  <2>1. ASSUME NEW h \in Hooks, EffectSkips(h) \/ EffectFetches(h) \/ Unmount(h)
        PROVE  crowd[u][k] # "mixed" /\ slot'[u][k] = slot[u][k]
    <3>1. slot' = slot
      BY <2>1 DEF EffectSkips, EffectFetches, Unmount
    <3>2. CASE crowd' = crowd
      BY <3>1, <3>2
    <3>3. CASE /\ crowd' = CrowdOfRead(UserOf(session), TargetOf[h])
               /\ TargetOf[h] # RangeTarget
      <4>1. TargetOf[h] \in Keys /\ UserOf(session) \in Users
        BY <3>3, HookFacts, SessionFacts DEF KeyedTyped, Targets
      <4> QED BY <1>0, <3>1, <3>3, <4>1, MixedStays
    <3> QED BY <2>1, <3>2, <3>3 DEF EffectSkips, EffectFetches, Unmount
  <2>2. ASSUME NEW v \in Users, NEW t \in Targets, FetchReads(v, t) \/ FetchFails(v, t)
        PROVE  crowd[u][k] # "mixed" /\ slot'[u][k] = slot[u][k]
    BY <1>0, <2>2, MixedStays DEF FetchReads, FetchFails
  <2>3. ASSUME NEW v \in Users, NEW l \in Keys, KeyFetchResolves(v, l)
        PROVE  crowd[u][k] # "mixed" /\ (slot'[u][k] = slot[u][k] \/ Honest(slot'[u][k]))
    <3>1. crowd[u][k] # "mixed"
      BY <1>0, <2>3, MixedStays DEF KeyFetchResolves
    <3>2. \/ slot' = slot
          \/ \E who : slot' = [slot EXCEPT ![v][l] = Loaded(fetch[v][l].rows[l], who)]
      BY <2>3 DEF KeyFetchResolves
    <3>3. ASSUME NEW who, slot' = [slot EXCEPT ![v][l] = Loaded(fetch[v][l].rows[l], who)]
          PROVE  slot'[u][k] = slot[u][k] \/ Honest(slot'[u][k])
      <4> DEFINE e == Loaded(fetch[v][l].rows[l], who)
      <4>1. Honest(e)
        BY <1>0, <2>3, FetchedValue, LoadedHonest
      <4>2. slot' = [slot EXCEPT ![v][l] = e]
        BY <3>3
      <4> HIDE DEF e
      <4> QED BY <1>0, <4>1, <4>2 DEF StoreTyped, SlotType
    <3> QED BY <3>1, <3>2, <3>3
  <2>4. ASSUME NEW v \in Users, RangeFetchResolves(v)
        PROVE  crowd[u][k] # "mixed" /\ slot'[u][k] = slot[u][k]
    BY <2>4 DEF RangeFetchResolves
  <2> QED BY <2>1, <2>2, <2>3, <2>4 DEF HookSteps
<1>2. HonestKey(u, k, op, slot[u][k])
  BY <1>1 DEF KeysHonest
<1> QED BY <1>0, <1>1, <1>2, SlotRefilled

LEMMA KeyedStepsStayHonest ==
    ASSUME HashPre, KeyedSteps
    PROVE  KeysHonest'
<1>1. CASE HookSteps
  BY <1>1, HooksStayHonest
<1>2. ASSUME NEW i \in Ops, CallSteps(i) PROVE KeysHonest'
  BY <1>2, WritesBeginHonest, ReloadsBeginHonest, LoadsStayHonest, EndsStayHonest,
     WritesStayHonest DEF CallSteps
<1>3. ASSUME NEW v \in Users, NEW l \in Keys, ForeignWrite(v, l) PROVE KeysHonest'
  <2> SUFFICES ASSUME NEW u \in Users, NEW k \in Keys, crowd'[u][k] # "mixed"
               PROVE  HonestKey(u, k, op', slot'[u][k])
    BY KeysHonestLater DEF HashPre
  <2>1. crowd[u][k] # "mixed" /\ slot' = slot /\ op' = OpsAfterWrite(v)
    BY <1>3, MixedStays DEF ForeignWrite, HashPre, KeyedTyped
  <2>2. \A j \in Ops : \E b \in BOOLEAN : op'[j] = [op[j] EXCEPT !.stale = b]
    BY <2>1, AfterWriteType DEF HashPre, KeyedTyped
  <2>3. \A j \in Ops : /\ op'[j].stage = op[j].stage /\ op'[j].session = op[j].session
                       /\ op'[j].base = op[j].base /\ op'[j].fresh = op[j].fresh
    <3>1. \A j \in Ops : op[j] \in OpStates
      BY DEF HashPre, KeyedTyped, OpsTyped
    <3> QED BY <2>2, <3>1 DEF OpStates
  <2>4. HonestKey(u, k, op, slot[u][k])
    BY <2>1 DEF HashPre, KeysHonest
  <2> QED BY <2>1, <2>3, <2>4, NotesDoNotMatter
<1> QED BY <1>1, <1>2, <1>3 DEF KeyedSteps

LEMMA LocksStayHonest ==
    ASSUME KeysHonest, Lock, WipeKeyed
    PROVE  KeysHonest'
<1>1. UNCHANGED << op, plan, session >>
  BY DEF Lock, WipeKeyed
<1> SUFFICES ASSUME NEW u \in Users, NEW k \in Keys, crowd'[u][k] # "mixed"
             PROVE  HonestKey(u, k, op, NoSlot)
  <2>1. ASSUME NEW u \in Users, NEW k \in Keys
        PROVE  HonestKey(u, k, op, slot[u][k])' <=> HonestKey(u, k, op, NoSlot)
    <3>1. slot'[u][k] = NoSlot
      BY DEF WipeKeyed
    <3> QED BY <1>1, <3>1 DEF HonestKey, On, Based, Unsaved, Honest, Ops, UserOf, KeysOf, CallOf
  <2> QED BY <2>1 DEF KeysHonest
<1>2. CASE Meets(u, k)
  <2>1. crowd[u][k] # "mixed"
    BY <1>2 DEF WipeKeyed
  <2>2. HonestKey(u, k, op, slot[u][k])
    BY <2>1 DEF KeysHonest
  <2> QED BY <2>2, SlotRefilled
<1>3. CASE ~Meets(u, k)
  <2>1. \A i \in Ops : ~On(i, op[i], u, k)
    BY <1>3 DEF Meets, InFlight, On, OpUser
  <2> QED BY <2>1 DEF HonestKey
<1> QED BY <1>2, <1>3

LEMMA KeysHonestUnchanged ==
    ASSUME KeysHonest, UNCHANGED << keyedVars, plan >>
    PROVE  KeysHonest'
<1>1. ASSUME NEW u, NEW k
      PROVE  HonestKey(u, k, op, slot[u][k])' <=> HonestKey(u, k, op, slot[u][k])
  BY DEF keyedVars, HonestKey, On, Based, Unsaved, Honest, Ops, UserOf, KeysOf, CallOf
<1> QED BY <1>1 DEF KeysHonest, keyedVars

-----------------------------------------------------------------------------
(* The lists of the collection, likewise.                                  *)

(* In a locked store, an item that was listed from the start and has no    *)
(* hash is as it was.                                                      *)
HonestItem(x, item) ==
    /\ item.hash \in {None, Content(item)}
    /\ plan.kind = "locked" /\ item.hash = None /\ x \in plan.listed => Content(item) = Listed
HonestList(list) == \A x \in DOMAIN list : HonestItem(x, list[x])
(* What a call found; an update goes with the hash of its item there.      *)
HonestEdit(i, e) ==
    /\ HonestList(e.previous)
    /\ EditOf(i) = "update" =>
          IdOf(i) \in DOMAIN e.previous /\ e.expected = e.previous[IdOf(i)].hash
EditOn(i, e, u) == e.stage \notin {"idle", "done"} /\ UserOf(e.session) = u

(* What a call under way may put back is honest, and so is the list while  *)
(* no update is under way: those show the new data under the old hash.     *)
HonestItems(u, edits, entry) ==
    /\ \A i \in Edits : EditOn(i, edits[i], u) => HonestEdit(i, edits[i])
    /\ \/ entry = NoList \/ HonestList(entry.all)
       \/ \E i \in Edits : EditOn(i, edits[i], u) /\ EditOf(i) = "update"

ListsHonest ==
    /\ \A u \in Users : u \notin disorder => HonestItems(u, edit, items[u])
    /\ view.listing = "read" => HonestList(view.rows)

LEMMA ListsHonestLater ==
    ASSUME SameSession, view'.listing = "read" => HonestList(view'.rows),
           \A u \in Users : u \notin disorder' => HonestItems(u, edit', items'[u])
    PROVE  ListsHonest'
<1>1. ASSUME NEW u
      PROVE  HonestItems(u, edit, items[u])' <=> HonestItems(u, edit', items'[u])
  BY DEF SameSession, HonestItems, HonestEdit, EditOn, HonestList, HonestItem,
     Edits, UserOf, EditOf, IdOf
<1>2. HonestList(view.rows)' <=> HonestList(view'.rows)
  BY DEF SameSession, HonestList, HonestItem
<1> QED BY <1>1, <1>2 DEF ListsHonest

LEMMA OneEditMoves ==
    ASSUME NEW u, NEW edits, DOMAIN edits = Edits, NEW entry, HonestItems(u, edits, entry),
           NEW i \in Edits, NEW e, NEW next,
           EditOn(i, e, u) => HonestEdit(i, e),
           \/ next = NoList \/ HonestList(next.all)
           \/ EditOn(i, e, u) /\ EditOf(i) = "update"
           \/ next = entry /\ (EditOn(i, edits[i], u) => EditOf(i) # "update")
    PROVE  HonestItems(u, [edits EXCEPT ![i] = e], next)
<1> DEFINE edits2 == [edits EXCEPT ![i] = e]
<1>0. \A j \in Edits : edits2[j] = IF j = i THEN e ELSE edits[j]
  OBVIOUS
<1> HIDE DEF edits2
<1>1. \A j \in Edits : EditOn(j, edits2[j], u) => HonestEdit(j, edits2[j])
  BY <1>0 DEF HonestItems
<1>2. \/ next = NoList \/ HonestList(next.all)
      \/ \E j \in Edits : EditOn(j, edits2[j], u) /\ EditOf(j) = "update"
  <2>1. CASE EditOn(i, e, u) /\ EditOf(i) = "update"
    BY <1>0, <2>1
  <2>2. CASE next = entry /\ (EditOn(i, edits[i], u) => EditOf(i) # "update")
    BY <1>0, <2>2 DEF HonestItems
  <2> QED BY <2>1, <2>2
<1> QED BY <1>1, <1>2 DEF HonestItems, edits2

LEMMA ItemsRefilled ==
    ASSUME NEW u, NEW edits, NEW entry, NEW next, HonestItems(u, edits, entry),
           next = entry \/ next = NoList \/ HonestList(next.all)
    PROVE  HonestItems(u, edits, next)
BY DEF HonestItems

LEMMA ListAllHonest ==
    ASSUME CollectionTyped, NEW u \in Users
    PROVE  HonestList(ListAll(u))
<1> DEFINE item(x) == [data |-> record[u][x], hash |-> ItemHash(record[u][x])]
<1>1. ASSUME NEW x \in Ids, record[u][x] # NoRow PROVE HonestItem(x, item(x))
  <2>1. record[u][x] \in ItemValues
    BY DEF CollectionTyped
  <2>2. Content(item(x)) = record[u][x] /\ item(x).hash = ItemHash(record[u][x])
    BY <2>1, ItemContent
  <2> HIDE DEF item
  <2> QED BY <1>1, <2>1, <2>2, NoListAssumption DEF HonestItem, ItemHash, Hashed
<1> QED BY <1>1 DEF HonestList, ListAll

LEMMA EmptyListHonest == HonestList(EmptyList)
BY DEF HonestList, EmptyList

LEMMA EditedHonest ==
    ASSUME NEW list, HonestList(list), NEW x, NEW i \in 1 .. 9, NEW h \in {None, i},
           plan.kind = "locked" => h # None
    PROVE  HonestList(Edited(list, x, Passed(i), h))
BY EditContent DEF HonestList, HonestItem, Edited

(* The generator of ids returns a new one.                                 *)
LEMMA CreatesAreNew ==
    ASSUME SessionTypeOK, NEW i \in Edits, EditOf(i) = "create"
    PROVE  IdOf(i) \notin plan.listed
<1>1. plan \in Plans /\ i \in DOMAIN plan.calls
  BY CollectionAssumption DEF SessionTypeOK, Edits
<1> QED BY <1>1, CollectionAssumption DEF EditOf, IdOf

ItemsPre == SessionTypeOK /\ CollectionInv /\ SameSession /\ ListsHonest

LEMMA ListStepsStayHonest ==
    ASSUME ItemsPre, ListSteps
    PROVE  ListsHonest'
<1> USE DEF ItemsPre
<1>0. edit' = edit /\ items \in ListsType /\ view \in Views
  BY DEF ListSteps, ListSkipped, ListStarts, ListReads, ListResolves, ListFails, ViewUnmounts,
         CollectionInv, CollectionTyped
<1>1. disorder \subseteq disorder'
  BY DEF ListSteps, ListSkipped, ListStarts, ListReads, ListResolves, ListFails, ViewUnmounts
<1>2. view'.listing = "read" => HonestList(view'.rows)
  <2>1. CASE ListReads
    <3>1. view'.rows = ListAll(UserOf(view.seen))
      BY <1>0, <2>1 DEF ListReads, Views
    <3>2. UserOf(view.seen) \in Users
      BY <2>1, SessionFacts DEF ListReads, CollectionInv, ViewSound
    <3> QED BY <3>1, <3>2, ListAllHonest DEF CollectionInv
  <2>2. CASE ~ListReads
    <3>1. view'.listing \in {"no", "sent"}
      <4>1. ASSUME ListStarts \/ ViewUnmounts PROVE view'.listing \in {"no", "sent"}
        BY <4>1 DEF ListStarts, ViewUnmounts
      <4>2. ASSUME ListSkipped PROVE view'.listing = "no"
        BY <1>0, <4>2 DEF ListSkipped, Views
      <4>3. ASSUME ListResolves \/ ListFails PROVE view'.listing = "no"
        BY <1>0, <4>3 DEF ListResolves, ListFails, Views
      <4> QED BY <2>2, <4>1, <4>2, <4>3 DEF ListSteps
    <3> QED BY <3>1
  <2> QED BY <2>1, <2>2
<1>3. ASSUME NEW u \in Users
      PROVE  items'[u] = items[u] \/ HonestList(items'[u].all)
  <2>1. CASE ListResolves
    <3> DEFINE e == [all |-> view.rows,
                     by |-> IF view.seen = Handle THEN "effect" ELSE "gap"]
    <3>1. items' = [items EXCEPT ![UserOf(view.seen)] = e]
      BY <2>1 DEF ListResolves
    <3>2. e.all = view.rows /\ HonestList(view.rows)
      BY <2>1 DEF ListResolves, ListsHonest
    <3> HIDE DEF e
    <3> QED BY <1>0, <3>1, <3>2 DEF ListsType
  <2>2. CASE ~ListResolves
    BY <2>2 DEF ListSteps, ListSkipped, ListStarts, ListReads, ListFails, ViewUnmounts
  <2> QED BY <2>1, <2>2
<1>4. ASSUME NEW u \in Users, u \notin disorder'
      PROVE  HonestItems(u, edit', items'[u])
  <2>1. HonestItems(u, edit, items[u])
    BY <1>1, <1>4 DEF ListsHonest
  <2> QED BY <1>0, <1>3, <2>1, ItemsRefilled
<1> QED BY <1>2, <1>4, ListsHonestLater

LEMMA EditsStayHonest ==
    ASSUME ItemsPre, NEW i \in Edits, EditSteps(i)
    PROVE  ListsHonest'
<1> USE DEF ItemsPre
<1> DEFINE done == [IdleEdit EXCEPT !.stage = "done"]
<1>0. /\ edit \in [Edits -> EditStates] /\ edit[i] \in EditStates /\ items \in ListsType
      /\ view' = view /\ EditUser(i) \in Users /\ done.stage = "done" /\ IdOf(i) \in Ids
      /\ disorder \subseteq disorder'
  BY EditUserType, EditFacts DEF CollectionInv, CollectionTyped, EditSteps, EditBegins,
     EditLands, EditRefused, EditResolves, EditConflicts, EditFails, IdleEdit
<1> SUFFICES ASSUME NEW u \in Users, u \notin disorder'
             PROVE  HonestItems(u, edit', items'[u])
  BY <1>0, ListsHonestLater DEF ListsHonest
<1>1. HonestItems(u, edit, items[u])
  BY <1>0 DEF ListsHonest
<1>2. ~EditOn(i, done, u)
  BY <1>0 DEF EditOn
<1>3. CASE EditBegins(i)
  <2> DEFINE n == view.seen
             v == UserOf(n)
             previous == Found(v)
             hash == HashIn(previous, IdOf(i))
             e == [stage |-> "sent", session |-> n, previous |-> previous, expected |-> hash]
  <2>1. /\ edit[i].stage = "idle" /\ edit' = [edit EXCEPT ![i] = e]
        /\ n \in 1 .. session
        /\ items' = IF EditOf(i) = "create" THEN items
                    ELSE Shown(v, Optimistic(i, previous, hash))
        /\ v \notin disorder' => ~EditMeets(v)
    BY <1>3 DEF EditBegins
  <2>2. v \in Users /\ ~EditOn(i, edit[i], u)
    BY <2>1, SessionFacts DEF EditOn
  <2>3. CASE u = v
    <3>1. \A j \in Edits : ~EditOn(j, edit[j], u)
      BY <2>1, <2>3 DEF EditMeets, EditInFlight, EditUser, EditOn
    <3>2. HonestList(previous)
      <4>1. items[u] = NoList \/ HonestList(items[u].all)
        BY <1>1, <3>1 DEF HonestItems
      <4> QED BY <2>3, <4>1, EmptyListHonest DEF Found
    <3>3. EditOn(i, e, u) /\ HonestEdit(i, e)
      <4>1. EditOf(i) = "update" => IdOf(i) \in DOMAIN previous
        BY <1>3, <2>3 DEF EditBegins
      <4> QED BY <2>3, <3>2, <4>1 DEF EditOn, HonestEdit, HashIn
    <3>4. CASE EditOf(i) = "create"
      <4> HIDE DEF e, previous, v, n
      <4> QED BY <1>0, <1>1, <2>1, <2>2, <3>2, <3>3, <3>4, OneEditMoves
    <3>5. CASE EditOf(i) = "update"
      <4> HIDE DEF e, previous, v, n
      <4> QED BY <1>0, <1>1, <2>1, <3>2, <3>3, <3>5, OneEditMoves
    <3>6. CASE EditOf(i) = "remove"
      <4> DEFINE list == Restrict(previous, DOMAIN previous \ {IdOf(i)})
      <4>1. HonestList(list)
        BY <3>2 DEF HonestList, HonestItem, Restrict
      <4>2. Optimistic(i, previous, hash) = list
        BY <3>6 DEF Optimistic
      <4>3. items'[u].all = list
        <5>1. items' = [items EXCEPT ![v] = [all |-> list, by |-> "call"]]
          BY <2>1, <3>6, <4>2 DEF Shown
        <5> QED BY <1>0, <2>2, <2>3, <5>1 DEF ListsType
      <4> HIDE DEF e, previous, v, n, list
      <4> QED BY <1>0, <1>1, <2>1, <3>2, <3>3, <4>1, <4>3, OneEditMoves
    <3> QED BY <3>4, <3>5, <3>6, EditFacts DEF EditCalls
  <2>4. CASE u # v
    <3>1. items'[u] = items[u]
      BY <1>0, <2>1, <2>4 DEF Shown, ListsType
    <3>2. ~EditOn(i, e, u)
      BY <2>4 DEF EditOn
    <3> HIDE DEF e, previous, v, n
    <3> QED BY <1>0, <1>1, <2>1, <2>2, <3>1, <3>2, OneEditMoves
  <2> QED BY <2>3, <2>4
<1>4. CASE EditLands(i) \/ EditRefused(i)
  <2>1. PICK s \in {"landed", "second", "conflict"} : edit' = [edit EXCEPT ![i].stage = s]
    BY <1>4 DEF EditLands, EditRefused
  <2> DEFINE e == [edit[i] EXCEPT !.stage = s]
  <2>2. /\ edit' = [edit EXCEPT ![i] = e] /\ e.stage = s /\ e.session = edit[i].session
        /\ e.previous = edit[i].previous /\ e.expected = edit[i].expected
        /\ edit[i].stage \in {"sent", "second"} /\ items' = items
    BY <1>0, <1>4, <2>1 DEF EditLands, EditRefused, EditStates
  <2> HIDE DEF e
  <2>3. EditOn(i, e, u) <=> EditOn(i, edit[i], u)
    BY <2>2 DEF EditOn
  <2>4. EditOn(i, e, u) => HonestEdit(i, e)
    BY <1>1, <2>2, <2>3 DEF HonestItems, HonestEdit
  <2>5. CASE EditOn(i, e, u) /\ EditOf(i) = "update"
    BY <1>0, <1>1, <2>2, <2>4, <2>5, OneEditMoves
  <2>6. CASE ~(EditOn(i, e, u) /\ EditOf(i) = "update")
    BY <1>0, <1>1, <2>2, <2>3, <2>4, <2>6, OneEditMoves
  <2> QED BY <2>5, <2>6
<1>5. ASSUME edit' = [edit EXCEPT ![i] = done], edit[i].stage \notin {"idle", "done"},
             NEW list, items' = Shown(EditUser(i), list),
             EditOn(i, edit[i], u) => HonestList(list)
      PROVE  HonestItems(u, edit', items'[u])
  <2> HIDE DEF done
  <2>1. CASE u = EditUser(i)
    <3>1. EditOn(i, edit[i], u)
      BY <1>5, <2>1 DEF EditOn, EditUser
    <3>2. items'[u].all = list
      BY <1>0, <1>5, <2>1 DEF Shown, ListsType
    <3> QED BY <1>0, <1>1, <1>2, <1>5, <3>1, <3>2, OneEditMoves
  <2>2. CASE u # EditUser(i)
    <3>1. items'[u] = items[u] /\ ~EditOn(i, edit[i], u)
      BY <1>0, <1>5, <2>2 DEF Shown, ListsType, EditOn, EditUser
    <3> QED BY <1>0, <1>1, <1>2, <1>5, <3>1, OneEditMoves
  <2> QED BY <2>1, <2>2
<1>6. CASE EditResolves(i)
  <2>1. edit' = [edit EXCEPT ![i] = done] /\ edit[i].stage = "landed"
    BY <1>6 DEF EditResolves
  <2>2. CASE EditOf(i) = "remove"
    <3>1. items' = items
      BY <1>6, <2>2 DEF EditResolves
    <3> HIDE DEF done
    <3> QED BY <1>0, <1>1, <1>2, <2>1, <2>2, <3>1, OneEditMoves
  <2>3. CASE EditOf(i) # "remove"
    <3>1. items' = Shown(EditUser(i), Outcome(i))
      BY <1>6, <2>3 DEF EditResolves
    <3>2. ASSUME EditOn(i, edit[i], u) PROVE HonestList(Outcome(i))
      <4>1. HonestList(edit[i].previous)
        BY <1>1, <3>2 DEF HonestItems, HonestEdit
      <4>2. CASE EditOf(i) = "create"
        <5> DEFINE S == DOMAIN edit[i].previous \cup {IdOf(i)}
        <5>1. Outcome(i) = [y \in S |-> IF y = IdOf(i) THEN [data |-> Passed(i), hash |-> None]
                                        ELSE edit[i].previous[y]]
          BY <4>2 DEF Outcome
        <5>2. IdOf(i) \notin plan.listed
          BY <4>2, CreatesAreNew
        <5> QED BY <4>1, <5>1, <5>2, EditFacts, EditContent DEF HonestList, HonestItem
      <4>3. CASE EditOf(i) # "create"
        <5> DEFINE h == IF plan.kind = "locked" THEN i ELSE None
        <5>1. Outcome(i) = Edited(edit[i].previous, IdOf(i), Passed(i), h) /\ h \in {None, i}
          BY <4>3 DEF Outcome
        <5>2. (plan.kind = "locked" => h # None) /\ i \in 1 .. 9
          BY EditFacts, NoListAssumption
        <5> HIDE DEF h
        <5> QED BY <4>1, <5>1, <5>2, EditedHonest
      <4> QED BY <4>2, <4>3
    <3> HIDE DEF done
    <3> QED BY <1>5, <2>1, <3>1, <3>2
  <2> QED BY <2>2, <2>3
<1>7. CASE EditConflicts(i) \/ EditFails(i)
  <2>1. /\ edit' = [edit EXCEPT ![i] = done] /\ edit[i].stage \notin {"idle", "done"}
        /\ items' = Shown(EditUser(i), edit[i].previous)
    BY <1>7 DEF EditConflicts, EditFails, Restored
  <2>2. EditOn(i, edit[i], u) => HonestList(edit[i].previous)
    BY <1>1 DEF HonestItems, HonestEdit
  <2> HIDE DEF done
  <2> QED BY <1>5, <2>1, <2>2
<1> QED BY <1>3, <1>4, <1>6, <1>7 DEF EditSteps

LEMMA ListsHonestUnchanged ==
    ASSUME ListsHonest, UNCHANGED << items, view, edit, disorder, plan >>
    PROVE  ListsHonest'
<1>1. ASSUME NEW u
      PROVE  HonestItems(u, edit, items[u])' <=> HonestItems(u, edit, items[u])
  BY DEF HonestItems, HonestEdit, EditOn, HonestList, HonestItem,
     Edits, UserOf, EditOf, IdOf
<1>2. HonestList(view.rows)' <=> HonestList(view.rows)
  BY DEF HonestList, HonestItem
<1> QED BY <1>1, <1>2 DEF ListsHonest

LEMMA ListLocksStayHonest ==
    ASSUME ListsHonest, Lock, WipeCollection
    PROVE  ListsHonest'
<1>1. UNCHANGED << edit, plan, view >>
  BY DEF Lock, WipeCollection
<1>2. ASSUME NEW u \in Users, u \notin disorder'
      PROVE  HonestItems(u, edit, NoList)
  <2>1. CASE u \in disorder
    <3>1. \A i \in Edits : ~EditOn(i, edit[i], u)
      BY <1>2, <2>1 DEF WipeCollection, EditMeets, EditInFlight, EditUser, EditOn
    <3> QED BY <3>1 DEF HonestItems
  <2>2. CASE u \notin disorder
    BY <2>2, ItemsRefilled DEF ListsHonest
  <2> QED BY <2>1, <2>2
<1>3. ASSUME NEW u \in Users
      PROVE  HonestItems(u, edit, items[u])' <=> HonestItems(u, edit, NoList)
  <2>1. items'[u] = NoList
    BY DEF WipeCollection
  <2> QED BY <1>1, <2>1 DEF HonestItems, HonestEdit, EditOn, HonestList, HonestItem, Edits, UserOf,
             EditOf, IdOf
<1>4. HonestList(view.rows)' <=> HonestList(view.rows)
  BY <1>1 DEF HonestList, HonestItem
<1> QED BY <1>1, <1>2, <1>3, <1>4 DEF ListsHonest

-----------------------------------------------------------------------------

VouchInv == BindingsInv /\ KeysHonest /\ ListsHonest

LEMMA VouchStart == Init => VouchInv
<1> SUFFICES ASSUME Init PROVE VouchInv
  OBVIOUS
<1>1. BindingsInv
  BY BindingsStart
<1>2. \A i \in Ops : \A u, k : ~On(i, op[i], u, k)
  BY DEF Init, KeyedInit, On, IdleOp
<1>3. KeysHonest
  BY <1>2 DEF Init, KeyedInit, KeysHonest, HonestKey
<1>4. \A i \in Edits : \A u : ~EditOn(i, edit[i], u)
  BY DEF Init, CollectionInit, EditOn, IdleEdit
<1>5. ListsHonest
  BY <1>4 DEF Init, CollectionInit, ListsHonest, HonestItems
<1> QED BY <1>1, <1>3, <1>5 DEF VouchInv

LEMMA VouchStep == VouchInv /\ [Next]_vars => VouchInv'
<1> SUFFICES ASSUME VouchInv, [Next]_vars PROVE VouchInv'
  OBVIOUS
<1> USE DEF VouchInv
<1>1. SessionTypeOK /\ KeyedTyped /\ CollectionInv
  BY DEF BindingsInv, KeyedInv
<1>2. CASE SameSession /\ StepOfSession
  <2>1. CASE KeyedSteps /\ UNCHANGED collectionVars
    <3>1. KeysHonest'
      BY <1>1, <1>2, <2>1, KeyedStepsStayHonest DEF HashPre
    <3>2. ListsHonest'
      BY <1>2, <2>1, ListsHonestUnchanged DEF SameSession, collectionVars
    <3> QED BY <3>1, <3>2, BindingsStep
  <2>2. CASE CollectionSteps /\ UNCHANGED keyedVars
    <3>1. CASE ListSteps \/ \E i \in Edits : EditSteps(i)
      <4>1. ListsHonest'
        BY <1>1, <1>2, <3>1, ListStepsStayHonest, EditsStayHonest DEF ItemsPre
      <4>2. KeysHonest'
        BY <1>2, <2>2, KeysHonestUnchanged DEF SameSession
      <4> QED BY <4>1, <4>2, BindingsStep
    <3>2. CASE \E u \in Users, x \in Ids : ForeignEdit(u, x) \/ ForeignRemove(u, x)
      <4>1. ListsHonest'
        BY <1>2, <3>2, ListsHonestUnchanged DEF ForeignEdit, ForeignRemove, SameSession
      <4>2. KeysHonest'
        BY <1>2, <2>2, KeysHonestUnchanged DEF SameSession
      <4> QED BY <4>1, <4>2, BindingsStep
    <3> QED BY <2>2, <3>1, <3>2 DEF CollectionSteps
  <2>3. CASE UNCHANGED << keyedVars, collectionVars >>
    BY <1>2, <2>3, BindingsStep, KeysHonestUnchanged, ListsHonestUnchanged
    DEF SameSession, collectionVars
  <2> QED BY <1>2, <2>1, <2>2, <2>3 DEF StepOfSession
<1>3. CASE SessionLocks
  BY <1>3, BindingsStep, LocksStayHonest, ListLocksStayHonest DEF SessionLocks
<1>4. CASE SessionUnlocks
  BY <1>4, BindingsStep, KeysHonestUnchanged, ListsHonestUnchanged
  DEF SessionUnlocks, Unlock, collectionVars
<1> QED BY <1>1, <1>2, <1>3, <1>4, StepCases

(* The hash of an entry at rest is that of its data, or none: whatever one *)
(* save, its failure, its rollback or its retry leaves, and whatever loads *)
(* meet it, loadRevalidated and the conditional writes may trust the hash. *)
(* Two writes of a key that meet are left out, and for the collection two  *)
(* calls that meet.  What each call may put back is honest, and a slot is, *)
(* but for the entries that a save or an update under way shows.           *)
THEOREM HashesVouch == Spec => []HashVouches
<1>1. VouchInv => HashVouches
  <2> SUFFICES ASSUME VouchInv, AtRest PROVE HashVouches
    BY DEF HashVouches
  <2>1. \A i \in Ops, u \in Users, k \in Keys : ~On(i, op[i], u, k)
    BY DEF AtRest, InFlight, On
  <2>2. \A i \in Edits, u \in Users : ~EditOn(i, edit[i], u)
    BY DEF AtRest, EditInFlight, EditOn
  <2>3. \A u \in Users, k \in Keys : slot[u][k] # NoSlot /\ crowd[u][k] # "mixed"
                                     => Honest(slot[u][k])
    BY <2>1 DEF VouchInv, KeysHonest, HonestKey
  <2>4. \A u \in Users \ disorder : items[u] # NoList => HonestList(items[u].all)
    BY <2>2 DEF VouchInv, ListsHonest, HonestItems
  <2> QED BY <2>3, <2>4 DEF HashVouches, Honest, HonestList, HonestItem
<1> QED BY <1>1, VouchStart, VouchStep, PTL DEF Spec

-----------------------------------------------------------------------------
(* The lists of the collection and the rows they show.                     *)

Data(list) == [x \in Ids |-> IF x \in DOMAIN list THEN Content(list[x]) ELSE NoRow]
Full(list) == \A x \in DOMAIN list : Content(list[x]) # NoRow
Shows(list, rows) == Full(list) /\ Data(list) = rows
(* What call i makes of the rows.                                          *)
After(i, rows) == [rows EXCEPT ![IdOf(i)] = IF EditOf(i) = "remove" THEN NoRow ELSE i]

QuietEdits(u, edits) == \A i \in Edits : ~EditOn(i, edits[i], u)
AloneEdits(u, edits) ==
    \A i, j \in Edits : EditOn(i, edits[i], u) /\ EditOn(j, edits[j], u) => i = j

(* The list a call under way found shows the rows from before the call;    *)
(* the one a remove leaves, those from after it.                           *)
TrueEdit(i, e, entry, rows) ==
    /\ Full(e.previous)
    /\ EditOf(i) = "update" => IdOf(i) \in DOMAIN e.previous
    /\ rows = IF e.stage = "landed" THEN After(i, Data(e.previous)) ELSE Data(e.previous)
    /\ EditOf(i) = "remove" /\ entry # NoList => Shows(entry.all, After(i, Data(e.previous)))

TrueList(u, edits, entry, rows) ==
    /\ \A i \in Edits : EditOn(i, edits[i], u) => TrueEdit(i, edits[i], entry, rows)
    /\ AloneEdits(u, edits)
    /\ entry # NoList /\ QuietEdits(u, edits) => Shows(entry.all, rows)

(* A list() under way runs alone, for an empty slot.                       *)
TrueView(u, w, edits, entry, rows) ==
    w.listing # "no" /\ UserOf(w.seen) = u =>
        /\ entry = NoList /\ QuietEdits(u, edits)
        /\ w.listing = "read" => Shows(w.rows, rows)

ListsTrue ==
    \A u \in Users : u \notin disorder \cup strayed =>
        /\ TrueList(u, edit, items[u], record[u])
        /\ TrueView(u, view, edit, items[u], record[u])

LEMMA ListsTrueLater ==
    ASSUME SameSession,
           \A u \in Users : u \notin disorder' \cup strayed' =>
              /\ TrueList(u, edit', items'[u], record'[u])
              /\ TrueView(u, view', edit', items'[u], record'[u])
    PROVE  ListsTrue'
<1>1. ASSUME NEW u
      PROVE  /\ TrueList(u, edit, items[u], record[u])'
                <=> TrueList(u, edit', items'[u], record'[u])
             /\ TrueView(u, view, edit, items[u], record[u])'
                <=> TrueView(u, view', edit', items'[u], record'[u])
  BY DEF SameSession, TrueList, TrueView, TrueEdit, AloneEdits, QuietEdits, EditOn, Shows, Full,
         Data, After, Edits, UserOf, EditOf, IdOf
<1> QED BY <1>1 DEF ListsTrue

(* One call moves on.  It is alone under way, or it ends, or it is not     *)
(* about this user.                                                        *)
OthersQuiet(u, edits, i) == \A j \in Edits : j # i => ~EditOn(j, edits[j], u)

LEMMA OneEditMovesTrue ==
    ASSUME NEW u, NEW edits, DOMAIN edits = Edits, NEW entry, NEW rows,
           TrueList(u, edits, entry, rows), NEW i \in Edits, NEW e, NEW next, NEW rows2,
           \/ OthersQuiet(u, edits, i) /\ EditOn(i, e, u) /\ TrueEdit(i, e, next, rows2)
           \/ /\ OthersQuiet(u, edits, i) /\ ~EditOn(i, e, u)
              /\ next = NoList \/ Shows(next.all, rows2)
           \/ /\ ~EditOn(i, e, u) /\ ~EditOn(i, edits[i], u)
              /\ next = entry /\ rows2 = rows
    PROVE  TrueList(u, [edits EXCEPT ![i] = e], next, rows2)
<1> DEFINE edits2 == [edits EXCEPT ![i] = e]
<1>0. \A j \in Edits : edits2[j] = IF j = i THEN e ELSE edits[j]
  OBVIOUS
<1> HIDE DEF edits2
<1>1. CASE OthersQuiet(u, edits, i) /\ EditOn(i, e, u) /\ TrueEdit(i, e, next, rows2)
  BY <1>0, <1>1 DEF TrueList, OthersQuiet, AloneEdits, QuietEdits, edits2
<1>2. CASE /\ OthersQuiet(u, edits, i) /\ ~EditOn(i, e, u)
           /\ next = NoList \/ Shows(next.all, rows2)
  BY <1>0, <1>2 DEF TrueList, OthersQuiet, AloneEdits, QuietEdits, edits2
<1>3. CASE /\ ~EditOn(i, e, u) /\ ~EditOn(i, edits[i], u)
           /\ next = entry /\ rows2 = rows
  <2>1. \A j \in Edits : EditOn(j, edits2[j], u) <=> EditOn(j, edits[j], u)
    BY <1>0, <1>3
  <2>2. \A j \in Edits : EditOn(j, edits2[j], u) => edits2[j] = edits[j]
    BY <1>0, <1>3
  <2>3. QuietEdits(u, edits2) <=> QuietEdits(u, edits)
    BY <2>1 DEF QuietEdits
  <2>4. AloneEdits(u, edits2)
    BY <2>1 DEF TrueList, AloneEdits
  <2>5. \A j \in Edits : EditOn(j, edits2[j], u) => TrueEdit(j, edits2[j], next, rows2)
    BY <1>3, <2>1, <2>2 DEF TrueList
  <2> QED BY <1>3, <2>3, <2>4, <2>5 DEF TrueList, edits2
<1> QED BY <1>1, <1>2, <1>3

(* The lists of the model and the rows they show.                          *)
LEMMA ListAllShows ==
    ASSUME NEW u \in Users, record \in [Users -> [Ids -> ItemValues]]
    PROVE  Shows(ListAll(u), record[u])
<1> DEFINE S == {y \in Ids : record[u][y] # NoRow}
<1>1. DOMAIN ListAll(u) = S /\ \A x \in S : Content(ListAll(u)[x]) = record[u][x]
  BY ItemContent DEF ListAll
<1>2. record[u] \in [Ids -> ItemValues]
  OBVIOUS
<1> QED BY <1>1, <1>2 DEF Shows, Full, Data

LEMMA EditedShows ==
    ASSUME NEW i \in Edits, NEW list, Full(list), NEW x \in Ids, x = IdOf(i), x \in DOMAIN list,
           EditOf(i) # "remove", i \in 1 .. 9, NEW h
    PROVE  Shows(Edited(list, x, Passed(i), h), After(i, Data(list)))
<1> DEFINE new == Edited(list, x, Passed(i), h)
<1>1. /\ DOMAIN new = DOMAIN list
      /\ \A y \in DOMAIN list : Content(new[y]) = IF y = x THEN i ELSE Content(list[y])
  BY EditContent DEF Edited
<1> HIDE DEF new
<1>2. Full(new)
  BY <1>1 DEF Full, NoRow
<1>3. Data(new) = After(i, Data(list))
  BY <1>1 DEF Data, After
<1> QED BY <1>2, <1>3 DEF Shows, new

LEMMA CreatedShows ==
    ASSUME NEW i \in Edits, NEW list, Full(list), NEW x \in Ids, x = IdOf(i),
           EditOf(i) # "remove", i \in 1 .. 9
    PROVE  Shows([y \in DOMAIN list \cup {x} |->
                     IF y = x THEN [data |-> Passed(i), hash |-> None] ELSE list[y]],
                 After(i, Data(list)))
<1> DEFINE new == [y \in DOMAIN list \cup {x} |->
                     IF y = x THEN [data |-> Passed(i), hash |-> None] ELSE list[y]]
<1>1. /\ DOMAIN new = DOMAIN list \cup {x}
      /\ \A y \in DOMAIN new : Content(new[y]) = IF y = x THEN i ELSE Content(list[y])
  BY EditContent
<1> HIDE DEF new
<1>2. Full(new)
  BY <1>1 DEF Full, NoRow
<1>3. Data(new) = After(i, Data(list))
  BY <1>1 DEF Data, After
<1> QED BY <1>2, <1>3 DEF Shows, new

LEMMA RestrictedShows ==
    ASSUME NEW i \in Edits, NEW list, Full(list), NEW x \in Ids, x = IdOf(i),
           EditOf(i) = "remove"
    PROVE  Shows(Restrict(list, DOMAIN list \ {x}), After(i, Data(list)))
<1> DEFINE new == Restrict(list, DOMAIN list \ {x})
<1>1. /\ DOMAIN new = DOMAIN list \ {x}
      /\ \A y \in DOMAIN new : Content(new[y]) = Content(list[y])
  BY DEF Restrict
<1> HIDE DEF new
<1>2. Full(new)
  BY <1>1 DEF Full
<1>3. Data(new) = After(i, Data(list))
  BY <1>1 DEF Data, After
<1> QED BY <1>2, <1>3 DEF Shows, new

TruePre == SessionTypeOK /\ CollectionInv /\ SameSession /\ ListsTrue

LEMMA ListStepsStayTrue ==
    ASSUME TruePre, ListSteps
    PROVE  ListsTrue'
<1> USE DEF TruePre
<1>0. /\ edit' = edit /\ record' = record /\ strayed' = strayed /\ disorder \subseteq disorder'
      /\ items \in ListsType /\ view \in Views /\ record \in [Users -> [Ids -> ItemValues]]
  BY DEF ListSteps, ListSkipped, ListStarts, ListReads, ListResolves, ListFails, ViewUnmounts,
         CollectionInv, CollectionTyped
<1> SUFFICES ASSUME NEW u \in Users, u \notin disorder' \cup strayed'
             PROVE  /\ TrueList(u, edit, items'[u], record[u])
                    /\ TrueView(u, view', edit, items'[u], record[u])
  BY <1>0, ListsTrueLater
<1>1. TrueList(u, edit, items[u], record[u]) /\ TrueView(u, view, edit, items[u], record[u])
  BY <1>0 DEF ListsTrue
<1>2. CASE ListSkipped \/ ListFails \/ ViewUnmounts
  <2>1. items' = items /\ view'.listing = "no"
    <3>1. CASE ListSkipped
      BY <1>0, <3>1 DEF ListSkipped, Views
    <3>2. CASE ListFails
      BY <1>0, <3>2 DEF ListFails, Views
    <3>3. CASE ViewUnmounts
      BY <3>3 DEF ViewUnmounts
    <3> QED BY <1>2, <3>1, <3>2, <3>3
  <2> QED BY <1>1, <2>1 DEF TrueView
<1>3. CASE ListStarts
  <2>1. items' = items /\ view'.listing = "sent" /\ view'.seen = session
    BY <1>3 DEF ListStarts, Handle
  <2>2. u = UserOf(session) => items[u] = NoList /\ QuietEdits(u, edit)
    BY <1>3 DEF ListStarts, EditMeets, EditInFlight, EditUser, QuietEdits, EditOn
  <2> QED BY <1>1, <2>1, <2>2 DEF TrueView
<1>4. CASE ListReads
  <2>1. /\ items' = items /\ view.listing = "sent" /\ view'.seen = view.seen
        /\ view'.rows = ListAll(UserOf(view.seen))
    BY <1>0, <1>4 DEF ListReads, Views
  <2>2. UserOf(view.seen) = u => Shows(view'.rows, record[u])
    BY <1>0, <2>1, ListAllShows
  <2> QED BY <1>1, <2>1, <2>2 DEF TrueView
<1>5. CASE ListResolves
  <2> DEFINE v == UserOf(view.seen)
             e == [all |-> view.rows, by |-> IF view.seen = Handle THEN "effect" ELSE "gap"]
  <2>1. /\ items' = [items EXCEPT ![v] = e] /\ e.all = view.rows /\ view.listing = "read"
        /\ view'.listing = "no"
    BY <1>0, <1>5 DEF ListResolves, Views
  <2> HIDE DEF e
  <2>2. CASE u = v
    <3>1. QuietEdits(u, edit) /\ Shows(view.rows, record[u])
      BY <1>1, <2>1, <2>2 DEF TrueView
    <3>2. items'[u] = e
      BY <1>0, <2>1, <2>2 DEF ListsType
    <3> QED BY <1>1, <2>1, <3>1, <3>2 DEF TrueList, TrueView, QuietEdits
  <2>3. CASE u # v
    <3>1. items'[u] = items[u]
      BY <1>0, <2>1, <2>3 DEF ListsType
    <3> QED BY <1>1, <2>1, <3>1 DEF TrueView
  <2> QED BY <2>2, <2>3
<1> QED BY <1>2, <1>3, <1>4, <1>5 DEF ListSteps

(* A call begins with a list that shows the rows.                          *)
LEMMA EditBeginsTrue ==
    ASSUME TruePre, NEW i \in Edits, EditBegins(i)
    PROVE  ListsTrue'
<1> USE DEF TruePre
<1> DEFINE n == view.seen
           v == UserOf(n)
           previous == Found(v)
           hash == HashIn(previous, IdOf(i))
           e == [stage |-> "sent", session |-> n, previous |-> previous, expected |-> hash]
<1>0. /\ edit \in [Edits -> EditStates] /\ items \in ListsType /\ IdOf(i) \in Ids
      /\ EditOf(i) \in EditCalls /\ v \in Users /\ n \in 1 .. session
  BY EditFacts, SessionFacts DEF CollectionInv, CollectionTyped, EditBegins
<1>1. /\ edit[i].stage = "idle" /\ edit' = [edit EXCEPT ![i] = e]
      /\ items' = IF EditOf(i) = "create" THEN items
                  ELSE Shown(v, Optimistic(i, previous, hash))
      /\ record' = record /\ view' = view /\ strayed' = strayed /\ disorder \subseteq disorder'
      /\ v \notin disorder' =>
            /\ ~EditMeets(v) /\ items[v] # NoList
            /\ EditOf(i) = "update" => IdOf(i) \in DOMAIN previous
  BY DEF EditBegins
<1> SUFFICES ASSUME NEW u \in Users, u \notin disorder' \cup strayed'
             PROVE  /\ TrueList(u, edit', items'[u], record[u])
                    /\ TrueView(u, view, edit', items'[u], record[u])
  BY <1>1, ListsTrueLater
<1>2. TrueList(u, edit, items[u], record[u]) /\ TrueView(u, view, edit, items[u], record[u])
  BY <1>1 DEF ListsTrue
<1>3. CASE u = v
  <2>1. QuietEdits(u, edit) /\ items[u] # NoList
    BY <1>1, <1>3 DEF EditMeets, EditInFlight, EditUser, QuietEdits, EditOn
  <2>2. previous = items[u].all /\ Shows(previous, record[u])
    BY <1>2, <1>3, <2>1 DEF TrueList, Found
  <2>3. EditOn(i, e, u) /\ OthersQuiet(u, edit, i)
    BY <1>3, <2>1 DEF EditOn, QuietEdits, OthersQuiet
  <2>4. e.previous = previous /\ e.stage = "sent"
    OBVIOUS
  <2>5. ASSUME EditOf(i) = "remove"
        PROVE  Shows(items'[u].all, After(i, Data(previous)))
    <3> DEFINE list == Restrict(previous, DOMAIN previous \ {IdOf(i)})
    <3>1. Optimistic(i, previous, hash) = list
      BY <2>5 DEF Optimistic
    <3>2. items' = [items EXCEPT ![v] = [all |-> list, by |-> "call"]]
      BY <1>1, <2>5, <3>1 DEF Shown
    <3>3. items'[u].all = list
      BY <1>0, <1>3, <3>2 DEF ListsType
    <3>4. Shows(list, After(i, Data(previous)))
      BY <1>0, <2>2, <2>5, RestrictedShows DEF Shows
    <3> QED BY <3>3, <3>4
  <2> HIDE DEF e, previous
  <2>6. TrueEdit(i, e, items'[u], record[u])
    BY <1>1, <1>3, <2>2, <2>4, <2>5 DEF TrueEdit, Shows
  <2>7. TrueList(u, edit', items'[u], record[u])
    BY <1>0, <1>1, <1>2, <2>3, <2>6, OneEditMovesTrue
  <2>8. view.listing = "no"
    BY <1>2, <1>3, <2>1 DEF TrueView, Views, CollectionInv, CollectionTyped
  <2> QED BY <2>7, <2>8 DEF TrueView
<1>4. CASE u # v
  <2>1. items'[u] = items[u]
    BY <1>0, <1>1, <1>4 DEF Shown, ListsType
  <2>2. ~EditOn(i, e, u) /\ ~EditOn(i, edit[i], u)
    BY <1>1, <1>4 DEF EditOn
  <2> HIDE DEF e, previous
  <2>3. TrueList(u, edit', items'[u], record[u])
    BY <1>0, <1>1, <1>2, <2>1, <2>2, OneEditMovesTrue
  <2>4. ~(view.listing # "no" /\ UserOf(view.seen) = u)
    BY <1>4
  <2> QED BY <2>3, <2>4 DEF TrueView
<1> QED BY <1>3, <1>4

(* A call that moves on, for the other users.                              *)
LEMMA OtherEditMovesTrue ==
    ASSUME TruePre, NEW i \in Edits, NEW e, NEW u \in Users, u # EditUser(i),
           u \notin disorder \cup strayed,
           edit[i].stage \notin {"idle", "done"},
           e.stage = "done" \/ e.session = edit[i].session
    PROVE  /\ TrueList(u, [edit EXCEPT ![i] = e], items[u], record[u])
           /\ TrueView(u, view, [edit EXCEPT ![i] = e], items[u], record[u])
<1>1. TrueList(u, edit, items[u], record[u]) /\ TrueView(u, view, edit, items[u], record[u])
  BY DEF TruePre, ListsTrue
<1>2. ~EditOn(i, edit[i], u) /\ ~EditOn(i, e, u) /\ DOMAIN edit = Edits
  BY DEF EditOn, EditUser, TruePre, CollectionInv, CollectionTyped
<1>3. TrueList(u, [edit EXCEPT ![i] = e], items[u], record[u])
  BY <1>1, <1>2, OneEditMovesTrue
<1>4. QuietEdits(u, edit) => QuietEdits(u, [edit EXCEPT ![i] = e])
  BY <1>2 DEF QuietEdits
<1> QED BY <1>1, <1>3, <1>4 DEF TrueView

(* And for its own: it is alone, and no list() runs.                       *)
LEMMA OwnEditFacts ==
    ASSUME TruePre, NEW i \in Edits, edit[i].stage \notin {"idle", "done"},
           NEW u \in Users, u = EditUser(i), u \notin disorder \cup strayed
    PROVE  /\ TrueList(u, edit, items[u], record[u])
           /\ OthersQuiet(u, edit, i)
           /\ TrueEdit(i, edit[i], items[u], record[u])
           /\ \A edits, entry, rows : TrueView(u, view, edits, entry, rows)
<1>1. TrueList(u, edit, items[u], record[u]) /\ TrueView(u, view, edit, items[u], record[u])
  BY DEF TruePre, ListsTrue
<1>2. EditOn(i, edit[i], u)
  BY DEF EditOn, EditUser
<1>3. OthersQuiet(u, edit, i) /\ TrueEdit(i, edit[i], items[u], record[u])
  BY <1>1, <1>2 DEF TrueList, AloneEdits, OthersQuiet
<1>4. ~(view.listing # "no" /\ UserOf(view.seen) = u)
  BY <1>1, <1>2 DEF TrueView, QuietEdits
<1> QED BY <1>1, <1>3, <1>4 DEF TrueView

LEMMA EditLandsTrue ==
    ASSUME TruePre, NEW i \in Edits, EditLands(i)
    PROVE  ListsTrue'
<1> USE DEF TruePre
<1> DEFINE v == EditUser(i)
           x == IdOf(i)
           e == [edit[i] EXCEPT !.stage = "landed"]
           next == CASE EditOf(i) = "create" -> i
                     [] EditOf(i) = "remove" -> NoRow
                     [] OTHER -> IF plan.kind = "locked" THEN i ELSE UpdateById(record[v][x], i)
<1>0. /\ edit \in [Edits -> EditStates] /\ edit[i] \in EditStates /\ items \in ListsType
      /\ record \in [Users -> [Ids -> ItemValues]] /\ x \in Ids /\ v \in Users
      /\ EditOf(i) \in EditCalls
  BY EditFacts, EditUserType DEF CollectionInv, CollectionTyped
<1>1. /\ edit[i].stage \in {"sent", "second"}
      /\ edit' = [edit EXCEPT ![i] = e]
      /\ record' = [record EXCEPT ![v][x] = next]
      /\ UNCHANGED << items, view, disorder, strayed >>
  BY DEF EditLands
<1>2. e.stage = "landed" /\ e.session = edit[i].session /\ e.previous = edit[i].previous
  BY <1>0 DEF EditStates
<1> HIDE DEF e
<1> SUFFICES ASSUME NEW u \in Users, u \notin disorder \cup strayed
             PROVE  /\ TrueList(u, edit', items[u], record'[u])
                    /\ TrueView(u, view, edit', items[u], record'[u])
  BY <1>1, ListsTrueLater
<1>3. CASE u = v
  <2>1. /\ TrueList(u, edit, items[u], record[u]) /\ OthersQuiet(u, edit, i)
        /\ TrueEdit(i, edit[i], items[u], record[u])
        /\ TrueView(u, view, edit', items[u], record'[u])
    BY <1>1, <1>3, OwnEditFacts
  <2>2. record[u] = Data(edit[i].previous)
    BY <1>1, <2>1 DEF TrueEdit
  <2>3. next = IF EditOf(i) = "remove" THEN NoRow ELSE i
    <3>1. CASE EditOf(i) = "update"
      <4>1. x \in DOMAIN edit[i].previous /\ Content(edit[i].previous[x]) # NoRow
        BY <2>1, <3>1 DEF TrueEdit, Full
      <4>2. record[u][x] # NoRow
        BY <1>0, <2>2, <4>1 DEF Data
      <4> QED BY <1>3, <3>1, <4>2 DEF UpdateById
    <3>2. CASE EditOf(i) # "update"
      BY <1>0, <3>2 DEF EditCalls
    <3> QED BY <3>1, <3>2
  <2> HIDE DEF next
  <2>4. record'[u] = After(i, Data(edit[i].previous))
    BY <1>0, <1>1, <1>3, <2>2, <2>3 DEF After
  <2>5. TrueEdit(i, e, items[u], record'[u])
    BY <1>2, <2>1, <2>4 DEF TrueEdit
  <2>6. EditOn(i, e, u)
    BY <1>1, <1>2, <1>3 DEF EditOn, EditUser
  <2> QED BY <1>0, <1>1, <2>1, <2>5, <2>6, OneEditMovesTrue
<1>4. CASE u # v
  <2>1. record'[u] = record[u]
    BY <1>0, <1>1, <1>4
  <2> QED BY <1>1, <1>2, <1>4, <2>1, OtherEditMovesTrue
<1> QED BY <1>3, <1>4

LEMMA EditRefusedTrue ==
    ASSUME TruePre, NEW i \in Edits, EditRefused(i)
    PROVE  ListsTrue'
<1> USE DEF TruePre
<1>0. /\ edit \in [Edits -> EditStates] /\ edit[i] \in EditStates /\ EditUser(i) \in Users
      /\ UNCHANGED << record, items, view, disorder, strayed >>
  BY EditUserType DEF CollectionInv, CollectionTyped, EditRefused
<1>1. PICK s \in {"second", "conflict"} : edit' = [edit EXCEPT ![i].stage = s]
  BY DEF EditRefused
<1> DEFINE e == [edit[i] EXCEPT !.stage = s]
<1>2. /\ edit' = [edit EXCEPT ![i] = e] /\ edit[i].stage \in {"sent", "second"}
      /\ e.stage = s /\ e.session = edit[i].session /\ e.previous = edit[i].previous
  BY <1>0, <1>1 DEF EditRefused, EditStates
<1> HIDE DEF e
<1> SUFFICES ASSUME NEW u \in Users, u \notin disorder \cup strayed
             PROVE  /\ TrueList(u, edit', items[u], record[u])
                    /\ TrueView(u, view, edit', items[u], record[u])
  BY <1>0, ListsTrueLater
<1>3. CASE u = EditUser(i)
  <2>1. /\ TrueList(u, edit, items[u], record[u]) /\ OthersQuiet(u, edit, i)
        /\ TrueEdit(i, edit[i], items[u], record[u])
        /\ TrueView(u, view, edit', items[u], record[u])
    BY <1>2, <1>3, OwnEditFacts
  <2>2. TrueEdit(i, e, items[u], record[u])
    BY <1>2, <2>1 DEF TrueEdit
  <2>3. EditOn(i, e, u)
    BY <1>2, <1>3 DEF EditOn, EditUser
  <2> QED BY <1>0, <1>2, <2>1, <2>2, <2>3, OneEditMovesTrue
<1>4. CASE u # EditUser(i)
  BY <1>2, <1>4, OtherEditMovesTrue
<1> QED BY <1>3, <1>4

(* A call ends with the list it shows then.                                *)
LEMMA EditEndsTrue ==
    ASSUME TruePre, NEW i \in Edits, edit[i].stage \notin {"idle", "done"},
           edit' = [edit EXCEPT ![i] = [IdleEdit EXCEPT !.stage = "done"]],
           record' = record, view' = view, disorder' = disorder, strayed \subseteq strayed',
           \A u \in Users : u # EditUser(i) => items'[u] = items[u],
           EditUser(i) \notin disorder' \cup strayed' =>
              \/ items'[EditUser(i)] = NoList
              \/ Shows(items'[EditUser(i)].all, record[EditUser(i)])
    PROVE  ListsTrue'
<1> USE DEF TruePre
<1> DEFINE e == [IdleEdit EXCEPT !.stage = "done"]
<1>0. edit \in [Edits -> EditStates] /\ EditUser(i) \in Users /\ e.stage = "done"
  BY EditUserType DEF CollectionInv, CollectionTyped, IdleEdit
<1> HIDE DEF e
<1> SUFFICES ASSUME NEW u \in Users, u \notin disorder' \cup strayed'
             PROVE  /\ TrueList(u, edit', items'[u], record[u])
                    /\ TrueView(u, view, edit', items'[u], record[u])
  BY ListsTrueLater
<1>1. edit' = [edit EXCEPT ![i] = e] /\ u \notin disorder \cup strayed
  BY DEF e
<1>2. CASE u = EditUser(i)
  <2>1. /\ TrueList(u, edit, items[u], record[u]) /\ OthersQuiet(u, edit, i)
        /\ TrueView(u, view, edit', items'[u], record[u])
    BY <1>1, <1>2, OwnEditFacts
  <2>2. ~EditOn(i, e, u)
    BY <1>0 DEF EditOn
  <2>3. items'[u] = NoList \/ Shows(items'[u].all, record[u])
    BY <1>2
  <2>4. TrueList(u, [edit EXCEPT ![i] = e], items'[u], record[u])
    BY <1>0, <2>1, <2>2, <2>3, OneEditMovesTrue
  <2> QED BY <1>1, <2>1, <2>4
<1>3. CASE u # EditUser(i)
  <2>1. items'[u] = items[u]
    BY <1>3
  <2>2. /\ TrueList(u, [edit EXCEPT ![i] = e], items[u], record[u])
        /\ TrueView(u, view, [edit EXCEPT ![i] = e], items[u], record[u])
    BY <1>0, <1>1, <1>3, OtherEditMovesTrue
  <2> QED BY <1>1, <2>1, <2>2
<1> QED BY <1>2, <1>3

LEMMA EditsStayTrue ==
    ASSUME TruePre, NEW i \in Edits, EditSteps(i)
    PROVE  ListsTrue'
<1> DEFINE v == EditUser(i)
<1>0. /\ items \in ListsType /\ v \in Users /\ IdOf(i) \in Ids /\ i \in 1 .. 9
      /\ EditOf(i) \in EditCalls
  BY EditUserType, EditFacts DEF TruePre, CollectionInv, CollectionTyped
<1>1. ASSUME edit[i].stage \notin {"idle", "done"}, v \notin disorder \cup strayed
      PROVE  TrueEdit(i, edit[i], items[v], record[v])
  BY <1>0, <1>1, OwnEditFacts
<1>2. CASE EditResolves(i)
  <2>1. /\ edit[i].stage = "landed"
        /\ edit' = [edit EXCEPT ![i] = [IdleEdit EXCEPT !.stage = "done"]]
        /\ UNCHANGED << record, view, disorder, strayed >>
    BY <1>2 DEF EditResolves
  <2>2. CASE EditOf(i) = "remove"
    <3>1. items' = items
      BY <1>2, <2>2 DEF EditResolves
    <3>2. ASSUME v \notin disorder \cup strayed
          PROVE  items[v] = NoList \/ Shows(items[v].all, record[v])
      BY <1>1, <2>1, <2>2, <3>2 DEF TrueEdit
    <3> QED BY <2>1, <3>1, <3>2, EditEndsTrue
  <2>3. CASE EditOf(i) # "remove"
    <3>1. items' = [items EXCEPT ![v] = [all |-> Outcome(i), by |-> "call"]]
      BY <1>2, <2>3 DEF EditResolves, Shown
    <3>2. items'[v].all = Outcome(i) /\ \A u \in Users : u # v => items'[u] = items[u]
      BY <1>0, <3>1 DEF ListsType
    <3>3. ASSUME v \notin disorder \cup strayed
          PROVE  Shows(Outcome(i), record[v])
      <4> DEFINE previous == edit[i].previous
      <4>1. /\ record[v] = After(i, Data(previous)) /\ Full(previous)
            /\ EditOf(i) = "update" => IdOf(i) \in DOMAIN previous
        BY <1>1, <2>1, <3>3 DEF TrueEdit
      <4>2. CASE EditOf(i) = "create"
        <5>1. Outcome(i) = [y \in DOMAIN previous \cup {IdOf(i)} |->
                 IF y = IdOf(i) THEN [data |-> Passed(i), hash |-> None] ELSE previous[y]]
          BY <4>2 DEF Outcome
        <5> HIDE DEF previous
        <5> QED BY <1>0, <2>3, <4>1, <5>1, CreatedShows
      <4>3. CASE EditOf(i) = "update"
        <5>1. PICK h : Outcome(i) = Edited(previous, IdOf(i), Passed(i), h)
          BY <4>3 DEF Outcome
        <5> HIDE DEF previous
        <5> QED BY <1>0, <2>3, <4>1, <4>3, <5>1, EditedShows
      <4> QED BY <1>0, <2>3, <4>2, <4>3 DEF EditCalls
    <3> QED BY <2>1, <3>2, <3>3, EditEndsTrue
  <2> QED BY <2>2, <2>3
<1>3. CASE EditConflicts(i) \/ EditFails(i)
  <2>1. /\ edit[i].stage \notin {"idle", "done"}
        /\ edit' = [edit EXCEPT ![i] = [IdleEdit EXCEPT !.stage = "done"]]
        /\ items' = [items EXCEPT ![v] = [all |-> edit[i].previous, by |-> "call"]]
        /\ UNCHANGED << record, view, disorder >> /\ strayed \subseteq strayed'
        /\ edit[i].stage = "landed" => v \in strayed'
    BY <1>3 DEF EditConflicts, EditFails, Restored, Shown
  <2>2. /\ items'[v].all = edit[i].previous
        /\ \A u \in Users : u # v => items'[u] = items[u]
    BY <1>0, <2>1 DEF ListsType
  <2>3. ASSUME v \notin disorder' \cup strayed'
        PROVE  Shows(edit[i].previous, record[v])
    BY <1>1, <2>1, <2>3 DEF TrueEdit, Shows
  <2> QED BY <2>1, <2>2, <2>3, EditEndsTrue
<1> QED BY <1>2, <1>3, EditBeginsTrue, EditLandsTrue, EditRefusedTrue DEF EditSteps

LEMMA ForeignEditsStayTrue ==
    ASSUME TruePre, NEW u \in Users, NEW x \in Ids, ForeignEdit(u, x) \/ ForeignRemove(u, x)
    PROVE  ListsTrue'
<1>1. /\ UNCHANGED << items, view, edit, disorder >> /\ strayed' = strayed \cup {u}
      /\ \A v \in Users : v # u => record'[v] = record[v]
  BY DEF ForeignEdit, ForeignRemove, TruePre, CollectionInv, CollectionTyped
<1>2. ASSUME NEW v \in Users, v \notin disorder' \cup strayed'
      PROVE  /\ TrueList(v, edit', items'[v], record'[v])
             /\ TrueView(v, view', edit', items'[v], record'[v])
  BY <1>1, <1>2 DEF TruePre, ListsTrue
<1> QED BY <1>2, ListsTrueLater DEF TruePre

LEMMA ListsTrueUnchanged ==
    ASSUME ListsTrue, UNCHANGED << plan, collectionVars >>
    PROVE  ListsTrue'
<1>1. ASSUME NEW u
      PROVE  /\ TrueList(u, edit, items[u], record[u])' <=> TrueList(u, edit, items[u], record[u])
             /\ TrueView(u, view, edit, items[u], record[u])'
                <=> TrueView(u, view, edit, items[u], record[u])
  BY DEF collectionVars, TrueList, TrueView, TrueEdit, AloneEdits, QuietEdits, EditOn, Shows,
         Full, Data, After, Edits, UserOf, EditOf, IdOf
<1> QED BY <1>1 DEF ListsTrue, collectionVars

(* The lock empties the slots; who stays in order had his calls in order.  *)
LEMMA ListLocksStayTrue ==
    ASSUME ListsTrue, Lock, WipeCollection
    PROVE  ListsTrue'
<1>1. UNCHANGED << plan, session, edit, view, record >>
  BY DEF Lock, WipeCollection
<1>2. ASSUME NEW u \in Users, u \notin disorder' \cup strayed'
      PROVE  /\ TrueList(u, edit, NoList, record[u])
             /\ TrueView(u, view, edit, NoList, record[u])
  <2>1. CASE u \in disorder \cup strayed
    <3>1. QuietEdits(u, edit) /\ view.listing = "no"
      BY <1>2, <2>1 DEF WipeCollection, EditMeets, EditInFlight, EditUser, EditOn, QuietEdits
    <3> QED BY <3>1 DEF TrueList, TrueView, QuietEdits, AloneEdits
  <2>2. CASE u \notin disorder \cup strayed
    BY <2>2 DEF ListsTrue, TrueList, TrueView, TrueEdit
  <2> QED BY <2>1, <2>2
<1>3. ASSUME NEW u \in Users
      PROVE  /\ TrueList(u, edit, items[u], record[u])'
                <=> TrueList(u, edit, NoList, record[u])
             /\ TrueView(u, view, edit, items[u], record[u])'
                <=> TrueView(u, view, edit, NoList, record[u])
  <2>1. items'[u] = NoList
    BY DEF WipeCollection
  <2> QED BY <1>1, <2>1 DEF TrueList, TrueView, TrueEdit, AloneEdits, QuietEdits, EditOn, Shows,
             Full, Data, After, Edits, UserOf, EditOf, IdOf
<1> QED BY <1>2, <1>3 DEF ListsTrue

ShownInv == BindingsInv /\ ListsTrue

(* At rest the list shows the rows, whatever was created, updated and      *)
(* removed, refused, failed or locked on the way.  The invariant says what *)
(* every call under way carries: the list it found shows the rows from     *)
(* before the call, so its own edit of that list, and the list itself when *)
(* the call is taken back, show the rows again; and a list() runs alone.   *)
THEOREM ListShowsRows == Spec => []ItemsCurrentAtRest
<1>1. Init => ShownInv
  <2> SUFFICES ASSUME Init PROVE ShownInv
    OBVIOUS
  <2>1. \A i \in Edits : \A u : ~EditOn(i, edit[i], u)
    BY DEF Init, CollectionInit, EditOn, IdleEdit
  <2>2. ListsTrue
    BY <2>1 DEF Init, CollectionInit, ListsTrue, TrueList, TrueView, AloneEdits
  <2> QED BY <2>2, BindingsStart DEF ShownInv
<1>2. ShownInv /\ [Next]_vars => ShownInv'
  <2> SUFFICES ASSUME ShownInv, [Next]_vars PROVE ShownInv'
    OBVIOUS
  <2> USE DEF ShownInv
  <2>1. SessionTypeOK /\ CollectionInv /\ BindingsInv'
    BY BindingsStep DEF BindingsInv
  <2>2. CASE SameSession /\ StepOfSession
    <3>1. CASE CollectionSteps
      BY <2>1, <2>2, <3>1, ListStepsStayTrue, EditsStayTrue, ForeignEditsStayTrue
      DEF CollectionSteps, TruePre
    <3>2. CASE UNCHANGED collectionVars
      BY <2>1, <2>2, <3>2, ListsTrueUnchanged DEF SameSession
    <3> QED BY <2>2, <3>1, <3>2 DEF StepOfSession
  <2>3. CASE SessionLocks
    BY <2>1, <2>3, ListLocksStayTrue DEF SessionLocks
  <2>4. CASE SessionUnlocks
    BY <2>1, <2>4, ListsTrueUnchanged DEF SessionUnlocks, Unlock
  <2> QED BY <2>1, <2>2, <2>3, <2>4, StepCases
<1>3. ShownInv => ItemsCurrentAtRest
  <2> SUFFICES ASSUME ShownInv, AtRest, unlocked, items[Me] # NoList,
                      Me \notin disorder \cup strayed
               PROVE  Data(items[Me].all) = record[Me]
    BY DEF ItemsCurrentAtRest, Data
  <2>1. QuietEdits(Me, edit)
    BY DEF AtRest, EditInFlight, EditOn, QuietEdits
  <2>2. Me \in Users
    BY SessionFacts DEF ShownInv, BindingsInv, SessionTypeOK, Me
  <2> QED BY <2>1, <2>2 DEF ShownInv, ListsTrue, TrueList, Shows
<1> QED BY <1>1, <1>2, <1>3, PTL DEF Spec

-----------------------------------------------------------------------------
(* The slots of the keys and the rows they show.                           *)

(* A load that has compared, or is about to, with the entry it began with. *)
Compares(i, o) ==
    CallOf(i) = "reload" /\ (o.stage = "hash" \/ (o.stage = "loaded" /\ ~o.fresh))
(* The call shows what the row does not hold yet, or no longer.            *)
Covers(i, o) == CallOf(i) = "save" \/ (o.stage = "landed" /\ CallOf(i) \notin Reads)

(* What a call under way on key k carries: a load what the row holds, a    *)
(* save what it held, if anything; v is the row, c the crowd of the key.   *)
TrueCall(i, o, k, c, entry, v) ==
    /\ o.stage \in {"send", "second", "landed", "conflict"} => CallOf(i) \notin Reads
    /\ o.stage = "hash" => o.base.hash # Null /\ ~o.fresh
    /\ CallOf(i) # "rangeReload" /\ o.stage = "loaded" /\ o.fresh => o.rows[k] = v
    /\ CallOf(i) = "reload" /\ o.stage = "loaded" /\ ~o.fresh => Content(o.base) = v
    /\ CallOf(i) = "save" /\ o.stage # "landed" => o.base = NoSlot \/ Content(o.base) = v
    /\ o.stage = "landed" => v = i
    /\ c = "healing" /\ Compares(i, o) /\ entry # NoSlot => Content(entry) = Content(o.base)

(* The write is the only call under way on the key, but for the range's.   *)
LoneWrite(i, u, k, ops, f) ==
    f = NoFetch /\ \A j \in Ops : On(j, ops[j], u, k) /\ CallOf(j) # "rangeReload" => i = j

TrueKey(u, k, c, ops, f, entry, v) ==
    /\ f # NoFetch /\ f.read => f.rows[k] = v
    /\ \A i \in Ops : On(i, ops[i], u, k) =>
          /\ TrueCall(i, ops[i], k, c, entry, v)
          /\ CallOf(i) \notin Reads => c = "clear" /\ LoneWrite(i, u, k, ops, f)
    /\ c = "clear" /\ entry # NoSlot /\ (\A i \in Ops : On(i, ops[i], u, k) => ~Covers(i, ops[i]))
          => Content(entry) = v
    /\ c = "healing" =>
          f # NoFetch \/ \E i \in Ops : On(i, ops[i], u, k) /\ CallOf(i) = "reload"

Calm == {"clear", "healing"}
KeysTrue ==
    \A u \in Users, k \in Keys : crowd[u][k] \in Calm =>
        TrueKey(u, k, crowd[u][k], op, fetch[u][k], slot[u][k], row[u][k])

LEMMA KeysTrueLater ==
    ASSUME SameSession,
           \A u \in Users, k \in Keys : crowd'[u][k] \in Calm =>
              TrueKey(u, k, crowd'[u][k], op', fetch'[u][k], slot'[u][k], row'[u][k])
    PROVE  KeysTrue'
<1>1. ASSUME NEW u, NEW k
      PROVE  TrueKey(u, k, crowd[u][k], op, fetch[u][k], slot[u][k], row[u][k])'
                <=> TrueKey(u, k, crowd'[u][k], op', fetch'[u][k], slot'[u][k], row'[u][k])
  BY DEF SameSession, TrueKey, TrueCall, LoneWrite, Compares, Covers, On, Ops, UserOf,
     KeysOf, CallOf
<1> QED BY <1>1 DEF KeysTrue

(* What the history says of a key that is still calm.                      *)
LEMMA CalmBefore ==
    ASSUME StoreTyped, NEW v \in Users, NEW u \in Users, NEW k \in Keys
    PROVE  /\ \A ks : SetCrowd(v, ks, Late)[u][k] \in Calm =>
                 SetCrowd(v, ks, Late)[u][k] = crowd[u][k] /\ ~(u = v /\ k \in ks)
           /\ \A ks : SetCrowd(v, ks, NotHealed)[u][k] \in Calm =>
                 /\ SetCrowd(v, ks, NotHealed)[u][k] = crowd[u][k]
                 /\ u = v /\ k \in ks => crowd[u][k] = "clear"
           /\ \A ks : SetCrowd(v, ks, Healed)[u][k] \in Calm =>
                 /\ crowd[u][k] \in Calm
                 /\ IF u = v /\ k \in ks THEN SetCrowd(v, ks, Healed)[u][k] = "clear"
                    ELSE SetCrowd(v, ks, Healed)[u][k] = crowd[u][k]
           /\ \A ks : CrowdOfWrite(v, ks)[u][k] \in Calm =>
                 /\ CrowdOfWrite(v, ks)[u][k] = crowd[u][k]
                 /\ u = v /\ k \in ks => ~Meets(u, k)
           /\ \A l \in Keys : CrowdOfRead(v, l)[u][k] \in Calm =>
                 /\ u = v /\ k = l => ~WriteMeets(u, k)
                 /\ \/ CrowdOfRead(v, l)[u][k] = crowd[u][k]
                    \/ u = v /\ k = l /\ ~Meets(u, k) /\ CrowdOfRead(v, l)[u][k] = "healing"
<1>0. crowd[u][k] \in Crowds /\ crowd \in CrowdType
  BY DEF StoreTyped, CrowdType
<1>1. /\ Late[crowd[u][k]] \notin Calm
      /\ NotHealed[crowd[u][k]] \in Calm
            => crowd[u][k] = "clear" /\ NotHealed[crowd[u][k]] = "clear"
      /\ Healed[crowd[u][k]] \in Calm => crowd[u][k] \in Calm /\ Healed[crowd[u][k]] = "clear"
  BY <1>0 DEF Late, Healed, NotHealed, Calm, Crowds
<1>2. ASSUME NEW ks, NEW change
      PROVE  SetCrowd(v, ks, change)[u][k] = IF u = v /\ k \in ks THEN change[crowd[u][k]]
                                             ELSE crowd[u][k]
  BY <1>0 DEF SetCrowd, CrowdType
<1>3. ASSUME NEW ks, CrowdOfWrite(v, ks)[u][k] \in Calm
      PROVE  /\ CrowdOfWrite(v, ks)[u][k] = crowd[u][k]
             /\ u = v /\ k \in ks => ~Meets(u, k)
  <2>1. CASE u = v
    <3>1. CrowdOfWrite(v, ks)[u][k] =
            IF k \notin ks THEN crowd[u][k]
            ELSE IF WriteMeets(u, k) THEN "mixed"
            ELSE IF Meets(u, k) THEN Late[crowd[u][k]] ELSE crowd[u][k]
      BY <1>0, <2>1 DEF CrowdOfWrite, CrowdType
    <3> QED BY <1>1, <1>3, <3>1 DEF Calm
  <2>2. CASE u # v
    BY <1>0, <1>3, <2>2 DEF CrowdOfWrite, CrowdType
  <2> QED BY <2>1, <2>2
<1>4. ASSUME NEW l \in Keys, CrowdOfRead(v, l)[u][k] \in Calm
      PROVE  /\ u = v /\ k = l => ~WriteMeets(u, k)
             /\ \/ CrowdOfRead(v, l)[u][k] = crowd[u][k]
                \/ u = v /\ k = l /\ ~Meets(u, k) /\ CrowdOfRead(v, l)[u][k] = "healing"
  <2>1. CASE u = v /\ k = l
    <3>1. CrowdOfRead(v, l)[u][k] =
            IF WriteMeets(u, k)
            THEN IF LoadStage(u, k) = "hash" THEN "mixed" ELSE Late[crowd[u][k]]
            ELSE IF crowd[u][k] = "late" /\ ~Meets(u, k) THEN "healing" ELSE crowd[u][k]
      BY <1>0, <2>1 DEF CrowdOfRead, CrowdType
    <3> QED BY <1>1, <1>4, <2>1, <3>1 DEF Calm
  <2>2. CASE ~(u = v /\ k = l)
    BY <1>0, <1>4, <2>2 DEF CrowdOfRead, CrowdType
  <2> QED BY <2>1, <2>2
<1> QED BY <1>1, <1>2, <1>3, <1>4

(* One call moves on, begins or ends.                                      *)
LEMMA OneCallMovesTrue ==
    ASSUME NEW u, NEW k, NEW c \in Calm, NEW ops, DOMAIN ops = Ops, NEW f, NEW entry, NEW v,
           TrueKey(u, k, c, ops, f, entry, v),
           NEW i \in Ops, NEW o, NEW c2 \in Calm, NEW next,
           On(i, o, u, k) =>
              /\ TrueCall(i, o, k, c2, next, v)
              /\ CallOf(i) \notin Reads =>
                    /\ c2 = "clear" /\ f = NoFetch
                    /\ \A j \in Ops : j # i /\ On(j, ops[j], u, k) => CallOf(j) = "rangeReload"
              /\ CallOf(i) = "reload" =>
                    \A j \in Ops : j # i /\ On(j, ops[j], u, k) => CallOf(j) \in Reads,
           \/ c2 = "clear"
           \/ /\ c2 = c /\ next \in {entry, NoSlot}
              /\ On(i, ops[i], u, k) /\ CallOf(i) = "reload" => f # NoFetch \/ On(i, o, u, k),
           \/ next = NoSlot \/ Content(next) = v
           \/ On(i, o, u, k) /\ Covers(i, o)
           \/ /\ next = entry /\ c2 = c
              /\ On(i, ops[i], u, k) /\ Covers(i, ops[i]) => On(i, o, u, k) /\ Covers(i, o)
    PROVE  TrueKey(u, k, c2, [ops EXCEPT ![i] = o], f, next, v)
<1> DEFINE ops2 == [ops EXCEPT ![i] = o]
<1>0. \A j \in Ops : ops2[j] = IF j = i THEN o ELSE ops[j]
  OBVIOUS
<1> HIDE DEF ops2
<1>1. f # NoFetch /\ f.read => f.rows[k] = v
  BY DEF TrueKey
<1>2. ASSUME NEW j \in Ops, On(j, ops2[j], u, k)
      PROVE  /\ TrueCall(j, ops2[j], k, c2, next, v)
             /\ CallOf(j) \notin Reads => c2 = "clear" /\ LoneWrite(j, u, k, ops2, f)
  <2>1. CASE j = i
    <3>1. ops2[j] = o /\ On(i, o, u, k)
      BY <1>0, <1>2, <2>1
    <3>2. CallOf(i) \notin Reads => LoneWrite(i, u, k, ops2, f)
      BY <1>0, <3>1 DEF LoneWrite
    <3> QED BY <2>1, <3>1, <3>2
  <2>2. CASE j # i
    <3>1. ops2[j] = ops[j] /\ On(j, ops[j], u, k)
      BY <1>0, <1>2, <2>2
    <3>2. TrueCall(j, ops[j], k, c, entry, v)
      BY <3>1 DEF TrueKey
    <3>3. TrueCall(j, ops[j], k, c2, next, v)
      BY <3>2 DEF TrueCall
    <3>4. ASSUME CallOf(j) \notin Reads
          PROVE  c2 = "clear" /\ LoneWrite(j, u, k, ops2, f)
      <4>1. c = "clear" /\ LoneWrite(j, u, k, ops, f)
        BY <3>1, <3>4 DEF TrueKey
      <4>2. On(i, o, u, k) => CallOf(i) = "rangeReload"
        BY <2>2, <3>1, <3>4 DEF Reads
      <4>3. LoneWrite(j, u, k, ops2, f)
        BY <1>0, <4>1, <4>2 DEF LoneWrite
      <4> QED BY <4>1, <4>3
    <3> QED BY <3>1, <3>3, <3>4
  <2> QED BY <2>1, <2>2
<1>3. ASSUME c2 = "clear", next # NoSlot,
             \A j \in Ops : On(j, ops2[j], u, k) => ~Covers(j, ops2[j])
      PROVE  Content(next) = v
  <2>1. On(i, o, u, k) => ~Covers(i, o)
    BY <1>0, <1>3
  <2>2. CASE Content(next) = v
    BY <2>2
  <2>3. CASE /\ next = entry /\ c2 = c
             /\ On(i, ops[i], u, k) /\ Covers(i, ops[i]) => On(i, o, u, k) /\ Covers(i, o)
    <3>1. \A j \in Ops : On(j, ops[j], u, k) => ~Covers(j, ops[j])
      BY <1>0, <1>3, <2>1, <2>3
    <3> QED BY <1>3, <2>3, <3>1 DEF TrueKey
  <2> QED BY <1>3, <2>1, <2>2, <2>3
<1>4. ASSUME c2 = "healing"
      PROVE  f # NoFetch \/ \E j \in Ops : On(j, ops2[j], u, k) /\ CallOf(j) = "reload"
  <2>1. c = "healing" /\ (On(i, ops[i], u, k) /\ CallOf(i) = "reload"
                          => f # NoFetch \/ On(i, o, u, k))
    BY <1>4
  <2>2. f # NoFetch \/ \E j \in Ops : On(j, ops[j], u, k) /\ CallOf(j) = "reload"
    BY <2>1 DEF TrueKey
  <2> QED BY <1>0, <2>1, <2>2
<1> QED BY <1>1, <1>2, <1>3, <1>4 DEF TrueKey, ops2

(* What is noted of other calls does not matter.                           *)
LEMMA NotesStayTrue ==
    ASSUME NEW u, NEW k, NEW c, NEW ops, NEW ops2, NEW f, NEW entry, NEW v,
           TrueKey(u, k, c, ops, f, entry, v),
           \A i \in Ops : /\ ops2[i].stage = ops[i].stage /\ ops2[i].session = ops[i].session
                          /\ ops2[i].base = ops[i].base /\ ops2[i].fresh = ops[i].fresh
                          /\ ops2[i].rows = ops[i].rows
    PROVE  TrueKey(u, k, c, ops2, f, entry, v)
<1>1. ASSUME NEW i \in Ops
      PROVE  /\ On(i, ops2[i], u, k) <=> On(i, ops[i], u, k)
             /\ TrueCall(i, ops2[i], k, c, entry, v) <=> TrueCall(i, ops[i], k, c, entry, v)
             /\ Covers(i, ops2[i]) <=> Covers(i, ops[i])
             /\ LoneWrite(i, u, k, ops2, f) <=> LoneWrite(i, u, k, ops, f)
  <2>1. \A j \in Ops : On(j, ops2[j], u, k) <=> On(j, ops[j], u, k)
    BY DEF On
  <2> QED BY <2>1 DEF TrueCall, Compares, Covers, LoneWrite
<1> QED BY <1>1 DEF TrueKey

(* With nobody at the key, only its slot is to be compared with the row.   *)
Nobody(u, k, ops, f) == f = NoFetch /\ \A j \in Ops : ~On(j, ops[j], u, k)

LEMMA NobodyMeets ==
    ASSUME NEW u, NEW k, ~Meets(u, k)
    PROVE  Nobody(u, k, op, fetch[u][k])
BY DEF Meets, InFlight, On, OpUser, Nobody

LEMMA NobodyTrue ==
    ASSUME NEW u, NEW k, NEW ops, NEW f, NEW entry, NEW v, Nobody(u, k, ops, f),
           entry = NoSlot \/ Content(entry) = v
    PROVE  TrueKey(u, k, "clear", ops, f, entry, v)
BY DEF TrueKey, Nobody

CalmPre == SessionTypeOK /\ KeyedTyped /\ SameSession /\ KeysHonest /\ KeysTrue

(* The shape a step of call i leaves, for one key.                         *)
LEMMA CallElsewhereTrue ==
    ASSUME CalmPre, NEW i \in Ops, NEW o, NEW u \in Users, NEW k \in Keys,
           crowd[u][k] \in Calm, ~On(i, op[i], u, k), ~On(i, o, u, k)
    PROVE  TrueKey(u, k, crowd[u][k], [op EXCEPT ![i] = o], fetch[u][k], slot[u][k], row[u][k])
<1>1. /\ TrueKey(u, k, crowd[u][k], op, fetch[u][k], slot[u][k], row[u][k])
      /\ DOMAIN op = Ops
  BY DEF CalmPre, KeysTrue, KeyedTyped, OpsTyped
<1> QED BY <1>1, OneCallMovesTrue

LEMMA BegunMore ==
    ASSUME NEW stage, NEW n, NEW base, NEW hash, NEW tries
    PROVE  LET o == BegunOp(stage, n, base, hash, tries)
           IN  o.stage = stage /\ o.session = n /\ o.base = base /\ ~o.fresh
BY DEF BegunOp, IdleOp

(* A call that begins where nobody is.                                     *)
LEMMA BeginsAlone ==
    ASSUME CalmPre, NEW i \in Ops, NEW o, NEW u \in Users, NEW k \in Keys, NEW c \in Calm,
           ~Meets(u, k), NEW next, On(i, o, u, k), TrueCall(i, o, k, c, next, row[u][k]),
           c = "clear" =>
              \/ Covers(i, o)
              \/ next = slot[u][k] /\ crowd[u][k] = "clear",
           c = "healing" => CallOf(i) = "reload"
    PROVE  TrueKey(u, k, c, [op EXCEPT ![i] = o], fetch[u][k], next, row[u][k])
<1>1. Nobody(u, k, op, fetch[u][k]) /\ DOMAIN op = Ops
  BY NobodyMeets DEF CalmPre, KeyedTyped, OpsTyped
<1> DEFINE ops2 == [op EXCEPT ![i] = o]
<1>2. \A j \in Ops : ops2[j] = IF j = i THEN o ELSE op[j]
  BY <1>1
<1> HIDE DEF ops2
<1>3. \A j \in Ops : On(j, ops2[j], u, k) => j = i
  BY <1>1, <1>2 DEF Nobody
<1>4. ASSUME NEW j \in Ops, On(j, ops2[j], u, k)
      PROVE  /\ TrueCall(j, ops2[j], k, c, next, row[u][k])
             /\ CallOf(j) \notin Reads => c = "clear" /\ LoneWrite(j, u, k, ops2, fetch[u][k])
  BY <1>1, <1>2, <1>3, <1>4 DEF LoneWrite, Nobody, Reads, Calm
<1>5. ASSUME c = "clear", next # NoSlot,
             \A j \in Ops : On(j, ops2[j], u, k) => ~Covers(j, ops2[j])
      PROVE  Content(next) = row[u][k]
  <2>1. next = slot[u][k] /\ crowd[u][k] = "clear"
    BY <1>2, <1>5
  <2>2. TrueKey(u, k, crowd[u][k], op, fetch[u][k], slot[u][k], row[u][k])
    BY <2>1 DEF CalmPre, KeysTrue, Calm
  <2> QED BY <1>1, <1>5, <2>1, <2>2 DEF TrueKey, Nobody
<1> QED BY <1>1, <1>2, <1>4, <1>5 DEF TrueKey, Nobody, ops2

(* The slot where nobody is shows the row.                                 *)
LEMMA SlotAlone ==
    ASSUME CalmPre, NEW u \in Users, NEW k \in Keys, crowd[u][k] \in Calm, ~Meets(u, k)
    PROVE  crowd[u][k] = "clear" /\ (slot[u][k] # NoSlot => Content(slot[u][k]) = row[u][k])
<1>1. Nobody(u, k, op, fetch[u][k])
  BY NobodyMeets
<1>2. TrueKey(u, k, crowd[u][k], op, fetch[u][k], slot[u][k], row[u][k])
  BY DEF CalmPre, KeysTrue
<1> QED BY <1>1, <1>2 DEF TrueKey, Nobody, Calm

(* A write begins.                                                         *)
LEMMA SaveTrue ==
    ASSUME CalmPre, NEW i \in Ops, Save(i)
    PROVE  KeysTrue'
<1> USE DEF CalmPre
<1>0. /\ op \in [Ops -> OpStates] /\ op[i].stage = "idle" /\ StoreTyped
      /\ CallOf(i) = "save" /\ TheKey(i) \in Keys /\ KeysOf(i) = {TheKey(i)}
      /\ fetch' = fetch /\ row' = row
  BY OpFacts DEF KeyedTyped, OpsTyped, Save, CanBegin
<1> SUFFICES ASSUME NEW u \in Users, NEW k \in Keys, crowd'[u][k] \in Calm
             PROVE  TrueKey(u, k, crowd'[u][k], op', fetch[u][k], slot'[u][k], row[u][k])
  BY <1>0, KeysTrueLater
<1>1. PICK n \in Callbacks(TheKey(i)) :
         LET v == UserOf(n)
             l == TheKey(i)
             previous == slot[v][l]
             hash == IF previous = NoSlot THEN Null ELSE previous.hash
         IN  /\ slot' = [slot EXCEPT ![v][l] =
                             [data |-> Passed(i), hash |-> hash, by |-> "save"]]
             /\ op' = Began(i, n, "send", previous, hash, 0)
             /\ crowd' = CrowdOfWrite(v, {l})
  BY DEF Save
<1> DEFINE v == UserOf(n)
           l == TheKey(i)
           previous == slot[v][l]
           hash == IF previous = NoSlot THEN Null ELSE previous.hash
           e == [data |-> Passed(i), hash |-> hash, by |-> "save"]
           o == BegunOp("send", n, previous, hash, 0)
<1>2. v \in Users
  BY SessionFacts DEF Callbacks
<1>3. crowd'[u][k] = crowd[u][k] /\ (u = v /\ k = l => ~Meets(u, k))
  BY <1>0, <1>1, <1>2, CalmBefore
<1>4. /\ op' = [op EXCEPT ![i] = o] /\ o.stage = "send" /\ o.session = n /\ o.base = previous
      /\ slot'[u][k] = IF u = v /\ k = l THEN e ELSE slot[u][k]
  BY <1>0, <1>1, <1>2, BegunFields DEF Began, BegunOp, StoreTyped, SlotType
<1> HIDE DEF o, e
<1>5. CASE u = v /\ k = l
  <2>1. crowd[u][k] = "clear" /\ (slot[u][k] # NoSlot => Content(slot[u][k]) = row[u][k])
    BY <1>3, <1>5, SlotAlone
  <2>2. On(i, o, u, k) /\ Covers(i, o)
    BY <1>0, <1>4, <1>5 DEF On, Covers
  <2>3. TrueCall(i, o, k, "clear", e, row[u][k])
    BY <1>0, <1>4, <1>5, <2>1 DEF TrueCall, Reads
  <2>4. TrueKey(u, k, "clear", [op EXCEPT ![i] = o], fetch[u][k], e, row[u][k])
    BY <1>3, <1>5, <2>2, <2>3, BeginsAlone DEF Calm
  <2> QED BY <1>3, <1>4, <1>5, <2>1, <2>4
<1>6. CASE ~(u = v /\ k = l)
  <2>1. ~On(i, o, u, k) /\ ~On(i, op[i], u, k) /\ slot'[u][k] = slot[u][k]
    BY <1>0, <1>4, <1>6 DEF On
  <2> QED BY <1>3, <1>4, <2>1, CallElsewhereTrue
<1> QED BY <1>5, <1>6

LEMMA WriteTrue ==
    ASSUME CalmPre, NEW i \in Ops, Write(i)
    PROVE  KeysTrue'
<1> USE DEF CalmPre
<1>0. /\ op \in [Ops -> OpStates] /\ op[i].stage = "idle" /\ StoreTyped
      /\ CallOf(i) \in {"set", "createMany"} /\ UNCHANGED << fetch, row, slot >>
  BY DEF KeyedTyped, OpsTyped, Write, CanBegin
<1> SUFFICES ASSUME NEW u \in Users, NEW k \in Keys, crowd'[u][k] \in Calm
             PROVE  TrueKey(u, k, crowd'[u][k], op', fetch[u][k], slot[u][k], row[u][k])
  BY <1>0, KeysTrueLater
<1> DEFINE o == BegunOp("send", session, NoSlot, Null, 0)
           v == UserOf(session)
<1>1. /\ op' = [op EXCEPT ![i] = o] /\ o.stage = "send" /\ o.session = session
      /\ crowd' = CrowdOfWrite(v, KeysOf(i)) /\ v \in Users
  BY SessionFacts, BegunFields DEF Write, Began, BegunOp
<1> HIDE DEF o
<1>2. crowd'[u][k] = crowd[u][k] /\ (u = v /\ k \in KeysOf(i) => ~Meets(u, k))
  BY <1>0, <1>1, CalmBefore
<1>3. CASE On(i, o, u, k)
  <2>1. ~Meets(u, k)
    BY <1>1, <1>2, <1>3 DEF On
  <2>2. crowd[u][k] = "clear"
    BY <1>2, <2>1, SlotAlone
  <2>3. TrueCall(i, o, k, "clear", slot[u][k], row[u][k])
    BY <1>0, <1>1 DEF TrueCall, Reads
  <2>4. TrueKey(u, k, "clear", [op EXCEPT ![i] = o], fetch[u][k], slot[u][k], row[u][k])
    BY <1>3, <2>1, <2>2, <2>3, BeginsAlone DEF Calm
  <2> QED BY <1>1, <1>2, <2>2, <2>4
<1>4. CASE ~On(i, o, u, k)
  <2>1. ~On(i, op[i], u, k)
    BY <1>0 DEF On
  <2> QED BY <1>1, <1>2, <1>4, <2>1, CallElsewhereTrue
<1> QED BY <1>3, <1>4

LEMMA MutateTrue ==
    ASSUME CalmPre, NEW i \in Ops, Mutate(i)
    PROVE  KeysTrue'
<1> USE DEF CalmPre
<1>0. /\ op \in [Ops -> OpStates] /\ op[i].stage = "idle" /\ StoreTyped
      /\ CallOf(i) = "mutate" /\ TheKey(i) \in Keys /\ KeysOf(i) = {TheKey(i)}
      /\ UNCHANGED << fetch, row, slot >>
  BY OpFacts DEF KeyedTyped, OpsTyped, Mutate, CanBegin
<1> SUFFICES ASSUME NEW u \in Users, NEW k \in Keys, crowd'[u][k] \in Calm
             PROVE  TrueKey(u, k, crowd'[u][k], op', fetch[u][k], slot[u][k], row[u][k])
  BY <1>0, KeysTrueLater
<1> DEFINE v == UserOf(session)
           l == TheKey(i)
           o == BegunOp(LoadStage(v, l), session, slot[v][l], Null, MaxAttempts)
<1>1. /\ op' = [op EXCEPT ![i] = o] /\ o.stage = LoadStage(v, l) /\ o.session = session
      /\ o.base = slot[v][l] /\ ~o.fresh
      /\ crowd' = CrowdOfWrite(v, KeysOf(i)) /\ v \in Users
  BY SessionFacts, BegunMore DEF Mutate, BeganLoad, Began, BegunOp
<1> HIDE DEF o
<1>2. crowd'[u][k] = crowd[u][k] /\ (u = v /\ k \in KeysOf(i) => ~Meets(u, k))
  BY <1>0, <1>1, CalmBefore
<1>3. CASE On(i, o, u, k)
  <2>1. ~Meets(u, k) /\ u = v /\ k = l
    BY <1>0, <1>1, <1>2, <1>3 DEF On
  <2>2. crowd[u][k] = "clear"
    BY <1>2, <2>1, SlotAlone
  <2>3. TrueCall(i, o, k, "clear", slot[u][k], row[u][k])
    BY <1>0, <1>1, <2>1 DEF TrueCall, LoadStage
  <2>4. TrueKey(u, k, "clear", [op EXCEPT ![i] = o], fetch[u][k], slot[u][k], row[u][k])
    BY <1>3, <2>1, <2>2, <2>3, BeginsAlone DEF Calm
  <2> QED BY <1>1, <1>2, <2>2, <2>4
<1>4. CASE ~On(i, o, u, k)
  <2>1. ~On(i, op[i], u, k)
    BY <1>0 DEF On
  <2> QED BY <1>1, <1>2, <1>4, <2>1, CallElsewhereTrue
<1> QED BY <1>3, <1>4

(* A read begins: it heals a key that is late, if it finds nobody there.   *)
LEMMA ReloadTrue ==
    ASSUME CalmPre, NEW i \in Ops, Reload(i)
    PROVE  KeysTrue'
<1> USE DEF CalmPre
<1>0. /\ op \in [Ops -> OpStates] /\ op[i].stage = "idle" /\ StoreTyped
      /\ CallOf(i) = "reload" /\ TheKey(i) \in Keys /\ KeysOf(i) = {TheKey(i)}
      /\ UNCHANGED << fetch, row, slot >>
  BY OpFacts DEF KeyedTyped, OpsTyped, Reload, CanBegin
<1> SUFFICES ASSUME NEW u \in Users, NEW k \in Keys, crowd'[u][k] \in Calm
             PROVE  TrueKey(u, k, crowd'[u][k], op', fetch[u][k], slot[u][k], row[u][k])
  BY <1>0, KeysTrueLater
<1>1. PICK n \in Callbacks(TheKey(i)) : /\ op' = BeganLoad(i, n, 0)
                                        /\ crowd' = CrowdOfRead(UserOf(n), TheKey(i))
  BY DEF Reload
<1> DEFINE v == UserOf(n)
           l == TheKey(i)
           o == BegunOp(LoadStage(v, l), n, slot[v][l], Null, 0)
<1>2. /\ op' = [op EXCEPT ![i] = o] /\ o.stage = LoadStage(v, l) /\ o.session = n
      /\ o.base = slot[v][l] /\ ~o.fresh /\ v \in Users
  BY <1>1, SessionFacts, BegunMore DEF BeganLoad, Began, BegunOp, Callbacks
<1> HIDE DEF o
<1>3. /\ u = v /\ k = l => ~WriteMeets(u, k)
      /\ \/ crowd'[u][k] = crowd[u][k]
         \/ u = v /\ k = l /\ ~Meets(u, k) /\ crowd'[u][k] = "healing"
  BY <1>0, <1>1, <1>2, CalmBefore
<1>4. CASE On(i, o, u, k)
  <2>1. u = v /\ k = l /\ o.stage \in {"hash", "read"}
    BY <1>0, <1>2, <1>4 DEF On, LoadStage
  <2>2. \A c : TrueCall(i, o, k, c, slot[u][k], row[u][k])
    BY <1>0, <1>2, <2>1 DEF TrueCall, LoadStage
  <2>3. CASE crowd'[u][k] = crowd[u][k]
    <3>1. \A j \in Ops : On(j, op[j], u, k) => CallOf(j) \in Reads
      BY <1>3, <2>1, WriteMeetsOn
    <3>2. TrueKey(u, k, crowd[u][k], op, fetch[u][k], slot[u][k], row[u][k])
      BY <2>3 DEF KeysTrue
    <3>3. ~On(i, op[i], u, k) /\ CallOf(i) \in Reads
      BY <1>0 DEF On, Reads
    <3> QED BY <1>0, <1>2, <1>4, <2>2, <2>3, <3>1, <3>2, <3>3, OneCallMovesTrue
  <2>4. CASE ~Meets(u, k) /\ crowd'[u][k] = "healing"
    <3>1. TrueKey(u, k, "healing", [op EXCEPT ![i] = o], fetch[u][k], slot[u][k], row[u][k])
      BY <1>0, <1>4, <2>2, <2>4, BeginsAlone DEF Calm
    <3> QED BY <1>2, <2>4, <3>1
  <2> QED BY <1>3, <2>3, <2>4
<1>5. CASE ~On(i, o, u, k)
  <2>1. ~On(i, op[i], u, k)
    BY <1>0 DEF On
  <2>2. ~(u = v /\ k = l)
    BY <1>0, <1>2, <1>5 DEF On, LoadStage
  <2> QED BY <1>2, <1>3, <1>5, <2>1, <2>2, CallElsewhereTrue
<1> QED BY <1>4, <1>5

LEMMA RangeReloadTrue ==
    ASSUME CalmPre, NEW i \in Ops, RangeReload(i)
    PROVE  KeysTrue'
<1> USE DEF CalmPre
<1>0. /\ op \in [Ops -> OpStates] /\ op[i].stage = "idle"
      /\ CallOf(i) = "rangeReload" /\ UNCHANGED << fetch, row, slot, crowd >>
  BY DEF KeyedTyped, OpsTyped, RangeReload, CanBegin
<1> SUFFICES ASSUME NEW u \in Users, NEW k \in Keys, crowd[u][k] \in Calm
             PROVE  TrueKey(u, k, crowd[u][k], op', fetch[u][k], slot[u][k], row[u][k])
  BY <1>0, KeysTrueLater
<1>1. PICK n \in Callbacks(RangeTarget) : op' = Began(i, n, "read", NoSlot, Null, 0)
  BY DEF RangeReload
<1> DEFINE o == BegunOp("read", n, NoSlot, Null, 0)
<1>2. op' = [op EXCEPT ![i] = o] /\ o.stage = "read"
  BY <1>1, BegunFields DEF Began, BegunOp
<1> HIDE DEF o
<1>3. TrueCall(i, o, k, crowd[u][k], slot[u][k], row[u][k])
  BY <1>0, <1>2 DEF TrueCall, Compares
<1>4. TrueKey(u, k, crowd[u][k], op, fetch[u][k], slot[u][k], row[u][k])
  BY DEF KeysTrue
<1>5. ~On(i, op[i], u, k) /\ CallOf(i) \in Reads
  BY <1>0 DEF On, Reads
<1> QED BY <1>0, <1>2, <1>3, <1>4, <1>5, OneCallMovesTrue

(* What a call under way may rely on.                                      *)
LEMMA CallOnFacts ==
    ASSUME CalmPre, NEW i \in Ops, NEW u \in Users, NEW k \in Keys, crowd[u][k] \in Calm,
           On(i, op[i], u, k)
    PROVE  /\ TrueKey(u, k, crowd[u][k], op, fetch[u][k], slot[u][k], row[u][k])
           /\ TrueCall(i, op[i], k, crowd[u][k], slot[u][k], row[u][k])
           /\ CallOf(i) \notin Reads =>
                 /\ crowd[u][k] = "clear" /\ fetch[u][k] = NoFetch
                 /\ \A j \in Ops : j # i /\ On(j, op[j], u, k) => CallOf(j) = "rangeReload"
           /\ CallOf(i) = "reload" =>
                 \A j \in Ops : j # i /\ On(j, op[j], u, k) => CallOf(j) \in Reads
<1>1. TrueKey(u, k, crowd[u][k], op, fetch[u][k], slot[u][k], row[u][k])
  BY DEF CalmPre, KeysTrue
<1>2. ASSUME CallOf(i) = "reload", NEW j \in Ops, j # i, On(j, op[j], u, k), CallOf(j) \notin Reads
      PROVE  FALSE
  BY <1>1, <1>2 DEF TrueKey, LoneWrite
<1> QED BY <1>1, <1>2 DEF TrueKey, LoneWrite

(* A call goes from one await to the next.                                 *)
LEMMA CallGoesOn ==
    ASSUME CalmPre, NEW i \in Ops, NEW o, NEW u \in Users, NEW k \in Keys, crowd[u][k] \in Calm,
           op[i].stage \notin {"idle", "done"}, o.stage \notin {"idle", "done"},
           o.session = op[i].session, NEW next,
           On(i, op[i], u, k) => TrueCall(i, o, k, crowd[u][k], next, row[u][k]),
           Covers(i, op[i]) => Covers(i, o),
           next = slot[u][k] \/ (Content(next) = row[u][k] /\ crowd[u][k] = "clear")
    PROVE  TrueKey(u, k, crowd[u][k], [op EXCEPT ![i] = o], fetch[u][k], next, row[u][k])
<1>1. On(i, o, u, k) <=> On(i, op[i], u, k)
  BY DEF On
<1>2. /\ TrueKey(u, k, crowd[u][k], op, fetch[u][k], slot[u][k], row[u][k])
      /\ DOMAIN op = Ops
  BY DEF CalmPre, KeysTrue, KeyedTyped, OpsTyped
<1>3. CASE On(i, op[i], u, k)
  <2>1. /\ CallOf(i) \notin Reads =>
                 /\ crowd[u][k] = "clear" /\ fetch[u][k] = NoFetch
                 /\ \A j \in Ops : j # i /\ On(j, op[j], u, k) => CallOf(j) = "rangeReload"
        /\ CallOf(i) = "reload" =>
                 \A j \in Ops : j # i /\ On(j, op[j], u, k) => CallOf(j) \in Reads
    BY <1>3, CallOnFacts
  <2> QED BY <1>1, <1>2, <1>3, <2>1, OneCallMovesTrue
<1>4. CASE ~On(i, op[i], u, k)
  BY <1>1, <1>2, <1>4, OneCallMovesTrue
<1> QED BY <1>3, <1>4

(* A call ends.                                                            *)
LEMMA CallIsOver ==
    ASSUME CalmPre, NEW i \in Ops, NEW u \in Users, NEW k \in Keys, crowd[u][k] \in Calm,
           NEW c \in Calm, NEW next,
           c = "clear" \/ (/\ c = crowd[u][k] /\ next = slot[u][k]
                           /\ ~(On(i, op[i], u, k) /\ CallOf(i) = "reload")),
           \/ next = NoSlot \/ Content(next) = row[u][k]
           \/ /\ next = slot[u][k] /\ c = crowd[u][k]
              /\ ~(On(i, op[i], u, k) /\ Covers(i, op[i]))
    PROVE  TrueKey(u, k, c, [op EXCEPT ![i] = [IdleOp EXCEPT !.stage = "done"]],
                   fetch[u][k], next, row[u][k])
<1> DEFINE o == [IdleOp EXCEPT !.stage = "done"]
<1>1. /\ TrueKey(u, k, crowd[u][k], op, fetch[u][k], slot[u][k], row[u][k])
      /\ DOMAIN op = Ops
  BY DEF CalmPre, KeysTrue, KeyedTyped, OpsTyped
<1>2. ~On(i, o, u, k)
  BY DoneIsOver
<1> HIDE DEF o
<1>3. TrueKey(u, k, c, [op EXCEPT ![i] = o], fetch[u][k], next, row[u][k])
  BY <1>1, <1>2, OneCallMovesTrue
<1> QED BY <1>3 DEF o

LEMMA StagesTrue ==
    ASSUME CalmPre, NEW i \in Ops, GetHash(i) \/ ReadsRows(i) \/ Refused(i)
    PROVE  KeysTrue'
<1> USE DEF CalmPre
<1>0. /\ op \in [Ops -> OpStates] /\ op[i] \in OpStates /\ SoundOp(i, op[i])
      /\ OpUser(i) \in Users /\ UNCHANGED << row, slot, fetch, crowd >>
      /\ CallOf(i) # "rangeReload" /\ CallOf(i) # "createMany" =>
            TheKey(i) \in Keys /\ KeysOf(i) = {TheKey(i)}
  BY OpFacts, OpUserType DEF KeyedTyped, OpsTyped, GetHash, ReadsRows, Refused
<1> SUFFICES ASSUME NEW u \in Users, NEW k \in Keys, crowd[u][k] \in Calm
             PROVE  TrueKey(u, k, crowd[u][k], op', fetch[u][k], slot[u][k], row[u][k])
  BY <1>0, KeysTrueLater
<1>1. CASE GetHash(i)
  <2>1. PICK s \in {"loaded", "read"} :
           /\ op' = [op EXCEPT ![i].stage = s]
           /\ s = "loaded" => HashOf(row[OpUser(i)][TheKey(i)]) = op[i].base.hash
    BY <1>1 DEF GetHash
  <2> DEFINE o == [op[i] EXCEPT !.stage = s]
  <2>2. /\ op' = [op EXCEPT ![i] = o] /\ o.stage = s /\ o.session = op[i].session
        /\ o.base = op[i].base /\ op[i].stage = "hash" /\ o.fresh = op[i].fresh
    BY <1>0, <1>1, <2>1 DEF GetHash, OpStates
  <2> HIDE DEF o
  <2>3. CallOf(i) \in {"reload", "mutate"} /\ op[i].base \in Entries /\ op[i].base # NoSlot
    BY <1>0, <2>2, KeyedNullAssumption DEF SoundOp
  <2>4. ASSUME On(i, op[i], u, k)
        PROVE  TrueCall(i, o, k, crowd[u][k], slot[u][k], row[u][k])
    <3>1. TrueCall(i, op[i], k, crowd[u][k], slot[u][k], row[u][k])
      BY <2>4, CallOnFacts
    <3>2. u = OpUser(i) /\ k = TheKey(i)
      BY <1>0, <2>3, <2>4 DEF On, OpUser
    <3>3. Honest(op[i].base)
      <4>1. HonestKey(u, k, op, slot[u][k])
        BY DEF KeysHonest, Calm
      <4> QED BY <2>2, <2>3, <2>4, <4>1 DEF HonestKey, Based
    <3>4. s = "loaded" => Content(o.base) = row[u][k]
      <4>1. op[i].base.hash # Null /\ op[i].base.hash = Content(op[i].base)
        BY <2>2, <3>1, <3>3 DEF TrueCall, Honest
      <4>2. HashOf(row[u][k]) # Null => HashOf(row[u][k]) = row[u][k]
        BY DEF HashOf
      <4> QED BY <2>1, <2>2, <3>2, <4>1, <4>2
    <3> QED BY <2>1, <2>2, <2>3, <3>1, <3>4 DEF TrueCall, Compares
  <2>5. Covers(i, op[i]) => Covers(i, o)
    BY <2>2 DEF Covers
  <2>6. op[i].stage \notin {"idle", "done"} /\ o.stage \notin {"idle", "done"}
    BY <2>1, <2>2
  <2>7. TrueKey(u, k, crowd[u][k], [op EXCEPT ![i] = o], fetch[u][k], slot[u][k], row[u][k])
    BY <2>2, <2>4, <2>5, <2>6, CallGoesOn
  <2> QED BY <2>2, <2>7
<1>2. CASE ReadsRows(i)
  <2> DEFINE o == [op[i] EXCEPT !.stage = "loaded", !.rows = ListByKeyRange(OpUser(i)),
                                !.fresh = TRUE]
  <2>1. /\ op' = [op EXCEPT ![i] = o] /\ o.stage = "loaded" /\ o.session = op[i].session
        /\ o.base = op[i].base /\ o.fresh /\ op[i].stage = "read" /\ o.rows = row[OpUser(i)]
    BY <1>0, <1>2 DEF ReadsRows, OpStates, ListByKeyRange
  <2> HIDE DEF o
  <2>2. CallOf(i) \in {"reload", "mutate", "rangeReload"}
    BY <1>0, <2>1 DEF SoundOp
  <2>3. On(i, op[i], u, k) => TrueCall(i, o, k, crowd[u][k], slot[u][k], row[u][k])
    BY <2>1, <2>2 DEF TrueCall, Compares, On, OpUser
  <2>4. Covers(i, op[i]) => Covers(i, o)
    BY <2>1 DEF Covers
  <2> QED BY <2>1, <2>3, <2>4, CallGoesOn
<1>3. CASE Refused(i)
  <2>1. PICK s \in {"second", "conflict"} : op' = [op EXCEPT ![i].stage = s]
    BY <1>3 DEF Refused
  <2> DEFINE o == [op[i] EXCEPT !.stage = s]
  <2>2. /\ op' = [op EXCEPT ![i] = o] /\ o.stage = s /\ o.session = op[i].session
        /\ o.base = op[i].base /\ op[i].stage \in {"send", "second"}
    BY <1>0, <1>3, <2>1 DEF Refused, OpStates
  <2> HIDE DEF o
  <2>3. ASSUME On(i, op[i], u, k)
        PROVE  TrueCall(i, o, k, crowd[u][k], slot[u][k], row[u][k])
    <3>1. TrueCall(i, op[i], k, crowd[u][k], slot[u][k], row[u][k])
      BY <2>3, CallOnFacts
    <3> QED BY <2>2, <3>1 DEF TrueCall, Compares
  <2>4. Covers(i, op[i]) => Covers(i, o)
    BY <2>2 DEF Covers
  <2> QED BY <2>2, <2>3, <2>4, CallGoesOn
<1> QED BY <1>1, <1>2, <1>3

(* What a load of a calm key resolves to is the row.                       *)
LEMMA LoadedEntryTrue ==
    ASSUME CalmPre, NEW i \in Ops, op[i].stage = "loaded", CallOf(i) \in {"reload", "mutate"},
           crowd[OpUser(i)][TheKey(i)] \in Calm, op[i].fresh \/ CallOf(i) = "reload"
    PROVE  LoadedEntry(i) \in Entries /\ Content(LoadedEntry(i)) = row[OpUser(i)][TheKey(i)]
<1> DEFINE u == OpUser(i)
           k == TheKey(i)
<1>1. u \in Users /\ k \in Keys /\ KeysOf(i) = {k} /\ op[i] \in OpStates
  BY OpUserType, OpFacts DEF CalmPre, KeyedTyped, OpsTyped
<1>2. On(i, op[i], u, k)
  BY <1>1 DEF On, OpUser
<1>3. TrueCall(i, op[i], k, crowd[u][k], slot[u][k], row[u][k])
  BY <1>1, <1>2, CallOnFacts
<1>4. LoadedEntry(i) \in Entries
  BY LoadedEntryType DEF CalmPre, KeyedTyped
<1>5. op[i].rows[k] \in Values
  BY <1>1 DEF OpStates
<1> QED BY <1>3, <1>4, <1>5, LoadedContent DEF TrueCall, LoadedEntry

LEMMA MutateComputesTrue ==
    ASSUME CalmPre, NEW i \in Ops, MutateComputes(i)
    PROVE  KeysTrue'
<1> USE DEF CalmPre
<1>0. /\ op \in [Ops -> OpStates] /\ op[i] \in OpStates /\ StoreTyped
      /\ OpUser(i) \in Users /\ UNCHANGED << row, fetch, crowd >>
      /\ CallOf(i) = "mutate" /\ op[i].stage = "loaded"
      /\ TheKey(i) \in Keys /\ KeysOf(i) = {TheKey(i)}
  BY OpFacts, OpUserType DEF KeyedTyped, OpsTyped, MutateComputes
<1> SUFFICES ASSUME NEW u \in Users, NEW k \in Keys, crowd[u][k] \in Calm
             PROVE  TrueKey(u, k, crowd[u][k], op', fetch[u][k], slot'[u][k], row[u][k])
  BY <1>0, KeysTrueLater
<1> DEFINE o == [op[i] EXCEPT !.stage = "send", !.expected = LoadedEntry(i).hash]
           v == OpUser(i)
           l == TheKey(i)
<1>1. /\ op' = [op EXCEPT ![i] = o] /\ o.stage = "send" /\ o.session = op[i].session
      /\ o.base = op[i].base
  BY <1>0 DEF MutateComputes, OpStates
<1> HIDE DEF o
<1>2. slot'[u][k] = slot[u][k] \/ (Content(slot'[u][k]) = row[u][k] /\ crowd[u][k] = "clear")
  <2>1. CASE u = v /\ k = l /\ op[i].fresh
    <3>1. Content(LoadedEntry(i)) = row[u][k]
      BY <1>0, <2>1, LoadedEntryTrue
    <3>2. crowd[u][k] = "clear"
      <4>1. On(i, op[i], u, k)
        BY <1>0, <2>1 DEF On, OpUser
      <4> QED BY <1>0, <4>1, CallOnFacts DEF Reads
    <3>3. slot'[u][k] \in {slot[u][k], LoadedEntry(i)}
      BY <1>0, <2>1 DEF MutateComputes, SlotOfLoad, StoreTyped, SlotType
    <3> QED BY <3>1, <3>2, <3>3
  <2>2. CASE ~(u = v /\ k = l /\ op[i].fresh)
    BY <1>0, <2>2 DEF MutateComputes, SlotOfLoad, StoreTyped, SlotType
  <2> QED BY <2>1, <2>2
<1>3. TrueCall(i, o, k, crowd[u][k], slot'[u][k], row[u][k])
  BY <1>0, <1>1 DEF TrueCall, Compares, Reads
<1>4. ~Covers(i, op[i])
  BY <1>0 DEF Covers
<1> QED BY <1>0, <1>1, <1>2, <1>3, <1>4, CallGoesOn

LEMMA ReloadResolvesTrue ==
    ASSUME CalmPre, NEW i \in Ops, ReloadResolves(i)
    PROVE  KeysTrue'
<1> USE DEF CalmPre
<1> DEFINE v == OpUser(i)
           l == TheKey(i)
<1>0. /\ op \in [Ops -> OpStates] /\ op[i] \in OpStates /\ StoreTyped
      /\ v \in Users /\ UNCHANGED << row, fetch >>
      /\ CallOf(i) = "reload" /\ op[i].stage = "loaded"
      /\ l \in Keys /\ KeysOf(i) = {l}
      /\ op' = [op EXCEPT ![i] = [IdleOp EXCEPT !.stage = "done"]]
  BY OpFacts, OpUserType DEF KeyedTyped, OpsTyped, ReloadResolves
<1> SUFFICES ASSUME NEW u \in Users, NEW k \in Keys, crowd'[u][k] \in Calm
             PROVE  TrueKey(u, k, crowd'[u][k], op', fetch[u][k], slot'[u][k], row[u][k])
  BY <1>0, KeysTrueLater
<1>1. CASE u = v /\ k = l
  <2>0. On(i, op[i], u, k)
    BY <1>0, <1>1 DEF On, OpUser
  <2>1. CASE StillSignedIn(v) \/ Hashed
    <3>1. crowd' = SetCrowd(v, {l}, Healed)
      BY <2>1 DEF ReloadResolves
    <3>2. crowd[u][k] \in Calm /\ crowd'[u][k] = "clear"
      BY <1>0, <1>1, <3>1, CalmBefore
    <3>3. LoadedEntry(i) \in Entries /\ Content(LoadedEntry(i)) = row[u][k]
      BY <1>0, <1>1, <3>2, LoadedEntryTrue
    <3>4. \/ Content(slot'[u][k]) = row[u][k]
          \/ slot'[u][k] = slot[u][k] /\ ~op[i].fresh
      <4>1. Content([LoadedEntry(i) EXCEPT !.by = "reload"]) = row[u][k]
        BY <3>3, KeptContent
      <4>2. \/ slot'[u][k] \in {LoadedEntry(i), [LoadedEntry(i) EXCEPT !.by = "reload"]}
            \/ slot'[u][k] = slot[u][k] /\ ~op[i].fresh
        BY <1>0, <1>1, <2>1 DEF ReloadResolves, SlotOfLoad, StoreTyped, SlotType
      <4> QED BY <3>3, <4>1, <4>2
    <3>5. CASE Content(slot'[u][k]) = row[u][k]
      <4> DEFINE next == slot'[u][k]
      <4>1. Content(next) = row[u][k]
        BY <3>5
      <4> HIDE DEF next
      <4>2. TrueKey(u, k, "clear", [op EXCEPT ![i] = [IdleOp EXCEPT !.stage = "done"]],
                    fetch[u][k], next, row[u][k])
        BY <3>2, <4>1, CallIsOver DEF Calm
      <4> QED BY <1>0, <3>2, <4>2 DEF next
    <3>6. CASE slot'[u][k] = slot[u][k] /\ ~op[i].fresh
      <4>1. TrueCall(i, op[i], k, crowd[u][k], slot[u][k], row[u][k])
        BY <2>0, <3>2, CallOnFacts
      <4>2. Content(op[i].base) = row[u][k]
        BY <1>0, <3>6, <4>1 DEF TrueCall
      <4>3. crowd[u][k] = "healing" /\ slot[u][k] # NoSlot => Content(slot[u][k]) = row[u][k]
        BY <1>0, <3>6, <4>1, <4>2 DEF TrueCall, Compares
      <4>4. ~Covers(i, op[i])
        BY <1>0 DEF Covers
      <4>5. TrueKey(u, k, "clear", [op EXCEPT ![i] = [IdleOp EXCEPT !.stage = "done"]],
                    fetch[u][k], slot[u][k], row[u][k])
        BY <3>2, <4>3, <4>4, CallIsOver DEF Calm
      <4> QED BY <1>0, <3>2, <3>6, <4>5
    <3> QED BY <3>4, <3>5, <3>6
  <2>2. CASE ~(StillSignedIn(v) \/ Hashed)
    <3>1. crowd' = SetCrowd(v, {l}, NotHealed) /\ slot' = slot
      BY <2>2 DEF ReloadResolves, SlotOfLoad
    <3>2. crowd[u][k] = "clear" /\ crowd'[u][k] = "clear"
      BY <1>0, <1>1, <3>1, CalmBefore
    <3>3. ~Covers(i, op[i])
      BY <1>0 DEF Covers
    <3>4. TrueKey(u, k, "clear", [op EXCEPT ![i] = [IdleOp EXCEPT !.stage = "done"]],
                  fetch[u][k], slot[u][k], row[u][k])
      BY <3>2, <3>3, CallIsOver DEF Calm
    <3> QED BY <1>0, <3>1, <3>2, <3>4
  <2> QED BY <2>1, <2>2
<1>2. CASE ~(u = v /\ k = l)
  <2>1. crowd'[u][k] = crowd[u][k]
    BY <1>0, <1>2 DEF ReloadResolves, SetCrowd, StoreTyped, CrowdType
  <2>2. slot'[u][k] = slot[u][k]
    BY <1>0, <1>2 DEF ReloadResolves, SlotOfLoad, StoreTyped, SlotType
  <2>3. ~On(i, op[i], u, k)
    BY <1>0, <1>2 DEF On, OpUser
  <2>4. ~On(i, [IdleOp EXCEPT !.stage = "done"], u, k)
    BY DoneIsOver
  <2> QED BY <1>0, <2>1, <2>2, <2>3, <2>4, CallElsewhereTrue
<1> QED BY <1>1, <1>2

LEMMA RangeReloadResolvesTrue ==
    ASSUME CalmPre, NEW i \in Ops, RangeReloadResolves(i)
    PROVE  KeysTrue'
<1>0. /\ CallOf(i) = "rangeReload" /\ UNCHANGED << row, fetch, slot, crowd >>
      /\ op' = [op EXCEPT ![i] = [IdleOp EXCEPT !.stage = "done"]]
  BY DEF RangeReloadResolves
<1>1. ~Covers(i, op[i])
  BY <1>0 DEF Covers, Reads
<1>2. ASSUME NEW u \in Users, NEW k \in Keys, crowd[u][k] \in Calm
      PROVE  TrueKey(u, k, crowd[u][k], op', fetch[u][k], slot[u][k], row[u][k])
  BY <1>0, <1>1, <1>2, CallIsOver
<1> QED BY <1>0, <1>2, KeysTrueLater DEF CalmPre

(* A landing write leaves notes with the loads and the fetch of the range. *)
LEMMA AfterWriteNotes ==
    ASSUME KeyedTyped, SessionTypeOK, NEW v \in Users
    PROVE  /\ \A u \in Users, k \in Keys : FetchAfterWrite(v)[u][k] = fetch[u][k]
           /\ DOMAIN OpsAfterWrite(v) = Ops
           /\ \A j \in Ops : LET o == OpsAfterWrite(v)[j]
                             IN  /\ o.stage = op[j].stage /\ o.session = op[j].session
                                 /\ o.base = op[j].base /\ o.fresh = op[j].fresh
                                 /\ o.rows = op[j].rows
<1>1. ASSUME NEW u \in Users, NEW k \in Keys
      PROVE  FetchAfterWrite(v)[u][k] = fetch[u][k]
  <2>1. k # RangeTarget /\ k \in Targets
    BY KeyedAssumption DEF Targets
  <2> QED BY <2>1 DEF KeyedTyped, RegistryTyped, FetchType, FetchAfterWrite
<1>2. ASSUME NEW j \in Ops
      PROVE  LET o == OpsAfterWrite(v)[j]
             IN  /\ o.stage = op[j].stage /\ o.session = op[j].session
                 /\ o.base = op[j].base /\ o.fresh = op[j].fresh
                 /\ o.rows = op[j].rows
  <2>1. PICK b \in BOOLEAN : OpsAfterWrite(v)[j] = [op[j] EXCEPT !.stale = b]
    BY AfterWriteType DEF KeyedTyped
  <2>2. op[j] \in OpStates
    BY DEF KeyedTyped, OpsTyped
  <2> QED BY <2>1, <2>2 DEF OpStates
<1> QED BY <1>1, <1>2 DEF OpsAfterWrite

LEMMA LandsTrue ==
    ASSUME CalmPre, NEW i \in Ops, Lands(i)
    PROVE  KeysTrue'
<1> USE DEF CalmPre
<1> DEFINE v == OpUser(i)
           o == [op[i] EXCEPT !.stage = "landed"]
           ops1 == [op EXCEPT ![i] = o]
<1>0. /\ op \in [Ops -> OpStates] /\ op[i] \in OpStates /\ StoreTyped
      /\ v \in Users /\ UNCHANGED << slot, crowd >> /\ op[i].stage \in {"send", "second"}
      /\ op' = [OpsAfterWrite(v) EXCEPT ![i].stage = "landed"] /\ fetch' = FetchAfterWrite(v)
  BY OpUserType DEF KeyedTyped, OpsTyped, Lands
<1>1. /\ o.stage = "landed" /\ o.session = op[i].session /\ o.base = op[i].base
      /\ o.fresh = op[i].fresh /\ o.rows = op[i].rows
  BY <1>0 DEF OpStates
<1>2. \A j \in Ops : ops1[j] = IF j = i THEN o ELSE op[j]
  BY <1>0
<1> HIDE DEF o, ops1
<1>3. \A j \in Ops : /\ op'[j].stage = ops1[j].stage /\ op'[j].session = ops1[j].session
                     /\ op'[j].base = ops1[j].base /\ op'[j].fresh = ops1[j].fresh
                     /\ op'[j].rows = ops1[j].rows
  <2> SUFFICES ASSUME NEW j \in Ops
               PROVE  /\ op'[j].stage = ops1[j].stage /\ op'[j].session = ops1[j].session
                      /\ op'[j].base = ops1[j].base /\ op'[j].fresh = ops1[j].fresh
                      /\ op'[j].rows = ops1[j].rows
    OBVIOUS
  <2> DEFINE old == OpsAfterWrite(v)[j]
  <2>1. /\ old.stage = op[j].stage /\ old.session = op[j].session
        /\ old.base = op[j].base /\ old.fresh = op[j].fresh
        /\ old.rows = op[j].rows /\ old \in OpStates /\ DOMAIN OpsAfterWrite(v) = Ops
    BY <1>0, AfterWriteNotes, AfterWriteType DEF KeyedTyped
  <2>2. op'[j] = IF j = i THEN [old EXCEPT !.stage = "landed"] ELSE old
    BY <1>0, <2>1
  <2> HIDE DEF old
  <2>3. CASE j = i
    BY <1>1, <1>2, <2>1, <2>2, <2>3 DEF OpStates
  <2>4. CASE j # i
    BY <1>2, <2>1, <2>2, <2>4
  <2> QED BY <2>3, <2>4
<1> SUFFICES ASSUME NEW u \in Users, NEW k \in Keys, crowd[u][k] \in Calm
             PROVE  TrueKey(u, k, crowd[u][k], ops1, fetch[u][k], slot[u][k], row'[u][k])
  <2>1. \A u \in Users, k \in Keys : fetch'[u][k] = fetch[u][k]
    BY <1>0, AfterWriteNotes
  <2>2. ASSUME NEW u \in Users, NEW k \in Keys, crowd[u][k] \in Calm
        PROVE  TrueKey(u, k, crowd[u][k], op', fetch[u][k], slot[u][k], row'[u][k])
    BY <1>3, <2>2, NotesStayTrue
  <2> QED BY <1>0, <2>1, <2>2, KeysTrueLater
<1>4. CASE On(i, op[i], u, k)
  <2>1. row'[u][k] = i
    BY <1>4 DEF Lands, StoreTyped, KeyedTyped, On, OpUser
  <2>2. TrueCall(i, op[i], k, crowd[u][k], slot[u][k], row[u][k])
    BY <1>4, CallOnFacts
  <2>3. CallOf(i) \notin Reads
    BY <1>0, <2>2 DEF TrueCall
  <2>4. /\ TrueKey(u, k, crowd[u][k], op, fetch[u][k], slot[u][k], row[u][k])
        /\ crowd[u][k] = "clear" /\ fetch[u][k] = NoFetch
        /\ \A j \in Ops : j # i /\ On(j, op[j], u, k) => CallOf(j) = "rangeReload"
    BY <1>4, <2>3, CallOnFacts
  <2>5. Covers(i, o) /\ On(i, o, u, k)
    BY <1>1, <1>4, <2>3 DEF Covers, On
  <2>6. ASSUME NEW j \in Ops, On(j, ops1[j], u, k)
        PROVE  /\ TrueCall(j, ops1[j], k, "clear", slot[u][k], i)
               /\ CallOf(j) \notin Reads => LoneWrite(j, u, k, ops1, fetch[u][k])
    <3>1. CASE j = i
      <4>1. TrueCall(i, o, k, "clear", slot[u][k], i)
        BY <1>1, <2>3 DEF TrueCall, Reads
      <4>2. LoneWrite(i, u, k, ops1, fetch[u][k])
        BY <1>2, <2>4 DEF LoneWrite
      <4> QED BY <1>2, <3>1, <4>1, <4>2
    <3>2. CASE j # i
      <4>1. ops1[j] = op[j] /\ CallOf(j) = "rangeReload"
        BY <1>2, <2>4, <2>6, <3>2
      <4>2. TrueCall(j, op[j], k, crowd[u][k], slot[u][k], row[u][k])
        BY <2>6, <4>1, CallOnFacts
      <4> QED BY <4>1, <4>2 DEF TrueCall, Reads
    <3> QED BY <3>1, <3>2
  <2>7. TrueKey(u, k, "clear", ops1, fetch[u][k], slot[u][k], i)
    BY <1>2, <2>4, <2>5, <2>6 DEF TrueKey
  <2> QED BY <2>1, <2>4, <2>7
<1>5. CASE ~On(i, op[i], u, k)
  <2>1. row'[u][k] = row[u][k]
    BY <1>0, <1>5 DEF Lands, StoreTyped, KeyedTyped, On, OpUser
  <2>2. ~On(i, o, u, k)
    BY <1>0, <1>1, <1>5 DEF On
  <2> QED BY <1>5, <2>1, <2>2, CallElsewhereTrue DEF ops1
<1> QED BY <1>4, <1>5

(* What a rollback leaves at a key whose row the save had read.            *)
LEMMA RolledBackTrue ==
    ASSUME CalmPre, NEW i \in Ops, CallOf(i) = "save", NEW u \in Users, NEW k \in Keys
    PROVE  /\ On(i, op[i], u, k) /\ crowd[u][k] \in Calm /\ op[i].stage # "landed"
              /\ op[i].base # NoSlot => Content(RolledBack(i)[u][k]) = row[u][k]
           /\ ~On(i, op[i], u, k) /\ InFlight(i) => RolledBack(i)[u][k] = slot[u][k]
<1>0. /\ KeysOf(i) = {TheKey(i)} /\ TheKey(i) \in Keys /\ OpUser(i) \in Users
      /\ slot \in SlotType /\ op[i] \in OpStates
  BY OpFacts, OpUserType DEF CalmPre, KeyedTyped, StoreTyped, OpsTyped
<1>1. ASSUME On(i, op[i], u, k), crowd[u][k] \in Calm, op[i].stage # "landed",
             op[i].base # NoSlot
      PROVE  Content(RolledBack(i)[u][k]) = row[u][k]
  <2>1. u = OpUser(i) /\ k = TheKey(i)
    BY <1>0, <1>1 DEF On, OpUser
  <2>2. op[i].base \in Entries
    BY <1>0, <1>1 DEF OpStates
  <2>3. Content(op[i].base) = row[u][k]
    <3>1. TrueCall(i, op[i], k, crowd[u][k], slot[u][k], row[u][k])
      BY <1>1, CallOnFacts
    <3> QED BY <1>1, <3>1 DEF TrueCall
  <2>4. RolledBack(i)[u][k] = [op[i].base EXCEPT !.by = "save"]
    BY <1>0, <1>1, <2>1 DEF RolledBack, SlotType
  <2> QED BY <2>2, <2>3, <2>4, KeptContent
<1>2. ASSUME ~On(i, op[i], u, k), InFlight(i)
      PROVE  RolledBack(i)[u][k] = slot[u][k]
  <2>1. ~(u = OpUser(i) /\ k = TheKey(i))
    BY <1>0, <1>2 DEF On, OpUser, InFlight
  <2> QED BY <1>0, <2>1 DEF RolledBack, SlotType
<1> QED BY <1>1, <1>2

LEMMA SaveResolvesTrue ==
    ASSUME CalmPre, NEW i \in Ops, SaveResolves(i)
    PROVE  KeysTrue'
<1> USE DEF CalmPre
<1> DEFINE v == OpUser(i)
           l == TheKey(i)
           e == [data |-> Passed(i), hash |-> SavedHash(i), by |-> "save"]
<1>0. /\ StoreTyped /\ v \in Users /\ l \in Keys /\ KeysOf(i) = {l}
      /\ UNCHANGED << row, fetch, crowd >> /\ CallOf(i) = "save" /\ op[i].stage = "landed"
      /\ op' = [op EXCEPT ![i] = [IdleOp EXCEPT !.stage = "done"]]
      /\ slot' = [slot EXCEPT ![v][l] = e] /\ Content(e) = i
  BY OpFacts, OpUserType, CallContent DEF KeyedTyped, SaveResolves
<1> HIDE DEF e
<1> SUFFICES ASSUME NEW u \in Users, NEW k \in Keys, crowd[u][k] \in Calm
             PROVE  TrueKey(u, k, crowd[u][k], op', fetch[u][k], slot'[u][k], row[u][k])
  BY <1>0, KeysTrueLater
<1>1. CASE On(i, op[i], u, k)
  <2>1. u = v /\ k = l
    BY <1>0, <1>1 DEF On, OpUser
  <2>2. crowd[u][k] = "clear" /\ row[u][k] = i
    BY <1>0, <1>1, CallOnFacts DEF Reads, TrueCall
  <2>3. slot'[u][k] = e
    BY <1>0, <2>1 DEF StoreTyped, SlotType
  <2>4. TrueKey(u, k, "clear", [op EXCEPT ![i] = [IdleOp EXCEPT !.stage = "done"]],
                fetch[u][k], e, row[u][k])
    BY <1>0, <2>2, CallIsOver DEF Calm
  <2> QED BY <1>0, <2>2, <2>3, <2>4
<1>2. CASE ~On(i, op[i], u, k)
  <2>1. ~(u = v /\ k = l)
    BY <1>0, <1>2 DEF On, OpUser
  <2>2. slot'[u][k] = slot[u][k]
    BY <1>0, <2>1 DEF StoreTyped, SlotType
  <2>3. TrueKey(u, k, crowd[u][k], [op EXCEPT ![i] = [IdleOp EXCEPT !.stage = "done"]],
                fetch[u][k], slot[u][k], row[u][k])
    BY <1>2, DoneIsOver, CallElsewhereTrue
  <2> QED BY <1>0, <2>2, <2>3
<1> QED BY <1>1, <1>2

LEMMA WriteResolvesTrue ==
    ASSUME CalmPre, NEW i \in Ops, WriteResolves(i)
    PROVE  KeysTrue'
<1> USE DEF CalmPre
<1> DEFINE v == OpUser(i)
           done == [IdleOp EXCEPT !.stage = "done"]
           ops1 == [op EXCEPT ![i] = done]
           e == [data |-> WrittenThrough(i), hash |-> HashOf(i), by |-> "write"]
<1>0. /\ StoreTyped /\ v \in Users /\ op \in [Ops -> OpStates]
      /\ UNCHANGED << row, fetch, crowd >> /\ CallOf(i) \notin Reads /\ CallOf(i) # "save"
      /\ op[i].stage = "landed" /\ Content(e) = i
      /\ slot' = [slot EXCEPT ![v] = [k \in Keys |-> IF k \in KeysOf(i) THEN e ELSE @[k]]]
      /\ op' = [j \in Ops |->
                   IF j = i THEN done
                   ELSE IF op[j].stage = "loaded" /\ OpUser(j) = v
                   THEN [op[j] EXCEPT !.bumped = op[j].stale] ELSE op[j]]
  BY OpUserType, CallContent DEF KeyedTyped, OpsTyped, WriteResolves, Reads
<1> HIDE DEF e
<1>1. \A j \in Ops : ops1[j] = IF j = i THEN done ELSE op[j]
  BY <1>0
<1>2. \A j \in Ops : /\ op'[j].stage = ops1[j].stage /\ op'[j].session = ops1[j].session
                     /\ op'[j].base = ops1[j].base /\ op'[j].fresh = ops1[j].fresh
                     /\ op'[j].rows = ops1[j].rows
  <2> HIDE DEF done, ops1
  <2> SUFFICES ASSUME NEW j \in Ops
               PROVE  /\ op'[j].stage = ops1[j].stage /\ op'[j].session = ops1[j].session
                      /\ op'[j].base = ops1[j].base /\ op'[j].fresh = ops1[j].fresh
                      /\ op'[j].rows = ops1[j].rows
    OBVIOUS
  <2>1. op'[j] \in {ops1[j], [op[j] EXCEPT !.bumped = op[j].stale]} /\ (j = i => op'[j] = ops1[j])
    BY <1>0, <1>1
  <2>2. op[j] \in OpStates /\ (j # i => ops1[j] = op[j])
    BY <1>0, <1>1
  <2> QED BY <2>1, <2>2 DEF OpStates
<1> SUFFICES ASSUME NEW u \in Users, NEW k \in Keys, crowd[u][k] \in Calm
             PROVE  TrueKey(u, k, crowd[u][k], ops1, fetch[u][k], slot'[u][k], row[u][k])
  <2> HIDE DEF ops1
  <2>1. ASSUME NEW u \in Users, NEW k \in Keys, crowd[u][k] \in Calm
        PROVE  TrueKey(u, k, crowd[u][k], op', fetch[u][k], slot'[u][k], row[u][k])
    BY <1>2, <2>1, NotesStayTrue
  <2> QED BY <1>0, <2>1, KeysTrueLater
<1>3. CASE On(i, op[i], u, k)
  <2>1. u = v /\ k \in KeysOf(i)
    BY <1>3 DEF On, OpUser
  <2>2. crowd[u][k] = "clear" /\ row[u][k] = i
    BY <1>0, <1>3, CallOnFacts DEF TrueCall
  <2>3. slot'[u][k] = e
    BY <1>0, <2>1 DEF StoreTyped, SlotType
  <2>4. TrueKey(u, k, "clear", [op EXCEPT ![i] = [IdleOp EXCEPT !.stage = "done"]],
                fetch[u][k], e, row[u][k])
    BY <1>0, <2>2, CallIsOver DEF Calm
  <2> QED BY <2>2, <2>3, <2>4
<1>4. CASE ~On(i, op[i], u, k)
  <2>1. ~(u = v /\ k \in KeysOf(i))
    BY <1>0, <1>4 DEF On, OpUser
  <2>2. slot'[u][k] = slot[u][k]
    BY <1>0, <2>1 DEF StoreTyped, SlotType
  <2>3. TrueKey(u, k, crowd[u][k], [op EXCEPT ![i] = [IdleOp EXCEPT !.stage = "done"]],
                fetch[u][k], slot[u][k], row[u][k])
    BY <1>4, DoneIsOver, CallElsewhereTrue
  <2> QED BY <2>2, <2>3
<1> QED BY <1>3, <1>4

LEMMA ConflictResolvesTrue ==
    ASSUME CalmPre, NEW i \in Ops, ConflictResolves(i)
    PROVE  KeysTrue'
<1> USE DEF CalmPre
<1>0. /\ StoreTyped /\ op \in [Ops -> OpStates] /\ op[i].stage = "conflict"
      /\ UNCHANGED << row, fetch >> /\ OpUser(i) \in Users
  BY OpUserType DEF KeyedTyped, OpsTyped, ConflictResolves
<1> SUFFICES ASSUME NEW u \in Users, NEW k \in Keys, crowd'[u][k] \in Calm
             PROVE  TrueKey(u, k, crowd'[u][k], op', fetch[u][k], slot'[u][k], row[u][k])
  BY <1>0, KeysTrueLater
<1>1. CASE CallOf(i) = "mutate" /\ op[i].tries > 1
  <2> DEFINE n == op[i].session
             o == BegunOp(LoadStage(UserOf(n), TheKey(i)), n, slot[UserOf(n)][TheKey(i)], Null,
                          op[i].tries - 1)
  <2>1. /\ op' = [op EXCEPT ![i] = o] /\ crowd' = crowd /\ slot' = slot
        /\ o.stage = LoadStage(UserOf(n), TheKey(i)) /\ o.session = op[i].session
        /\ o.base = slot[UserOf(n)][TheKey(i)] /\ ~o.fresh
    BY <1>1, BegunMore DEF ConflictResolves, KeepsUnsaved, BeganLoad, Began, BegunOp
  <2> HIDE DEF o
  <2>2. TrueCall(i, o, k, crowd[u][k], slot[u][k], row[u][k])
    BY <1>1, <2>1 DEF TrueCall, Compares, Reads, LoadStage
  <2>3. ~Covers(i, op[i]) /\ o.stage \notin {"idle", "done"}
    BY <1>0, <1>1, <2>1 DEF Covers, LoadStage
  <2>4. TrueKey(u, k, crowd[u][k], [op EXCEPT ![i] = o], fetch[u][k], slot[u][k], row[u][k])
    BY <1>0, <2>1, <2>2, <2>3, CallGoesOn
  <2> QED BY <2>1, <2>4
<1>2. CASE ~(CallOf(i) = "mutate" /\ op[i].tries > 1)
  <2>1. /\ op' = [op EXCEPT ![i] = [IdleOp EXCEPT !.stage = "done"]]
        /\ slot' = IF CallOf(i) = "save" THEN RolledBack(i) ELSE slot
        /\ crowd' = IF KeepsUnsaved(i) THEN SetCrowd(OpUser(i), KeysOf(i), Late) ELSE crowd
        /\ InFlight(i)
    BY <1>0, <1>2 DEF ConflictResolves, InFlight
  <2>2. /\ crowd'[u][k] = crowd[u][k]
        /\ KeepsUnsaved(i) => ~(u = OpUser(i) /\ k \in KeysOf(i))
    BY <1>0, <2>1, CalmBefore
  <2>3. CASE On(i, op[i], u, k)
    <3>1. TrueCall(i, op[i], k, crowd[u][k], slot[u][k], row[u][k])
      BY <2>2, <2>3, CallOnFacts
    <3>2. crowd[u][k] = "clear" /\ CallOf(i) \notin Reads
      BY <1>0, <2>2, <2>3, <3>1, CallOnFacts DEF TrueCall
    <3>3. ~KeepsUnsaved(i)
      BY <2>2, <2>3 DEF On, OpUser
    <3>4. \/ Content(slot'[u][k]) = row[u][k]
          \/ slot' = slot /\ ~Covers(i, op[i])
      <4>1. CASE CallOf(i) = "save"
        BY <1>0, <2>1, <2>2, <2>3, <3>3, <4>1, RolledBackTrue DEF KeepsUnsaved
      <4>2. CASE CallOf(i) # "save"
        BY <1>0, <2>1, <4>2 DEF Covers
      <4> QED BY <4>1, <4>2
    <3> DEFINE next == slot'[u][k]
    <3>5. \/ Content(next) = row[u][k]
          \/ next = slot[u][k] /\ ~Covers(i, op[i])
      BY <3>4
    <3> HIDE DEF next
    <3>6. TrueKey(u, k, "clear", [op EXCEPT ![i] = [IdleOp EXCEPT !.stage = "done"]],
                  fetch[u][k], next, row[u][k])
      BY <3>2, <3>5, CallIsOver DEF Calm
    <3> QED BY <2>1, <2>2, <3>2, <3>6 DEF next
  <2>4. CASE ~On(i, op[i], u, k)
    <3>1. slot'[u][k] = slot[u][k]
      BY <2>1, <2>4, RolledBackTrue
    <3>2. TrueKey(u, k, crowd[u][k], [op EXCEPT ![i] = [IdleOp EXCEPT !.stage = "done"]],
                  fetch[u][k], slot[u][k], row[u][k])
      BY <2>2, <2>4, DoneIsOver, CallElsewhereTrue
    <3> QED BY <2>1, <2>2, <3>1, <3>2
  <2> QED BY <2>3, <2>4
<1> QED BY <1>1, <1>2

LEMMA FailsTrue ==
    ASSUME CalmPre, NEW i \in Ops, Fails(i)
    PROVE  KeysTrue'
<1> USE DEF CalmPre
<1> DEFINE lost == op[i].stage = "landed"
<1>0. /\ StoreTyped /\ op \in [Ops -> OpStates] /\ InFlight(i)
      /\ UNCHANGED << row, fetch >> /\ OpUser(i) \in Users
      /\ op' = [op EXCEPT ![i] = [IdleOp EXCEPT !.stage = "done"]]
      /\ slot' = IF CallOf(i) = "save" THEN RolledBack(i) ELSE slot
      /\ crowd' = SetCrowd(OpUser(i), KeysOf(i),
                           IF lost \/ KeepsUnsaved(i) THEN Late ELSE NotHealed)
  BY OpUserType DEF KeyedTyped, OpsTyped, Fails
<1> SUFFICES ASSUME NEW u \in Users, NEW k \in Keys, crowd'[u][k] \in Calm
             PROVE  TrueKey(u, k, crowd'[u][k], op', fetch[u][k], slot'[u][k], row[u][k])
  BY <1>0, KeysTrueLater
<1>1. /\ crowd'[u][k] = crowd[u][k]
      /\ u = OpUser(i) /\ k \in KeysOf(i) => crowd[u][k] = "clear" /\ ~lost /\ ~KeepsUnsaved(i)
  <2>1. CASE lost \/ KeepsUnsaved(i)
    <3>1. crowd' = SetCrowd(OpUser(i), KeysOf(i), Late)
      BY <1>0, <2>1
    <3> QED BY <1>0, <3>1, CalmBefore
  <2>2. CASE ~(lost \/ KeepsUnsaved(i))
    <3>1. crowd' = SetCrowd(OpUser(i), KeysOf(i), NotHealed)
      BY <1>0, <2>2
    <3> QED BY <1>0, <2>2, <3>1, CalmBefore
  <2> QED BY <2>1, <2>2
<1>2. CASE On(i, op[i], u, k)
  <2>1. crowd[u][k] = "clear" /\ ~lost /\ ~KeepsUnsaved(i)
    BY <1>1, <1>2 DEF On, OpUser
  <2>2. \/ Content(slot'[u][k]) = row[u][k]
        \/ slot' = slot /\ ~Covers(i, op[i])
    <3>1. CASE CallOf(i) = "save"
      BY <1>0, <1>1, <1>2, <2>1, <3>1, RolledBackTrue DEF KeepsUnsaved
    <3>2. CASE CallOf(i) # "save"
      BY <1>0, <2>1, <3>2 DEF Covers
    <3> QED BY <3>1, <3>2
  <2> DEFINE next == slot'[u][k]
  <2>3. \/ Content(next) = row[u][k]
        \/ next = slot[u][k] /\ ~Covers(i, op[i])
    BY <2>2
  <2> HIDE DEF next
  <2>4. TrueKey(u, k, "clear", [op EXCEPT ![i] = [IdleOp EXCEPT !.stage = "done"]],
                fetch[u][k], next, row[u][k])
    BY <2>1, <2>3, CallIsOver DEF Calm
  <2> QED BY <1>0, <1>1, <2>1, <2>4 DEF next
<1>3. CASE ~On(i, op[i], u, k)
  <2>1. slot'[u][k] = slot[u][k]
    BY <1>0, <1>3, RolledBackTrue
  <2>2. TrueKey(u, k, crowd[u][k], [op EXCEPT ![i] = [IdleOp EXCEPT !.stage = "done"]],
                fetch[u][k], slot[u][k], row[u][k])
    BY <1>1, <1>3, DoneIsOver, CallElsewhereTrue
  <2> QED BY <1>0, <1>1, <2>1, <2>2
<1> QED BY <1>2, <1>3

(* A fetch of the key starts, is joined or reads the row.                  *)
LEMMA FetchMovesTrue ==
    ASSUME NEW u, NEW k, NEW c, NEW ops, NEW f, NEW f2, NEW entry, NEW v,
           TrueKey(u, k, c, ops, f, entry, v),
           f2 # NoFetch /\ f2.read => f2.rows[k] = v,
           f # NoFetch => f2 # NoFetch,
           f2 = f \/ \A j \in Ops : On(j, ops[j], u, k) => CallOf(j) \in Reads
    PROVE  TrueKey(u, k, c, ops, f2, entry, v)
<1>1. CASE f2 = f
  BY <1>1
<1>2. CASE \A j \in Ops : On(j, ops[j], u, k) => CallOf(j) \in Reads
  BY <1>2 DEF TrueKey
<1> QED BY <1>1, <1>2

(* It ends: the slot shows the row, or is left.                            *)
LEMMA FetchEndsTrue ==
    ASSUME NEW u, NEW k, NEW c \in Calm, NEW ops, NEW f, NEW entry, NEW next, NEW v,
           TrueKey(u, k, c, ops, f, entry, v), f # NoFetch,
           Content(next) = v \/ (next = entry /\ c = "clear")
    PROVE  TrueKey(u, k, "clear", ops, NoFetch, next, v)
<1>1. ASSUME NEW j \in Ops, On(j, ops[j], u, k)
      PROVE  TrueCall(j, ops[j], k, "clear", next, v) /\ CallOf(j) \in Reads
  BY <1>1 DEF TrueKey, LoneWrite, TrueCall
<1> QED BY <1>1 DEF TrueKey

LEMMA EffectFetchesTrue ==
    ASSUME CalmPre, NEW h \in Hooks, EffectFetches(h)
    PROVE  KeysTrue'
<1> USE DEF CalmPre
<1> DEFINE v == UserOf(session)
           t == TargetOf[h]
<1>0. /\ StoreTyped /\ fetch \in FetchType /\ UNCHANGED << row, slot, op >>
      /\ v \in Users /\ t \in Targets /\ FreshFetch(session) \in Fetches
      /\ FreshFetch(session) # NoFetch /\ ~FreshFetch(session).read
      /\ crowd' = IF t = RangeTarget THEN crowd ELSE CrowdOfRead(v, t)
      /\ fetch' = IF fetch[v][t] # NoFetch THEN fetch
                  ELSE [fetch EXCEPT ![v][t] = FreshFetch(session)]
  <2>1. v \in Users /\ t \in Targets /\ FreshFetch(session) \in Fetches
    BY SessionFacts, KeyedAssumption, FreshFetchType
  <2>2. FreshFetch(session) # NoFetch /\ ~FreshFetch(session).read
    BY <2>1, KeyedNullAssumption DEF FreshFetch
  <2>3. crowd' = IF t = RangeTarget THEN crowd ELSE CrowdOfRead(v, t)
    BY DEF EffectFetches
  <2>4. fetch' = IF fetch[v][t] # NoFetch THEN fetch
                 ELSE [fetch EXCEPT ![v][t] = FreshFetch(session)]
    BY DEF EffectFetches, Deduped
  <2>5. StoreTyped /\ fetch \in FetchType /\ UNCHANGED << row, slot, op >>
    BY DEF KeyedTyped, RegistryTyped, EffectFetches
  <2> QED BY <2>1, <2>2, <2>3, <2>4, <2>5
<1> SUFFICES ASSUME NEW u \in Users, NEW k \in Keys, crowd'[u][k] \in Calm
             PROVE  TrueKey(u, k, crowd'[u][k], op, fetch'[u][k], slot[u][k], row[u][k])
  BY <1>0, KeysTrueLater
<1>1. k # RangeTarget /\ k \in Targets
  BY KeyedAssumption DEF Targets
<1>2. CASE u = v /\ k = t
  <2>1. /\ ~WriteMeets(u, k)
        /\ \/ crowd'[u][k] = crowd[u][k]
           \/ ~Meets(u, k) /\ crowd'[u][k] = "healing"
    BY <1>0, <1>1, <1>2, CalmBefore
  <2>2. /\ fetch'[u][k] # NoFetch
        /\ \/ fetch'[u][k] = fetch[u][k]
           \/ fetch[u][k] = NoFetch /\ ~fetch'[u][k].read
    BY <1>0, <1>1, <1>2 DEF FetchType
  <2>3. CASE crowd'[u][k] = crowd[u][k]
    <3>1. TrueKey(u, k, crowd[u][k], op, fetch[u][k], slot[u][k], row[u][k])
      BY <2>3 DEF KeysTrue
    <3>2. \A j \in Ops : On(j, op[j], u, k) => CallOf(j) \in Reads
      BY <2>1, WriteMeetsOn
    <3>3. fetch'[u][k] # NoFetch /\ fetch'[u][k].read => fetch'[u][k].rows[k] = row[u][k]
      BY <2>2, <3>1 DEF TrueKey
    <3> DEFINE f2 == fetch'[u][k]
    <3>4. f2 # NoFetch /\ f2.read => f2.rows[k] = row[u][k]
      BY <3>3
    <3>5. fetch[u][k] # NoFetch => f2 # NoFetch
      BY <2>2
    <3> HIDE DEF f2
    <3>6. TrueKey(u, k, crowd[u][k], op, f2, slot[u][k], row[u][k])
      BY <3>1, <3>2, <3>4, <3>5, FetchMovesTrue
    <3> QED BY <2>3, <3>6 DEF f2
  <2>4. CASE ~Meets(u, k) /\ crowd'[u][k] = "healing"
    <3>1. Nobody(u, k, op, fetch[u][k])
      BY <2>4, NobodyMeets
    <3>2. ~fetch'[u][k].read
      BY <2>2, <3>1 DEF Nobody
    <3> QED BY <2>2, <2>4, <3>1, <3>2 DEF TrueKey, Nobody
  <2> QED BY <2>1, <2>3, <2>4
<1>3. CASE ~(u = v /\ k = t)
  <2>1. crowd'[u][k] = crowd[u][k]
    <3>1. CASE t = RangeTarget
      BY <1>0, <3>1
    <3>2. CASE t # RangeTarget
      <4>1. t \in Keys /\ crowd' = CrowdOfRead(v, t)
        BY <1>0, <3>2 DEF Targets
      <4> QED BY <1>0, <1>3, <4>1, CalmBefore
    <3> QED BY <3>1, <3>2
  <2>2. fetch'[u][k] = fetch[u][k]
    BY <1>0, <1>1, <1>3 DEF FetchType
  <2> QED BY <2>1, <2>2 DEF KeysTrue
<1> QED BY <1>2, <1>3

LEMMA FetchReadsTrue ==
    ASSUME CalmPre, NEW v \in Users, NEW t \in Targets, FetchReads(v, t)
    PROVE  KeysTrue'
<1> USE DEF CalmPre
<1> DEFINE f2 == [fetch[v][t] EXCEPT !.read = TRUE, !.rows = ListByKeyRange(v)]
<1>0. /\ fetch \in FetchType /\ UNCHANGED << row, slot, op, crowd >> /\ fetch[v][t] # NoFetch
      /\ fetch[v][t] \in Fetches /\ fetch' = [fetch EXCEPT ![v][t] = f2]
  BY DEF KeyedTyped, RegistryTyped, FetchType, FetchReads
<1>1. f2 # NoFetch /\ f2.rows = row[v]
  <2>1. row[v] \in [Keys -> Values]
    BY DEF KeyedTyped, StoreTyped
  <2>2. f2 \in Fetches /\ f2.rows = row[v]
    BY <1>0, <2>1 DEF Fetches, ListByKeyRange
  <2> QED BY <2>2, KeyedNullAssumption
<1> HIDE DEF f2
<1> SUFFICES ASSUME NEW u \in Users, NEW k \in Keys, crowd[u][k] \in Calm
             PROVE  TrueKey(u, k, crowd[u][k], op, fetch'[u][k], slot[u][k], row[u][k])
  BY <1>0, KeysTrueLater
<1>2. TrueKey(u, k, crowd[u][k], op, fetch[u][k], slot[u][k], row[u][k])
  BY DEF KeysTrue
<1>3. k \in Targets
  BY DEF Targets
<1>4. CASE u = v /\ k = t
  <2>1. \A j \in Ops : On(j, op[j], u, k) => CallOf(j) \in Reads
    BY <1>0, <1>2, <1>4 DEF TrueKey, LoneWrite
  <2>2. fetch'[u][k] = f2
    BY <1>0, <1>3, <1>4 DEF FetchType
  <2>3. TrueKey(u, k, crowd[u][k], op, f2, slot[u][k], row[u][k])
    BY <1>1, <1>2, <1>4, <2>1, FetchMovesTrue
  <2> QED BY <2>2, <2>3
<1>5. CASE ~(u = v /\ k = t)
  <2>1. fetch'[u][k] = fetch[u][k]
    BY <1>0, <1>3, <1>5 DEF FetchType
  <2> QED BY <1>2, <2>1
<1> QED BY <1>4, <1>5

LEMMA KeyFetchResolvesTrue ==
    ASSUME CalmPre, NEW v \in Users, NEW l \in Keys, KeyFetchResolves(v, l)
    PROVE  KeysTrue'
<1> USE DEF CalmPre
<1> DEFINE f == fetch[v][l]
           fills == Waiting(v, l) # {} \/ Hashed
<1>0. /\ StoreTyped /\ fetch \in FetchType /\ UNCHANGED << row, op >>
      /\ f # NoFetch /\ f.read /\ fetch' = [fetch EXCEPT ![v][l] = NoFetch]
      /\ crowd' = SetCrowd(v, {l}, IF fills THEN Healed ELSE NotHealed)
  BY DEF KeyedTyped, RegistryTyped, KeyFetchResolves, Deregister
<1>1. \/ fills /\ \E who : slot' = [slot EXCEPT ![v][l] = Loaded(f.rows[l], who)]
      \/ ~fills /\ slot' = slot
  BY DEF KeyFetchResolves
<1> HIDE DEF fills
<1> SUFFICES ASSUME NEW u \in Users, NEW k \in Keys, crowd'[u][k] \in Calm
             PROVE  TrueKey(u, k, crowd'[u][k], op, fetch'[u][k], slot'[u][k], row[u][k])
  BY <1>0, KeysTrueLater
<1>2. k \in Targets
  BY DEF Targets
<1>3. CASE u = v /\ k = l
  <2>1. fetch'[u][k] = NoFetch
    BY <1>0, <1>2, <1>3 DEF FetchType
  <2>2. crowd[u][k] \in Calm /\ crowd'[u][k] = "clear" /\ (~fills => crowd[u][k] = "clear")
    <3>1. CASE fills
      <4>1. crowd' = SetCrowd(v, {l}, Healed)
        BY <1>0, <3>1
      <4> QED BY <1>0, <1>3, <3>1, <4>1, CalmBefore
    <3>2. CASE ~fills
      <4>1. crowd' = SetCrowd(v, {l}, NotHealed)
        BY <1>0, <3>2
      <4> QED BY <1>0, <1>3, <3>2, <4>1, CalmBefore
    <3> QED BY <3>1, <3>2
  <2>3. TrueKey(u, k, crowd[u][k], op, f, slot[u][k], row[u][k])
    BY <1>3, <2>2 DEF KeysTrue
  <2> DEFINE next == slot'[u][k]
  <2>4. Content(next) = row[u][k] \/ (next = slot[u][k] /\ crowd[u][k] = "clear")
    <3>1. CASE ~fills
      BY <1>1, <2>2, <3>1
    <3>2. CASE fills
      <4>1. PICK who : slot' = [slot EXCEPT ![v][l] = Loaded(f.rows[l], who)]
        BY <1>1, <3>2
      <4>2. slot'[u][k] = Loaded(f.rows[l], who)
        BY <1>0, <1>3, <4>1 DEF StoreTyped, SlotType
      <4>3. f.rows[l] = row[u][k]
        BY <1>0, <1>3, <2>3 DEF TrueKey
      <4> QED BY <1>0, <1>3, <4>2, <4>3, LoadedContent DEF StoreTyped
    <3> QED BY <3>1, <3>2
  <2> HIDE DEF next
  <2>5. TrueKey(u, k, "clear", op, NoFetch, next, row[u][k])
    BY <1>0, <2>2, <2>3, <2>4, FetchEndsTrue
  <2> QED BY <2>1, <2>2, <2>5 DEF next
<1>4. CASE ~(u = v /\ k = l)
  <2>1. fetch'[u][k] = fetch[u][k]
    BY <1>0, <1>2, <1>4 DEF FetchType
  <2>2. crowd'[u][k] = crowd[u][k]
    BY <1>0, <1>4 DEF SetCrowd, StoreTyped, CrowdType
  <2>3. slot'[u][k] = slot[u][k]
    BY <1>0, <1>1, <1>4 DEF StoreTyped, SlotType
  <2> QED BY <2>1, <2>2, <2>3 DEF KeysTrue
<1> QED BY <1>3, <1>4

LEMMA FetchFailsTrue ==
    ASSUME CalmPre, NEW v \in Users, NEW t \in Targets, FetchFails(v, t)
    PROVE  KeysTrue'
<1> USE DEF CalmPre
<1>0. /\ StoreTyped /\ fetch \in FetchType /\ UNCHANGED << row, op, slot >>
      /\ fetch[v][t] # NoFetch /\ fetch' = [fetch EXCEPT ![v][t] = NoFetch]
      /\ crowd' = IF t = RangeTarget THEN crowd ELSE SetCrowd(v, {t}, NotHealed)
  BY DEF KeyedTyped, RegistryTyped, FetchFails, Deregister
<1> SUFFICES ASSUME NEW u \in Users, NEW k \in Keys, crowd'[u][k] \in Calm
             PROVE  TrueKey(u, k, crowd'[u][k], op, fetch'[u][k], slot[u][k], row[u][k])
  BY <1>0, KeysTrueLater
<1>1. k \in Targets /\ k # RangeTarget
  BY KeyedAssumption DEF Targets
<1>2. CASE u = v /\ k = t
  <2>1. fetch'[u][k] = NoFetch
    BY <1>0, <1>1, <1>2 DEF FetchType
  <2>2. crowd' = SetCrowd(v, {t}, NotHealed)
    BY <1>0, <1>1, <1>2
  <2>3. crowd[u][k] = "clear" /\ crowd'[u][k] = "clear"
    BY <1>0, <1>2, <2>2, CalmBefore
  <2>4. TrueKey(u, k, crowd[u][k], op, fetch[u][k], slot[u][k], row[u][k])
    BY <2>3 DEF KeysTrue, Calm
  <2>5. TrueKey(u, k, "clear", op, NoFetch, slot[u][k], row[u][k])
    BY <1>0, <1>2, <2>3, <2>4, FetchEndsTrue DEF Calm
  <2> QED BY <2>1, <2>3, <2>5
<1>3. CASE ~(u = v /\ k = t)
  <2>1. fetch'[u][k] = fetch[u][k]
    BY <1>0, <1>1, <1>3 DEF FetchType
  <2>2. crowd'[u][k] = crowd[u][k]
    BY <1>0, <1>3 DEF SetCrowd, StoreTyped, CrowdType
  <2> QED BY <2>1, <2>2 DEF KeysTrue
<1> QED BY <1>2, <1>3

LEMMA CalmStepsTrue ==
    ASSUME CalmPre, KeyedSteps
    PROVE  KeysTrue'
<1> USE DEF CalmPre
<1>1. CASE HookSteps
  <2>1. ASSUME NEW h \in Hooks, EffectSkips(h) \/ Unmount(h)
        PROVE  KeysTrue'
    <3>1. UNCHANGED << row, slot, fetch, op, crowd >>
      BY <2>1 DEF EffectSkips, Unmount
    <3>2. \A u \in Users, k \in Keys : crowd[u][k] \in Calm =>
             TrueKey(u, k, crowd[u][k], op, fetch[u][k], slot[u][k], row[u][k])
      BY DEF KeysTrue
    <3> QED BY <3>1, <3>2, KeysTrueLater
  <2>2. ASSUME NEW v \in Users, RangeFetchResolves(v)
        PROVE  KeysTrue'
    <3>1. UNCHANGED << row, slot, op, crowd >>
      BY <2>2 DEF RangeFetchResolves
    <3>2. \A u \in Users, k \in Keys : fetch'[u][k] = fetch[u][k]
      BY <2>2, KeyedAssumption DEF RangeFetchResolves, Deregister, KeyedTyped, RegistryTyped,
         FetchType, Targets
    <3>3. \A u \in Users, k \in Keys : crowd[u][k] \in Calm =>
             TrueKey(u, k, crowd[u][k], op, fetch[u][k], slot[u][k], row[u][k])
      BY DEF KeysTrue
    <3> QED BY <3>1, <3>2, <3>3, KeysTrueLater
  <2> QED BY <1>1, <2>1, <2>2, EffectFetchesTrue, FetchReadsTrue, FetchFailsTrue,
             KeyFetchResolvesTrue DEF HookSteps
<1>2. ASSUME NEW i \in Ops, CallSteps(i) PROVE KeysTrue'
  <2>1. CASE Save(i) \/ Write(i) \/ Mutate(i) \/ Reload(i) \/ RangeReload(i)
    BY <2>1, SaveTrue, WriteTrue, MutateTrue, ReloadTrue, RangeReloadTrue
  <2>2. CASE GetHash(i) \/ ReadsRows(i) \/ ReloadResolves(i) \/ RangeReloadResolves(i)
             \/ MutateComputes(i) \/ Refused(i)
    BY <2>2, StagesTrue, ReloadResolvesTrue, RangeReloadResolvesTrue, MutateComputesTrue
  <2>3. CASE Lands(i) \/ SaveResolves(i) \/ WriteResolves(i) \/ ConflictResolves(i) \/ Fails(i)
    BY <2>3, LandsTrue, SaveResolvesTrue, WriteResolvesTrue, ConflictResolvesTrue, FailsTrue
  <2> QED BY <1>2, <2>1, <2>2, <2>3 DEF CallSteps
<1>3. ASSUME NEW v \in Users, NEW l \in Keys, ForeignWrite(v, l) PROVE KeysTrue'
  <2>1. /\ slot' = slot /\ op' = OpsAfterWrite(v) /\ crowd' = SetCrowd(v, {l}, Late)
        /\ fetch' = FetchAfterWrite(v) /\ row' = [row EXCEPT ![v][l] = Foreign]
        /\ StoreTyped
    BY <1>3 DEF ForeignWrite, KeyedTyped
  <2> SUFFICES ASSUME NEW u \in Users, NEW k \in Keys, crowd'[u][k] \in Calm
               PROVE  TrueKey(u, k, crowd'[u][k], op', fetch'[u][k], slot'[u][k], row'[u][k])
    BY KeysTrueLater
  <2>2. crowd'[u][k] = crowd[u][k] /\ ~(u = v /\ k = l)
    BY <2>1, CalmBefore
  <2>3. row'[u][k] = row[u][k] /\ fetch'[u][k] = fetch[u][k]
    BY <2>1, <2>2, AfterWriteNotes DEF StoreTyped
  <2>4. TrueKey(u, k, crowd[u][k], op, fetch[u][k], slot[u][k], row[u][k])
    BY <2>2 DEF KeysTrue
  <2>5. \A j \in Ops : /\ op'[j].stage = op[j].stage /\ op'[j].session = op[j].session
                       /\ op'[j].base = op[j].base /\ op'[j].fresh = op[j].fresh
                       /\ op'[j].rows = op[j].rows
    BY <2>1, AfterWriteNotes
  <2>6. TrueKey(u, k, crowd[u][k], op', fetch[u][k], slot[u][k], row[u][k])
    BY <2>4, <2>5, NotesStayTrue
  <2> QED BY <2>1, <2>2, <2>3, <2>6
<1> QED BY <1>1, <1>2, <1>3 DEF KeyedSteps

LEMMA KeysTrueUnchanged ==
    ASSUME KeysTrue, UNCHANGED << keyedVars, plan >>
    PROVE  KeysTrue'
<1>1. ASSUME NEW u, NEW k
      PROVE  TrueKey(u, k, crowd[u][k], op, fetch[u][k], slot[u][k], row[u][k])'
                <=> TrueKey(u, k, crowd[u][k], op, fetch[u][k], slot[u][k], row[u][k])
  BY DEF keyedVars, TrueKey, TrueCall, LoneWrite, Compares, Covers, On, Ops, UserOf, KeysOf, CallOf
<1> QED BY <1>1 DEF KeysTrue, keyedVars

(* The lock empties the slots; where nobody is, the key is calm again.     *)
LEMMA LocksStayTrue ==
    ASSUME KeysTrue, Lock, WipeKeyed
    PROVE  KeysTrue'
<1>1. UNCHANGED << op, plan, session, fetch, row >>
  BY DEF Lock, WipeKeyed
<1>2. ASSUME NEW u \in Users, NEW k \in Keys
      PROVE  TrueKey(u, k, crowd[u][k], op, fetch[u][k], slot[u][k], row[u][k])'
                <=> TrueKey(u, k, crowd'[u][k], op, fetch[u][k], NoSlot, row[u][k])
  <2>1. slot'[u][k] = NoSlot
    BY DEF WipeKeyed
  <2> QED BY <1>1, <2>1 DEF TrueKey, TrueCall, LoneWrite, Compares, Covers, On, Ops, UserOf,
             KeysOf, CallOf
<1>3. ASSUME NEW u \in Users, NEW k \in Keys, crowd'[u][k] \in Calm
      PROVE  TrueKey(u, k, crowd'[u][k], op, fetch[u][k], NoSlot, row[u][k])
  <2>1. CASE Meets(u, k)
    <3>1. crowd'[u][k] = crowd[u][k]
      BY <2>1 DEF WipeKeyed
    <3>2. TrueKey(u, k, crowd[u][k], op, fetch[u][k], slot[u][k], row[u][k])
      BY <1>3, <3>1 DEF KeysTrue
    <3> QED BY <3>1, <3>2 DEF TrueKey, TrueCall
  <2>2. CASE ~Meets(u, k)
    <3>1. crowd'[u][k] = "clear"
      BY <2>2 DEF WipeKeyed
    <3> QED BY <2>2, <3>1, NobodyMeets, NobodyTrue
  <2> QED BY <2>1, <2>2
<1> QED BY <1>2, <1>3 DEF KeysTrue

CalmInv == VouchInv /\ KeysTrue

(* At rest the slot of a key shows its row, after any calls of which no    *)
(* two met on the key and whose answers arrived.  The invariant says what  *)
(* each call under way carries: a load what the row holds, a save what it  *)
(* held, a landed write itself; a write is alone at its key; and a key     *)
(* that heals has a load under way that will fill its slot.                *)
THEOREM KeyShowsRow == Spec => []KeyCurrentAtRest
<1>1. Init => CalmInv
  <2> SUFFICES ASSUME Init PROVE CalmInv
    OBVIOUS
  <2>1. ASSUME NEW u \in Users, NEW k \in Keys
        PROVE  /\ Nobody(u, k, op, fetch[u][k])
               /\ slot[u][k] = NoSlot /\ crowd[u][k] = "clear"
    BY DEF Init, KeyedInit, Nobody, On, IdleOp, Targets
  <2>2. KeysTrue
    BY <2>1, NobodyTrue DEF KeysTrue
  <2> QED BY <2>2, VouchStart DEF CalmInv
<1>2. CalmInv /\ [Next]_vars => CalmInv'
  <2> SUFFICES ASSUME CalmInv, [Next]_vars PROVE CalmInv'
    OBVIOUS
  <2> USE DEF CalmInv
  <2>1. SessionTypeOK /\ KeyedTyped /\ KeysHonest /\ VouchInv'
    BY VouchStep DEF VouchInv, BindingsInv, KeyedInv
  <2>2. CASE SameSession /\ StepOfSession
    <3>1. CASE KeyedSteps
      BY <2>1, <2>2, <3>1, CalmStepsTrue DEF CalmPre
    <3>2. CASE UNCHANGED keyedVars
      BY <2>1, <2>2, <3>2, KeysTrueUnchanged DEF SameSession
    <3> QED BY <2>2, <3>1, <3>2 DEF StepOfSession
  <2>3. CASE SessionLocks
    BY <2>1, <2>3, LocksStayTrue DEF SessionLocks
  <2>4. CASE SessionUnlocks
    BY <2>1, <2>4, KeysTrueUnchanged DEF SessionUnlocks, Unlock
  <2> QED BY <2>1, <2>2, <2>3, <2>4, StepCases
<1>3. CalmInv => KeyCurrentAtRest
  <2> SUFFICES ASSUME CalmInv, AtRest, unlocked, NEW k \in Keys, slot[Me][k] # NoSlot,
                      crowd[Me][k] = "clear"
               PROVE  Content(slot[Me][k]) = row[Me][k]
    BY DEF KeyCurrentAtRest
  <2>1. \A i \in Ops : ~On(i, op[i], Me, k)
    BY DEF AtRest, InFlight, On
  <2>2. Me \in Users
    BY SessionFacts DEF CalmInv, VouchInv, BindingsInv, SessionTypeOK, Me
  <2> QED BY <2>1, <2>2 DEF CalmInv, KeysTrue, TrueKey, Calm
<1> QED BY <1>1, <1>2, <1>3, PTL DEF Spec

-----------------------------------------------------------------------------
(* Where the values in the rows and the slots of the keys come from: calls, *)
(* another device, or the rows stored from the start.                      *)

Kept(k, v) ==
    /\ v = Absent => k \notin plan.stored
    /\ v = Old => k \in plan.stored
(* An entry has the data of a call, or what a load of the row made of it.  *)
Known(k, e) == Content(e) \in Ops \/ (e.hash = HashOf(Content(e)) /\ Kept(k, Content(e)))

HashBefore(base) == IF base = NoSlot THEN Null ELSE base.hash
KnownCall(i, o) ==
    /\ o.fresh => \A k \in Keys : Kept(k, o.rows[k])
    /\ o.base # NoSlot => Known(TheKey(i), o.base)
    /\ CallOf(i) = "save" /\ o.stage \notin {"idle", "done"} => o.expected = HashBefore(o.base)
KnownFetch(f) == f # NoFetch /\ f.read => \A k \in Keys : Kept(k, f.rows[k])
KnownSlot(k, e) == e = NoSlot \/ Known(k, e)

Provenance ==
    /\ \A u \in Users, k \in Keys : Kept(k, row[u][k]) /\ KnownSlot(k, slot[u][k])
    /\ \A u \in Users, t \in Targets : KnownFetch(fetch[u][t])
    /\ \A i \in Ops : KnownCall(i, op[i])

LEMMA ProvenanceLater ==
    ASSUME SameSession,
           \A u \in Users, k \in Keys : Kept(k, row'[u][k]) /\ KnownSlot(k, slot'[u][k]),
           \A u \in Users, t \in Targets : KnownFetch(fetch'[u][t]),
           \A i \in Ops : KnownCall(i, op'[i])
    PROVE  Provenance'
<1>0. plan' = plan
  BY DEF SameSession
<1>1. ASSUME NEW u, NEW k
      PROVE  (Kept(k, row[u][k]) /\ KnownSlot(k, slot[u][k]))'
                <=> Kept(k, row'[u][k]) /\ KnownSlot(k, slot'[u][k])
  BY <1>0 DEF Kept, KnownSlot, Known, HashOf, Hashed, Ops
<1>2. ASSUME NEW u, NEW t
      PROVE  KnownFetch(fetch[u][t])' <=> KnownFetch(fetch'[u][t])
  BY <1>0 DEF KnownFetch, Kept
<1>3. ASSUME NEW i
      PROVE  KnownCall(i, op[i])' <=> KnownCall(i, op'[i])
  BY <1>0 DEF KnownCall, Known, Kept, HashOf, Hashed, Ops, CallOf, TheKey, KeysOf, HashBefore
<1>4. Ops' = Ops
  BY <1>0 DEF Ops
<1> QED BY <1>1, <1>2, <1>3, <1>4 DEF Provenance

KnownPre == SessionTypeOK /\ KeyedTyped /\ SameSession /\ Provenance

LEMMA DoneIsKnown == ASSUME NEW i PROVE KnownCall(i, [IdleOp EXCEPT !.stage = "done"])
BY DEF KnownCall, IdleOp

LEMMA CallValuesKept ==
    ASSUME SessionTypeOK, NEW i \in Ops, NEW k
    PROVE  Kept(k, i) /\ Kept(k, Foreign)
BY OpFacts DEF Kept, Absent, Old, Foreign

LEMMA HooksStayKnown ==
    ASSUME KnownPre, HookSteps
    PROVE  Provenance'
<1> USE DEF KnownPre
<1>1. op' = op /\ row' = row /\ fetch \in FetchType /\ StoreTyped
  BY DEF HookSteps, EffectSkips, EffectFetches, Unmount, FetchReads, FetchFails,
         KeyFetchResolves, RangeFetchResolves, KeyedTyped, RegistryTyped
<1>2. ASSUME NEW u \in Users, NEW k \in Keys
      PROVE  KnownSlot(k, slot'[u][k])
  <2>1. KnownSlot(k, slot[u][k])
    BY DEF Provenance
  <2>2. ASSUME NEW v \in Users, NEW l \in Keys, KeyFetchResolves(v, l)
        PROVE  KnownSlot(k, slot'[u][k])
    <3>1. \/ slot' = slot
          \/ \E who : slot' = [slot EXCEPT ![v][l] = Loaded(fetch[v][l].rows[l], who)]
      BY <2>2 DEF KeyFetchResolves
    <3>2. Kept(l, fetch[v][l].rows[l])
      BY <2>2 DEF KeyFetchResolves, Provenance, KnownFetch, Targets
    <3>3. \A who : Known(l, Loaded(fetch[v][l].rows[l], who))
      BY <2>2, <3>2, FetchedValue, LoadedContent DEF Known, Loaded, KeyFetchResolves
    <3> QED BY <1>1, <2>1, <3>1, <3>3 DEF StoreTyped, SlotType, KnownSlot
  <2>3. (\A v \in Users, l \in Keys : ~KeyFetchResolves(v, l)) => slot' = slot
    BY DEF HookSteps, EffectSkips, EffectFetches, Unmount, FetchReads, FetchFails,
           RangeFetchResolves
  <2> QED BY <2>1, <2>2, <2>3
<1>3. ASSUME NEW u \in Users, NEW t \in Targets
      PROVE  KnownFetch(fetch'[u][t])
  <2>1. KnownFetch(fetch[u][t])
    BY DEF Provenance
  <2>2. ASSUME NEW v \in Users, NEW s \in Targets, FetchReads(v, s)
        PROVE  KnownFetch(fetch'[u][t])
    <3> DEFINE f2 == [fetch[v][s] EXCEPT !.read = TRUE, !.rows = ListByKeyRange(v)]
    <3>1. fetch' = [fetch EXCEPT ![v][s] = f2] /\ fetch[v][s] \in Fetches
      BY <1>1, <2>2 DEF FetchReads, FetchType
    <3>2. f2.rows = row[v]
      BY <3>1 DEF Fetches, ListByKeyRange
    <3>3. KnownFetch(f2)
      BY <3>2 DEF KnownFetch, Provenance
    <3> HIDE DEF f2
    <3> QED BY <1>1, <2>1, <3>1, <3>3 DEF FetchType
  <2>3. ASSUME NEW h \in Hooks, EffectFetches(h)
        PROVE  KnownFetch(fetch'[u][t])
    <3> DEFINE f2 == FreshFetch(session)
    <3>1. KnownFetch(f2)
      BY DEF KnownFetch, FreshFetch
    <3>2. fetch' = fetch \/ fetch' = [fetch EXCEPT ![UserOf(session)][TargetOf[h]] = f2]
      BY <2>3 DEF EffectFetches, Deduped
    <3> HIDE DEF f2
    <3> QED BY <1>1, <2>1, <3>1, <3>2 DEF FetchType
  <2>4. ASSUME NEW v \in Users, NEW s, Deregister(v, s)
        PROVE  KnownFetch(fetch'[u][t])
    <3>1. fetch'[u][t] \in {fetch[u][t], NoFetch}
      BY <1>1, <2>4 DEF Deregister, FetchType
    <3> QED BY <2>1, <3>1 DEF KnownFetch
  <2>5. \/ fetch' = fetch
        \/ \E v \in Users, s \in Targets : FetchReads(v, s)
        \/ \E h \in Hooks : EffectFetches(h)
        \/ \E v \in Users : \E s : Deregister(v, s)
    BY DEF HookSteps, EffectSkips, Unmount, FetchFails, KeyFetchResolves, RangeFetchResolves
  <2> QED BY <2>1, <2>2, <2>3, <2>4, <2>5
<1> QED BY <1>1, <1>2, <1>3, ProvenanceLater DEF Provenance

(* A step of call i on its own key.                                        *)
LEMMA CallStepKnown ==
    ASSUME KnownPre, NEW i \in Ops, NEW o, KnownCall(i, o), op' = [op EXCEPT ![i] = o],
           UNCHANGED << row, fetch >>,
           \A u \in Users, k \in Keys : KnownSlot(k, slot'[u][k])
    PROVE  Provenance'
<1> USE DEF KnownPre
<1>1. \A j \in Ops : op'[j] = IF j = i THEN o ELSE op[j]
  BY DEF KeyedTyped, OpsTyped
<1>2. \A j \in Ops : KnownCall(j, op'[j])
  BY <1>1 DEF Provenance
<1> QED BY <1>2, ProvenanceLater DEF Provenance

LEMMA SlotSetKnown ==
    ASSUME KnownPre, NEW v, NEW l, NEW e, l \in Keys => Known(l, e),
           slot' = slot \/ slot' = [slot EXCEPT ![v][l] = e]
    PROVE  \A u \in Users, k \in Keys : KnownSlot(k, slot'[u][k])
BY DEF KnownPre, KeyedTyped, StoreTyped, SlotType, Provenance, KnownSlot

LEMMA BegunKnown ==
    ASSUME NEW i, NEW stage, NEW n, NEW base, NEW hash, NEW tries,
           KnownSlot(TheKey(i), base), CallOf(i) = "save" => hash = HashBefore(base)
    PROVE  KnownCall(i, BegunOp(stage, n, base, hash, tries))
BY DEF KnownCall, BegunOp, IdleOp, KnownSlot

LEMMA BeginsStayKnown ==
    ASSUME KnownPre, NEW i \in Ops, Save(i) \/ Write(i) \/ Mutate(i) \/ Reload(i) \/ RangeReload(i)
    PROVE  Provenance'
<1> USE DEF KnownPre
<1>0. /\ row' = row /\ fetch' = fetch
      /\ CallOf(i) \notin {"createMany", "rangeReload"} => TheKey(i) \in Keys
  BY OpFacts DEF Save, Write, Mutate, Reload, RangeReload
<1>1. ASSUME NEW v \in Users, NEW k \in Keys
      PROVE  KnownSlot(k, slot[v][k])
  BY DEF Provenance
<1>2. ASSUME NEW n \in 1 .. session PROVE UserOf(n) \in Users
  BY SessionFacts
<1>3. ASSUME NEW stage, NEW n, NEW base, NEW hash, NEW tries,
             Began(i, n, stage, base, hash, tries) = op',
             KnownSlot(TheKey(i), base), CallOf(i) = "save" => hash = HashBefore(base), slot' = slot
      PROVE  Provenance'
  <2> DEFINE o == BegunOp(stage, n, base, hash, tries)
  <2>1. op' = [op EXCEPT ![i] = o] /\ KnownCall(i, o)
    BY <1>3, BegunKnown DEF Began, BegunOp
  <2> HIDE DEF o
  <2> QED BY <1>0, <1>1, <1>3, <2>1, CallStepKnown
<1>4. CASE Save(i)
  <2>1. PICK n \in Callbacks(TheKey(i)) :
           LET v == UserOf(n)
               l == TheKey(i)
               previous == slot[v][l]
               hash == IF previous = NoSlot THEN Null ELSE previous.hash
           IN  /\ slot' = [slot EXCEPT ![v][l] =
                             [data |-> Passed(i), hash |-> hash, by |-> "save"]]
               /\ op' = Began(i, n, "send", previous, hash, 0)
    BY <1>4 DEF Save
  <2> DEFINE v == UserOf(n)
             l == TheKey(i)
             previous == slot[v][l]
             hash == HashBefore(previous)
             o == BegunOp("send", n, previous, hash, 0)
             e == [data |-> Passed(i), hash |-> hash, by |-> "save"]
  <2>2. v \in Users /\ l \in Keys
    BY <1>0, <1>2, <1>4 DEF Callbacks, Save, CanBegin
  <2>3. op' = [op EXCEPT ![i] = o] /\ KnownCall(i, o)
    BY <1>1, <2>1, <2>2, BegunKnown DEF Began, BegunOp, HashBefore
  <2>4. slot' = [slot EXCEPT ![v][l] = e] /\ Known(l, e)
    BY <2>1, CallContent DEF HashBefore, Known
  <2> HIDE DEF o, e
  <2>5. \A u \in Users, k \in Keys : KnownSlot(k, slot'[u][k])
    BY <2>4, SlotSetKnown
  <2> QED BY <1>0, <2>3, <2>5, CallStepKnown
<1>5. CASE Write(i)
  BY <1>3, <1>5 DEF Write, CanBegin, KnownSlot
<1>6. CASE Mutate(i) \/ Reload(i)
  <2>1. PICK n \in 1 .. session, tries \in {0, MaxAttempts} :
          op' = BeganLoad(i, n, tries) /\ slot' = slot
    BY <1>6, SessionFacts DEF Mutate, Reload, Callbacks
  <2>2. KnownSlot(TheKey(i), slot[UserOf(n)][TheKey(i)]) /\ CallOf(i) # "save"
    BY <1>0, <1>1, <1>2, <1>6 DEF Mutate, Reload, CanBegin
  <2> QED BY <1>3, <2>1, <2>2 DEF BeganLoad
<1>7. CASE RangeReload(i)
  <2>1. PICK n : op' = Began(i, n, "read", NoSlot, Null, 0) /\ slot' = slot
    BY <1>7 DEF RangeReload
  <2> QED BY <1>3, <1>7, <2>1 DEF RangeReload, CanBegin, KnownSlot
<1> QED BY <1>4, <1>5, <1>6, <1>7

LEMMA LoadedEntryKnown ==
    ASSUME KnownPre, NEW i \in Ops, op[i].stage = "loaded", CallOf(i) \in {"reload", "mutate"}
    PROVE  Known(TheKey(i), LoadedEntry(i)) /\ LoadedEntry(i) \in Entries
<1> USE DEF KnownPre
<1>1. TheKey(i) \in Keys /\ KnownCall(i, op[i]) /\ SoundOp(i, op[i])
  BY OpFacts DEF Provenance, KeyedTyped, OpsTyped
<1>2. LoadedEntry(i) \in Entries
  BY LoadedEntryType DEF KeyedTyped
<1>3. CASE op[i].fresh
  <2>1. op[i].rows[TheKey(i)] \in Values
    BY <1>1 DEF KeyedTyped, OpsTyped, OpStates
  <2> QED BY <1>1, <1>2, <1>3, <2>1, LoadedContent DEF LoadedEntry, Loaded, KnownCall, Known
<1>4. CASE ~op[i].fresh
  BY <1>1, <1>2, <1>4, KeyedNullAssumption DEF LoadedEntry, KnownCall, SoundOp
<1> QED BY <1>2, <1>3, <1>4

LEMMA LoadsStayKnown ==
    ASSUME KnownPre, NEW i \in Ops,
           \/ GetHash(i) \/ ReadsRows(i) \/ Refused(i)
           \/ ReloadResolves(i) \/ RangeReloadResolves(i) \/ MutateComputes(i)
    PROVE  Provenance'
<1> USE DEF KnownPre
<1>0. /\ row' = row /\ fetch' = fetch /\ KnownCall(i, op[i]) /\ op[i] \in OpStates
      /\ \A u \in Users, k \in Keys : KnownSlot(k, slot[u][k])
      /\ SoundOp(i, op[i]) /\ KnownCall(i, [IdleOp EXCEPT !.stage = "done"])
  BY DoneIsKnown
  DEF GetHash, ReadsRows, Refused, ReloadResolves, RangeReloadResolves, MutateComputes,
      Provenance, KeyedTyped, OpsTyped
<1>1. CASE GetHash(i) \/ Refused(i)
  <2>1. PICK s : op' = [op EXCEPT ![i].stage = s] /\ op[i].stage \notin {"idle", "done"}
                 /\ slot' = slot
    BY <1>1 DEF GetHash, Refused
  <2> DEFINE o == [op[i] EXCEPT !.stage = s]
  <2>2. op' = [op EXCEPT ![i] = o]
    BY <2>1
  <2>3. KnownCall(i, o)
    BY <1>0, <2>1 DEF KnownCall, OpStates
  <2> HIDE DEF o
  <2> QED BY <1>0, <2>1, <2>2, <2>3, CallStepKnown
<1>2. CASE ReadsRows(i)
  <2> DEFINE o == [op[i] EXCEPT !.stage = "loaded", !.rows = ListByKeyRange(OpUser(i)),
                                !.fresh = TRUE]
  <2>1. op' = [op EXCEPT ![i] = o] /\ OpUser(i) \in Users /\ slot' = slot
        /\ op[i].stage \notin {"idle", "done"}
    BY <1>2, OpUserType DEF ReadsRows, KeyedTyped
  <2>2. \A k \in Keys : Kept(k, ListByKeyRange(OpUser(i))[k])
    BY <2>1 DEF ListByKeyRange, Provenance
  <2>3. KnownCall(i, o)
    BY <1>0, <2>1, <2>2 DEF KnownCall, OpStates
  <2> HIDE DEF o
  <2> QED BY <1>0, <2>1, <2>3, CallStepKnown
<1>3. CASE ReloadResolves(i)
  <2> DEFINE e == LoadedEntry(i)
             e2 == [e EXCEPT !.by = "reload"]
             v == OpUser(i)
             l == TheKey(i)
  <2>1. Known(l, e) /\ Known(l, e2)
    <3>1. Known(l, e) /\ e \in Entries
      BY <1>3, LoadedEntryKnown DEF ReloadResolves
    <3> QED BY <3>1, KeptContent DEF Known
  <2>2. slot' \in {slot, [slot EXCEPT ![v][l] = e], [slot EXCEPT ![v][l] = e2],
                   [[slot EXCEPT ![v][l] = e] EXCEPT ![v][l] = e2]}
    BY <1>3 DEF ReloadResolves, SlotOfLoad
  <2> HIDE DEF e, e2
  <2>3. [[slot EXCEPT ![v][l] = e] EXCEPT ![v][l] = e2] = [slot EXCEPT ![v][l] = e2]
    BY DEF KeyedTyped, StoreTyped, SlotType
  <2>4. \A u \in Users, k \in Keys : KnownSlot(k, slot'[u][k])
    BY <2>1, <2>2, <2>3, SlotSetKnown
  <2> QED BY <1>0, <1>3, <2>4, CallStepKnown DEF ReloadResolves
<1>4. CASE RangeReloadResolves(i)
  BY <1>0, <1>4, CallStepKnown DEF RangeReloadResolves
<1>5. CASE MutateComputes(i)
  <2> DEFINE o == [op[i] EXCEPT !.stage = "send", !.expected = LoadedEntry(i).hash]
  <2>1. op' = [op EXCEPT ![i] = o] /\ slot' = SlotOfLoad(i) /\ CallOf(i) = "mutate"
        /\ op[i].stage = "loaded"
    BY <1>5 DEF MutateComputes
  <2>2. KnownCall(i, o)
    BY <1>0, <2>1 DEF KnownCall, OpStates
  <2> HIDE DEF o
  <2>3. Known(TheKey(i), LoadedEntry(i))
    BY <2>1, LoadedEntryKnown
  <2>4. \A u \in Users, k \in Keys : KnownSlot(k, slot'[u][k])
    BY <2>1, <2>3, SlotSetKnown DEF SlotOfLoad
  <2> QED BY <1>0, <2>1, <2>2, <2>4, CallStepKnown
<1> QED BY <1>1, <1>2, <1>3, <1>4, <1>5

LEMMA NotesStayKnown ==
    ASSUME NEW i, NEW o, NEW o2, KnownCall(i, o), o2.fresh = o.fresh, o2.rows = o.rows,
           o2.base = o.base, o2.expected = o.expected,
           o.stage \in {"idle", "done"} => o2.stage \in {"idle", "done"}
    PROVE  KnownCall(i, o2)
BY DEF KnownCall

(* The notes a write leaves are none of these.                             *)
LEMMA WritesStayKnown ==
    ASSUME KnownPre, NEW v \in Users,
           \A u \in Users, k \in Keys : Kept(k, row'[u][k]),
           fetch' = FetchAfterWrite(v), slot' = slot,
           \/ op' = OpsAfterWrite(v)
           \/ \E i \in Ops : /\ op[i].stage \notin {"idle", "done"}
                             /\ op' = [OpsAfterWrite(v) EXCEPT ![i].stage = "landed"]
    PROVE  Provenance'
<1> USE DEF KnownPre
<1>1. ASSUME NEW u \in Users, NEW t \in Targets
      PROVE  KnownFetch(fetch'[u][t])
  <2>1. KnownFetch(fetch[u][t]) /\ fetch \in FetchType
    BY DEF Provenance, KeyedTyped, RegistryTyped
  <2> DEFINE f == fetch[v][RangeTarget]
             f2 == [f EXCEPT !.stale = TRUE]
  <2>2. CASE fetch' = fetch
    BY <2>1, <2>2
  <2>3. CASE f # NoFetch /\ f.read /\ fetch' = [fetch EXCEPT ![v][RangeTarget] = f2]
    <3>1. f \in Fetches /\ KnownFetch(f)
      BY <2>1, <2>3 DEF FetchType, Targets, Provenance
    <3>2. KnownFetch(f2)
      BY <2>3, <3>1 DEF KnownFetch, Fetches
    <3> HIDE DEF f, f2
    <3> QED BY <2>1, <2>3, <3>2 DEF FetchType
  <2> QED BY <2>2, <2>3 DEF FetchAfterWrite
<1>2. ASSUME NEW j \in Ops
      PROVE  KnownCall(j, op'[j])
  <2> DEFINE o == OpsAfterWrite(v)[j]
             o2 == op'[j]
  <2>1. PICK b \in BOOLEAN : o = [op[j] EXCEPT !.stale = b]
    BY AfterWriteType DEF KeyedTyped
  <2>2. op[j] \in OpStates /\ KnownCall(j, op[j]) /\ o \in OpStates
    BY AfterWriteType DEF Provenance, KeyedTyped, OpsTyped
  <2>3. /\ o.fresh = op[j].fresh /\ o.rows = op[j].rows /\ o.base = op[j].base
        /\ o.expected = op[j].expected /\ o.stage = op[j].stage
    BY <2>1, <2>2 DEF OpStates
  <2>4. o2 = o \/ (op[j].stage \notin {"idle", "done"} /\ o2 = [o EXCEPT !.stage = "landed"])
    BY AfterWriteType DEF KeyedTyped
  <2> HIDE DEF o
  <2>5. /\ o2.fresh = op[j].fresh /\ o2.rows = op[j].rows /\ o2.base = op[j].base
        /\ o2.expected = op[j].expected
        /\ op[j].stage \in {"idle", "done"} => o2.stage \in {"idle", "done"}
    <3>1. CASE o2 = o
      BY <2>3, <3>1
    <3>2. CASE op[j].stage \notin {"idle", "done"} /\ o2 = [o EXCEPT !.stage = "landed"]
      BY <2>2, <2>3, <3>2 DEF OpStates
    <3> QED BY <2>4, <3>1, <3>2
  <2> HIDE DEF o2
  <2>6. KnownCall(j, o2)
    BY <2>2, <2>5, NotesStayKnown
  <2> QED BY <2>6 DEF o2
<1> QED BY <1>1, <1>2, ProvenanceLater DEF Provenance

LEMMA LandsStaysKnown ==
    ASSUME KnownPre, NEW i \in Ops, Lands(i)
    PROVE  Provenance'
<1> USE DEF KnownPre
<1> DEFINE v == OpUser(i)
<1>1. /\ v \in Users /\ fetch' = FetchAfterWrite(v) /\ slot' = slot
      /\ op[i].stage \notin {"idle", "done"}
      /\ op' = [OpsAfterWrite(v) EXCEPT ![i].stage = "landed"]
  BY OpUserType DEF Lands, KeyedTyped
<1>2. ASSUME NEW u \in Users, NEW k \in Keys
      PROVE  Kept(k, row'[u][k])
  <2>1. row'[u][k] \in {row[u][k], i}
    BY <1>1 DEF Lands, KeyedTyped, StoreTyped
  <2>2. Kept(k, row[u][k]) /\ Kept(k, i)
    BY CallValuesKept DEF Provenance
  <2> QED BY <2>1, <2>2
<1> QED BY <1>1, <1>2, WritesStayKnown

LEMMA EndsStayKnown ==
    ASSUME KnownPre, NEW i \in Ops, SaveResolves(i) \/ ConflictResolves(i) \/ Fails(i)
    PROVE  Provenance'
<1> USE DEF KnownPre
<1> DEFINE v == OpUser(i)
           l == TheKey(i)
<1>0. /\ row' = row /\ fetch' = fetch /\ KnownCall(i, op[i]) /\ op[i] \in OpStates
      /\ \A u \in Users, k \in Keys : KnownSlot(k, slot[u][k])
      /\ KnownCall(i, [IdleOp EXCEPT !.stage = "done"])
  BY DoneIsKnown DEF SaveResolves, ConflictResolves, Fails, Provenance, KeyedTyped, OpsTyped
<1>1. CASE SaveResolves(i)
  <2> DEFINE e == [data |-> Passed(i), hash |-> SavedHash(i), by |-> "save"]
  <2>1. Known(l, e)
    BY CallContent DEF Known
  <2>2. slot' = [slot EXCEPT ![v][l] = e]
    BY <1>1 DEF SaveResolves
  <2> HIDE DEF e
  <2>3. \A u \in Users, k \in Keys : KnownSlot(k, slot'[u][k])
    BY <2>1, <2>2, SlotSetKnown
  <2> QED BY <1>0, <1>1, <2>3, CallStepKnown DEF SaveResolves
<1>2. CASE ConflictResolves(i) \/ Fails(i)
  <2>1. \A u \in Users, k \in Keys : KnownSlot(k, slot'[u][k])
    <3> DEFINE e == [op[i].base EXCEPT !.by = "save"]
    <3>1. CASE slot' = slot
      BY <1>0, <3>1
    <3>2. CASE op[i].base # NoSlot /\ slot' = [slot EXCEPT ![v][l] = e]
      <4>1. op[i].base \in Entries /\ Known(l, op[i].base)
        BY <1>0, <3>2 DEF OpStates, KnownCall
      <4>2. Known(l, e)
        BY <4>1, KeptContent DEF Known
      <4> HIDE DEF e
      <4> QED BY <3>2, <4>2, SlotSetKnown
    <3> QED BY <1>2, <3>1, <3>2 DEF ConflictResolves, Fails, RolledBack
  <2>2. CASE op' = [op EXCEPT ![i] = [IdleOp EXCEPT !.stage = "done"]]
    BY <1>0, <2>1, <2>2, CallStepKnown
  <2>3. CASE CallOf(i) = "mutate" /\ op' = BeganLoad(i, op[i].session, op[i].tries - 1)
    <3> DEFINE n == op[i].session
               base == slot[UserOf(n)][l]
               o == BegunOp(LoadStage(UserOf(n), l), n, base, Null, op[i].tries - 1)
    <3>1. UserOf(n) \in Users /\ l \in Keys
      BY <2>3, OpUserType, OpFacts DEF OpUser, KeyedTyped
    <3>2. KnownSlot(l, base)
      BY <1>0, <3>1
    <3>3. op' = [op EXCEPT ![i] = o] /\ KnownCall(i, o)
      BY <2>3, <3>2, BegunKnown DEF BeganLoad, Began, BegunOp
    <3> HIDE DEF o
    <3> QED BY <1>0, <2>1, <3>3, CallStepKnown
  <2> QED BY <1>2, <2>2, <2>3 DEF ConflictResolves, Fails
<1> QED BY <1>1, <1>2

LEMMA WriteResolvesStaysKnown ==
    ASSUME KnownPre, NEW i \in Ops, WriteResolves(i)
    PROVE  Provenance'
<1> USE DEF KnownPre
<1>1. ASSUME NEW u \in Users, NEW k \in Keys
      PROVE  KnownSlot(k, slot'[u][k])
  <2> DEFINE e == [data |-> WrittenThrough(i), hash |-> HashOf(i), by |-> "write"]
  <2>1. KnownSlot(k, slot[u][k]) /\ KnownSlot(k, e)
    BY CallContent DEF Provenance, KnownSlot, Known
  <2>2. slot' = [slot EXCEPT ![OpUser(i)] = [l \in Keys |-> IF l \in KeysOf(i) THEN e ELSE @[l]]]
    BY DEF WriteResolves
  <2> HIDE DEF e
  <2>3. slot'[u][k] \in {slot[u][k], e}
    BY <2>2 DEF KeyedTyped, StoreTyped, SlotType
  <2> QED BY <2>1, <2>3
<1>2. ASSUME NEW j \in Ops
      PROVE  KnownCall(j, op'[j])
  <2>1. KnownCall(j, op[j]) /\ op[j] \in OpStates
    BY DEF Provenance, KeyedTyped, OpsTyped
  <2>2. \/ op'[j] = [IdleOp EXCEPT !.stage = "done"]
        \/ op'[j] = op[j]
        \/ op'[j] = [op[j] EXCEPT !.bumped = op[j].stale]
    BY DEF WriteResolves
  <2>3. CASE op'[j] = [op[j] EXCEPT !.bumped = op[j].stale]
    <3> DEFINE o2 == [op[j] EXCEPT !.bumped = op[j].stale]
    <3>1. /\ o2.fresh = op[j].fresh /\ o2.rows = op[j].rows /\ o2.base = op[j].base
          /\ o2.expected = op[j].expected /\ o2.stage = op[j].stage
      BY <2>1 DEF OpStates
    <3> HIDE DEF o2
    <3>2. KnownCall(j, o2)
      BY <2>1, <3>1, NotesStayKnown
    <3> QED BY <2>3, <3>2 DEF o2
  <2> QED BY <2>1, <2>2, <2>3, DoneIsKnown
<1>3. row' = row /\ fetch' = fetch
  BY DEF WriteResolves
<1> QED BY <1>1, <1>2, <1>3, ProvenanceLater DEF Provenance

LEMMA KeyedStepsStayKnown ==
    ASSUME KnownPre, KeyedSteps
    PROVE  Provenance'
<1>1. ASSUME NEW i \in Ops, CallSteps(i) PROVE Provenance'
  BY <1>1, BeginsStayKnown, LoadsStayKnown, EndsStayKnown, LandsStaysKnown,
     WriteResolvesStaysKnown DEF CallSteps
<1>2. ASSUME NEW v \in Users, NEW l \in Keys, ForeignWrite(v, l) PROVE Provenance'
  <2>1. ASSUME NEW u \in Users, NEW k \in Keys
        PROVE  Kept(k, row'[u][k])
    <3>1. row'[u][k] \in {row[u][k], Foreign}
      BY <1>2 DEF ForeignWrite, KnownPre, KeyedTyped, StoreTyped
    <3>2. Kept(k, Foreign)
      BY DEF Kept, Foreign, Absent, Old
    <3> QED BY <3>1, <3>2 DEF KnownPre, Provenance
  <2> QED BY <1>2, <2>1, WritesStayKnown DEF ForeignWrite
<1> QED BY <1>1, <1>2, HooksStayKnown DEF KeyedSteps

LEMMA ProvenanceUnchanged ==
    ASSUME Provenance, UNCHANGED << row, fetch, op, plan >>,
           slot' = slot \/ slot' = [u \in Users |-> [k \in Keys |-> NoSlot]]
    PROVE  Provenance'
<1>1. ASSUME NEW u \in Users, NEW k \in Keys
      PROVE  (Kept(k, row[u][k]) /\ KnownSlot(k, slot[u][k]))'
  <2>1. Kept(k, row[u][k]) /\ KnownSlot(k, slot[u][k])
    BY DEF Provenance
  <2>2. slot'[u][k] \in {slot[u][k], NoSlot}
    OBVIOUS
  <2> QED BY <2>1, <2>2 DEF Kept, KnownSlot, Known, HashOf, Hashed, Ops
<1>2. ASSUME NEW u, NEW t
      PROVE  KnownFetch(fetch[u][t])' <=> KnownFetch(fetch[u][t])
  BY DEF KnownFetch, Kept
<1>3. ASSUME NEW i
      PROVE  KnownCall(i, op[i])' <=> KnownCall(i, op[i])
  BY DEF KnownCall, Known, Kept, HashOf, Hashed, Ops, CallOf, TheKey, KeysOf, HashBefore
<1>4. Ops' = Ops
  BY DEF Ops
<1> QED BY <1>1, <1>2, <1>3, <1>4 DEF Provenance

(* Only the storage lands a write.                                         *)
LEMMA OnlyLandsLands ==
    ASSUME SessionTypeOK, KeyedTyped, KeyedSteps, NEW i \in Ops, op[i].stage # "landed",
           op'[i].stage = "landed"
    PROVE  Lands(i)
<1>0. op \in [Ops -> OpStates] /\ \A j \in Ops : op[j] \in OpStates
  BY DEF KeyedTyped, OpsTyped
<1>1. ASSUME NEW o, NEW j \in Ops, op' = [op EXCEPT ![j] = o], o.stage # "landed" PROVE FALSE
  BY <1>0, <1>1
<1>2. ASSUME NEW j \in Ops, NEW s, op' = [op EXCEPT ![j].stage = s], s # "landed" PROVE FALSE
  BY <1>0, <1>2 DEF OpStates
<1>3. op' # op
  OBVIOUS
<1>4. ASSUME NEW stage, NEW n, NEW base, NEW hash, NEW tries, NEW j \in Ops,
             op' = Began(j, n, stage, base, hash, tries), stage # "landed"
      PROVE  FALSE
  BY <1>1, <1>4, BegunFields DEF Began, BegunOp
<1>5. ASSUME NEW n, NEW tries, NEW j \in Ops, op' = BeganLoad(j, n, tries)
      PROVE  FALSE
  BY <1>4, <1>5 DEF BeganLoad, LoadStage
<1>6. ASSUME NEW j \in Ops, CallSteps(j), ~Lands(j) PROVE FALSE
  <2>1. CASE Save(j) \/ Write(j) \/ RangeReload(j)
    BY <1>4, <2>1 DEF Save, Write, RangeReload
  <2>2. CASE Mutate(j) \/ Reload(j)
    BY <1>5, <2>2 DEF Mutate, Reload
  <2>3. CASE GetHash(j) \/ Refused(j)
    BY <1>2, <2>3 DEF GetHash, Refused
  <2>4. CASE ReadsRows(j)
    <3> DEFINE o == [op[j] EXCEPT !.stage = "loaded", !.rows = ListByKeyRange(OpUser(j)),
                                  !.fresh = TRUE]
    <3>1. op' = [op EXCEPT ![j] = o] /\ o.stage = "loaded"
      BY <1>0, <2>4 DEF ReadsRows, OpStates
    <3> HIDE DEF o
    <3> QED BY <1>1, <3>1
  <2>5. CASE MutateComputes(j)
    <3> DEFINE o == [op[j] EXCEPT !.stage = "send", !.expected = LoadedEntry(j).hash]
    <3>1. op' = [op EXCEPT ![j] = o] /\ o.stage = "send"
      BY <1>0, <2>5 DEF MutateComputes, OpStates
    <3> HIDE DEF o
    <3> QED BY <1>1, <3>1
  <2>6. [IdleOp EXCEPT !.stage = "done"].stage = "done"
    BY DEF IdleOp
  <2>7. CASE \/ ReloadResolves(j) \/ RangeReloadResolves(j) \/ SaveResolves(j)
             \/ ConflictResolves(j) \/ Fails(j)
    <3>1. \/ op' = [op EXCEPT ![j] = [IdleOp EXCEPT !.stage = "done"]]
          \/ op' = BeganLoad(j, op[j].session, op[j].tries - 1)
      BY <2>7 DEF ReloadResolves, RangeReloadResolves, SaveResolves, ConflictResolves, Fails
    <3>2. [IdleOp EXCEPT !.stage = "done"].stage # "landed"
      BY <2>6
    <3> QED BY <1>1, <1>5, <3>1, <3>2
  <2>8. CASE WriteResolves(j)
    <3>1. op'[i] \in {op[i], [op[i] EXCEPT !.bumped = op[i].stale],
                      [IdleOp EXCEPT !.stage = "done"]}
      BY <2>8 DEF WriteResolves
    <3> QED BY <1>0, <2>6, <3>1 DEF OpStates
  <2> QED BY <1>6, <2>1, <2>2, <2>3, <2>4, <2>5, <2>7, <2>8 DEF CallSteps
<1>7. ASSUME NEW v \in Users
      PROVE  OpsAfterWrite(v)[i].stage = op[i].stage /\ DOMAIN OpsAfterWrite(v) = Ops
  BY <1>7, AfterWriteNotes
<1>8. ASSUME NEW j \in Ops, Lands(j) PROVE i = j
  <2>1. op' = [OpsAfterWrite(OpUser(j)) EXCEPT ![j].stage = "landed"] /\ OpUser(j) \in Users
    BY <1>8, OpUserType DEF Lands, KeyedTyped
  <2> QED BY <1>7, <2>1
<1>9. CASE HookSteps
  <2>1. op' = op
    BY <1>9 DEF HookSteps, EffectSkips, EffectFetches, Unmount, FetchReads, FetchFails,
       KeyFetchResolves, RangeFetchResolves
  <2> QED BY <1>3, <2>1
<1>10. CASE \E v \in Users, l \in Keys : ForeignWrite(v, l)
  BY <1>7, <1>10 DEF ForeignWrite
<1> QED BY <1>6, <1>8, <1>9, <1>10 DEF KeyedSteps

(* What the storage accepts of a save is what the save had been shown.     *)
LEMMA AcceptedIsShown ==
    ASSUME SessionTypeOK, KeyedTyped, KeysHonest, Provenance, NEW i \in Ops, Lands(i),
           plan.kind = "locked", CallOf(i) = "save", crowd[OpUser(i)][TheKey(i)] # "mixed",
           op[i].base # NoSlot, ~NeverLoaded(i)
    PROVE  \/ row[OpUser(i)][TheKey(i)] = Absent
           \/ Content(op[i].base) = row[OpUser(i)][TheKey(i)]
<1> DEFINE u == OpUser(i)
           k == TheKey(i)
           r == row[u][k]
           base == op[i].base
<1>1. /\ u \in Users /\ k \in Keys /\ KeysOf(i) = {k} /\ op[i].stage \in {"send", "second"}
      /\ r \in Values
  BY OpUserType, OpFacts DEF Lands, KeyedTyped, StoreTyped
<1>2. Honest(base)
  <2>1. On(i, op[i], u, k) /\ Based(i, op[i])
    BY <1>1 DEF On, OpUser, Based
  <2>2. HonestKey(u, k, op, slot[u][k])
    BY <1>1 DEF KeysHonest
  <2> QED BY <2>1, <2>2 DEF HonestKey
<1>3. /\ op[i].expected = base.hash /\ Known(k, base) /\ Kept(k, r)
  BY <1>1 DEF Provenance, KnownCall, HashBefore
<1>4. r = Absent \/ HashOf(r) = base.hash
  BY <1>3 DEF Lands, Accepted, Conditional, PutIfMatch, PutInTrips
<1>5. CASE base.hash # Null
  BY <1>2, <1>4, <1>5 DEF Honest, HashOf
<1>6. CASE base.hash = Null
  <2>1. Content(base) \notin Ops /\ HashOf(Content(base)) = Null /\ Kept(k, Content(base))
    BY <1>3, <1>6 DEF NeverLoaded, Known
  <2>2. Content(base) \in Values
    BY <1>1, EntryContent DEF KeyedTyped, OpsTyped, OpStates
  <2>3. ASSUME NEW v \in Values, HashOf(v) = Null PROVE v = Absent \/ v = Old
    BY <2>3, KeyedNullAssumption DEF HashOf, Hashed
  <2>4. CASE r = Absent
    BY <2>4
  <2>5. CASE r = Old
    <3>1. Content(base) # Absent
      BY <1>3, <2>1, <2>5 DEF Kept
    <3> QED BY <2>1, <2>2, <2>3, <2>5, <3>1
  <2> QED BY <1>1, <1>4, <1>6, <2>3, <2>4, <2>5
<1> QED BY <1>5, <1>6

(* Nothing is listed anew.                                                 *)
RowsListed == \A u \in Users, x \in Ids : record[u][x] = Listed => x \in plan.listed

LEMMA RowsListedStep ==
    ASSUME CollectionInv, SessionTypeOK, RowsListed, plan' = plan,
           CollectionSteps \/ UNCHANGED record
    PROVE  RowsListed'
<1>1. ASSUME NEW u \in Users, NEW x \in Ids, record'[u][x] = Listed
      PROVE  record[u][x] = Listed
  <2>1. record \in [Users -> [Ids -> ItemValues]]
    BY DEF CollectionInv, CollectionTyped
  <2>2. ASSUME NEW i \in Edits, EditSteps(i) PROVE record[u][x] = Listed
    <3>1. CASE record' = record
      BY <1>1, <3>1
    <3>2. CASE EditLands(i)
      <4>1. i # Listed /\ NoRow # Listed
        <5>1. i \in 1 .. 9
          <6>1. plan \in Plans /\ Len(plan.calls) < 10 /\ Len(plan.calls) \in Nat
            BY CollectionAssumption DEF SessionTypeOK
          <6> QED BY <6>1 DEF Edits
        <5> QED BY <5>1 DEF Listed, NoRow
      <4>2. PICK v \in ItemValues : /\ record' = [record EXCEPT ![EditUser(i)][IdOf(i)] = v]
                                    /\ v \in {i, NoRow, record[EditUser(i)][IdOf(i)]}
        <5>1. EditUser(i) \in Users /\ IdOf(i) \in Ids /\ i \in ItemValues
          BY EditUserType, EditFacts DEF CollectionInv
        <5> DEFINE old == record[EditUser(i)][IdOf(i)]
                   v == CASE EditOf(i) = "create" -> i
                          [] EditOf(i) = "remove" -> NoRow
                          [] OTHER -> IF plan.kind = "locked" THEN i ELSE UpdateById(old, i)
        <5>2. v \in {i, NoRow, old}
          BY EditFacts DEF UpdateById, EditCalls
        <5>3. record' = [record EXCEPT ![EditUser(i)][IdOf(i)] = v]
          BY <3>2 DEF EditLands
        <5>4. old \in ItemValues /\ NoRow \in ItemValues
          BY <2>1, <5>1 DEF ItemValues
        <5> HIDE DEF v, old
        <5>5. v \in ItemValues
          BY <5>1, <5>2, <5>4
        <5> QED BY <5>2, <5>3, <5>5 DEF old
      <4> QED BY <1>1, <2>1, <4>1, <4>2
    <3> QED BY <2>2, <3>1, <3>2 DEF EditSteps, EditBegins, EditRefused, EditResolves,
               EditConflicts, EditFails
  <2>3. ASSUME NEW v \in Users, NEW y \in Ids, ForeignEdit(v, y) \/ ForeignRemove(v, y)
        PROVE  record[u][x] = Listed
    <3>1. record'[u][x] \in {record[u][x], NoRow, Elsewhere}
      BY <2>1, <2>3 DEF ForeignEdit, ForeignRemove
    <3> QED BY <1>1, <3>1 DEF NoRow, Elsewhere, Listed
  <2>4. CASE ListSteps
    BY <1>1, <2>4 DEF ListSteps, ListSkipped, ListStarts, ListReads, ListResolves, ListFails,
       ViewUnmounts
  <2> QED BY <1>1, <2>2, <2>3, <2>4 DEF CollectionSteps
<1> QED BY <1>1 DEF RowsListed

(* Of the calls of a collection too, the storage alone lands one.          *)
LEMMA OnlyLandsLandsEdit ==
    ASSUME CollectionTyped, CollectionSteps, NEW i \in Edits, edit[i].stage # "landed",
           edit'[i].stage = "landed"
    PROVE  EditLands(i)
<1>0. edit \in [Edits -> EditStates] /\ \A j \in Edits : edit[j] \in EditStates
  BY DEF CollectionTyped
<1>1. ASSUME NEW e, NEW j \in Edits, edit' = [edit EXCEPT ![j] = e], e.stage # "landed" PROVE FALSE
  BY <1>0, <1>1
<1>2. ASSUME NEW j \in Edits, NEW s, edit' = [edit EXCEPT ![j].stage = s]
      PROVE  s = "landed" /\ i = j
  BY <1>0, <1>2 DEF EditStates
<1>3. edit' # edit
  OBVIOUS
<1>4. ASSUME NEW j \in Edits, EditSteps(j) PROVE EditLands(i)
  <2>1. CASE EditBegins(j)
    <3>1. PICK e : edit' = [edit EXCEPT ![j] = e] /\ e.stage = "sent"
      BY <2>1 DEF EditBegins
    <3> QED BY <1>1, <3>1
  <2>2. CASE EditRefused(j)
    BY <1>2, <2>2 DEF EditRefused
  <2>3. CASE EditLands(j)
    BY <1>2, <2>3 DEF EditLands
  <2>4. CASE EditResolves(j) \/ EditConflicts(j) \/ EditFails(j)
    <3>1. edit' = [edit EXCEPT ![j] = [IdleEdit EXCEPT !.stage = "done"]]
      BY <2>4 DEF EditResolves, EditConflicts, EditFails
    <3>2. [IdleEdit EXCEPT !.stage = "done"].stage # "landed"
      BY DEF IdleEdit
    <3> QED BY <1>1, <3>1, <3>2
  <2> QED BY <1>4, <2>1, <2>2, <2>3, <2>4 DEF EditSteps
<1>5. CASE ListSteps
  BY <1>3, <1>5 DEF ListSteps, ListSkipped, ListStarts, ListReads, ListResolves, ListFails,
     ViewUnmounts
<1>6. CASE \E u \in Users, x \in Ids : ForeignEdit(u, x) \/ ForeignRemove(u, x)
  BY <1>3, <1>6 DEF ForeignEdit, ForeignRemove
<1> QED BY <1>4, <1>5, <1>6 DEF CollectionSteps

(* What the storage accepts of an update is what its list showed.          *)
LEMMA AcceptedUpdateIsShown ==
    ASSUME SessionTypeOK, CollectionInv, ListsHonest, RowsListed, NEW i \in Edits, EditLands(i),
           plan.kind = "locked", EditOf(i) = "update", EditUser(i) \notin disorder
    PROVE  LET r == record[EditUser(i)][IdOf(i)]
               list == edit[i].previous
           IN  \/ r = NoRow
               \/ IdOf(i) \in DOMAIN list /\ Content(list[IdOf(i)]) = r
<1> DEFINE u == EditUser(i)
           x == IdOf(i)
           r == record[u][x]
           list == edit[i].previous
           item == list[x]
<1>1. u \in Users /\ x \in Ids /\ r \in ItemValues
  BY EditUserType, EditFacts DEF CollectionInv, CollectionTyped
<1>2. HonestEdit(i, edit[i])
  <2>1. EditOn(i, edit[i], u)
    BY DEF EditLands, EditOn, EditUser
  <2> QED BY <1>1, <2>1 DEF ListsHonest, HonestItems
<1>3. x \in DOMAIN list /\ HonestItem(x, item) /\ edit[i].expected = item.hash
  BY <1>2 DEF HonestEdit, HonestList
<1>4. r = NoRow \/ ItemHash(r) = item.hash
  BY <1>3 DEF EditLands, EditAccepted, UpdateIfMatch, UpdateInTrips
<1>5. CASE item.hash # None
  BY <1>3, <1>4, <1>5 DEF HonestItem, ItemHash
<1>6. CASE item.hash = None /\ r # NoRow
  <2>1. r = Listed
    BY <1>1, <1>4, <1>6, NoListAssumption DEF ItemHash, Hashed
  <2>2. x \in plan.listed
    BY <1>1, <2>1 DEF RowsListed
  <2> QED BY <1>3, <1>6, <2>1, <2>2 DEF HonestItem
<1> QED BY <1>3, <1>5, <1>6

(* With no load to go by a save lands on nothing, or on no hash.           *)
LEMMA UnloadedFindsNoHash ==
    ASSUME SessionTypeOK, KeyedTyped, Provenance, NEW i \in Ops, Lands(i),
           plan.kind = "locked", CallOf(i) = "save", NeverLoaded(i)
    PROVE  HashOf(row[OpUser(i)][TheKey(i)]) = Null
<1>1. op[i].stage \notin {"idle", "done"} /\ KnownCall(i, op[i])
  BY DEF Lands, Provenance
<1>2. op[i].expected = Null
  BY <1>1 DEF KnownCall, HashBefore, NeverLoaded
<1>3. Accepted(i) /\ Conditional(i)
  BY DEF Lands, Conditional
<1> QED BY <1>2, <1>3 DEF Accepted, PutIfMatch, PutInTrips, HashOf

LockedInv == VouchInv /\ Provenance /\ RowsListed

LEMMA LockedStart == Init => LockedInv
<1> SUFFICES ASSUME Init PROVE LockedInv
  OBVIOUS
<1>1. VouchInv
  BY VouchStart
<1>2. ASSUME NEW u \in Users, NEW k \in Keys
      PROVE  Kept(k, row[u][k]) /\ KnownSlot(k, slot[u][k])
  BY DEF Init, KeyedInit, Kept, KnownSlot, Absent, Old
<1>3. ASSUME NEW u \in Users, NEW t \in Targets
      PROVE  KnownFetch(fetch[u][t])
  BY DEF Init, KeyedInit, KnownFetch
<1>4. ASSUME NEW i \in Ops
      PROVE  KnownCall(i, op[i])
  BY DEF Init, KeyedInit, KnownCall, IdleOp
<1>5. RowsListed
  BY DEF Init, CollectionInit, RowsListed, Listed, NoRow
<1> QED BY <1>1, <1>2, <1>3, <1>4, <1>5 DEF LockedInv, Provenance

LEMMA LockedStep == LockedInv /\ [Next]_vars => LockedInv'
<1> SUFFICES ASSUME LockedInv, [Next]_vars PROVE LockedInv'
  OBVIOUS
<1> USE DEF LockedInv
<1>1. SessionTypeOK /\ KeyedTyped /\ CollectionInv /\ VouchInv'
  BY VouchStep DEF VouchInv, BindingsInv, KeyedInv
<1>2. CASE SameSession /\ StepOfSession
  <2>0. plan' = plan
    BY <1>2 DEF SameSession
  <2>1. CASE KeyedSteps /\ UNCHANGED collectionVars
    <3>1. RowsListed'
      BY <1>1, <2>0, <2>1, RowsListedStep DEF collectionVars
    <3> QED BY <1>1, <1>2, <2>1, <3>1, KeyedStepsStayKnown DEF KnownPre
  <2>2. CASE UNCHANGED keyedVars /\ (CollectionSteps \/ UNCHANGED collectionVars)
    <3>1. RowsListed'
      BY <1>1, <2>0, <2>2, RowsListedStep DEF collectionVars
    <3>2. Provenance'
      BY <2>0, <2>2, ProvenanceUnchanged DEF keyedVars
    <3> QED BY <1>1, <3>1, <3>2
  <2> QED BY <1>2, <2>1, <2>2 DEF StepOfSession
<1>3. CASE SessionLocks
  <2>1. UNCHANGED << row, fetch, op, plan, record >>
    BY <1>3 DEF SessionLocks, Lock, WipeKeyed, WipeCollection
  <2>2. slot' = [u \in Users |-> [k \in Keys |-> NoSlot]]
    BY <1>3 DEF SessionLocks, WipeKeyed
  <2>3. Provenance'
    BY <2>1, <2>2, ProvenanceUnchanged
  <2>4. RowsListed'
    BY <1>1, <2>1, RowsListedStep
  <2> QED BY <1>1, <2>3, <2>4
<1>4. CASE SessionUnlocks
  <2>1. UNCHANGED << row, fetch, op, plan, slot, record >>
    BY <1>4 DEF SessionUnlocks, Unlock, keyedVars, collectionVars
  <2>2. Provenance'
    BY <2>1, ProvenanceUnchanged
  <2>3. RowsListed'
    BY <1>1, <2>1, RowsListedStep
  <2> QED BY <1>1, <2>2, <2>3
<1> QED BY <1>1, <1>2, <1>3, <1>4, StepCases

(* A save or an update of an optimisticLock store replaces only what its   *)
(* slot or its list showed when it was called, or no row; a save with no   *)
(* load to go by also one that was never hashed.  A hash in a slot stands  *)
(* for the data beside it (HashesVouch), so what the storage accepts by a  *)
(* hash was shown.  For an entry without one the invariant says where its  *)
(* data came from: a load that made it has shown the row, since a row that *)
(* was not hashed at the start is the only one that ever was not.          *)
THEOREM SavesReplaceShown == Spec => LockedReplacesShown
<1>1. ASSUME LockedInv, [Next]_vars, plan.kind = "locked", NEW i \in Ops
      PROVE  SaveReplacesShown(i)
  <2> SUFFICES ASSUME CallOf(i) = "save", op[i].stage # "landed", op'[i].stage = "landed",
                      crowd[OpUser(i)][TheKey(i)] # "mixed"
               PROVE  LET u == OpUser(i)
                          k == TheKey(i)
                      IN  \/ row[u][k] = Absent
                          \/ NeverLoaded(i) /\ HashOf(row[u][k]) = Null
                          \/ op[i].base # NoSlot /\ Content(op[i].base) = row[u][k]
    BY DEF SaveReplacesShown
  <2>1. SessionTypeOK /\ KeyedTyped /\ KeysHonest /\ Provenance
    BY <1>1 DEF LockedInv, VouchInv, BindingsInv, KeyedInv
  <2>2. KeyedSteps
    <3>1. op' # op
      OBVIOUS
    <3> QED BY <1>1, <2>1, <3>1, StepCases DEF StepOfSession, keyedVars, SessionLocks, WipeKeyed,
               SessionUnlocks
  <2>3. Lands(i)
    BY <2>1, <2>2, OnlyLandsLands
  <2>4. CASE NeverLoaded(i)
    BY <1>1, <2>1, <2>3, <2>4, UnloadedFindsNoHash
  <2>5. CASE ~NeverLoaded(i)
    <3>1. op[i].base # NoSlot
      BY <2>5 DEF NeverLoaded
    <3> QED BY <1>1, <2>1, <2>3, <2>5, <3>1, AcceptedIsShown
  <2> QED BY <2>4, <2>5
<1>2. ASSUME LockedInv, [Next]_vars, plan.kind = "locked", NEW i \in Edits
      PROVE  UpdateReplacesShown(i)
  <2> SUFFICES ASSUME EditOf(i) = "update", edit[i].stage # "landed", edit'[i].stage = "landed",
                      EditUser(i) \notin disorder
               PROVE  LET u == EditUser(i)
                          x == IdOf(i)
                          list == edit[i].previous
                      IN  \/ record[u][x] = NoRow
                          \/ x \in DOMAIN list /\ Content(list[x]) = record[u][x]
    BY DEF UpdateReplacesShown
  <2>1. SessionTypeOK /\ CollectionInv /\ ListsHonest /\ RowsListed
    BY <1>2 DEF LockedInv, VouchInv, BindingsInv
  <2>2. CollectionSteps
    <3>1. edit' # edit
      OBVIOUS
    <3> QED BY <1>2, <2>1, <3>1, StepCases DEF StepOfSession, collectionVars, SessionLocks,
               WipeCollection, SessionUnlocks
  <2>3. EditLands(i)
    BY <2>1, <2>2, OnlyLandsLandsEdit DEF CollectionInv
  <2> QED BY <1>2, <2>1, <2>3, AcceptedUpdateIsShown
<1>3. LockedInv /\ [Next]_vars =>
          [plan.kind = "locked" => /\ \A i \in Ops : SaveReplacesShown(i)
                                   /\ \A i \in Edits : UpdateReplacesShown(i)]_vars
  BY <1>1, <1>2
<1> QED BY <1>3, LockedStart, LockedStep, PTL DEF Spec, LockedReplacesShown

-----------------------------------------------------------------------------
(* The range of a keyed store and the rows it shows.                       *)

(* The calls that move the epoch when they resolve.                        *)
Counting == {"set", "mutate", "createMany"}
ReadStages == {"idle", "hash", "read", "loaded", "done"}

(* A landed write of u is about to move the epoch.                         *)
Coming(u, ops) ==
    \E i \in Ops : /\ CallOf(i) \in Counting /\ ops[i].stage = "landed"
                   /\ UserOf(ops[i].session) = u

(* The effect of h ran for the epoch n of the user signed in, u.           *)
AtEpoch(h, u, seen, n) ==
    TargetOf[h] = RangeTarget /\ unlocked /\ UserOf(session) = u /\ seen = << session, n >>
KnownEpoch(h, seen, epochs) ==
    TargetOf[h] = RangeTarget /\ unlocked /\ seen[1] = session
        => seen[2] <= epochs[UserOf(session)]

(* Who may have missed a write of u's.                                     *)
Excused(u, missed, ops) == u \in missed \/ Coming(u, ops)

(* What a reload and the registered fetch of the range have read: the      *)
(* rows, or a write that has landed since accounts for the difference.     *)
TrueReload(o, u, rows, missed, ops) ==
    /\ o.stage = "loaded" /\ ~o.stale => o.rows = rows
    /\ o.stage # "loaded" => ~o.stale
    /\ o.stale /\ ~o.bumped => Excused(u, missed, ops)
TrueFetch(f, u, rows, missed, ops, n, hooks) ==
    f # NoFetch =>
        /\ f.stale => f.read
        /\ f.read /\ ~f.stale => f.rows = rows
        /\ f.stale => \/ Excused(u, missed, ops)
                      \/ \A h \in Hooks : AtEpoch(h, u, hooks[h].seen, n) => ~hooks[h].waits

(* The slot of the range: where it does not show the rows, the epoch will  *)
(* move or has moved, and no hook has seen that and gone by.               *)
Looked(h, u, n, hooks) ==
    AtEpoch(h, u, hooks[h].seen, n) => hooks[h].error \/ hooks[h].waits
TrueEntry(e, u, rows, missed, ops, n, hooks) ==
    e # NoSlot /\ u \notin missed =>
        /\ e.epoch <= n
        /\ \/ e.rows = rows
           \/ Coming(u, ops)
           \/ e.epoch < n /\ \A h \in Hooks : Looked(h, u, n, hooks)

ReloadsTrue(u, rows, missed, ops) ==
    \A i \in Ops : CallOf(i) = "rangeReload" /\ UserOf(ops[i].session) = u
                      => TrueReload(ops[i], u, rows, missed, ops)
TrueRange(u, rows, missed, ops, f, e, n, hooks) ==
    /\ ReloadsTrue(u, rows, missed, ops)
    /\ TrueFetch(f, u, rows, missed, ops, n, hooks)
    /\ TrueEntry(e, u, rows, missed, ops, n, hooks)

RangesTrue ==
    /\ \A h \in Hooks : KnownEpoch(h, hook[h].seen, epoch)
    /\ \A i \in Ops : CallOf(i) \in Reads => op[i].stage \in ReadStages
    /\ \A u \in Users : TrueRange(u, row[u], behind, op, fetch[u][RangeTarget],
                                  range[u], epoch[u], hook)

LEMMA RangesTrueLater ==
    ASSUME SameSession,
           \A h \in Hooks : KnownEpoch(h, hook'[h].seen, epoch'),
           \A i \in Ops : CallOf(i) \in Reads => op'[i].stage \in ReadStages,
           \A u \in Users : TrueRange(u, row'[u], behind', op', fetch'[u][RangeTarget],
                                      range'[u], epoch'[u], hook')
    PROVE  RangesTrue'
<1>0. plan' = plan /\ session' = session /\ unlocked' = unlocked /\ Ops' = Ops
  BY DEF SameSession, Ops
<1>1. ASSUME NEW h
      PROVE  KnownEpoch(h, hook[h].seen, epoch)' <=> KnownEpoch(h, hook'[h].seen, epoch')
  BY <1>0 DEF KnownEpoch, UserOf
<1>2. ASSUME NEW i PROVE CallOf(i)' = CallOf(i)
  BY <1>0 DEF CallOf
<1>3. ASSUME NEW u
      PROVE  TrueRange(u, row[u], behind, op, fetch[u][RangeTarget], range[u], epoch[u], hook)'
                <=> TrueRange(u, row'[u], behind', op', fetch'[u][RangeTarget], range'[u],
                              epoch'[u], hook')
  BY <1>0 DEF TrueRange, ReloadsTrue, TrueFetch, TrueEntry, TrueReload, Excused, Looked, AtEpoch,
     Coming, CallOf, UserOf
<1> QED BY <1>0, <1>1, <1>2, <1>3 DEF RangesTrue

(* Calls move, the hooks of the range do not.                              *)
LEMMA CallsMoveRange ==
    ASSUME NEW u, NEW rows, NEW missed, NEW missed2, NEW ops, NEW ops2, NEW f, NEW e, NEW n,
           NEW hooks, NEW hooks2,
           TrueRange(u, rows, missed, ops, f, e, n, hooks), (u \in missed => u \in missed2),
           Coming(u, ops) => Excused(u, missed2, ops2),
           \A i \in Ops : CallOf(i) = "rangeReload" /\ UserOf(ops2[i].session) = u
              => \/ ops2[i] = ops[i]
                 \/ TrueReload(ops2[i], u, rows, missed2, ops2),
           \A h \in Hooks : TargetOf[h] = RangeTarget => hooks2[h] = hooks[h]
    PROVE  TrueRange(u, rows, missed2, ops2, f, e, n, hooks2)
<1>1. ASSUME NEW h \in Hooks
      PROVE  /\ AtEpoch(h, u, hooks2[h].seen, n)
                   => AtEpoch(h, u, hooks[h].seen, n) /\ hooks2[h] = hooks[h]
             /\ Looked(h, u, n, hooks) => Looked(h, u, n, hooks2)
  BY DEF AtEpoch, Looked
<1>2. ReloadsTrue(u, rows, missed2, ops2)
  BY DEF TrueRange, ReloadsTrue, TrueReload, Excused
<1>3. TrueFetch(f, u, rows, missed2, ops2, n, hooks2)
  BY <1>1 DEF TrueRange, TrueFetch, Excused
<1>4. TrueEntry(e, u, rows, missed2, ops2, n, hooks2)
  BY <1>1 DEF TrueRange, TrueEntry, Excused
<1> QED BY <1>2, <1>3, <1>4 DEF TrueRange

(* Hooks move, the calls and the slot do not.                              *)
LEMMA HooksMoveRange ==
    ASSUME NEW u, NEW rows, NEW missed, NEW missed2, NEW ops, NEW f, NEW f2, NEW e, NEW n,
           NEW hooks, NEW hooks2,
           TrueRange(u, rows, missed, ops, f, e, n, hooks), (u \in missed => u \in missed2),
           TrueFetch(f2, u, rows, missed2, ops, n, hooks2),
           n \in Nat, e # NoSlot => e.epoch \in Nat,
           e # NoSlot => \A h \in Hooks :
              Looked(h, u, n, hooks) => Looked(h, u, n, hooks2) \/ e.epoch = n
    PROVE  TrueRange(u, rows, missed2, ops, f2, e, n, hooks2)
<1>1. ReloadsTrue(u, rows, missed2, ops)
  BY DEF TrueRange, ReloadsTrue, TrueReload, Excused
<1>2. TrueEntry(e, u, rows, missed2, ops, n, hooks2)
  <2>1. SUFFICES ASSUME e # NoSlot, u \notin missed2, e.rows # rows, ~Coming(u, ops)
                 PROVE  e.epoch < n /\ \A h \in Hooks : Looked(h, u, n, hooks2)
    BY DEF TrueRange, TrueEntry
  <2>2. e.epoch < n /\ \A h \in Hooks : Looked(h, u, n, hooks)
    BY <2>1 DEF TrueRange, TrueEntry
  <2>3. e.epoch # n
    BY <2>1, <2>2
  <2> QED BY <2>1, <2>2, <2>3
<1> QED BY <1>1, <1>2 DEF TrueRange

RangePre == SessionTypeOK /\ KeyedTyped /\ HooksInv /\ SameSession /\ RangesTrue

LEMMA RangeFacts ==
    ASSUME KeyedTyped, NEW u \in Users
    PROVE  /\ epoch[u] \in Nat
           /\ range[u] # NoSlot => range[u].epoch \in Nat
BY DEF KeyedTyped, StoreTyped, RangeType, RangeEntries

(* Steps that leave u's rows, range and fetch alone.                       *)
LEMMA RangeKept ==
    ASSUME RangePre, NEW u \in Users,
           row'[u] = row[u], fetch'[u][RangeTarget] = fetch[u][RangeTarget],
           range'[u] = range[u], epoch'[u] = epoch[u], u \in behind => u \in behind',
           Coming(u, op) => Excused(u, behind', op'),
           \A j \in Ops : CallOf(j) = "rangeReload" /\ UserOf(op'[j].session) = u
              => op'[j] = op[j] \/ TrueReload(op'[j], u, row[u], behind', op'),
           \A h \in Hooks : TargetOf[h] = RangeTarget => hook'[h] = hook[h]
    PROVE  TrueRange(u, row'[u], behind', op', fetch'[u][RangeTarget], range'[u], epoch'[u],
                     hook')
<1> DEFINE ops2 == op'
           missed2 == behind'
           hooks2 == hook'
<1>1. /\ Coming(u, op) => Excused(u, missed2, ops2)
      /\ \A j \in Ops : CallOf(j) = "rangeReload" /\ UserOf(ops2[j].session) = u
            => ops2[j] = op[j] \/ TrueReload(ops2[j], u, row[u], missed2, ops2)
      /\ u \in behind => u \in missed2
      /\ \A h \in Hooks : TargetOf[h] = RangeTarget => hooks2[h] = hook[h]
  OBVIOUS
<1>2. TrueRange(u, row[u], behind, op, fetch[u][RangeTarget], range[u], epoch[u], hook)
  BY DEF RangePre, RangesTrue
<1> HIDE DEF ops2, missed2, hooks2
<1>3. TrueRange(u, row[u], missed2, ops2, fetch[u][RangeTarget], range[u], epoch[u], hooks2)
  BY <1>1, <1>2, CallsMoveRange
<1> QED BY <1>3 DEF ops2, missed2, hooks2

(* A step of a call that lands nothing and leaves the range alone.         *)
LEMMA QuietCallRange ==
    ASSUME RangePre, NEW i \in Ops, NEW o, op' = [op EXCEPT ![i] = o],
           UNCHANGED << row, fetch, range, epoch, hook >>, behind \subseteq behind',
           CallOf(i) \in Reads => o.stage \in ReadStages,
           op[i].stage = "landed" /\ CallOf(i) \in Counting => OpUser(i) \in behind',
           CallOf(i) = "rangeReload" =>
              ~o.stale /\ (o.stage = "loaded" => o.rows = row[UserOf(o.session)])
    PROVE  RangesTrue'
<1>1. \A j \in Ops : op'[j] = IF j = i THEN o ELSE op[j]
  BY DEF RangePre, KeyedTyped, OpsTyped
<1>2. ASSUME NEW u \in Users
      PROVE  TrueRange(u, row'[u], behind', op', fetch'[u][RangeTarget], range'[u], epoch'[u],
                       hook')
  <2>1. Coming(u, op) => Excused(u, behind', op')
    BY <1>1 DEF Coming, OpUser, Excused
  <2>2. \A j \in Ops : CallOf(j) = "rangeReload" /\ UserOf(op'[j].session) = u
           => op'[j] = op[j] \/ TrueReload(op'[j], u, row[u], behind', op')
    BY <1>1 DEF TrueReload
  <2> QED BY <2>1, <2>2, RangeKept
<1>3. \A j \in Ops : CallOf(j) \in Reads => op'[j].stage \in ReadStages
  BY <1>1 DEF RangePre, RangesTrue
<1>4. \A h \in Hooks : KnownEpoch(h, hook'[h].seen, epoch')
  BY DEF RangePre, RangesTrue
<1> QED BY <1>2, <1>3, <1>4, RangesTrueLater DEF RangePre

LEMMA BegunStale ==
    ASSUME NEW stage, NEW n, NEW base, NEW hash, NEW tries
    PROVE  LET o == BegunOp(stage, n, base, hash, tries)
           IN  o.stage = stage /\ ~o.stale
BY DEF BegunOp, IdleOp

LEMMA BeginsRange ==
    ASSUME RangePre, NEW i \in Ops,
           Save(i) \/ Write(i) \/ Mutate(i) \/ Reload(i) \/ RangeReload(i)
    PROVE  RangesTrue'
<1>1. PICK stage, n, base, hash, tries :
         /\ op' = [op EXCEPT ![i] = BegunOp(stage, n, base, hash, tries)]
         /\ CallOf(i) \in Reads => stage \in {"hash", "read"}
  <2>1. CASE Save(i)
    <3>1. CallOf(i) = "save"
      BY <2>1 DEF Save, CanBegin
    <3>2. PICK n, base, hash : op' = Began(i, n, "send", base, hash, 0)
      BY <2>1 DEF Save
    <3>3. op' = [op EXCEPT ![i] = BegunOp("send", n, base, hash, 0)]
      BY <3>2 DEF Began, BegunOp
    <3> QED BY <3>1, <3>3 DEF Reads
  <2>2. CASE Write(i)
    BY <2>2 DEF Write, CanBegin, Began, BegunOp, Reads
  <2>3. CASE Mutate(i)
    BY <2>3 DEF Mutate, CanBegin, BeganLoad, Began, BegunOp, Reads
  <2>4. CASE Reload(i)
    <3>1. PICK n : op' = BeganLoad(i, n, 0)
      BY <2>4 DEF Reload
    <3>2. LoadStage(UserOf(n), TheKey(i)) \in {"hash", "read"}
      BY DEF LoadStage
    <3> QED BY <3>1, <3>2 DEF BeganLoad, Began, BegunOp
  <2>5. CASE RangeReload(i)
    BY <2>5 DEF RangeReload, Began, BegunOp
  <2> QED BY <2>1, <2>2, <2>3, <2>4, <2>5
<1> DEFINE o == BegunOp(stage, n, base, hash, tries)
<1>2. /\ op' = [op EXCEPT ![i] = o] /\ ~o.stale /\ o.stage = stage
      /\ op[i].stage = "idle" /\ UNCHANGED << row, fetch, range, epoch, hook, behind >>
  BY <1>1, BegunStale DEF Save, Write, Mutate, Reload, RangeReload, CanBegin
<1> HIDE DEF o
<1>3. CallOf(i) = "rangeReload" => o.stage # "loaded"
  BY <1>1, <1>2 DEF Reads
<1>4. CallOf(i) \in Reads => o.stage \in ReadStages
  BY <1>1, <1>2 DEF ReadStages
<1> QED BY <1>2, <1>3, <1>4, QuietCallRange

LEMMA StagesRange ==
    ASSUME RangePre, NEW i \in Ops, GetHash(i) \/ ReadsRows(i) \/ Refused(i) \/ MutateComputes(i)
    PROVE  RangesTrue'
<1>0. /\ op[i] \in OpStates /\ SoundOp(i, op[i]) /\ OpUser(i) \in Users
      /\ UNCHANGED << row, fetch, range, epoch, hook, behind >>
  BY OpUserType DEF RangePre, KeyedTyped, OpsTyped, GetHash, ReadsRows, Refused, MutateComputes
<1>1. CASE GetHash(i)
  <2>1. PICK s \in {"loaded", "read"} : op' = [op EXCEPT ![i].stage = s]
    BY <1>1 DEF GetHash
  <2> DEFINE o == [op[i] EXCEPT !.stage = s]
  <2>2. /\ op' = [op EXCEPT ![i] = o] /\ o.stage = s /\ op[i].stage = "hash"
    BY <1>0, <1>1, <2>1 DEF GetHash, OpStates
  <2> HIDE DEF o
  <2>3. CallOf(i) # "rangeReload" /\ o.stage \in ReadStages
    BY <1>0, <2>2 DEF SoundOp, ReadStages
  <2> QED BY <1>0, <2>2, <2>3, QuietCallRange
<1>2. CASE ReadsRows(i)
  <2> DEFINE o == [op[i] EXCEPT !.stage = "loaded", !.rows = ListByKeyRange(OpUser(i)),
                                !.fresh = TRUE]
  <2>1. /\ op' = [op EXCEPT ![i] = o] /\ o.stage = "loaded" /\ o.session = op[i].session
        /\ o.stale = op[i].stale /\ op[i].stage = "read" /\ o.rows = row[OpUser(i)]
    BY <1>0, <1>2 DEF ReadsRows, OpStates, ListByKeyRange
  <2> HIDE DEF o
  <2>2. CallOf(i) = "rangeReload" => ~o.stale
    BY <1>0, <2>1 DEF RangePre, RangesTrue, TrueRange, ReloadsTrue, TrueReload, OpUser
  <2>3. o.rows = row[UserOf(o.session)] /\ o.stage \in ReadStages
    BY <2>1 DEF OpUser, ReadStages
  <2> QED BY <1>0, <2>1, <2>2, <2>3, QuietCallRange
<1>3. CASE Refused(i)
  <2>1. PICK s \in {"second", "conflict"} : op' = [op EXCEPT ![i].stage = s]
    BY <1>3 DEF Refused
  <2> DEFINE o == [op[i] EXCEPT !.stage = s]
  <2>2. op' = [op EXCEPT ![i] = o] /\ op[i].stage \in {"send", "second"}
    BY <1>3, <2>1 DEF Refused
  <2> HIDE DEF o
  <2>3. CallOf(i) \notin Reads
    BY <2>2 DEF RangePre, RangesTrue, ReadStages
  <2> QED BY <1>0, <2>2, <2>3, QuietCallRange DEF Reads
<1>4. CASE MutateComputes(i)
  <2> DEFINE o == [op[i] EXCEPT !.stage = "send", !.expected = LoadedEntry(i).hash]
  <2>1. op' = [op EXCEPT ![i] = o] /\ CallOf(i) \notin Reads /\ op[i].stage = "loaded"
    BY <1>4 DEF MutateComputes, Reads
  <2> HIDE DEF o
  <2> QED BY <1>0, <2>1, QuietCallRange DEF Reads
<1> QED BY <1>1, <1>2, <1>3, <1>4

LEMMA DoneStale ==
    LET o == [IdleOp EXCEPT !.stage = "done"] IN o.stage = "done" /\ ~o.stale
BY DEF IdleOp

(* A call that returns, the writes that move the epoch and a range reload  *)
(* that fills the slot apart.                                              *)
LEMMA EndsRange ==
    ASSUME RangePre, NEW i \in Ops,
           \/ ReloadResolves(i) \/ SaveResolves(i) \/ ConflictResolves(i) \/ Fails(i)
           \/ RangeReloadResolves(i) /\ ~SignedIn(OpUser(i))
    PROVE  RangesTrue'
<1>0. OpUser(i) \in Users /\ behind \in SUBSET Users
  BY OpUserType DEF RangePre, KeyedTyped, StoreTyped
<1>1. /\ UNCHANGED << row, fetch, range, epoch, hook >> /\ behind \subseteq behind'
      /\ op[i].stage = "landed" /\ CallOf(i) \in Counting => OpUser(i) \in behind'
  <2>1. CASE Fails(i)
    BY <1>0, <2>1 DEF Fails
  <2>2. CASE ReloadResolves(i) \/ SaveResolves(i) \/ ConflictResolves(i)
    BY <2>2 DEF ReloadResolves, SaveResolves, ConflictResolves, Counting
  <2>3. CASE RangeReloadResolves(i) /\ ~SignedIn(OpUser(i))
    BY <2>3 DEF RangeReloadResolves, StillSignedIn
  <2> QED BY <2>1, <2>2, <2>3
<1>2. CASE op' = [op EXCEPT ![i] = [IdleOp EXCEPT !.stage = "done"]]
  <2> DEFINE o == [IdleOp EXCEPT !.stage = "done"]
  <2>1. o.stage = "done" /\ ~o.stale /\ op' = [op EXCEPT ![i] = o]
    BY <1>2, DoneStale
  <2> HIDE DEF o
  <2> QED BY <1>1, <2>1, QuietCallRange DEF ReadStages
<1>3. CASE op' # [op EXCEPT ![i] = [IdleOp EXCEPT !.stage = "done"]]
  <2>1. CallOf(i) = "mutate" /\ op' = BeganLoad(i, op[i].session, op[i].tries - 1)
    BY <1>3 DEF ReloadResolves, SaveResolves, ConflictResolves, Fails, RangeReloadResolves
  <2>2. PICK o : op' = [op EXCEPT ![i] = o]
    BY <2>1 DEF BeganLoad, Began
  <2> QED BY <1>1, <2>1, <2>2, QuietCallRange DEF Reads
<1> QED BY <1>2, <1>3

-----------------------------------------------------------------------------
(* A write of u's that lands: what has been read of the range is stale.    *)
LEMMA ExcusedRange ==
    ASSUME NEW u, NEW rows, NEW rows2, NEW missed, NEW missed2, NEW ops, NEW ops2, NEW f, NEW f2,
           NEW e, NEW n, NEW hooks,
           TrueRange(u, rows, missed, ops, f, e, n, hooks), (u \in missed => u \in missed2),
           Excused(u, missed2, ops2),
           \A i \in Ops : CallOf(i) = "rangeReload" /\ UserOf(ops2[i].session) = u
              => IF ops2[i].stage = "loaded" THEN ops2[i].stale ELSE ~ops2[i].stale,
           f2 # NoFetch => IF f2.read THEN f2.stale ELSE ~f2.stale
    PROVE  TrueRange(u, rows2, missed2, ops2, f2, e, n, hooks)
<1>1. ReloadsTrue(u, rows2, missed2, ops2)
  BY DEF ReloadsTrue, TrueReload
<1>2. TrueFetch(f2, u, rows2, missed2, ops2, n, hooks)
  BY DEF TrueFetch
<1>3. TrueEntry(e, u, rows2, missed2, ops2, n, hooks)
  BY DEF TrueRange, TrueEntry, Excused
<1> QED BY <1>1, <1>2, <1>3 DEF TrueRange

LEMMA AfterWriteRange ==
    ASSUME RangePre, NEW v \in Users
    PROVE  /\ \A u \in Users : u # v => FetchAfterWrite(v)[u][RangeTarget] = fetch[u][RangeTarget]
           /\ LET f2 == FetchAfterWrite(v)[v][RangeTarget]
              IN  f2 # NoFetch => IF f2.read THEN f2.stale ELSE ~f2.stale
           /\ \A j \in Ops : LET o == OpsAfterWrite(v)[j]
                             IN  /\ o.stage = op[j].stage /\ o.session = op[j].session
                                 /\ OpUser(j) # v => o = op[j]
                                 /\ OpUser(j) = v /\ CallOf(j) = "rangeReload" =>
                                       IF o.stage = "loaded" THEN o.stale ELSE ~o.stale
<1> USE DEF RangePre
<1>0. fetch \in FetchType /\ RangeTarget \in Targets /\ op \in [Ops -> OpStates]
  BY DEF KeyedTyped, RegistryTyped, OpsTyped, Targets
<1>1. ASSUME NEW u \in Users, u # v
      PROVE  FetchAfterWrite(v)[u][RangeTarget] = fetch[u][RangeTarget]
  BY <1>0, <1>1 DEF FetchAfterWrite, FetchType
<1> DEFINE f == fetch[v][RangeTarget]
           f2 == FetchAfterWrite(v)[v][RangeTarget]
<1>2. f2 # NoFetch => IF f2.read THEN f2.stale ELSE ~f2.stale
  <2>1. CASE f = NoFetch \/ ~f.read
    <3>1. f # NoFetch => ~f.stale
      BY <2>1 DEF RangesTrue, TrueRange, TrueFetch
    <3> QED BY <2>1, <3>1 DEF FetchAfterWrite
  <2>2. CASE f # NoFetch /\ f.read
    <3>1. f \in Fetches
      BY <1>0, <2>2 DEF FetchType
    <3> DEFINE g == [f EXCEPT !.stale = TRUE]
    <3>2. g.stale /\ g.read
      BY <2>2, <3>1 DEF Fetches
    <3>3. f2 = g
      BY <1>0, <2>2 DEF FetchAfterWrite, FetchType
    <3> HIDE DEF f2, g
    <3> QED BY <3>2, <3>3
  <2> QED BY <2>1, <2>2
<1>3. ASSUME NEW j \in Ops
      PROVE  LET o == OpsAfterWrite(v)[j]
             IN  /\ o.stage = op[j].stage /\ o.session = op[j].session
                 /\ OpUser(j) # v => o = op[j]
                 /\ OpUser(j) = v /\ CallOf(j) = "rangeReload" =>
                       IF o.stage = "loaded" THEN o.stale ELSE ~o.stale
  <2> DEFINE o == OpsAfterWrite(v)[j]
             o2 == [op[j] EXCEPT !.stale = TRUE]
  <2>1. o = IF op[j].stage = "loaded" /\ OpUser(j) = v THEN o2 ELSE op[j]
    BY DEF OpsAfterWrite
  <2>2. o2.stage = op[j].stage /\ o2.session = op[j].session /\ o2.stale
    BY <1>0 DEF OpStates
  <2>3. CallOf(j) = "rangeReload" /\ OpUser(j) = v => TrueReload(op[j], v, row[v], behind, op)
    BY DEF RangesTrue, TrueRange, ReloadsTrue, OpUser
  <2> HIDE DEF o, o2
  <2>4. /\ o.stage = op[j].stage /\ o.session = op[j].session
        /\ OpUser(j) # v => o = op[j]
    BY <2>1, <2>2
  <2>5. OpUser(j) = v /\ CallOf(j) = "rangeReload" =>
           IF o.stage = "loaded" THEN o.stale ELSE ~o.stale
    BY <2>1, <2>2, <2>3 DEF TrueReload
  <2> QED BY <2>4, <2>5 DEF o
<1> QED BY <1>1, <1>2, <1>3

LEMMA LandsRange ==
    ASSUME RangePre, NEW i \in Ops, Lands(i)
    PROVE  RangesTrue'
<1> USE DEF RangePre
<1> DEFINE v == OpUser(i)
           ops2 == op'
           missed2 == behind'
           f2 == fetch'[v][RangeTarget]
<1>0. /\ v \in Users /\ op \in [Ops -> OpStates] /\ behind \in SUBSET Users
      /\ UNCHANGED << range, epoch, hook >> /\ CallOf(i) \notin Reads
      /\ op[i].stage \in {"send", "second"}
      /\ fetch' = FetchAfterWrite(v) /\ op' = [OpsAfterWrite(v) EXCEPT ![i].stage = "landed"]
      /\ behind' = IF CallOf(i) = "save" THEN behind \cup {v} ELSE behind
      /\ \A u \in Users : u # v => row'[u] = row[u]
  BY OpUserType DEF KeyedTyped, OpsTyped, StoreTyped, Lands, RangesTrue, ReadStages
<1>1. /\ \A j \in Ops : j # i => op'[j] = OpsAfterWrite(v)[j]
      /\ op'[i].stage = "landed" /\ op'[i].session = op[i].session
  <2>1. /\ OpsAfterWrite(v)[i] = op[i] /\ DOMAIN OpsAfterWrite(v) = Ops
        /\ op[i] \in OpStates
    BY <1>0 DEF OpsAfterWrite
  <2> QED BY <1>0, <2>1 DEF OpStates
<1>2. /\ CallOf(i) # "rangeReload" /\ (CallOf(i) = "save" \/ CallOf(i) \in Counting)
  BY <1>0, OpFacts DEF Reads, Counting, Calls
<1>3. Excused(v, missed2, ops2)
  BY <1>0, <1>1, <1>2 DEF Excused, Coming, OpUser
<1>4. ASSUME NEW u \in Users
      PROVE  TrueRange(u, row'[u], behind', op', fetch'[u][RangeTarget], range'[u], epoch'[u],
                       hook')
  <2>1. CASE u # v
    <3>1. fetch'[u][RangeTarget] = fetch[u][RangeTarget]
      BY <1>0, <2>1, AfterWriteRange
    <3>2. \A j \in Ops : /\ op'[j].session = op[j].session
                         /\ j # i => op'[j].stage = op[j].stage
                         /\ OpUser(j) = u => op'[j] = op[j]
      BY <1>0, <1>1, <2>1, AfterWriteRange
    <3>3. Coming(u, op) => Excused(u, behind', op')
      BY <1>0, <3>2 DEF Coming, Excused
    <3>4. \A j \in Ops : CallOf(j) = "rangeReload" /\ UserOf(op'[j].session) = u
             => op'[j] = op[j] \/ TrueReload(op'[j], u, row[u], behind', op')
      BY <3>2 DEF OpUser
    <3>5. u \in behind => u \in behind'
      BY <1>0
    <3> QED BY <1>0, <2>1, <3>1, <3>3, <3>4, <3>5, RangeKept
  <2>2. CASE u = v
    <3>1. f2 # NoFetch => IF f2.read THEN f2.stale ELSE ~f2.stale
      BY <1>0, AfterWriteRange
    <3>2. \A j \in Ops : CallOf(j) = "rangeReload" /\ UserOf(ops2[j].session) = u
             => IF ops2[j].stage = "loaded" THEN ops2[j].stale ELSE ~ops2[j].stale
      BY <1>0, <1>1, <1>2, <2>2, AfterWriteRange DEF OpUser
    <3>3. TrueRange(u, row[u], behind, op, fetch[u][RangeTarget], range[u], epoch[u], hook)
      BY DEF RangesTrue
    <3>4. u \in behind => u \in missed2
      BY <1>0
    <3> DEFINE rows2 == row'[u]
    <3> HIDE DEF f2, ops2, missed2, rows2
    <3>5. TrueRange(u, rows2, missed2, ops2, f2, range[u], epoch[u], hook)
      BY <1>3, <2>2, <3>1, <3>2, <3>3, <3>4, ExcusedRange
    <3> QED BY <1>0, <2>2, <3>5 DEF f2, ops2, missed2, rows2
  <2> QED BY <2>1, <2>2
<1>5. \A j \in Ops : CallOf(j) \in Reads => op'[j].stage \in ReadStages
  BY <1>0, <1>1, AfterWriteRange DEF RangesTrue
<1>6. \A h \in Hooks : KnownEpoch(h, hook'[h].seen, epoch')
  BY <1>0 DEF RangesTrue
<1> QED BY <1>4, <1>5, <1>6, RangesTrueLater

LEMMA ForeignWriteRange ==
    ASSUME RangePre, NEW v \in Users, NEW k \in Keys, ForeignWrite(v, k)
    PROVE  RangesTrue'
<1> USE DEF RangePre
<1> DEFINE ops2 == op'
           missed2 == behind'
           f2 == fetch'[v][RangeTarget]
<1>0. /\ UNCHANGED << range, epoch, hook >> /\ behind' = behind \cup {v}
      /\ fetch' = FetchAfterWrite(v) /\ op' = OpsAfterWrite(v)
      /\ \A u \in Users : u # v => row'[u] = row[u]
  BY DEF KeyedTyped, StoreTyped, ForeignWrite
<1>1. ASSUME NEW u \in Users
      PROVE  TrueRange(u, row'[u], behind', op', fetch'[u][RangeTarget], range'[u], epoch'[u],
                       hook')
  <2>1. CASE u # v
    <3>1. fetch'[u][RangeTarget] = fetch[u][RangeTarget]
      BY <1>0, <2>1, AfterWriteRange
    <3>2. \A j \in Ops : /\ op'[j].session = op[j].session /\ op'[j].stage = op[j].stage
                         /\ OpUser(j) = u => op'[j] = op[j]
      BY <1>0, <2>1, AfterWriteRange
    <3>3. Coming(u, op) => Excused(u, behind', op')
      BY <3>2 DEF Coming, Excused
    <3>4. \A j \in Ops : CallOf(j) = "rangeReload" /\ UserOf(op'[j].session) = u
             => op'[j] = op[j] \/ TrueReload(op'[j], u, row[u], behind', op')
      BY <3>2 DEF OpUser
    <3>5. u \in behind => u \in behind'
      BY <1>0
    <3> QED BY <1>0, <2>1, <3>1, <3>3, <3>4, <3>5, RangeKept
  <2>2. CASE u = v
    <3>1. f2 # NoFetch => IF f2.read THEN f2.stale ELSE ~f2.stale
      BY <1>0, AfterWriteRange
    <3>2. \A j \in Ops : CallOf(j) = "rangeReload" /\ UserOf(ops2[j].session) = u
             => IF ops2[j].stage = "loaded" THEN ops2[j].stale ELSE ~ops2[j].stale
      BY <1>0, <2>2, AfterWriteRange DEF OpUser
    <3>3. TrueRange(u, row[u], behind, op, fetch[u][RangeTarget], range[u], epoch[u], hook)
      BY DEF RangesTrue
    <3>4. (u \in behind => u \in missed2) /\ Excused(u, missed2, ops2)
      BY <1>0, <2>2 DEF Excused
    <3> DEFINE rows2 == row'[u]
    <3> HIDE DEF f2, ops2, missed2, rows2
    <3>5. TrueRange(u, rows2, missed2, ops2, f2, range[u], epoch[u], hook)
      BY <3>1, <3>2, <3>3, <3>4, ExcusedRange
    <3> QED BY <1>0, <2>2, <3>5 DEF f2, ops2, missed2, rows2
  <2> QED BY <2>1, <2>2
<1>2. \A j \in Ops : CallOf(j) \in Reads => op'[j].stage \in ReadStages
  BY <1>0, AfterWriteRange DEF RangesTrue
<1>3. \A h \in Hooks : KnownEpoch(h, hook'[h].seen, epoch')
  BY <1>0 DEF RangesTrue
<1> QED BY <1>1, <1>2, <1>3, RangesTrueLater

-----------------------------------------------------------------------------
(* The epoch moves: what was stale is now of an older epoch.               *)
LEMMA EpochMoves ==
    ASSUME NEW u, NEW rows, NEW missed, NEW ops, NEW ops2, NEW f, NEW e, NEW n, NEW hooks,
           TrueRange(u, rows, missed, ops, f, e, n, hooks),
           n \in Nat, e # NoSlot => e.epoch \in Nat,
           \A h \in Hooks : ~AtEpoch(h, u, hooks[h].seen, n + 1),
           \A i \in Ops : CallOf(i) = "rangeReload" /\ UserOf(ops2[i].session) = u
              => /\ UserOf(ops[i].session) = u
                 /\ ops2[i].stage = ops[i].stage /\ ops2[i].stale = ops[i].stale
                 /\ ops2[i].rows = ops[i].rows
                 /\ ops2[i].stage = "loaded" => ops2[i].bumped = ops2[i].stale
    PROVE  TrueRange(u, rows, missed, ops2, f, e, n + 1, hooks)
<1>1. ReloadsTrue(u, rows, missed, ops2)
  BY DEF TrueRange, ReloadsTrue, TrueReload
<1>2. TrueFetch(f, u, rows, missed, ops2, n + 1, hooks)
  BY DEF TrueRange, TrueFetch
<1>3. TrueEntry(e, u, rows, missed, ops2, n + 1, hooks)
  <2>1. e # NoSlot /\ u \notin missed => e.epoch <= n
    BY DEF TrueRange, TrueEntry
  <2>2. e # NoSlot /\ u \notin missed => e.epoch <= n + 1 /\ e.epoch < n + 1
    BY <2>1
  <2>3. \A h \in Hooks : Looked(h, u, n + 1, hooks)
    BY DEF Looked
  <2> QED BY <2>2, <2>3 DEF TrueEntry
<1> QED BY <1>1, <1>2, <1>3 DEF TrueRange

LEMMA WriteResolvesRange ==
    ASSUME RangePre, NEW i \in Ops, WriteResolves(i)
    PROVE  RangesTrue'
<1> USE DEF RangePre
<1> DEFINE v == OpUser(i)
           done == [IdleOp EXCEPT !.stage = "done"]
<1>0. /\ v \in Users /\ op \in [Ops -> OpStates] /\ epoch \in [Users -> Nat]
      /\ UNCHANGED << row, range, fetch, hook, behind >> /\ CallOf(i) \notin Reads
      /\ epoch' = [epoch EXCEPT ![v] = @ + 1]
      /\ op' = [j \in Ops |->
                   IF j = i THEN done
                   ELSE IF op[j].stage = "loaded" /\ OpUser(j) = v
                   THEN [op[j] EXCEPT !.bumped = op[j].stale] ELSE op[j]]
  BY OpUserType DEF KeyedTyped, OpsTyped, StoreTyped, WriteResolves, Bumped, Reads
<1>1. /\ op'[i] = done
      /\ \A j \in Ops : j # i => op'[j] = IF op[j].stage = "loaded" /\ OpUser(j) = v
                                          THEN [op[j] EXCEPT !.bumped = op[j].stale] ELSE op[j]
  BY <1>0
<1>2. ASSUME NEW j \in Ops, j # i
      PROVE  /\ op'[j].stage = op[j].stage /\ op'[j].stale = op[j].stale
             /\ op'[j].session = op[j].session /\ op'[j].rows = op[j].rows
             /\ OpUser(j) # v => op'[j] = op[j]
             /\ OpUser(j) = v /\ op[j].stage = "loaded" => op'[j].bumped = op'[j].stale
  <2>1. op[j] \in OpStates
    BY <1>0
  <2> DEFINE o == [op[j] EXCEPT !.bumped = op[j].stale]
  <2>2. /\ o.stage = op[j].stage /\ o.stale = op[j].stale
        /\ o.session = op[j].session /\ o.rows = op[j].rows /\ o.bumped = o.stale
    BY <2>1 DEF OpStates
  <2>3. op'[j] = IF op[j].stage = "loaded" /\ OpUser(j) = v THEN o ELSE op[j]
    BY <1>1, <1>2
  <2> HIDE DEF o, v
  <2> QED BY <2>2, <2>3
<1>3. done.stage = "done" /\ CallOf(i) # "rangeReload"
  BY <1>0, DoneStale DEF Reads
<1> HIDE DEF done
<1>4. ASSUME NEW h \in Hooks PROVE KnownEpoch(h, hook'[h].seen, epoch')
  <2>1. KnownEpoch(h, hook[h].seen, epoch)
    BY DEF RangesTrue
  <2>2. UserOf(session) \in Users /\ hook[h].seen[2] \in Nat
    BY SessionFacts, HookFacts DEF HooksInv
  <2>3. epoch[UserOf(session)] \in Nat
        /\ epoch'[UserOf(session)] \in {epoch[UserOf(session)], epoch[UserOf(session)] + 1}
    BY <1>0, <2>2
  <2>4. KnownEpoch(h, hook[h].seen, epoch')
    BY <2>1, <2>2, <2>3 DEF KnownEpoch
  <2> QED BY <1>0, <2>4
<1>5. ASSUME NEW u \in Users
      PROVE  TrueRange(u, row'[u], behind', op', fetch'[u][RangeTarget], range'[u], epoch'[u],
                       hook')
  <2>1. CASE u # v
    <3>1. Coming(u, op) => Coming(u, op')
      BY <1>2, <2>1 DEF Coming, OpUser
    <3>2. \A j \in Ops : CallOf(j) = "rangeReload" /\ UserOf(op'[j].session) = u
             => op'[j] = op[j] \/ TrueReload(op'[j], u, row[u], behind', op')
      BY <1>2, <1>3, <2>1 DEF OpUser
    <3>3. epoch'[u] = epoch[u]
      BY <1>0, <2>1
    <3> QED BY <1>0, <3>1, <3>2, <3>3, RangeKept DEF Excused
  <2>2. CASE u = v
    <3> DEFINE ops2 == op'
               n == epoch[u]
    <3>1. TrueRange(u, row[u], behind, op, fetch[u][RangeTarget], range[u], n, hook)
      BY DEF RangesTrue
    <3>2. \A j \in Ops : CallOf(j) = "rangeReload" /\ UserOf(ops2[j].session) = u
             => /\ UserOf(op[j].session) = u
                /\ ops2[j].stage = op[j].stage /\ ops2[j].stale = op[j].stale
                /\ ops2[j].rows = op[j].rows
                /\ ops2[j].stage = "loaded" => ops2[j].bumped = ops2[j].stale
      BY <1>2, <1>3, <2>2 DEF OpUser
    <3>3. n \in Nat /\ (range[u] # NoSlot => range[u].epoch \in Nat) /\ epoch'[u] = n + 1
      BY <1>0, <2>2, RangeFacts
    <3> HIDE DEF ops2, n
    <3>4. \A h \in Hooks : ~AtEpoch(h, u, hook[h].seen, n + 1)
      <4>1. \A h \in Hooks : KnownEpoch(h, hook[h].seen, epoch)
        BY DEF RangesTrue
      <4>2. ~(n + 1 <= n)
        BY <3>3
      <4> QED BY <4>1, <4>2 DEF KnownEpoch, AtEpoch, n
    <3>5. TrueRange(u, row[u], behind, ops2, fetch[u][RangeTarget], range[u], n + 1, hook)
      BY <3>1, <3>2, <3>3, <3>4, EpochMoves
    <3> QED BY <1>0, <3>3, <3>5 DEF ops2
  <2> QED BY <2>1, <2>2
<1>6. \A j \in Ops : CallOf(j) \in Reads => op'[j].stage \in ReadStages
  BY <1>0, <1>2 DEF RangesTrue
<1> QED BY <1>4, <1>5, <1>6, RangesTrueLater

(* The slot is filled, and a fetch or a reload is over.                    *)
LEMMA SlotMovesRange ==
    ASSUME NEW u, NEW rows, NEW missed, NEW missed2, NEW ops, NEW ops2, NEW f, NEW f2,
           NEW e, NEW e2, NEW n, NEW hooks, NEW hooks2,
           TrueRange(u, rows, missed, ops, f, e, n, hooks), Coming(u, ops) => Coming(u, ops2),
           \A i \in Ops : CallOf(i) = "rangeReload" /\ UserOf(ops2[i].session) = u
              => ops2[i] = ops[i] \/ (~ops2[i].stale /\ ops2[i].stage # "loaded"),
           f2 = NoFetch \/ f2 = f,
           \A h \in Hooks : /\ hooks2[h].seen = hooks[h].seen
                            /\ hooks2[h].waits => hooks[h].waits,
           u \in missed =>
              \/ u \in missed2
              \/ /\ f2 # NoFetch => ~f2.stale
                 /\ \A i \in Ops : CallOf(i) = "rangeReload" /\ UserOf(ops2[i].session) = u
                       => ~ops2[i].stale,
           TrueEntry(e2, u, rows, missed2, ops2, n, hooks2)
    PROVE  TrueRange(u, rows, missed2, ops2, f2, e2, n, hooks2)
<1>1. ASSUME Excused(u, missed, ops)
      PROVE  \/ Excused(u, missed2, ops2)
             \/ /\ f2 # NoFetch => ~f2.stale
                /\ \A i \in Ops : CallOf(i) = "rangeReload" /\ UserOf(ops2[i].session) = u
                      => ~ops2[i].stale
  BY <1>1 DEF Excused
<1>2. ReloadsTrue(u, rows, missed2, ops2)
  <2> SUFFICES ASSUME NEW i \in Ops, CallOf(i) = "rangeReload", UserOf(ops2[i].session) = u
               PROVE  TrueReload(ops2[i], u, rows, missed2, ops2)
    BY DEF ReloadsTrue
  <2>1. CASE ops2[i] = ops[i]
    <3>1. TrueReload(ops[i], u, rows, missed, ops)
      BY <2>1 DEF TrueRange, ReloadsTrue
    <3> QED BY <1>1, <2>1, <3>1 DEF TrueReload
  <2>2. CASE ~ops2[i].stale /\ ops2[i].stage # "loaded"
    BY <2>2 DEF TrueReload
  <2> QED BY <2>1, <2>2
<1>3. TrueFetch(f2, u, rows, missed2, ops2, n, hooks2)
  <2>1. CASE f2 = NoFetch
    BY <2>1 DEF TrueFetch
  <2>2. CASE f2 = f
    <3>1. TrueFetch(f, u, rows, missed, ops, n, hooks)
      BY DEF TrueRange
    <3> QED BY <1>1, <2>2, <3>1 DEF TrueFetch
  <2> QED BY <2>1, <2>2
<1> QED BY <1>2, <1>3 DEF TrueRange

LEMMA RangeReloadRange ==
    ASSUME RangePre, NEW i \in Ops, RangeReloadResolves(i), SignedIn(OpUser(i))
    PROVE  RangesTrue'
<1> USE DEF RangePre
<1> DEFINE v == OpUser(i)
           o == [IdleOp EXCEPT !.stage = "done"]
           e == [rows |-> op[i].rows, epoch |-> epoch[v], by |-> "reload"]
<1>0. /\ v \in Users /\ op \in [Ops -> OpStates] /\ behind \in SUBSET Users
      /\ range \in RangeType /\ epoch \in [Users -> Nat]
      /\ UNCHANGED << row, epoch, fetch, hook >>
      /\ CallOf(i) = "rangeReload" /\ op[i].stage = "loaded"
      /\ range' = [range EXCEPT ![v] = e]
      /\ behind' = IF op[i].bumped THEN behind \cup {v}
                   ELSE IF StaleReload(v) \/ StaleRead(v) THEN behind ELSE behind \ {v}
      /\ op' = [op EXCEPT ![i] = o]
  BY OpUserType DEF KeyedTyped, OpsTyped, StoreTyped, RangeReloadResolves, StillSignedIn
<1>1. o.stage = "done" /\ ~o.stale /\ e.rows = op[i].rows /\ e.epoch = epoch[v]
  BY DoneStale
<1> HIDE DEF o, e
<1>2. \A j \in Ops : op'[j] = IF j = i THEN o ELSE op[j]
  BY <1>0
<1>3. ASSUME NEW u \in Users
      PROVE  TrueRange(u, row'[u], behind', op', fetch'[u][RangeTarget], range'[u], epoch'[u],
                       hook')
  <2>1. Coming(u, op) => Coming(u, op')
    BY <1>0, <1>2 DEF Coming
  <2>2. \A j \in Ops : op'[j] = op[j] \/ (~op'[j].stale /\ op'[j].stage # "loaded")
    BY <1>1, <1>2
  <2>3. CASE u # v
    <3>1. \A j \in Ops : CallOf(j) = "rangeReload" /\ UserOf(op'[j].session) = u
             => op'[j] = op[j] \/ TrueReload(op'[j], u, row[u], behind', op')
      BY <2>2 DEF TrueReload
    <3>2. range'[u] = range[u] /\ (u \in behind => u \in behind')
      BY <1>0, <2>3 DEF RangeType
    <3> QED BY <1>0, <2>1, <3>1, <3>2, RangeKept DEF Excused
  <2>4. CASE u = v
    <3> DEFINE ops2 == op'
               missed2 == behind'
               f == fetch[u][RangeTarget]
    <3>1. u \in behind =>
             \/ u \in missed2
             \/ ~StaleReload(u) /\ ~StaleRead(u)
      BY <1>0, <2>4
    <3>2. ~StaleReload(u) /\ ~StaleRead(u) =>
             /\ f # NoFetch => ~f.stale
             /\ \A j \in Ops : CallOf(j) = "rangeReload" /\ UserOf(ops2[j].session) = u
                   => ~ops2[j].stale
      BY <2>2 DEF StaleReload, StaleRead, OpUser
    <3>3. TrueEntry(e, u, row[u], missed2, ops2, epoch[u], hook)
      <4>1. TrueReload(op[i], u, row[u], behind, op)
        BY <1>0, <2>4 DEF RangesTrue, TrueRange, ReloadsTrue, OpUser
      <4>2. op[i].bumped => u \in missed2
        BY <1>0, <2>4
      <4>3. op[i].stale /\ u \notin missed2 => Coming(u, ops2)
        <5>1. op[i].stale => StaleReload(u)
          BY <1>0, <2>4 DEF StaleReload
        <5> QED BY <2>1, <3>1, <4>1, <4>2, <5>1 DEF TrueReload, Excused
      <4>4. ~op[i].stale => e.rows = row[u]
        BY <1>0, <1>1, <4>1 DEF TrueReload
      <4>5. e.epoch <= epoch[u]
        BY <1>0, <1>1, <2>4
      <4> QED BY <4>3, <4>4, <4>5 DEF TrueEntry
    <3>4. TrueRange(u, row[u], behind, op, f, range[u], epoch[u], hook)
      BY DEF RangesTrue
    <3>5. Coming(u, op) => Coming(u, ops2)
      BY <2>1
    <3>6. \A j \in Ops : CallOf(j) = "rangeReload" /\ UserOf(ops2[j].session) = u
             => ops2[j] = op[j] \/ (~ops2[j].stale /\ ops2[j].stage # "loaded")
      BY <2>2
    <3> HIDE DEF ops2, missed2, f
    <3>7. TrueRange(u, row[u], missed2, ops2, f, e, epoch[u], hook)
      BY <3>1, <3>2, <3>3, <3>4, <3>5, <3>6, SlotMovesRange
    <3>8. range'[u] = e
      BY <1>0, <2>4 DEF RangeType
    <3> QED BY <1>0, <3>7, <3>8 DEF ops2, missed2, f
  <2> QED BY <2>3, <2>4
<1>4. \A j \in Ops : CallOf(j) \in Reads => op'[j].stage \in ReadStages
  BY <1>1, <1>2 DEF RangesTrue, ReadStages
<1>5. \A h \in Hooks : KnownEpoch(h, hook'[h].seen, epoch')
  BY <1>0 DEF RangesTrue
<1> QED BY <1>3, <1>4, <1>5, RangesTrueLater

-----------------------------------------------------------------------------
(* The hooks of the range and its fetch.                                   *)

(* The hooks move and the slot does not.                                   *)
LEMMA HooksRange ==
    ASSUME RangePre, NEW u \in Users,
           row'[u] = row[u], range'[u] = range[u], epoch'[u] = epoch[u], op' = op,
           u \in behind => u \in behind',
           TrueFetch(fetch'[u][RangeTarget], u, row[u], behind', op, epoch[u], hook'),
           range[u] # NoSlot => \A h \in Hooks :
              Looked(h, u, epoch[u], hook) => \/ Looked(h, u, epoch[u], hook')
                                              \/ range[u].epoch = epoch[u]
    PROVE  TrueRange(u, row'[u], behind', op', fetch'[u][RangeTarget], range'[u], epoch'[u],
                     hook')
<1> DEFINE missed2 == behind'
           hooks2 == hook'
           f2 == fetch'[u][RangeTarget]
<1>1. /\ u \in behind => u \in missed2
      /\ TrueFetch(f2, u, row[u], missed2, op, epoch[u], hooks2)
      /\ range[u] # NoSlot => \A h \in Hooks :
            Looked(h, u, epoch[u], hook) => \/ Looked(h, u, epoch[u], hooks2)
                                            \/ range[u].epoch = epoch[u]
  OBVIOUS
<1>2. TrueRange(u, row[u], behind, op, fetch[u][RangeTarget], range[u], epoch[u], hook)
  BY DEF RangePre, RangesTrue
<1>3. epoch[u] \in Nat /\ (range[u] # NoSlot => range[u].epoch \in Nat)
  BY RangeFacts DEF RangePre
<1> HIDE DEF missed2, hooks2, f2
<1>4. TrueRange(u, row[u], missed2, op, f2, range[u], epoch[u], hooks2)
  BY <1>1, <1>2, <1>3, HooksMoveRange
<1> QED BY <1>4 DEF missed2, hooks2, f2

LEMMA OneHookRange ==
    ASSUME RangePre, NEW h \in Hooks, NEW s, hook' = [hook EXCEPT ![h] = s],
           UNCHANGED << row, range, epoch, op >>, behind \subseteq behind',
           \A u \in Users : LET f2 == fetch'[u][RangeTarget]
                            IN  \/ f2 = fetch[u][RangeTarget]
                                \/ f2 # NoFetch /\ ~f2.read /\ ~f2.stale,
           KnownEpoch(h, s.seen, epoch),
           \A u \in Users : AtEpoch(h, u, s.seen, epoch[u]) =>
              \/ s.waits /\ (StaleRead(u) => u \in behind')
              \/ ~s.waits /\ range[u] # NoSlot /\ range[u].epoch = epoch[u]
    PROVE  RangesTrue'
<1>0. \A g \in Hooks : hook'[g] = IF g = h THEN s ELSE hook[g]
  BY DEF RangePre, HooksInv, RegistryTyped
<1>1. ASSUME NEW u \in Users
      PROVE  TrueRange(u, row'[u], behind', op', fetch'[u][RangeTarget], range'[u], epoch'[u],
                       hook')
  <2> DEFINE f == fetch[u][RangeTarget]
             f2 == fetch'[u][RangeTarget]
  <2>1. TrueFetch(f2, u, row[u], behind', op, epoch[u], hook')
    <3>1. CASE f2 = f
      <4>1. TrueFetch(f, u, row[u], behind, op, epoch[u], hook)
        BY DEF RangePre, RangesTrue, TrueRange
      <4>2. Excused(u, behind, op) => Excused(u, behind', op)
        BY DEF Excused
      <4>3. f # NoFetch /\ f.stale => StaleRead(u)
        BY DEF StaleRead
      <4> QED BY <1>0, <3>1, <4>1, <4>2, <4>3 DEF TrueFetch, Excused
    <3>2. CASE f2 # NoFetch /\ ~f2.read /\ ~f2.stale
      BY <3>2 DEF TrueFetch
    <3> QED BY <3>1, <3>2
  <2>2. range[u] # NoSlot => \A g \in Hooks :
           Looked(g, u, epoch[u], hook) => \/ Looked(g, u, epoch[u], hook')
                                           \/ range[u].epoch = epoch[u]
    BY <1>0 DEF Looked
  <2> QED BY <2>1, <2>2, HooksRange
<1>2. ASSUME NEW g \in Hooks PROVE KnownEpoch(g, hook'[g].seen, epoch')
  BY <1>0 DEF RangePre, RangesTrue
<1>3. \A j \in Ops : CallOf(j) \in Reads => op'[j].stage \in ReadStages
  BY DEF RangePre, RangesTrue
<1> QED BY <1>1, <1>2, <1>3, RangesTrueLater DEF RangePre

LEMMA EffectsRange ==
    ASSUME RangePre, NEW h \in Hooks, EffectSkips(h) \/ EffectFetches(h) \/ Unmount(h)
    PROVE  RangesTrue'
<1> USE DEF RangePre
<1>0. /\ session < NeverSeen /\ session \in Nat /\ UserOf(session) \in Users
      /\ epoch \in [Users -> Nat] /\ fetch \in FetchType
      /\ UNCHANGED << row, range, epoch, op >>
  BY SessionFacts DEF KeyedTyped, StoreTyped, RegistryTyped, EffectSkips, EffectFetches, Unmount
<1> DEFINE me == UserOf(session)
<1>1. /\ KnownEpoch(h, Deps(h), epoch)
      /\ \A u : AtEpoch(h, u, Deps(h), epoch[u]) => unlocked /\ u = me /\ TargetOf[h] = RangeTarget
  BY <1>0 DEF KnownEpoch, AtEpoch, Deps
<1>2. CASE EffectSkips(h)
  <2> DEFINE s == [seen |-> Deps(h), waits |-> FALSE, error |-> FALSE]
  <2>1. /\ s.seen = Deps(h) /\ ~s.waits /\ hook' = [hook EXCEPT ![h] = s]
        /\ fetch' = fetch /\ behind' = behind /\ (~unlocked \/ HasCurrent(h, me))
    BY <1>2 DEF EffectSkips
  <2> HIDE DEF s
  <2>2. \A u \in Users : AtEpoch(h, u, s.seen, epoch[u]) =>
           ~s.waits /\ range[u] # NoSlot /\ range[u].epoch = epoch[u]
    BY <1>1, <2>1 DEF HasCurrent
  <2> QED BY <1>0, <1>1, <2>1, <2>2, OneHookRange
<1>3. CASE EffectFetches(h)
  <2> DEFINE s == [seen |-> Deps(h), waits |-> TRUE, error |-> FALSE]
             t == TargetOf[h]
  <2>1. /\ s.seen = Deps(h) /\ s.waits /\ hook' = [hook EXCEPT ![h] = s]
        /\ behind' = IF t = RangeTarget /\ StaleRead(me) THEN behind \cup {me} ELSE behind
        /\ Deduped(me, t)
    BY <1>3 DEF EffectFetches
  <2>2. t \in Targets /\ RangeTarget \in Targets
    BY HookFacts DEF HooksInv, Targets
  <2>3. \A u \in Users : LET f2 == fetch'[u][RangeTarget]
                         IN  \/ f2 = fetch[u][RangeTarget]
                             \/ f2 # NoFetch /\ ~f2.read /\ ~f2.stale
    <3>1. CASE fetch' = fetch
      BY <3>1
    <3>2. CASE fetch' = [fetch EXCEPT ![me][t] = FreshFetch(session)]
      <4>1. FreshFetch(session) # NoFetch
        BY <1>0, FreshFetchType, KeyedNullAssumption
      <4>2. ~FreshFetch(session).read /\ ~FreshFetch(session).stale
        BY DEF FreshFetch
      <4> DEFINE f2 == FreshFetch(session)
      <4> HIDE DEF f2
      <4>3. \A u \in Users : \/ fetch'[u][RangeTarget] = fetch[u][RangeTarget]
                             \/ fetch'[u][RangeTarget] = f2
        BY <1>0, <2>2, <3>2 DEF FetchType, f2
      <4> QED BY <4>1, <4>2, <4>3 DEF f2
    <3> QED BY <2>1, <3>1, <3>2 DEF Deduped
  <2> HIDE DEF s
  <2>4. /\ behind \subseteq behind'
        /\ \A u \in Users : AtEpoch(h, u, s.seen, epoch[u]) =>
              s.waits /\ (StaleRead(u) => u \in behind')
    BY <1>1, <2>1
  <2> QED BY <1>0, <1>1, <2>1, <2>3, <2>4, OneHookRange
<1>4. CASE Unmount(h)
  <2> DEFINE s == [seen |-> Gone, waits |-> FALSE, error |-> FALSE]
  <2>1. /\ s.seen = << Unmounted, 0 >> /\ hook' = [hook EXCEPT ![h] = s]
        /\ fetch' = fetch /\ behind' = behind
    BY <1>4 DEF Unmount, Gone
  <2> HIDE DEF s
  <2>2. /\ \A u : ~AtEpoch(h, u, s.seen, epoch[u])
        /\ KnownEpoch(h, s.seen, epoch)
    BY <1>0, <2>1 DEF AtEpoch, KnownEpoch, Unmounted, NeverSeen
  <2> QED BY <1>0, <2>1, <2>2, OneHookRange
<1> QED BY <1>2, <1>3, <1>4

LEMMA FetchReadsRange ==
    ASSUME RangePre, NEW v \in Users, NEW t \in Targets, FetchReads(v, t)
    PROVE  RangesTrue'
<1> USE DEF RangePre
<1> DEFINE f2 == [fetch[v][t] EXCEPT !.read = TRUE, !.rows = ListByKeyRange(v)]
<1>0. /\ fetch \in FetchType /\ UNCHANGED << row, range, epoch, hook, op, behind >>
      /\ fetch[v][t] # NoFetch /\ ~fetch[v][t].read
      /\ fetch[v][t] \in Fetches /\ fetch' = [fetch EXCEPT ![v][t] = f2]
      /\ RangeTarget \in Targets
  BY DEF KeyedTyped, RegistryTyped, FetchType, FetchReads, Targets
<1>1. f2.read /\ f2.rows = row[v] /\ f2.stale = fetch[v][t].stale
  BY <1>0 DEF Fetches, ListByKeyRange
<1> HIDE DEF f2
<1>2. ASSUME NEW u \in Users
      PROVE  TrueRange(u, row'[u], behind', op', fetch'[u][RangeTarget], range'[u], epoch'[u],
                       hook')
  <2>1. TrueFetch(fetch[u][RangeTarget], u, row[u], behind, op, epoch[u], hook)
    BY DEF RangesTrue, TrueRange
  <2>2. fetch'[u][RangeTarget] = IF u = v /\ t = RangeTarget THEN f2 ELSE fetch[u][RangeTarget]
    BY <1>0 DEF FetchType
  <2>3. CASE u = v /\ t = RangeTarget
    <3>1. TrueFetch(f2, u, row[u], behind, op, epoch[u], hook)
      BY <1>0, <1>1, <2>1, <2>3 DEF TrueFetch
    <3> QED BY <1>0, <2>2, <2>3, <3>1, HooksRange
  <2>4. CASE ~(u = v /\ t = RangeTarget)
    BY <1>0, <2>1, <2>2, <2>4, HooksRange
  <2> QED BY <2>3, <2>4
<1>3. \A j \in Ops : CallOf(j) \in Reads => op'[j].stage \in ReadStages
  BY <1>0 DEF RangesTrue
<1>4. \A h \in Hooks : KnownEpoch(h, hook'[h].seen, epoch')
  BY <1>0 DEF RangesTrue
<1> QED BY <1>2, <1>3, <1>4, RangesTrueLater

LEMMA ReleasedRange ==
    ASSUME RangePre, NEW v, NEW t, NEW failed \in BOOLEAN,
           hook' = Released(Waiting(v, t), failed), NEW h \in Hooks
    PROVE  /\ hook'[h].seen = hook[h].seen
           /\ hook'[h].waits => hook[h].waits
           /\ \/ hook'[h] = hook[h]
              \/ /\ ~hook'[h].waits /\ (failed => hook'[h].error)
                 /\ TargetOf[h] = t /\ UserOf(hook[h].seen[1]) = v
<1>1. hook[h] \in HookStates
  BY HookFacts DEF RangePre, HooksInv
<1> DEFINE r == [hook[h] EXCEPT !.waits = FALSE, !.error = failed]
<1>2. r.seen = hook[h].seen /\ ~r.waits /\ (failed => r.error)
  BY <1>1 DEF HookStates
<1>3. hook'[h] = IF h \in Waiting(v, t) THEN r ELSE hook[h]
  BY DEF Released
<1> HIDE DEF r
<1>4. CASE h \in Waiting(v, t)
  <2>1. TargetOf[h] = t /\ UserOf(hook[h].seen[1]) = v
    BY <1>4 DEF Waiting
  <2> QED BY <1>2, <1>3, <1>4, <2>1
<1>5. CASE h \notin Waiting(v, t)
  BY <1>3, <1>5
<1> QED BY <1>4, <1>5

LEMMA ReleasedKnows ==
    ASSUME RangePre, NEW v, NEW t, NEW failed \in BOOLEAN,
           hook' = Released(Waiting(v, t), failed), epoch' = epoch, NEW h \in Hooks
    PROVE  KnownEpoch(h, hook'[h].seen, epoch')
<1>1. KnownEpoch(h, hook[h].seen, epoch)
  BY DEF RangePre, RangesTrue
<1>2. hook'[h].seen = hook[h].seen
  BY ReleasedRange
<1> QED BY <1>1, <1>2

(* Hooks that were waiting for a fetch of v's go by; u's hooks do not.     *)
LEMMA ReleasedOthers ==
    ASSUME RangePre, NEW u \in Users, NEW v \in Users, NEW t \in Targets, NEW failed \in BOOLEAN,
           hook' = Released(Waiting(v, t), failed), UNCHANGED << row, epoch, op >>,
           range'[u] = range[u], fetch'[u][RangeTarget] = fetch[u][RangeTarget],
           u \in behind => u \in behind',
           failed \/ t # RangeTarget \/ u # v
    PROVE  TrueRange(u, row'[u], behind', op', fetch'[u][RangeTarget], range'[u], epoch'[u],
                     hook')
<1> DEFINE hooks2 == hook'
<1>1. \A h \in Hooks :
         /\ hooks2[h].seen = hook[h].seen /\ (hooks2[h].waits => hook[h].waits)
         /\ \/ hooks2[h] = hook[h]
            \/ /\ ~hooks2[h].waits /\ (failed => hooks2[h].error)
               /\ TargetOf[h] = t /\ UserOf(hook[h].seen[1]) = v
  BY ReleasedRange
<1> HIDE DEF hooks2
<1>2. TrueFetch(fetch[u][RangeTarget], u, row[u], behind, op, epoch[u], hook)
  BY DEF RangePre, RangesTrue, TrueRange
<1>3. TrueFetch(fetch'[u][RangeTarget], u, row[u], behind', op, epoch[u], hooks2)
  BY <1>1, <1>2 DEF TrueFetch, Excused
<1>4. \A h \in Hooks : Looked(h, u, epoch[u], hook) => Looked(h, u, epoch[u], hooks2)
  <2> SUFFICES ASSUME NEW h \in Hooks, Looked(h, u, epoch[u], hook),
                      AtEpoch(h, u, hooks2[h].seen, epoch[u])
               PROVE  hooks2[h].error \/ hooks2[h].waits
    BY DEF Looked
  <2>1. AtEpoch(h, u, hook[h].seen, epoch[u])
    BY <1>1
  <2>2. /\ TargetOf[h] = RangeTarget /\ UserOf(hook[h].seen[1]) = u
        /\ hook[h].error \/ hook[h].waits
    BY <2>1 DEF AtEpoch, Looked
  <2> QED BY <1>1, <2>2
<1> QED BY <1>3, <1>4, HooksRange DEF hooks2

LEMMA FetchFailsRange ==
    ASSUME RangePre, NEW v \in Users, NEW t \in Targets, FetchFails(v, t)
    PROVE  RangesTrue'
<1> USE DEF RangePre
<1>0. /\ fetch \in FetchType /\ UNCHANGED << row, range, epoch, op, behind >>
      /\ fetch' = [fetch EXCEPT ![v][t] = NoFetch] /\ RangeTarget \in Targets
      /\ hook' = Released(Waiting(v, t), TRUE)
  BY DEF KeyedTyped, RegistryTyped, FetchFails, Deregister, Targets
<1>1. ASSUME NEW u \in Users
      PROVE  TrueRange(u, row'[u], behind', op', fetch'[u][RangeTarget], range'[u], epoch'[u],
                       hook')
  <2>1. CASE u = v /\ t = RangeTarget
    <3>1. fetch'[u][RangeTarget] = NoFetch
      BY <1>0, <2>1 DEF FetchType
    <3>2. TrueFetch(fetch'[u][RangeTarget], u, row[u], behind', op, epoch[u], hook')
      BY <3>1 DEF TrueFetch
    <3> DEFINE hooks2 == hook'
    <3>3. \A h \in Hooks :
             /\ hooks2[h].seen = hook[h].seen
             /\ hooks2[h] = hook[h] \/ hooks2[h].error
      BY <1>0, ReleasedRange
    <3> HIDE DEF hooks2
    <3>4. \A h \in Hooks : Looked(h, u, epoch[u], hook) => Looked(h, u, epoch[u], hooks2)
      BY <3>3 DEF Looked
    <3> QED BY <1>0, <3>2, <3>4, HooksRange DEF hooks2
  <2>2. CASE ~(u = v /\ t = RangeTarget)
    <3>1. fetch'[u][RangeTarget] = fetch[u][RangeTarget]
      BY <1>0, <2>2 DEF FetchType
    <3> QED BY <1>0, <3>1, ReleasedOthers
  <2> QED BY <2>1, <2>2
<1>2. \A j \in Ops : CallOf(j) \in Reads => op'[j].stage \in ReadStages
  BY <1>0 DEF RangesTrue
<1>3. \A h \in Hooks : KnownEpoch(h, hook'[h].seen, epoch')
  BY <1>0, ReleasedKnows
<1> QED BY <1>1, <1>2, <1>3, RangesTrueLater

LEMMA KeyFetchRange ==
    ASSUME RangePre, NEW v \in Users, NEW k \in Keys, KeyFetchResolves(v, k)
    PROVE  RangesTrue'
<1> USE DEF RangePre
<1>0. /\ fetch \in FetchType /\ UNCHANGED << row, range, epoch, op, behind >>
      /\ fetch' = [fetch EXCEPT ![v][k] = NoFetch]
      /\ RangeTarget \in Targets /\ k \in Targets /\ k # RangeTarget
      /\ hook' = Released(Waiting(v, k), FALSE)
  BY KeyedAssumption DEF KeyedTyped, RegistryTyped, KeyFetchResolves, Deregister, Targets
<1>1. ASSUME NEW u \in Users
      PROVE  TrueRange(u, row'[u], behind', op', fetch'[u][RangeTarget], range'[u], epoch'[u],
                       hook')
  <2>1. fetch'[u][RangeTarget] = fetch[u][RangeTarget]
    BY <1>0 DEF FetchType
  <2> QED BY <1>0, <2>1, ReleasedOthers
<1>2. \A j \in Ops : CallOf(j) \in Reads => op'[j].stage \in ReadStages
  BY <1>0 DEF RangesTrue
<1>3. \A h \in Hooks : KnownEpoch(h, hook'[h].seen, epoch')
  BY <1>0, ReleasedKnows
<1> QED BY <1>1, <1>2, <1>3, RangesTrueLater

(* A fetch is over, and what it read is the slot of the range unless it    *)
(* lingers: a stale one is of an older epoch than any hook has seen.       *)
LEMMA AnsweredRange ==
    ASSUME RangePre, NEW v \in Users, RangeFetchResolves(v), NEW h \in Waiting(v, RangeTarget),
           ~Lingers(h, v), v \notin behind \/ ~fetch[v][RangeTarget].stale,
           NEW e, e.rows = fetch[v][RangeTarget].rows, e.epoch = hook[h].seen[2],
           NEW missed2, NEW hooks2, \A g \in Hooks : hooks2[g].seen = hook[g].seen
    PROVE  TrueEntry(e, v, row[v], missed2, op, epoch[v], hooks2)
<1> USE DEF RangePre
<1> DEFINE f == fetch[v][RangeTarget]
           n == epoch[v]
<1>0. /\ f # NoFetch /\ f.read /\ h \in Hooks /\ hook[h].waits /\ TargetOf[h] = RangeTarget
      /\ UserOf(hook[h].seen[1]) = v
  BY DEF RangeFetchResolves, Waiting
<1>1. TrueFetch(f, v, row[v], behind, op, n, hook)
  BY DEF RangesTrue, TrueRange
<1>2. n \in Nat /\ hook[h].seen[2] \in Nat /\ e.epoch <= n
  BY <1>0, RangeFacts, HookFacts DEF Lingers, HooksInv
<1>3. CASE ~f.stale
  BY <1>0, <1>1, <1>2, <1>3 DEF TrueFetch, TrueEntry
<1>4. CASE f.stale
  <2>1. StaleRead(v) /\ ~InGap(h) /\ ~Overtaken(h)
    BY <1>0, <1>4 DEF StaleRead, Lingers
  <2>2. session \in Nat /\ session < NeverSeen /\ hook[h].seen[1] \in 1 .. session
    BY <1>0, SessionFacts DEF HooksInv, HookWaits
  <2>3. unlocked /\ hook[h].seen[1] = session /\ UserOf(session) = v
    BY <1>0, <2>1, <2>2 DEF InGap, Handle, Locked
  <2>4. \A g \in Hooks : TargetOf[g] = RangeTarget => Deps(g) = << session, n >>
    BY <2>3 DEF Deps, Handle
  <2>5. CASE Coming(v, op)
    BY <1>2, <2>5 DEF TrueEntry
  <2>6. CASE ~Coming(v, op)
    <3>1. \A g \in Hooks : AtEpoch(g, v, hook[g].seen, n) => ~hook[g].waits
      BY <1>0, <1>1, <1>4, <2>6 DEF TrueFetch, Excused
    <3>2. hook[h].seen # << session, n >>
      BY <1>0, <2>3, <3>1 DEF AtEpoch
    <3>3. hook[h].seen = << hook[h].seen[1], hook[h].seen[2] >>
      BY <1>0, HookFacts DEF HooksInv, HookStates
    <3>4. e.epoch < n
      BY <1>2, <2>3, <3>2, <3>3
    <3>5. ~Rendered(h)
      BY <1>0, <2>2, <2>3, <2>4, <3>2 DEF Rendered, Gone, Unmounted, NeverSeen
    <3>6. \A g \in Hooks : ~AtEpoch(g, v, hook[g].seen, n)
      BY <2>1, <2>4, <3>5 DEF Overtaken, AtEpoch
    <3> QED BY <1>2, <3>4, <3>6 DEF TrueEntry, Looked
  <2> QED BY <2>5, <2>6
<1> QED BY <1>3, <1>4

LEMMA RangeFetchRange ==
    ASSUME RangePre, NEW v \in Users, RangeFetchResolves(v)
    PROVE  RangesTrue'
<1> USE DEF RangePre
<1> DEFINE hs == Waiting(v, RangeTarget)
<1>0. /\ fetch \in FetchType /\ range \in RangeType /\ behind \in SUBSET Users
      /\ UNCHANGED << row, epoch, op >> /\ RangeTarget \in Targets
      /\ fetch' = [fetch EXCEPT ![v][RangeTarget] = NoFetch]
      /\ hook' = Released(hs, FALSE)
  BY DEF KeyedTyped, RegistryTyped, StoreTyped, RangeFetchResolves, Deregister, Targets
<1>1. \A u \in Users : u # v => range'[u] = range[u] /\ (u \in behind => u \in behind')
  <2>1. CASE hs = {}
    BY <2>1 DEF RangeFetchResolves
  <2>2. CASE hs # {}
    BY <1>0, <2>2 DEF RangeFetchResolves, RangeType
  <2> QED BY <2>1, <2>2
<1>2. ASSUME NEW u \in Users, u # v
      PROVE  TrueRange(u, row'[u], behind', op', fetch'[u][RangeTarget], range'[u], epoch'[u],
                       hook')
  <2>1. fetch'[u][RangeTarget] = fetch[u][RangeTarget]
    BY <1>0, <1>2 DEF FetchType
  <2> QED BY <1>0, <1>1, <1>2, <2>1, ReleasedOthers
<1>3. TrueRange(v, row'[v], behind', op', fetch'[v][RangeTarget], range'[v], epoch'[v], hook')
  <2>1. fetch'[v][RangeTarget] = NoFetch
    BY <1>0 DEF FetchType
  <2>2. CASE hs = {}
    <3>1. range' = range /\ behind' = behind
      BY <2>2 DEF RangeFetchResolves
    <3>2. \A h \in Hooks : hook'[h] = hook[h]
      BY <1>0, <2>2 DEF Released
    <3>3. TrueFetch(fetch'[v][RangeTarget], v, row[v], behind', op, epoch[v], hook')
      BY <2>1 DEF TrueFetch
    <3>4. \A h \in Hooks : Looked(h, v, epoch[v], hook) => Looked(h, v, epoch[v], hook')
      BY <3>2 DEF Looked
    <3> QED BY <1>0, <3>1, <3>3, <3>4, HooksRange
  <2>3. CASE hs # {}
    <3> DEFINE f == fetch[v][RangeTarget]
    <3>1. PICK h \in hs :
             /\ range' = [range EXCEPT ![v] =
                    [rows |-> f.rows, epoch |-> hook[h].seen[2], by |-> EffectName(hs)]]
             /\ behind' = IF Lingers(h, v) THEN behind \cup {v}
                          ELSE IF f.stale \/ StaleReload(v) THEN behind ELSE behind \ {v}
      BY <2>3 DEF RangeFetchResolves
    <3> DEFINE e == [rows |-> f.rows, epoch |-> hook[h].seen[2], by |-> EffectName(hs)]
               missed2 == behind'
               hooks2 == hook'
    <3>2. e.rows = f.rows /\ e.epoch = hook[h].seen[2]
      OBVIOUS
    <3>3. range'[v] = e
      BY <1>0, <3>1 DEF RangeType
    <3> HIDE DEF e
    <3>4. \A g \in Hooks : hooks2[g].seen = hook[g].seen /\ (hooks2[g].waits => hook[g].waits)
      BY <1>0, ReleasedRange
    <3>5. /\ Lingers(h, v) => v \in missed2
          /\ v \notin missed2 => v \notin behind \/ ~f.stale
          /\ v \in behind => v \in missed2 \/ ~StaleReload(v)
      BY <1>0, <3>1
    <3>6. TrueEntry(e, v, row[v], missed2, op, epoch[v], hooks2)
      <4>1. CASE v \in missed2
        BY <4>1 DEF TrueEntry
      <4>2. CASE v \notin missed2
        <5>1. ~Lingers(h, v) /\ (v \notin behind \/ ~f.stale)
          BY <3>5, <4>2
        <5> HIDE DEF missed2, hooks2, hs
        <5>2. h \in Waiting(v, RangeTarget) /\ \A g \in Hooks : hooks2[g].seen = hook[g].seen
          BY <3>4 DEF hs
        <5> QED BY <3>2, <5>1, <5>2, AnsweredRange
      <4> QED BY <4>1, <4>2
    <3>7. ~StaleReload(v) => \A i \in Ops : CallOf(i) = "rangeReload" /\ UserOf(op[i].session) = v
                                               => ~op[i].stale
      BY DEF StaleReload, OpUser
    <3>8. TrueRange(v, row[v], behind, op, f, range[v], epoch[v], hook)
      BY DEF RangesTrue
    <3> HIDE DEF missed2, hooks2, hs, f
    <3>9. TrueRange(v, row[v], missed2, op, NoFetch, e, epoch[v], hooks2)
      BY <3>4, <3>5, <3>6, <3>7, <3>8, SlotMovesRange
    <3> QED BY <1>0, <2>1, <3>3, <3>9 DEF missed2, hooks2
  <2> QED BY <2>2, <2>3
<1>4. \A j \in Ops : CallOf(j) \in Reads => op'[j].stage \in ReadStages
  BY <1>0 DEF RangesTrue
<1>5. \A h \in Hooks : KnownEpoch(h, hook'[h].seen, epoch')
  BY <1>0, ReleasedKnows
<1> QED BY <1>2, <1>3, <1>4, <1>5, RangesTrueLater

LEMMA StepsRange ==
    ASSUME RangePre, KeyedSteps
    PROVE  RangesTrue'
<1>1. CASE HookSteps
  BY <1>1, EffectsRange, FetchReadsRange, FetchFailsRange, KeyFetchRange, RangeFetchRange
  DEF HookSteps
<1>2. ASSUME NEW i \in Ops, CallSteps(i) PROVE RangesTrue'
  <2>1. CASE Save(i) \/ Write(i) \/ Mutate(i) \/ Reload(i) \/ RangeReload(i)
    BY <2>1, BeginsRange
  <2>2. CASE GetHash(i) \/ ReadsRows(i) \/ Refused(i) \/ MutateComputes(i)
    BY <2>2, StagesRange
  <2>3. CASE RangeReloadResolves(i)
    BY <2>3, EndsRange, RangeReloadRange
  <2>4. CASE ReloadResolves(i) \/ SaveResolves(i) \/ ConflictResolves(i) \/ Fails(i)
    BY <2>4, EndsRange
  <2>5. CASE Lands(i) \/ WriteResolves(i)
    BY <2>5, LandsRange, WriteResolvesRange
  <2> QED BY <1>2, <2>1, <2>2, <2>3, <2>4, <2>5 DEF CallSteps
<1> QED BY <1>1, <1>2, ForeignWriteRange DEF KeyedSteps

LEMMA RangesUnchanged ==
    ASSUME RangePre, UNCHANGED keyedVars
    PROVE  RangesTrue'
<1>1. UNCHANGED << row, range, epoch, fetch, hook, op, behind >>
  BY DEF keyedVars
<1> QED BY <1>1, RangesTrueLater DEF RangePre, RangesTrue

(* The epoch counter starts again, the slot of the range is empty; a       *)
(* reload under way that is stale stays on record.                         *)
LEMMA LocksRange ==
    ASSUME RangesTrue, Lock, WipeKeyed
    PROVE  RangesTrue'
<1>1. UNCHANGED << row, fetch, hook, op, plan, session >> /\ unlocked' = FALSE
  BY DEF Lock, WipeKeyed
<1>2. \A h, u, seen, n : ~AtEpoch(h, u, seen, n)'
  BY <1>1 DEF AtEpoch
<1>3. \A j \in Ops : (CallOf(j))' = CallOf(j)
  BY <1>1 DEF CallOf
<1>4. ASSUME NEW u \in Users
      PROVE  TrueRange(u, row[u], behind, op, fetch[u][RangeTarget], range[u], epoch[u], hook)'
  <2>1. TrueRange(u, row[u], behind, op, fetch[u][RangeTarget], range[u], epoch[u], hook)
    BY DEF RangesTrue
  <2>2. Coming(u, op)' <=> Coming(u, op)
    BY <1>1 DEF Coming, Ops, CallOf, UserOf
  <2>3. ReloadsTrue(u, row[u], behind, op)'
    <3> SUFFICES ASSUME NEW i \in Ops, CallOf(i) = "rangeReload", UserOf(op[i].session) = u
                 PROVE  TrueReload(op[i], u, row[u], behind, op)'
      BY <1>1, <1>3 DEF ReloadsTrue, Ops, UserOf
    <3>1. TrueReload(op[i], u, row[u], behind, op)
      BY <2>1 DEF TrueRange, ReloadsTrue
    <3>2. op[i].stale /\ u \in behind => u \in behind'
      BY DEF WipeKeyed, StaleReload, OpUser
    <3> QED BY <1>1, <2>2, <3>1, <3>2 DEF TrueReload, Excused
  <2>4. TrueFetch(fetch[u][RangeTarget], u, row[u], behind, op, epoch[u], hook)'
    <3> DEFINE f == fetch[u][RangeTarget]
    <3>1. f # NoFetch => (f.stale => f.read) /\ (f.read /\ ~f.stale => f.rows = row[u])
      BY <2>1 DEF TrueRange, TrueFetch
    <3> QED BY <1>1, <1>2, <3>1 DEF TrueFetch
  <2>5. range'[u] = NoSlot
    BY DEF WipeKeyed
  <2>6. TrueEntry(range[u], u, row[u], behind, op, epoch[u], hook)'
    BY <2>5 DEF TrueEntry
  <2> QED BY <2>3, <2>4, <2>6 DEF TrueRange
<1>5. \A h \in Hooks : KnownEpoch(h, hook[h].seen, epoch)'
  BY <1>1 DEF KnownEpoch
<1>6. \A i \in Ops : CallOf(i) \in Reads => op'[i].stage \in ReadStages
  BY <1>1 DEF RangesTrue
<1> QED BY <1>1, <1>3, <1>4, <1>5, <1>6 DEF RangesTrue, Ops

(* No effect has run for the session that begins.                          *)
LEMMA UnlocksRange ==
    ASSUME SessionTypeOK, HooksInv, RangesTrue, Unlock, UNCHANGED keyedVars
    PROVE  RangesTrue'
<1>1. /\ UNCHANGED << row, range, epoch, fetch, hook, op, behind, plan >>
      /\ ~unlocked /\ session' = session + 1 /\ session < Len(plan.users)
  BY DEF Unlock, keyedVars
<1>2. session \in Nat /\ session + 1 < NeverSeen
  <2>1. plan.users \in Seq(Users) /\ Len(plan.users) < NeverSeen
    BY PlanAssumption DEF SessionTypeOK
  <2> QED BY <1>1, <2>1, SessionFacts DEF NeverSeen
<1>3. \A h \in Hooks : hook[h].seen[1] # session + 1
  BY <1>2 DEF HooksInv, SeenBefore, NeverSeen, Unmounted
<1>4. ASSUME NEW h \in Hooks, NEW u, NEW n
      PROVE  ~AtEpoch(h, u, hook[h].seen, n) /\ ~AtEpoch(h, u, hook[h].seen, n)'
  BY <1>1, <1>3 DEF AtEpoch
<1>5. \A h \in Hooks : KnownEpoch(h, hook[h].seen, epoch)'
  BY <1>1, <1>3 DEF KnownEpoch
<1>6. \A j \in Ops : (CallOf(j))' = CallOf(j)
  BY <1>1 DEF CallOf
<1>7. ASSUME NEW u \in Users
      PROVE  TrueRange(u, row[u], behind, op, fetch[u][RangeTarget], range[u], epoch[u], hook)'
  <2>1. TrueRange(u, row[u], behind, op, fetch[u][RangeTarget], range[u], epoch[u], hook)
    BY DEF RangesTrue
  <2>2. Coming(u, op)' <=> Coming(u, op)
    BY <1>1 DEF Coming, Ops, CallOf, UserOf
  <2>3. ReloadsTrue(u, row[u], behind, op)'
    BY <1>1, <1>6, <2>1, <2>2 DEF TrueRange, ReloadsTrue, TrueReload, Excused, Ops, UserOf
  <2>4. TrueFetch(fetch[u][RangeTarget], u, row[u], behind, op, epoch[u], hook)'
    BY <1>1, <1>4, <2>1, <2>2 DEF TrueRange, TrueFetch
  <2>5. TrueEntry(range[u], u, row[u], behind, op, epoch[u], hook)'
    BY <1>1, <1>4, <2>1, <2>2 DEF TrueRange, TrueEntry, Looked
  <2> QED BY <2>3, <2>4, <2>5 DEF TrueRange
<1> QED BY <1>1, <1>5, <1>6, <1>7 DEF RangesTrue, Ops

RangeInv == BindingsInv /\ RangesTrue

(* At rest a mounted range shows the rows of the server, however the       *)
(* fetches of its effects, its reloads, the writes and the lock fall.  The *)
(* invariant says what a fetch and a reload under way have read, and why   *)
(* a slot may not show the rows: a landed write will still move the epoch, *)
(* or has, and every hook of the range whose effect ran for the new epoch  *)
(* waits for a fetch or has failed.                                        *)
THEOREM RangeShowsRows == Spec => []RangeCurrentAtRest
<1>1. Init => RangeInv
  <2> SUFFICES ASSUME Init PROVE RangeInv
    OBVIOUS
  <2>1. \A i \in Ops : op[i].stage = "idle" /\ ~op[i].stale
    BY DEF Init, KeyedInit, IdleOp
  <2>2. \A u \in Users : fetch[u][RangeTarget] = NoFetch /\ range[u] = NoSlot
    BY DEF Init, KeyedInit, Targets
  <2>3. \A h \in Hooks : hook[h].seen \in {<< NeverSeen, 0 >>, << Unmounted, 0 >>}
    BY DEF Init, KeyedInit, NotYet, Gone
  <2>4. \A h \in Hooks : KnownEpoch(h, hook[h].seen, epoch)
    BY <2>3 DEF KnownEpoch, Init, SessionInit, NeverSeen, Unmounted
  <2>5. \A u \in Users : TrueRange(u, row[u], behind, op, fetch[u][RangeTarget], range[u],
                                   epoch[u], hook)
    BY <2>1, <2>2 DEF TrueRange, ReloadsTrue, TrueReload, TrueFetch, TrueEntry
  <2>6. RangesTrue
    BY <2>1, <2>4, <2>5 DEF RangesTrue, ReadStages
  <2> QED BY <2>6, BindingsStart DEF RangeInv
<1>2. RangeInv /\ [Next]_vars => RangeInv'
  <2> SUFFICES ASSUME RangeInv, [Next]_vars PROVE RangeInv'
    OBVIOUS
  <2> USE DEF RangeInv
  <2>1. SessionTypeOK /\ KeyedTyped /\ HooksInv /\ BindingsInv'
    BY BindingsStep DEF BindingsInv, KeyedInv
  <2>2. CASE SameSession /\ StepOfSession
    <3>1. RangePre
      BY <2>1, <2>2 DEF RangePre
    <3>2. CASE KeyedSteps
      BY <2>1, <3>1, <3>2, StepsRange
    <3>3. CASE UNCHANGED keyedVars
      BY <2>1, <3>1, <3>3, RangesUnchanged
    <3> QED BY <2>2, <3>2, <3>3 DEF StepOfSession
  <2>3. CASE SessionLocks
    BY <2>1, <2>3, LocksRange DEF SessionLocks
  <2>4. CASE SessionUnlocks
    BY <2>1, <2>4, UnlocksRange DEF SessionUnlocks
  <2> QED BY <2>1, <2>2, <2>3, <2>4, StepCases
<1>3. RangeInv => RangeCurrentAtRest
  <2> SUFFICES ASSUME RangeInv, AtRest, unlocked, NEW h \in Hooks, Mounted(h),
                      TargetOf[h] = RangeTarget, range[Me] # NoSlot, ~hook[h].error,
                      Me \notin behind
               PROVE  range[Me].rows = row[Me]
    BY DEF RangeCurrentAtRest
  <2>1. Me \in Users /\ SessionTypeOK /\ HooksInv /\ RangeTarget \in Targets
    BY SessionFacts DEF RangeInv, BindingsInv, KeyedInv, SessionTypeOK, Me, Targets
  <2>2. hook[h].seen = << session, epoch[Me] >>
    BY DEF AtRest, Rendered, Mounted, Deps, Handle, Me
  <2>3. AtEpoch(h, Me, hook[h].seen, epoch[Me])
    BY <2>2 DEF AtEpoch, Me
  <2>4. ~hook[h].waits
    <3>1. fetch[Me][RangeTarget] = NoFetch
      BY <2>1 DEF AtRest
    <3>2. HookWaits(h)
      BY <2>1 DEF HooksInv
    <3> QED BY <2>2, <3>1, <3>2 DEF HookWaits, Me
  <2>5. ~Looked(h, Me, epoch[Me], hook)
    BY <2>3, <2>4 DEF Looked
  <2>6. ~Coming(Me, op)
    BY DEF AtRest, Coming, InFlight
  <2>7. TrueEntry(range[Me], Me, row[Me], behind, op, epoch[Me], hook)
    BY <2>1 DEF RangeInv, RangesTrue, TrueRange
  <2> QED BY <2>5, <2>6, <2>7 DEF TrueEntry
<1> QED BY <1>1, <1>2, <1>3, PTL DEF Spec
==============================================================================
