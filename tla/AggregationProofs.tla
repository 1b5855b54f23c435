-------------------------- MODULE AggregationProofs --------------------------
(***************************************************************************)
(* The aggregations for every graph of them that the model admits, however *)
(* many users, sessions, runs and timers: the counters of activity agree   *)
(* with the runs and timers, stored envelopes are what compute() made of   *)
(* the versions they name, the wipe of a lock is final, and React shows    *)
(* what the aggregation is doing.                                          *)
(*                                                                         *)
(* A step of the model builds a working state w by the synchronous         *)
(* functions, one after the other, and commits it.  So the invariant is    *)
(* stated of a working state (Good), with what w owes React (Keeps: an     *)
(* aggregation not yet told of must look as it did); each function has a   *)
(* lemma that it keeps both, an action strings those lemmas together, and  *)
(* Publish takes the result to the next state.  What a function changes    *)
(* is stated as a relation of w and its result (Calls, Begins, Ends,       *)
(* Returns, Fails), so that the rest never opens its definition.           *)
(***************************************************************************)
EXTENDS Aggregation, FiniteSetTheorems, TLAPS

(* The inductive invariant. *)

Phases == {"idle", "reading", "external", "compute", "save", "failed"}
Errors == {"none", "cold", "other"}
GetPhases == {"idle", "load", "verify", "done"}

AggFields == {"run", "rerun", "armed", "retries", "failures", "error", "sub", "seen",
              "ext", "last", "excused"}
RunFields == {"phase", "session", "got", "awaits", "ext", "error"}
GetFields == {"phase", "session", "env", "todo"}

\* The records of a working state w, and of the state itself, which is W.
Shaped(w) ==
    /\ DOMAIN w = {"agg", "get", "activity", "slot", "told"}
    /\ w.agg = [a \in Aggs |-> w.agg[a]]
    /\ \A a \in Aggs : DOMAIN w.agg[a] = AggFields /\ DOMAIN w.agg[a].run = RunFields
    /\ w.get = [g \in Gets |-> w.get[g]]
    /\ \A g \in Gets : DOMAIN w.get[g] = GetFields /\ w.get[g].phase \in GetPhases
    /\ DOMAIN w.activity = {"inFlight", "pending"}
    /\ w.slot = [u \in Users |-> [s \in Stores \cup Aggs |-> w.slot[u][s]]]

\* What the external may have returned while its value is at most n.
Known(n) == [value : 0 .. n, at : Nat]

\* One aggregation: the types of its fields, and that a run which is past the
\* external has its value.
Sound(a, r, n) ==
    /\ r.run.phase \in Phases /\ r.run.awaits \in BOOLEAN /\ r.run.error \in Errors
    /\ r.run.phase # "idle" => DOMAIN r.run.got = SourcesOf(a)
    /\ r.run.phase = "external" \/ (a \in HasExternal /\ r.run.phase \in {"compute", "save"})
         => r.run.ext \in Known(n)
    /\ r.ext \in Known(n) \cup {Nothing}
    /\ r.armed \in BOOLEAN /\ r.retries \in Nat /\ r.failures \in 0 .. MaxRetries
    /\ r.error \in Errors /\ r.sub \in Users \cup {NoUser}

\* A run asks its upstream once: it calls get(), then may await the run in
\* flight, and meanwhile it is reading and has nothing of that source.
Calling(w, b) == w.get[RunGet(b)].phase \in {"load", "verify"}
AsksOnce(w, b) ==
    LET run == w.agg[b].run IN
    /\ Calling(w, b) \/ run.awaits => run.phase = "reading" /\ run.got[Upstream[b]] = Nothing
    /\ ~(Calling(w, b) /\ run.awaits)

\* The call a hook's verification makes is made once.
VerifiesOnce(w) ==
    \A b \in Downstreams, n \in SessionNumbers :
        w.get[HookGet(b, n)].phase \in {"idle", "load"}
            => w.get[VerifyGet(HookGet(b, n))].phase = "idle"

Busy(A) == {a \in Aggs : A[a].run.phase # "idle"}
Armed(A) == {a \in Aggs : A[a].armed}
Retries(A) == UNION {{a} \X (1 .. A[a].retries) : a \in Aggs}
Counted(w) ==
    /\ IsFiniteSet(Retries(w.agg))
    /\ w.activity.inFlight = Cardinality(Busy(w.agg))
    /\ w.activity.pending = Cardinality(Armed(w.agg)) + Cardinality(Retries(w.agg))

Good(w, n) ==
    /\ Shaped(w)
    /\ \A a \in Aggs : Sound(a, w.agg[a], n)
    /\ \A b \in Downstreams : AsksOnce(w, b)
    /\ VerifiesOnce(w)
    /\ Counted(w)

\* A working state that has not told React of an aggregation outside B has
\* changed nothing React shows of it; data may be behind while a call verifies.
Verifying(G, a) == \E g \in Gets : AggOf(g) = a /\ G[g].phase = "verify"
Unchanged(w, a) ==
    /\ w.agg[a].run.phase = "idle" <=> agg[a].run.phase = "idle"
    /\ w.agg[a].error = agg[a].error
    /\ Verifying(w.get, a) \/ (~Verifying(get, a) /\ w.agg[a].last = agg[a].last)
Keeps(w, B) ==
    /\ \A a \in Aggs \ (w.told \cup B) : Unchanged(w, a)
    /\ ~unlocked => \A u \in Users, a \in Aggs : w.slot[u][a] = slot[u][a]

\* What the binding shows; after the wipe of a lock there is nothing to show.
DataOf(r) == IF r.last = NoEnvelope THEN Null ELSE r.last.data
Shows(shown, a) ==
    /\ shown.computing = (agg[a].run.phase # "idle")
    /\ shown.error = agg[a].error
    /\ shown.data = DataOf(agg[a]) \/ Verifying(get, a)
Shown ==
    /\ react = [u \in Users |-> [a \in Aggs |-> react[u][a]]]
    /\ unlocked => \A a \in Aggs :
         react[CurrentUser][a] # Nothing => Shows(react[CurrentUser][a], a)

Stored ==
    /\ stored = [u \in Users |-> [a \in Aggs |-> stored[u][a]]]
    /\ \A u \in Users, a \in Aggs :
         stored[u][a] # NoEnvelope => DOMAIN stored[u][a].fps = SourcesOf(a)

Session ==
    /\ plan \in Plans /\ session \in 1 .. Len(plan.sessions) /\ unlocked \in BOOLEAN
    /\ world \in [value : Nat, tick : Nat]
    /\ writing # Nothing => writing.user \in Users /\ writing.store \in Stores

AInv ==
    /\ Session
    /\ Good(W, world.value)
    /\ Stored /\ EnvelopeHonest
    /\ Shown /\ LockedCacheEmpty

-----------------------------------------------------------------------------
(* Aggregations, their sources and the calls of get(). *)

\* The aggregation that another one reads has no upstream itself.
LEMMA UpstreamFacts ==
    ASSUME NEW b \in Downstreams
    PROVE  /\ b \in Aggs /\ Upstream[b] \in Aggs
           /\ Upstream[b] \notin Downstreams /\ Upstream[b] # b
           /\ Upstream[b] \in SourcesOf(b)
  BY AggregationAssumption DEF Downstreams, SourcesOf

\* Every call is of an aggregation, and is one of three kinds.
LEMMA CallFacts ==
    /\ \A g \in Gets : AggOf(g) \in Aggs
    /\ \A a \in Aggs, n \in SessionNumbers : HookGet(a, n) \in Gets /\ AggOf(HookGet(a, n)) = a
    /\ \A b \in Downstreams : RunGet(b) \in Gets /\ AggOf(RunGet(b)) = Upstream[b]
    /\ \A b \in Downstreams, n \in SessionNumbers :
         LET g == VerifyGet(HookGet(b, n)) IN g \in Gets /\ AggOf(g) = Upstream[b]
    /\ \A g \in Gets : \/ \E a \in Aggs, n \in SessionNumbers : g = HookGet(a, n)
                       \/ \E b \in Downstreams : g = RunGet(b)
                       \/ \E b \in Downstreams, n \in SessionNumbers : g = VerifyGet(HookGet(b, n))
  BY UpstreamFacts DEF Gets, AggOf, HookGet, RunGet, VerifyGet

\* The user of the current session is a user.
LEMMA CurrentUserType == ASSUME Session PROVE CurrentUser \in Users
  BY AggregationAssumption DEF Session, CurrentUser, User

\* The cardinality of the union of two finite sets that have nothing in common.
LEMMA DisjointUnion ==
    ASSUME NEW S, NEW T, IsFiniteSet(S), IsFiniteSet(T), S \cap T = {}
    PROVE  Cardinality(S \cup T) = Cardinality(S) + Cardinality(T)
<1>1. Cardinality(S \cup T) = Cardinality(S) + Cardinality(T) - Cardinality(S \cap T)
  BY FS_Union
<1>2. Cardinality(S \cap T) = 0
  BY FS_EmptySet
<1>3. Cardinality(S) \in Nat /\ Cardinality(T) \in Nat
  BY FS_CardinalityType
<1> QED
  BY <1>1, <1>2, <1>3

-----------------------------------------------------------------------------
(* The synchronous functions keep the invariant. *)

\* The fields of an aggregation that only its timers and its runs' ends change.
Same(q, r) ==
    /\ q.armed = r.armed /\ q.retries = r.retries /\ q.failures = r.failures
    /\ q.error = r.error /\ q.ext = r.ext /\ q.last = r.last

\* From w to v the calls G are made.
Calls(w, v, G) ==
    /\ v.told = w.told /\ v.slot = w.slot /\ v.activity = w.activity
    /\ \A a \in Aggs : /\ Same(v.agg[a], w.agg[a])
                       /\ v.agg[a].run = w.agg[a].run
                       /\ v.agg[a].sub \in {w.agg[a].sub, CurrentUser}
    /\ \A g \in G : v.get[g].phase = "load"
    /\ \A g \in Gets \ G : v.get[g] = w.get[g]

\* StartGet observes the aggregations and makes the calls, nothing else.
LEMMA StartGetEffect ==
    ASSUME NEW w, Shaped(w), NEW G \in SUBSET Gets
    PROVE  Shaped(StartGet(w, G)) /\ Calls(w, StartGet(w, G), G)
<1> DEFINE A == {AggOf(g) : g \in G}
           e == EnsureSubscribed(w, A)
           v == StartGet(w, G)
<1>1. /\ DOMAIN e = DOMAIN w /\ e.told = w.told /\ e.slot = w.slot /\ e.activity = w.activity
      /\ e.get = w.get
      /\ e.agg = [a \in Aggs |-> e.agg[a]]
      /\ \A a \in Aggs : /\ DOMAIN e.agg[a] = AggFields
                         /\ e.agg[a].run = w.agg[a].run
                         /\ Same(e.agg[a], w.agg[a])
                         /\ e.agg[a].sub \in {w.agg[a].sub, CurrentUser}
  <2>1. /\ DOMAIN e = DOMAIN w /\ e.told = w.told /\ e.slot = w.slot /\ e.activity = w.activity
        /\ e.get = w.get /\ e.agg = [a \in Aggs |-> e.agg[a]]
    BY DEF Shaped, EnsureSubscribed
  <2>2. ASSUME NEW a \in Aggs
        PROVE  /\ DOMAIN e.agg[a] = AggFields
               /\ e.agg[a].run = w.agg[a].run
               /\ Same(e.agg[a], w.agg[a])
               /\ e.agg[a].sub \in {w.agg[a].sub, CurrentUser}
    <3>1. DOMAIN w.agg[a] = AggFields
      BY DEF Shaped
    <3>2. \/ e.agg[a] = w.agg[a]
          \/ \E seen : e.agg[a] = [w.agg[a] EXCEPT !.sub = CurrentUser, !.seen = seen]
      BY DEF Shaped, EnsureSubscribed
    <3> HIDE DEF e
    <3> QED
      BY <3>1, <3>2 DEF AggFields, Same
  <2> QED
    BY <2>1, <2>2
<1>2. /\ DOMAIN v = DOMAIN e /\ v.told = e.told /\ v.slot = e.slot /\ v.activity = e.activity
      /\ v.agg = e.agg
      /\ v.get = [g \in Gets |-> v.get[g]]
      /\ \A g \in Gets : IF g \in G THEN v.get[g].phase = "load" /\ DOMAIN v.get[g] = GetFields
                                    ELSE v.get[g] = w.get[g]
  BY <1>1 DEF Shaped, StartGet, GetFields
<1> HIDE DEF e, v
<1>3. Shaped(v)
  BY <1>1, <1>2 DEF Shaped, GetPhases
<1>4. Calls(w, v, G)
  BY <1>1, <1>2 DEF Calls
<1> QED
  BY <1>3, <1>4 DEF v

\* Calls that may be made keep the invariant.
LEMMA StartGetGood ==
    ASSUME Session, NEW n \in Nat, NEW B, NEW w, Good(w, n), Keeps(w, B),
           NEW G \in SUBSET Gets,
           \A g \in G : w.get[g].phase # "verify",
           \A b \in Downstreams : RunGet(b) \in G =>
               /\ w.agg[b].run.phase = "reading" /\ w.agg[b].run.got[Upstream[b]] = Nothing
               /\ ~w.agg[b].run.awaits,
           \A b \in Downstreams, m \in SessionNumbers : HookGet(b, m) \in G =>
               w.get[VerifyGet(HookGet(b, m))].phase = "idle",
           \A b \in Downstreams, m \in SessionNumbers : VerifyGet(HookGet(b, m)) \in G =>
               w.get[HookGet(b, m)].phase = "verify" /\ HookGet(b, m) \notin G
    PROVE  Good(StartGet(w, G), n) /\ Keeps(StartGet(w, G), B)
<1> DEFINE v == StartGet(w, G)
<1>1. Shaped(w)
  BY DEF Good
<1>2. Shaped(v) /\ Calls(w, v, G)
  BY <1>1, StartGetEffect
<1> HIDE DEF v
<1>3. \A a \in Aggs : Sound(a, v.agg[a], n)
  BY <1>2, CurrentUserType DEF Good, Sound, Calls, Same
<1>4. \A b \in Downstreams : AsksOnce(v, b)
  BY <1>2, CallFacts, UpstreamFacts DEF Good, AsksOnce, Calling, Calls
<1>5. VerifiesOnce(v)
  <2> SUFFICES ASSUME NEW b \in Downstreams, NEW m \in SessionNumbers,
                      v.get[HookGet(b, m)].phase \in {"idle", "load"}
               PROVE  v.get[VerifyGet(HookGet(b, m))].phase = "idle"
    BY DEF VerifiesOnce
  <2>1. HookGet(b, m) \in Gets /\ VerifyGet(HookGet(b, m)) \in Gets
    BY CallFacts, UpstreamFacts
  <2>2. VerifyGet(HookGet(b, m)) \notin G
    BY <1>2, <2>1 DEF Calls
  <2>3. w.get[VerifyGet(HookGet(b, m))].phase = "idle"
    BY <1>2, <2>1 DEF Good, VerifiesOnce, Calls
  <2> QED
    BY <1>2, <2>1, <2>2, <2>3 DEF Calls
<1>6. Counted(v)
  <2>1. Busy(v.agg) = Busy(w.agg) /\ Armed(v.agg) = Armed(w.agg)
    BY <1>2 DEF Busy, Armed, Calls, Same
  <2>2. Retries(v.agg) = Retries(w.agg)
    BY <1>2 DEF Retries, Calls, Same
  <2> QED
    BY <1>2, <2>1, <2>2 DEF Good, Counted, Calls
<1>7. Keeps(v, B)
  <2>1. ASSUME NEW a \in Aggs PROVE Verifying(v.get, a) <=> Verifying(w.get, a)
    BY <1>2 DEF Verifying, Calls
  <2> QED
    BY <1>2, <2>1 DEF Keeps, Unchanged, Calls, Same
<1> QED
  BY <1>2, <1>3, <1>4, <1>5, <1>6, <1>7 DEF Good, v

\* A run that has read nothing, or is refused by a locked session.
Fresh(a, run) ==
    /\ run.phase = (IF unlocked THEN "reading" ELSE "failed")
    /\ run.error \in Errors /\ run.awaits = FALSE
    /\ DOMAIN run.got = SourcesOf(a)
    /\ \A s \in SourcesOf(a) : run.got[s] = Nothing

\* From w to v the runs A begin.
Begins(w, v, A) ==
    /\ v.told = w.told \cup A /\ v.slot = w.slot /\ v.get = w.get
    /\ v.activity.inFlight = w.activity.inFlight + Cardinality(A)
    /\ v.activity.pending = w.activity.pending
    /\ \A a \in Aggs : Same(v.agg[a], w.agg[a]) /\ v.agg[a].sub = w.agg[a].sub
    /\ \A a \in A : Fresh(a, v.agg[a].run)
    /\ \A a \in Aggs \ A : v.agg[a].run = w.agg[a].run

\* Runs that begin are told to React, and change nothing but themselves.
LEMMA BeginEffect ==
    ASSUME NEW w, Shaped(w), NEW A \in SUBSET Aggs
    PROVE  Shaped(Begin(w, A)) /\ Begins(w, Begin(w, A), A)
<1> DEFINE v == Begin(w, A)
           run(a) == [IdleRun EXCEPT
                     !.phase = IF unlocked THEN "reading" ELSE "failed",
                     !.session = session,
                     !.got = [s \in SourcesOf(a) |-> Nothing],
                     !.error = IF unlocked THEN "none" ELSE "other"]
           again(a) == unlocked /\ w.agg[a].sub = CurrentUser
           mark(a) == (w.agg[a].excused /\ ~again(a)) \/ JoinsOldRead(w, a)
<1>1. \A a \in Aggs : DOMAIN run(a) = RunFields /\ Fresh(a, run(a))
  BY DEF IdleRun, RunFields, Errors, Fresh
<1>2. v = Tell([w EXCEPT
                  !.agg = [a \in Aggs |-> IF a \in A
                             THEN [w.agg[a] EXCEPT !.run = run(a), !.excused = mark(a)]
                             ELSE w.agg[a]],
                  !.activity.inFlight = @ + Cardinality(A)], A)
  BY DEF Begin
<1> HIDE DEF run, mark, v
<1>3. /\ DOMAIN v = DOMAIN w /\ v.told = w.told \cup A /\ v.slot = w.slot /\ v.get = w.get
      /\ DOMAIN v.activity = DOMAIN w.activity
      /\ v.activity.inFlight = w.activity.inFlight + Cardinality(A)
      /\ v.activity.pending = w.activity.pending
      /\ v.agg = [a \in Aggs |-> v.agg[a]]
  BY <1>2 DEF Shaped, Tell
<1>4. ASSUME NEW a \in Aggs
      PROVE  /\ DOMAIN v.agg[a] = AggFields
             /\ v.agg[a].run = (IF a \in A THEN run(a) ELSE w.agg[a].run)
             /\ Same(v.agg[a], w.agg[a]) /\ v.agg[a].sub = w.agg[a].sub
  <2>1. v.agg[a] = IF a \in A THEN [w.agg[a] EXCEPT !.run = run(a), !.excused = mark(a)]
                   ELSE w.agg[a]
    BY <1>2 DEF Shaped, Tell
  <2>2. DOMAIN w.agg[a] = AggFields
    BY DEF Shaped
  <2> QED
    BY <2>1, <2>2 DEF AggFields, Same
<1>5. Shaped(v)
  BY <1>1, <1>3, <1>4 DEF Shaped
<1>6. Begins(w, v, A)
  BY <1>1, <1>3, <1>4 DEF Begins
<1> QED
  BY <1>5, <1>6 DEF v

\* Idle aggregations may begin a run.
LEMMA BeginGood ==
    ASSUME Session, NEW n \in Nat, NEW B, NEW w, Good(w, n), Keeps(w, B),
           NEW A \in SUBSET Aggs, \A a \in A : w.agg[a].run.phase = "idle"
    PROVE  Good(Begin(w, A), n) /\ Keeps(Begin(w, A), B)
<1> DEFINE v == Begin(w, A)
<1>1. Shaped(w)
  BY DEF Good
<1>2. Shaped(v) /\ Begins(w, v, A)
  BY <1>1, BeginEffect
<1> HIDE DEF v
<1>3. ASSUME NEW a \in Aggs PROVE Sound(a, v.agg[a], n)
  <2>1. Sound(a, w.agg[a], n) /\ Same(v.agg[a], w.agg[a]) /\ v.agg[a].sub = w.agg[a].sub
    BY <1>2 DEF Good, Begins
  <2>2. CASE a \in A
    <3>1. Fresh(a, v.agg[a].run)
      BY <1>2, <2>2 DEF Begins
    <3>2. v.agg[a].run.phase \in {"reading", "failed"}
      BY <3>1 DEF Fresh
    <3> QED
      BY <2>1, <3>1, <3>2 DEF Sound, Phases, Same, Fresh
  <2>3. CASE a \notin A
    BY <1>2, <2>1, <2>3 DEF Sound, Same, Begins
  <2> QED
    BY <2>2, <2>3
<1>4. \A b \in Downstreams : AsksOnce(v, b)
  BY <1>2, UpstreamFacts DEF Good, AsksOnce, Calling, Begins, Fresh
<1>5. VerifiesOnce(v)
  BY <1>2 DEF Good, VerifiesOnce, Begins
<1>6. Counted(v)
  <2>1. Busy(v.agg) = Busy(w.agg) \cup A /\ Busy(w.agg) \cap A = {}
    BY <1>2 DEF Busy, Begins, Fresh
  <2>2. IsFiniteSet(A) /\ IsFiniteSet(Busy(w.agg))
    BY FS_Subset, AggregationAssumption DEF Busy
  <2>3. Armed(v.agg) = Armed(w.agg)
    BY <1>2 DEF Armed, Begins, Same
  <2>4. Retries(v.agg) = Retries(w.agg)
    BY <1>2 DEF Retries, Begins, Same
  <2> QED
    BY <1>2, <2>1, <2>2, <2>3, <2>4, DisjointUnion DEF Good, Counted, Begins
<1>7. Keeps(v, B)
  BY <1>2 DEF Keeps, Unchanged, Begins, Same
<1> QED
  BY <1>2, <1>3, <1>4, <1>5, <1>6, <1>7 DEF Good, v

\* From w to v the aggregations A are told of, and only those of A and the calls
\* of their runs change.
Reaches(w, v, A) ==
    /\ A \subseteq v.told /\ w.told \subseteq v.told
    /\ v.slot = w.slot
    /\ \A a \in Aggs : v.agg[a].last = w.agg[a].last
    /\ \A g \in Gets : g \notin {RunGet(a) : a \in A \cap Downstreams} => v.get[g] = w.get[g]

\* Runs that start keep the invariant.
LEMMA StartRunGood ==
    ASSUME Session, NEW n \in Nat, NEW B, NEW w, Good(w, n), Keeps(w, B),
           NEW A \in SUBSET Aggs, \A a \in A : w.agg[a].run.phase = "idle"
    PROVE  LET v == StartRun(w, A) IN Good(v, n) /\ Keeps(v, B) /\ Reaches(w, v, A)
<1> DEFINE s == Begin(w, A)
           G == {RunGet(a) : a \in A \cap Downstreams}
           v == StartRun(w, A)
<1>1. v = IF unlocked THEN StartGet(s, G) ELSE s
  BY DEF StartRun
<1>2. Shaped(w)
  BY DEF Good
<1>3. Good(s, n) /\ Keeps(s, B)
  BY BeginGood
<1>4. Shaped(s) /\ Begins(w, s, A)
  BY <1>2, BeginEffect
<1>5. G \in SUBSET Gets
  BY CallFacts
<1>6. \A b \in Downstreams : RunGet(b) \in G => b \in A
  BY DEF RunGet
<1>7. \A g \in G : \A b \in Downstreams, m \in SessionNumbers :
        g # HookGet(b, m) /\ g # VerifyGet(HookGet(b, m))
  BY DEF RunGet, HookGet, VerifyGet
<1>8. \A g \in G : w.get[g].phase # "verify"
  BY DEF Good, AsksOnce, Calling
<1>12. Reaches(w, s, A) /\ w.told \cup A = s.told
  BY <1>4 DEF Begins, Reaches, Same
<1> HIDE DEF s, v
<1>9. ASSUME unlocked PROVE Good(StartGet(s, G), n) /\ Keeps(StartGet(s, G), B)
  <2>1. \A b \in Downstreams : RunGet(b) \in G =>
          /\ s.agg[b].run.phase = "reading" /\ s.agg[b].run.got[Upstream[b]] = Nothing
          /\ ~s.agg[b].run.awaits
    BY <1>4, <1>6, <1>9, UpstreamFacts DEF Begins, Fresh
  <2>2. \A g \in G : s.get[g].phase # "verify"
    BY <1>4, <1>8 DEF Begins
  <2> HIDE DEF G
  <2> QED
    BY <1>3, <1>5, <1>7, <2>1, <2>2, StartGetGood
<1>10. Reaches(w, StartGet(s, G), A)
  <2>1. Calls(s, StartGet(s, G), G)
    BY <1>4, <1>5, StartGetEffect
  <2>2. \A g \in Gets : g \notin {RunGet(a) : a \in A \cap Downstreams} =>
          StartGet(s, G).get[g] = w.get[g]
    BY <1>12, <2>1 DEF Calls, Reaches
  <2>3. \A a \in Aggs : StartGet(s, G).agg[a].last = w.agg[a].last
    BY <1>12, <2>1 DEF Calls, Reaches, Same
  <2> HIDE DEF G
  <2> QED
    BY <1>12, <2>1, <2>2, <2>3 DEF Calls, Reaches
<1> QED
  BY <1>1, <1>3, <1>9, <1>10, <1>12 DEF v

\* From w to v nothing changes that the invariant speaks of but timers, an
\* external that is forgotten, and the envelopes the aggregations C hold.
Alike(w, v, C) ==
    /\ w.told \subseteq v.told /\ v.get = w.get
    /\ v.activity.inFlight = w.activity.inFlight
    /\ ~unlocked => \A u \in Users, a \in Aggs : v.slot[u][a] = w.slot[u][a]
    /\ \A a \in Aggs : /\ v.agg[a].run = w.agg[a].run
                       /\ v.agg[a].sub = w.agg[a].sub
                       /\ v.agg[a].error = w.agg[a].error
                       /\ v.agg[a].failures = w.agg[a].failures
                       /\ v.agg[a].ext \in {w.agg[a].ext, Nothing}
    /\ \A a \in Aggs \ C : v.agg[a].last = w.agg[a].last
Timed(w) ==
    /\ \A a \in Aggs : w.agg[a].armed \in BOOLEAN /\ w.agg[a].retries \in Nat
    /\ IsFiniteSet(Retries(w.agg))
    /\ w.activity.pending = Cardinality(Armed(w.agg)) + Cardinality(Retries(w.agg))
SameTimers(w, v) ==
    /\ v.activity.pending = w.activity.pending
    /\ \A a \in Aggs : v.agg[a].armed = w.agg[a].armed /\ v.agg[a].retries = w.agg[a].retries

\* Steps that leave runs and calls alone keep the invariant when they count
\* their timers.
LEMMA AlikeGood ==
    ASSUME NEW n \in Nat, NEW B, NEW C, NEW w, Good(w, n), Keeps(w, B),
           NEW v, Shaped(v), Alike(w, v, C), Timed(v)
    PROVE  Good(v, n) /\ Keeps(v, B \cup C)
<1>1. \A a \in Aggs : Sound(a, v.agg[a], n)
  BY DEF Good, Sound, Alike, Timed
<1>2. \A b \in Downstreams : AsksOnce(v, b)
  BY UpstreamFacts DEF Good, AsksOnce, Calling, Alike
<1>3. VerifiesOnce(v)
  BY DEF Good, VerifiesOnce, Alike
<1>4. Counted(v)
  <2>1. Busy(v.agg) = Busy(w.agg)
    BY DEF Busy, Alike
  <2> QED
    BY <2>1 DEF Good, Counted, Alike, Timed
<1>5. Keeps(v, B \cup C)
  BY DEF Keeps, Unchanged, Alike
<1> QED
  BY <1>1, <1>2, <1>3, <1>4, <1>5 DEF Good

\* The same, when no timer is touched either.
LEMMA AlikeKept ==
    ASSUME NEW n \in Nat, NEW B, NEW C, NEW w, Good(w, n), Keeps(w, B),
           NEW v, Shaped(v), Alike(w, v, C), SameTimers(w, v)
    PROVE  Good(v, n) /\ Keeps(v, B \cup C)
<1>1. Armed(v.agg) = Armed(w.agg) /\ Retries(v.agg) = Retries(w.agg)
  BY DEF Armed, Retries, SameTimers
<1>2. Timed(v)
  BY <1>1 DEF Timed, SameTimers, Good, Counted, Sound
<1> QED
  BY <1>2, AlikeGood

\* From w to v some aggregations are excused, nothing else.
Excuses(w, v) ==
    /\ v.told = w.told /\ v.get = w.get /\ v.slot = w.slot /\ v.activity = w.activity
    /\ \A b \in Aggs : /\ Same(v.agg[b], w.agg[b]) /\ v.agg[b].run = w.agg[b].run
                       /\ v.agg[b].sub = w.agg[b].sub

\* History is none of the invariant's.
LEMMA ExcuseGood ==
    ASSUME NEW n \in Nat, NEW B, NEW w, Good(w, n), Keeps(w, B), NEW A
    PROVE  LET v == Excuse(w, A) IN Good(v, n) /\ Keeps(v, B) /\ Excuses(w, v)
<1> DEFINE v == Excuse(w, A)
<1>1. /\ DOMAIN v = DOMAIN w /\ v.told = w.told /\ v.get = w.get /\ v.slot = w.slot
      /\ v.activity = w.activity
      /\ v.agg = [b \in Aggs |-> IF b \in A THEN [w.agg[b] EXCEPT !.excused = TRUE]
                                            ELSE w.agg[b]]
  BY DEF Good, Shaped, Excuse
<1> HIDE DEF v
<1>2. ASSUME NEW b \in Aggs
      PROVE  /\ DOMAIN v.agg[b] = AggFields
             /\ Same(v.agg[b], w.agg[b]) /\ v.agg[b].run = w.agg[b].run
             /\ v.agg[b].sub = w.agg[b].sub
  <2>1. DOMAIN w.agg[b] = AggFields
    BY DEF Good, Shaped
  <2>2. v.agg[b] = IF b \in A THEN [w.agg[b] EXCEPT !.excused = TRUE] ELSE w.agg[b]
    BY <1>1
  <2> QED
    BY <2>1, <2>2 DEF AggFields, Same
<1>3. Shaped(v)
  <2>1. v.agg = [b \in Aggs |-> v.agg[b]]
    BY <1>1
  <2>2. \A b \in Aggs : DOMAIN v.agg[b] = AggFields /\ DOMAIN v.agg[b].run = RunFields
    BY <1>2 DEF Good, Shaped
  <2>3. Shaped(w) /\ DOMAIN v = DOMAIN w /\ v.get = w.get /\ v.slot = w.slot
        /\ v.activity = w.activity
    BY <1>1 DEF Good
  <2> QED
    BY <2>1, <2>2, <2>3 DEF Shaped
<1>4. Alike(w, v, {}) /\ SameTimers(w, v)
  BY <1>1, <1>2 DEF Alike, SameTimers, Same
<1>5. Good(v, n) /\ Keeps(v, B)
  BY <1>3, <1>4, AlikeKept
<1>6. Excuses(w, v)
  BY <1>1, <1>2 DEF Excuses
<1> QED
  BY <1>5, <1>6 DEF v

\* The same of what is left to a run in flight, or to nobody.
LEMMA LeftToRunGood ==
    ASSUME NEW n \in Nat, NEW B, NEW w, Good(w, n), Keeps(w, B), NEW a
    PROVE  LET v == LeftToRun(w, a) IN Good(v, n) /\ Keeps(v, B) /\ Excuses(w, v)
<1>1. LeftToRun(w, a) \in {w, Excuse(w, {a})}
  BY DEF LeftToRun
<1>2. Excuses(w, w)
  BY DEF Excuses, Same
<1> DEFINE v == LeftToRun(w, a)
           A == {a}
<1>3. v = w \/ v = Excuse(w, A)
  BY <1>1
<1> HIDE DEF v, A
<1>4. Good(v, n) /\ Keeps(v, B) /\ Excuses(w, v)
  BY <1>2, <1>3, ExcuseGood
<1> QED
  BY <1>4 DEF v

\* Telling React keeps the invariant, and settles what was to be told.
LEMMA TellGood ==
    ASSUME NEW n \in Nat, NEW B, NEW w, Good(w, n), Keeps(w, B), NEW A
    PROVE  LET v == Tell(w, A) IN
           /\ Good(v, n) /\ Keeps(v, B \ A)
           /\ v.told = w.told \cup A /\ v.agg = w.agg /\ v.get = w.get /\ v.slot = w.slot
           /\ v.activity = w.activity
<1> DEFINE v == Tell(w, A)
<1>1. /\ DOMAIN v = DOMAIN w /\ v.told = w.told \cup A /\ v.agg = w.agg /\ v.get = w.get
      /\ v.slot = w.slot /\ v.activity = w.activity
  BY DEF Good, Shaped, Tell
<1> HIDE DEF v
<1>2. Shaped(v) /\ Alike(w, v, {}) /\ SameTimers(w, v)
  BY <1>1 DEF Good, Shaped, Alike, SameTimers
<1>3. Good(v, n) /\ Keeps(v, B \cup {})
  BY <1>2, AlikeKept
<1>4. Keeps(v, B \ A)
  BY <1>1, <1>3 DEF Keeps
<1> QED
  BY <1>1, <1>3, <1>4 DEF v

\* A recompute that is asked for keeps the invariant, whether the aggregations
\* are idle or have a run in flight.
LEMMA TriggerGood ==
    ASSUME Session, NEW n \in Nat, NEW B, NEW w, Good(w, n), Keeps(w, B),
           NEW A \in SUBSET Aggs
    PROVE  LET v == Trigger(w, A) IN
           /\ Good(v, n) /\ Keeps(v, B)
           /\ w.told \subseteq v.told /\ v.slot = w.slot
           /\ \A a \in Aggs : v.agg[a].last = w.agg[a].last
           /\ \A g \in Gets : g \notin {RunGet(a) : a \in A \cap Downstreams}
                                 => v.get[g] = w.get[g]
<1> DEFINE I == IdleOf(w, A)
           m == [w EXCEPT !.agg = [a \in Aggs |-> IF a \in A \ I
                            THEN [w.agg[a] EXCEPT !.rerun = TRUE] ELSE w.agg[a]]]
           v == StartRun(m, I)
<1>1. Trigger(w, A) = v
  BY DEF Trigger
<1>2. /\ DOMAIN m = DOMAIN w /\ m.told = w.told /\ m.get = w.get /\ m.slot = w.slot
      /\ m.activity = w.activity
      /\ m.agg = [a \in Aggs |-> IF a \in A \ I
                    THEN [w.agg[a] EXCEPT !.rerun = TRUE] ELSE w.agg[a]]
  BY DEF Good, Shaped
<1>3. I \in SUBSET Aggs /\ I \subseteq A /\ \A a \in I : w.agg[a].run.phase = "idle"
  BY DEF IdleOf
<1> HIDE DEF I, m
<1>4. ASSUME NEW a \in Aggs
      PROVE  /\ DOMAIN m.agg[a] = AggFields
             /\ Same(m.agg[a], w.agg[a]) /\ m.agg[a].run = w.agg[a].run
             /\ m.agg[a].sub = w.agg[a].sub
  <2>1. DOMAIN w.agg[a] = AggFields
    BY DEF Good, Shaped
  <2> QED
    BY <1>2, <2>1 DEF AggFields, Same
<1>5. Shaped(m)
  BY <1>2, <1>4 DEF Good, Shaped
<1>6. Alike(w, m, {}) /\ SameTimers(w, m)
  BY <1>2, <1>4 DEF Alike, SameTimers, Same
<1>7. Good(m, n) /\ Keeps(m, B)
  BY <1>5, <1>6, AlikeKept
<1>8. Good(v, n) /\ Keeps(v, B) /\ Reaches(m, v, I)
  BY <1>3, <1>4, <1>7, StartRunGood
<1> HIDE DEF v
<1> QED
  BY <1>1, <1>2, <1>3, <1>4, <1>8 DEF Reaches, Same

\* One more retry timer.
LEMMA OneRetryMore ==
    ASSUME NEW P, NEW Q, NEW a \in Aggs,
           \A b \in Aggs : P[b].retries \in Nat,
           Q[a].retries = P[a].retries + 1,
           \A b \in Aggs \ {a} : Q[b].retries = P[b].retries,
           IsFiniteSet(Retries(P)) \/ IsFiniteSet(Retries(Q))
    PROVE  /\ IsFiniteSet(Retries(P)) /\ IsFiniteSet(Retries(Q))
           /\ Cardinality(Retries(Q)) = Cardinality(Retries(P)) + 1
<1> DEFINE t == << a, P[a].retries + 1 >>
<1>1. Retries(Q) = Retries(P) \cup {t} /\ t \notin Retries(P)
  <2>1. ASSUME NEW S PROVE \A x : x \in Retries(S) <=>
                   \E b \in Aggs : \E i \in 1 .. S[b].retries : x = << b, i >>
    BY DEF Retries
  <2>2. \A x : x \in Retries(Q) <=> x \in Retries(P) \/ x = t
    <3> SUFFICES ASSUME NEW x
                 PROVE  x \in Retries(Q) <=> x \in Retries(P) \/ x = t
      OBVIOUS
    <3>1. x \in Retries(Q) => x \in Retries(P) \/ x = t
      BY <2>1
    <3>2. x \in Retries(P) => x \in Retries(Q)
      BY <2>1
    <3>3. t \in Retries(Q)
      BY <2>1
    <3> QED
      BY <3>1, <3>2, <3>3
  <2>3. t \notin Retries(P)
    BY <2>1
  <2> QED
    BY <2>2, <2>3
<1> HIDE DEF t
<1>2. IsFiniteSet(Retries(P))
  BY <1>1, FS_Subset
<1>3. /\ IsFiniteSet(Retries(P) \cup {t})
      /\ Cardinality(Retries(P) \cup {t}) = Cardinality(Retries(P)) + 1
  BY <1>1, <1>2, FS_AddElement
<1> QED
  BY <1>1, <1>2, <1>3

\* A publication in the cache keeps the invariant: of a row at any time, of an
\* aggregation while the session is unlocked.
LEMMA CacheSetGood ==
    ASSUME Session, NEW n \in Nat, NEW B, NEW w, Good(w, n), Keeps(w, B),
           NEW u \in Users, NEW s \in Stores \cup Aggs, NEW hash,
           unlocked \/ s \in Stores
    PROVE  LET v == CacheSet(w, u, s, hash) IN
           /\ Good(v, n) /\ Keeps(v, B)
           /\ \A a \in Aggs : v.agg[a].run = w.agg[a].run /\ v.agg[a].last = w.agg[a].last
<1> DEFINE O == {a \in Aggs : s \in SourcesOf(a) /\ w.agg[a].sub = u}
           N == {a \in O : ~w.agg[a].armed}
           m == [w EXCEPT
                   !.slot[u][s] = hash,
                   !.agg = [a \in Aggs |-> IF a \in O
                               THEN [w.agg[a] EXCEPT !.seen[s] = hash, !.armed = TRUE]
                               ELSE w.agg[a]],
                   !.activity.pending = @ + Cardinality(N)]
           v == Tell(m, O)
<1>1. CacheSet(w, u, s, hash) = v
  BY DEF CacheSet
<1>2. O \in SUBSET Aggs /\ N \in SUBSET O
  OBVIOUS
<1>3. \A a \in Aggs : a \in N <=> a \in O /\ ~w.agg[a].armed
  OBVIOUS
<1> HIDE DEF O, N
<1>4. /\ DOMAIN m = DOMAIN w /\ m.told = w.told /\ m.get = w.get
      /\ m.slot = [w.slot EXCEPT ![u][s] = hash]
      /\ DOMAIN m.activity = DOMAIN w.activity
      /\ m.activity.inFlight = w.activity.inFlight
      /\ m.activity.pending = w.activity.pending + Cardinality(N)
      /\ m.agg = [a \in Aggs |-> IF a \in O
                     THEN [w.agg[a] EXCEPT !.seen[s] = hash, !.armed = TRUE]
                     ELSE w.agg[a]]
  BY DEF Good, Shaped
<1> HIDE DEF m
<1>5. ASSUME NEW a \in Aggs
      PROVE  /\ DOMAIN m.agg[a] = AggFields
             /\ m.agg[a].run = w.agg[a].run /\ m.agg[a].sub = w.agg[a].sub
             /\ m.agg[a].error = w.agg[a].error /\ m.agg[a].failures = w.agg[a].failures
             /\ m.agg[a].ext = w.agg[a].ext /\ m.agg[a].last = w.agg[a].last
             /\ m.agg[a].retries = w.agg[a].retries
             /\ m.agg[a].armed = (w.agg[a].armed \/ a \in O)
  <2>1. DOMAIN w.agg[a] = AggFields /\ w.agg[a].armed \in BOOLEAN
    BY DEF Good, Shaped, Sound
  <2>2. m.agg[a] = IF a \in O THEN [w.agg[a] EXCEPT !.seen[s] = hash, !.armed = TRUE]
                   ELSE w.agg[a]
    BY <1>4
  <2>3. CASE a \in O
    BY <2>1, <2>2, <2>3 DEF AggFields
  <2>4. CASE a \notin O
    BY <2>1, <2>2, <2>4
  <2> QED
    BY <2>3, <2>4
<1>6. /\ m.slot = [x \in Users |-> [y \in Stores \cup Aggs |-> m.slot[x][y]]]
      /\ ~unlocked => \A x \in Users, a \in Aggs : m.slot[x][a] = w.slot[x][a]
  <2>1. w.slot = [x \in Users |-> [y \in Stores \cup Aggs |-> w.slot[x][y]]]
    BY DEF Good, Shaped
  <2>2. ASSUME NEW x \in Users
        PROVE  m.slot[x] = IF x = u THEN [w.slot[u] EXCEPT ![s] = hash] ELSE w.slot[x]
    BY <1>4, <2>1
  <2>3. ASSUME NEW x \in Users
        PROVE  /\ m.slot[x] = [y \in Stores \cup Aggs |-> m.slot[x][y]]
               /\ \A y \in Stores \cup Aggs : y # s => m.slot[x][y] = w.slot[x][y]
    <3>1. w.slot[x] = [y \in Stores \cup Aggs |-> w.slot[x][y]]
      BY <2>1
    <3> QED
      BY <2>2, <3>1
  <2>4. m.slot = [x \in Users |-> m.slot[x]]
    BY <1>4, <2>1
  <2>5. m.slot = [x \in Users |-> [y \in Stores \cup Aggs |-> m.slot[x][y]]]
    BY <2>3, <2>4
  <2>6. ~unlocked => \A a \in Aggs : a # s
    BY AggregationAssumption
  <2> QED
    BY <2>3, <2>5, <2>6
<1>7. Shaped(m)
  BY <1>4, <1>5, <1>6 DEF Good, Shaped
<1>8. Timed(m)
  <2>1. Armed(m.agg) = Armed(w.agg) \cup N /\ Armed(w.agg) \cap N = {}
    BY <1>2, <1>3, <1>5 DEF Armed
  <2>2. IsFiniteSet(Armed(w.agg)) /\ IsFiniteSet(N)
    BY <1>2, FS_Subset, AggregationAssumption DEF Armed
  <2>3. Retries(m.agg) = Retries(w.agg)
    BY <1>5 DEF Retries
  <2>4. \A a \in Aggs : m.agg[a].armed \in BOOLEAN /\ m.agg[a].retries \in Nat
    BY <1>5 DEF Good, Sound
  <2>5. /\ Cardinality(Armed(m.agg)) = Cardinality(Armed(w.agg)) + Cardinality(N)
        /\ Cardinality(Armed(w.agg)) \in Nat /\ Cardinality(N) \in Nat
    BY <2>1, <2>2, DisjointUnion, FS_CardinalityType
  <2>6. /\ IsFiniteSet(Retries(w.agg)) /\ Cardinality(Retries(w.agg)) \in Nat
        /\ w.activity.pending = Cardinality(Armed(w.agg)) + Cardinality(Retries(w.agg))
    BY FS_CardinalityType DEF Good, Counted
  <2>7. m.activity.pending = Cardinality(Armed(m.agg)) + Cardinality(Retries(m.agg))
    <3>1. m.activity.pending = w.activity.pending + Cardinality(N)
      BY <1>4
    <3> QED
      BY <2>3, <2>5, <2>6, <3>1
  <2> QED
    BY <2>3, <2>4, <2>6, <2>7 DEF Timed
<1>9. Alike(w, m, {})
  BY <1>4, <1>5, <1>6 DEF Alike
<1>10. Good(m, n) /\ Keeps(m, B)
  BY <1>7, <1>8, <1>9, AlikeGood
<1>11. Good(v, n) /\ Keeps(v, B \ O) /\ v.agg = m.agg
  BY <1>10, TellGood
<1>12. Keeps(v, B)
  BY <1>11 DEF Keeps
<1> HIDE DEF v
<1> QED
  BY <1>1, <1>5, <1>11, <1>12

\* A cancelled debounce is no longer counted.
LEMMA CancelGood ==
    ASSUME NEW n \in Nat, NEW B, NEW w, Good(w, n), Keeps(w, B), NEW a \in Aggs
    PROVE  LET v == Cancel(w, a) IN Good(v, n) /\ Keeps(v, B) /\ v.told = w.told
<1> DEFINE v == Cancel(w, a)
           k == IF w.agg[a].armed THEN 1 ELSE 0
<1>1. /\ DOMAIN v = DOMAIN w /\ v.told = w.told /\ v.get = w.get /\ v.slot = w.slot
      /\ DOMAIN v.activity = DOMAIN w.activity
      /\ v.activity.inFlight = w.activity.inFlight
      /\ v.activity.pending = w.activity.pending - k
      /\ v.agg = [w.agg EXCEPT ![a] = [w.agg[a] EXCEPT !.armed = FALSE]]
  BY DEF Good, Shaped, Cancel, AggFields
<1> HIDE DEF v
<1>2. ASSUME NEW b \in Aggs
      PROVE  /\ DOMAIN v.agg[b] = AggFields
             /\ v.agg[b].run = w.agg[b].run /\ v.agg[b].sub = w.agg[b].sub
             /\ v.agg[b].error = w.agg[b].error /\ v.agg[b].failures = w.agg[b].failures
             /\ v.agg[b].ext = w.agg[b].ext /\ v.agg[b].last = w.agg[b].last
             /\ v.agg[b].retries = w.agg[b].retries
             /\ v.agg[b].armed = (w.agg[b].armed /\ b # a)
  <2>1. DOMAIN w.agg[b] = AggFields /\ w.agg[b].armed \in BOOLEAN
    BY DEF Good, Shaped, Sound
  <2>2. v.agg[b] = IF b = a THEN [w.agg[a] EXCEPT !.armed = FALSE] ELSE w.agg[b]
    BY <1>1 DEF Good, Shaped
  <2>3. CASE b = a
    BY <2>1, <2>2, <2>3 DEF AggFields
  <2>4. CASE b # a
    BY <2>1, <2>2, <2>4
  <2> QED
    BY <2>3, <2>4
<1>3. Shaped(v)
  <2> HIDE DEF k
  <2>1. v.agg = [b \in Aggs |-> v.agg[b]]
    BY <1>1 DEF Good, Shaped
  <2>2. \A b \in Aggs : DOMAIN v.agg[b] = AggFields /\ DOMAIN v.agg[b].run = RunFields
    BY <1>2 DEF Good, Shaped
  <2> QED
    <3>1. Shaped(w) /\ DOMAIN v = DOMAIN w /\ v.get = w.get /\ v.slot = w.slot
          /\ DOMAIN v.activity = DOMAIN w.activity
      BY <1>1 DEF Good
    <3> QED
      BY <2>1, <2>2, <3>1 DEF Shaped
<1>4. Timed(v)
  <2>1. Armed(v.agg) = Armed(w.agg) \ {a} /\ (a \in Armed(w.agg) <=> w.agg[a].armed)
    BY <1>2 DEF Armed
  <2>2. IsFiniteSet(Armed(w.agg))
    BY FS_Subset, AggregationAssumption DEF Armed
  <2>3. Cardinality(Armed(v.agg)) = Cardinality(Armed(w.agg)) - k
    <3>1. CASE w.agg[a].armed
      BY <2>1, <2>2, <3>1, FS_RemoveElement
    <3>2. CASE ~w.agg[a].armed
      <4>1. Armed(v.agg) = Armed(w.agg)
        BY <2>1, <3>2
      <4> QED
        BY <2>2, <3>2, <4>1, FS_CardinalityType
    <3> QED
      BY <3>1, <3>2
  <2>4. Retries(v.agg) = Retries(w.agg)
    BY <1>2 DEF Retries
  <2>5. \A b \in Aggs : v.agg[b].armed \in BOOLEAN /\ v.agg[b].retries \in Nat
    BY <1>2 DEF Good, Sound
  <2>6. /\ IsFiniteSet(Retries(w.agg)) /\ Cardinality(Retries(w.agg)) \in Nat
        /\ Cardinality(Armed(w.agg)) \in Nat
        /\ w.activity.pending = Cardinality(Armed(w.agg)) + Cardinality(Retries(w.agg))
    BY <2>2, FS_CardinalityType DEF Good, Counted
  <2>7. v.activity.pending = w.activity.pending - k
    BY <1>1
  <2>8. v.activity.pending = Cardinality(Armed(v.agg)) + Cardinality(Retries(v.agg))
    BY <2>3, <2>4, <2>6, <2>7
  <2> QED
    BY <2>4, <2>5, <2>6, <2>8 DEF Timed
<1>5. Alike(w, v, {})
  BY <1>1, <1>2 DEF Alike
<1> QED
  BY <1>1, <1>3, <1>4, <1>5, AlikeGood DEF v

\* A retry timer that fires is no longer counted.
LEMMA RetryDoneGood ==
    ASSUME NEW n \in Nat, NEW B, NEW w, Good(w, n), Keeps(w, B), NEW a \in Aggs,
           w.agg[a].retries > 0
    PROVE  LET v == [w EXCEPT !.agg[a].retries = @ - 1, !.activity.pending = @ - 1]
           IN  Good(v, n) /\ Keeps(v, B) /\ v.told = w.told
<1> DEFINE v == [w EXCEPT !.agg[a].retries = @ - 1, !.activity.pending = @ - 1]
<1>1. /\ DOMAIN v = DOMAIN w /\ v.told = w.told /\ v.get = w.get /\ v.slot = w.slot
      /\ DOMAIN v.activity = DOMAIN w.activity
      /\ v.activity.inFlight = w.activity.inFlight
      /\ v.activity.pending = w.activity.pending - 1
      /\ v.agg = [w.agg EXCEPT ![a] = [w.agg[a] EXCEPT !.retries = @ - 1]]
  BY DEF Good, Shaped, AggFields
<1> HIDE DEF v
<1>2. ASSUME NEW b \in Aggs
      PROVE  /\ DOMAIN v.agg[b] = AggFields
             /\ v.agg[b].run = w.agg[b].run /\ v.agg[b].sub = w.agg[b].sub
             /\ v.agg[b].error = w.agg[b].error /\ v.agg[b].failures = w.agg[b].failures
             /\ v.agg[b].ext = w.agg[b].ext /\ v.agg[b].last = w.agg[b].last
             /\ v.agg[b].armed = w.agg[b].armed
             /\ v.agg[b].retries = w.agg[b].retries - (IF b = a THEN 1 ELSE 0)
  <2>1. DOMAIN w.agg[b] = AggFields /\ w.agg[b].retries \in Nat
    BY DEF Good, Shaped, Sound
  <2>2. v.agg[b] = IF b = a THEN [w.agg[a] EXCEPT !.retries = @ - 1] ELSE w.agg[b]
    BY <1>1 DEF Good, Shaped
  <2>3. CASE b = a
    BY <2>1, <2>2, <2>3 DEF AggFields
  <2>4. CASE b # a
    BY <2>1, <2>2, <2>4
  <2> QED
    BY <2>3, <2>4
<1>3. Shaped(v)
  <2>1. v.agg = [b \in Aggs |-> v.agg[b]]
    BY <1>1 DEF Good, Shaped
  <2>2. \A b \in Aggs : DOMAIN v.agg[b] = AggFields /\ DOMAIN v.agg[b].run = RunFields
    BY <1>2 DEF Good, Shaped
  <2> QED
    BY <1>1, <2>1, <2>2 DEF Good, Shaped
<1>4. Timed(v)
  <2>1. Armed(v.agg) = Armed(w.agg)
    BY <1>2 DEF Armed
  <2>2. \A b \in Aggs : v.agg[b].armed \in BOOLEAN /\ v.agg[b].retries \in Nat
    BY <1>2 DEF Good, Sound
  <2>3. w.agg[a].retries \in Nat /\ w.agg[a].retries = v.agg[a].retries + 1
    BY <1>2 DEF Good, Sound
  <2>4. \A b \in Aggs \ {a} : w.agg[b].retries = v.agg[b].retries
    BY <1>2 DEF Good, Sound
  <2>5. IsFiniteSet(Retries(w.agg))
    BY DEF Good, Counted
  <2>6. /\ IsFiniteSet(Retries(v.agg))
        /\ Cardinality(Retries(w.agg)) = Cardinality(Retries(v.agg)) + 1
    BY <2>2, <2>3, <2>4, <2>5, OneRetryMore
  <2>7. IsFiniteSet(Armed(w.agg))
    BY FS_Subset, AggregationAssumption DEF Armed
  <2>8. /\ Cardinality(Armed(w.agg)) \in Nat /\ Cardinality(Retries(v.agg)) \in Nat
        /\ w.activity.pending = Cardinality(Armed(w.agg)) + Cardinality(Retries(w.agg))
    BY <2>6, <2>7, FS_CardinalityType DEF Good, Counted
  <2>9. v.activity.pending = w.activity.pending - 1
    BY <1>1
  <2>10. v.activity.pending = Cardinality(Armed(v.agg)) + Cardinality(Retries(v.agg))
    BY <2>1, <2>6, <2>8, <2>9
  <2> QED
    BY <2>2, <2>6, <2>10 DEF Timed
<1>5. Alike(w, v, {})
  BY <1>1, <1>2 DEF Alike
<1> QED
  BY <1>1, <1>3, <1>4, <1>5, AlikeGood DEF v

\* A retry within the budget keeps the invariant.
LEMMA RetryGood ==
    ASSUME NEW n \in Nat, NEW B, NEW w, Good(w, n), Keeps(w, B), NEW a \in Aggs,
           w.agg[a].failures < MaxRetries
    PROVE  Good(Retry(w, a), n) /\ Keeps(Retry(w, a), B)
<1> DEFINE v == Retry(w, a)
<1>1. /\ DOMAIN v = DOMAIN w /\ v.told = w.told /\ v.get = w.get /\ v.slot = w.slot
      /\ DOMAIN v.activity = DOMAIN w.activity
      /\ v.activity.inFlight = w.activity.inFlight
      /\ v.activity.pending = w.activity.pending + 1
      /\ v.agg = [w.agg EXCEPT ![a] = [w.agg[a] EXCEPT !.failures = @ + 1, !.retries = @ + 1]]
  BY DEF Good, Shaped, AggFields, Retry
<1> HIDE DEF v
<1>2. ASSUME NEW b \in Aggs
      PROVE  /\ DOMAIN v.agg[b] = AggFields
             /\ v.agg[b].run = w.agg[b].run /\ v.agg[b].sub = w.agg[b].sub
             /\ v.agg[b].error = w.agg[b].error
             /\ v.agg[b].ext = w.agg[b].ext /\ v.agg[b].last = w.agg[b].last
             /\ v.agg[b].armed = w.agg[b].armed
             /\ v.agg[b].failures = w.agg[b].failures + (IF b = a THEN 1 ELSE 0)
             /\ v.agg[b].retries = w.agg[b].retries + (IF b = a THEN 1 ELSE 0)
  <2>1. /\ DOMAIN w.agg[b] = AggFields /\ w.agg[b].retries \in Nat
        /\ w.agg[b].failures \in 0 .. MaxRetries
    BY DEF Good, Shaped, Sound
  <2>2. v.agg[b] = IF b = a THEN [w.agg[a] EXCEPT !.failures = @ + 1, !.retries = @ + 1]
                   ELSE w.agg[b]
    BY <1>1 DEF Good, Shaped
  <2>3. CASE b = a
    BY <2>1, <2>2, <2>3 DEF AggFields
  <2>4. CASE b # a
    BY <2>1, <2>2, <2>4 DEF MaxRetries
  <2> QED
    BY <2>3, <2>4
<1>3. Shaped(v)
  <2>1. v.agg = [b \in Aggs |-> v.agg[b]]
    BY <1>1 DEF Good, Shaped
  <2>2. \A b \in Aggs : DOMAIN v.agg[b] = AggFields /\ DOMAIN v.agg[b].run = RunFields
    BY <1>2 DEF Good, Shaped
  <2> QED
    BY <1>1, <2>1, <2>2 DEF Good, Shaped
<1>4. Counted(v)
  <2>1. Armed(v.agg) = Armed(w.agg) /\ Busy(v.agg) = Busy(w.agg)
    BY <1>2 DEF Armed, Busy
  <2>2. \A b \in Aggs : w.agg[b].retries \in Nat
    BY DEF Good, Sound
  <2>3. v.agg[a].retries = w.agg[a].retries + 1
    BY <1>2
  <2>4. \A b \in Aggs \ {a} : v.agg[b].retries = w.agg[b].retries
    BY <1>2, <2>2
  <2>5. IsFiniteSet(Retries(w.agg))
    BY DEF Good, Counted
  <2>6. /\ IsFiniteSet(Retries(v.agg))
        /\ Cardinality(Retries(v.agg)) = Cardinality(Retries(w.agg)) + 1
    BY <2>2, <2>3, <2>4, <2>5, OneRetryMore
  <2>7. IsFiniteSet(Armed(w.agg))
    BY FS_Subset, AggregationAssumption DEF Armed
  <2>8. /\ Cardinality(Armed(w.agg)) \in Nat /\ Cardinality(Retries(w.agg)) \in Nat
        /\ w.activity.pending = Cardinality(Armed(w.agg)) + Cardinality(Retries(w.agg))
        /\ w.activity.inFlight = Cardinality(Busy(w.agg))
    BY <2>5, <2>7, FS_CardinalityType DEF Good, Counted
  <2>9. v.activity.pending = w.activity.pending + 1 /\ v.activity.inFlight = w.activity.inFlight
    BY <1>1
  <2>10. v.activity.pending = Cardinality(Armed(v.agg)) + Cardinality(Retries(v.agg))
    BY <2>1, <2>6, <2>8, <2>9
  <2> QED
    BY <2>1, <2>6, <2>8, <2>9, <2>10 DEF Counted
<1>5. ASSUME NEW b \in Aggs PROVE Sound(b, v.agg[b], n)
  <2>1. Sound(b, w.agg[b], n)
    BY DEF Good
  <2> QED
    BY <1>2, <2>1 DEF Sound, MaxRetries
<1>6. \A b \in Downstreams : AsksOnce(v, b)
  BY <1>1, <1>2, UpstreamFacts DEF Good, AsksOnce, Calling
<1>7. VerifiesOnce(v)
  BY <1>1 DEF Good, VerifiesOnce
<1>8. Keeps(v, B)
  BY <1>1, <1>2 DEF Keeps, Unchanged
<1> QED
  BY <1>3, <1>4, <1>5, <1>6, <1>7, <1>8 DEF Good, v

\* From r to q the run has failed, and nothing else has changed.
Fails(r, q, error) ==
    /\ DOMAIN q = AggFields /\ Same(q, r) /\ q.sub = r.sub
    /\ DOMAIN q.run = RunFields
    /\ q.run.phase = "failed" /\ q.run.error = error /\ q.run.awaits = FALSE
    /\ q.run.got = r.run.got /\ q.run.ext = r.run.ext

\* What Fail changes.
LEMMA FailEffect ==
    ASSUME NEW r, DOMAIN r = AggFields, DOMAIN r.run = RunFields, NEW error
    PROVE  Fails(r, Fail(r, error), error)
<1> DEFINE q == Fail(r, error)
           run == [[[r.run EXCEPT !.phase = "failed"] EXCEPT !.error = error]
                     EXCEPT !.awaits = FALSE]
<1>1. q.run = run /\ DOMAIN q = AggFields /\ \A f \in AggFields \ {"run"} : q[f] = r[f]
  BY DEF Fail, AggFields, RunFields
<1>2. Same(q, r) /\ q.sub = r.sub
  BY <1>1 DEF Same, AggFields
<1>3. /\ DOMAIN run = RunFields
      /\ run.phase = "failed" /\ run.error = error /\ run.awaits = FALSE
      /\ run.got = r.run.got /\ run.ext = r.run.ext
  BY DEF RunFields
<1> QED
  BY <1>1, <1>2, <1>3 DEF Fails

\* A run that waits for the run of its upstream a goes on when that ends.
Released(w, v, a, error, b) ==
    /\ Upstream[b] = a /\ w.agg[b].run.awaits
    /\ v.agg[b].run.phase \in {w.agg[b].run.phase, "failed"}
    /\ v.agg[b].run.awaits = FALSE
    /\ v.agg[b].run.error \in {w.agg[b].run.error, error}
    /\ v.agg[b].run.ext = w.agg[b].run.ext
    /\ DOMAIN v.agg[b].run = RunFields
    /\ DOMAIN v.agg[b].run.got = DOMAIN w.agg[b].run.got

\* From w to v the run of a ends: it is idle, and the runs that awaited it have
\* its result or fail with it.
Ends(w, v, a, error) ==
    /\ v.told = w.told \cup {a} /\ v.slot = w.slot /\ v.get = w.get
    /\ v.activity.inFlight = w.activity.inFlight - 1
    /\ v.activity.pending = w.activity.pending
    /\ v.agg[a].run = IdleRun /\ v.agg[a].error = error
    /\ v.agg[a].failures \in {0, w.agg[a].failures}
    /\ \A b \in Aggs : /\ v.agg[b].armed = w.agg[b].armed
                       /\ v.agg[b].retries = w.agg[b].retries
                       /\ v.agg[b].ext = w.agg[b].ext /\ v.agg[b].last = w.agg[b].last
                       /\ v.agg[b].sub = w.agg[b].sub
    /\ \A b \in Aggs \ {a} :
         /\ v.agg[b].error = w.agg[b].error /\ v.agg[b].failures = w.agg[b].failures
         /\ v.agg[b].run = w.agg[b].run \/ Released(w, v, a, error, b)

\* What End changes.
LEMMA EndEffect ==
    ASSUME NEW w, Shaped(w), NEW a \in Aggs, NEW error, NEW result
    PROVE  LET v == End(w, a, error, result) IN Shaped(v) /\ Ends(w, v, a, error)
<1> DEFINE v == End(w, a, error, result)
           r == w.agg[a]
           settled == [r EXCEPT !.run = IdleRun, !.rerun = FALSE, !.error = error,
                                !.failures = FailuresAfter(r, error),
                                !.excused = @ \/ error = "other"]
           waiting == {b \in Aggs : Upstream[b] = a /\ w.agg[b].run.awaits}
           handOver(b) == IF error = "none"
              THEN [w.agg[b] EXCEPT !.run.got[a] = result, !.run.awaits = FALSE]
              ELSE Fail(w.agg[b], error)
<1>1. /\ DOMAIN v = DOMAIN w /\ v.told = w.told \cup {a} /\ v.slot = w.slot /\ v.get = w.get
      /\ DOMAIN v.activity = DOMAIN w.activity
      /\ v.activity.inFlight = w.activity.inFlight - 1
      /\ v.activity.pending = w.activity.pending
      /\ v.agg = [b \in Aggs |-> IF b = a THEN settled
                                 ELSE IF b \in waiting THEN handOver(b) ELSE w.agg[b]]
  BY DEF End, Tell, Shaped
<1> HIDE DEF v
<1>2. /\ DOMAIN v.agg[a] = AggFields
      /\ v.agg[a].run = IdleRun /\ v.agg[a].error = error
      /\ v.agg[a].failures \in {0, w.agg[a].failures}
      /\ v.agg[a].armed = w.agg[a].armed /\ v.agg[a].retries = w.agg[a].retries
      /\ v.agg[a].ext = w.agg[a].ext /\ v.agg[a].last = w.agg[a].last
      /\ v.agg[a].sub = w.agg[a].sub
  <2>1. v.agg[a] = settled
    BY <1>1
  <2> QED
    BY <2>1 DEF Shaped, AggFields, FailuresAfter
<1>3. DOMAIN IdleRun = RunFields
  BY DEF IdleRun, RunFields
<1>4. ASSUME NEW b \in Aggs, b # a
      PROVE  /\ DOMAIN v.agg[b] = AggFields /\ DOMAIN v.agg[b].run = RunFields
             /\ v.agg[b].armed = w.agg[b].armed
             /\ v.agg[b].retries = w.agg[b].retries
             /\ v.agg[b].ext = w.agg[b].ext /\ v.agg[b].last = w.agg[b].last
             /\ v.agg[b].sub = w.agg[b].sub
             /\ v.agg[b].error = w.agg[b].error /\ v.agg[b].failures = w.agg[b].failures
             /\ \/ v.agg[b].run = w.agg[b].run
                \/ /\ Upstream[b] = a /\ w.agg[b].run.awaits
                   /\ v.agg[b].run.phase \in {w.agg[b].run.phase, "failed"}
                   /\ v.agg[b].run.awaits = FALSE
                   /\ v.agg[b].run.error \in {w.agg[b].run.error, error}
                   /\ v.agg[b].run.ext = w.agg[b].run.ext
                   /\ DOMAIN v.agg[b].run.got = DOMAIN w.agg[b].run.got
  <2>1. DOMAIN w.agg[b] = AggFields /\ DOMAIN w.agg[b].run = RunFields
    BY DEF Shaped
  <2>2. CASE b \notin waiting
    <3>1. v.agg[b] = w.agg[b]
      BY <1>1, <1>4, <2>2
    <3> QED
      BY <2>1, <3>1
  <2>3. CASE b \in waiting /\ error = "none"
    <3>1. v.agg[b] = [w.agg[b] EXCEPT !.run.got[a] = result, !.run.awaits = FALSE]
      BY <1>1, <1>4, <2>3
    <3>2. /\ v.agg[b].run = [[w.agg[b].run EXCEPT !.got = [@ EXCEPT ![a] = result]]
                                EXCEPT !.awaits = FALSE]
          /\ \A f \in AggFields \ {"run"} : v.agg[b][f] = w.agg[b][f]
          /\ DOMAIN v.agg[b] = AggFields
      BY <2>1, <3>1 DEF AggFields, RunFields
    <3>3. /\ v.agg[b].armed = w.agg[b].armed /\ v.agg[b].retries = w.agg[b].retries
          /\ v.agg[b].ext = w.agg[b].ext /\ v.agg[b].last = w.agg[b].last
          /\ v.agg[b].sub = w.agg[b].sub
          /\ v.agg[b].error = w.agg[b].error /\ v.agg[b].failures = w.agg[b].failures
      BY <3>2 DEF AggFields
    <3>4. /\ DOMAIN v.agg[b].run = RunFields
          /\ v.agg[b].run.phase = w.agg[b].run.phase
          /\ v.agg[b].run.awaits = FALSE
          /\ v.agg[b].run.error = w.agg[b].run.error
          /\ v.agg[b].run.ext = w.agg[b].run.ext
          /\ DOMAIN v.agg[b].run.got = DOMAIN w.agg[b].run.got
      BY <2>1, <3>2 DEF RunFields
    <3> QED
      BY <2>3, <3>2, <3>3, <3>4
  <2>4. CASE b \in waiting /\ error # "none"
    <3>1. v.agg[b] = Fail(w.agg[b], error)
      BY <1>1, <1>4, <2>4
    <3>2. Fails(w.agg[b], v.agg[b], error)
      BY <2>1, <3>1, FailEffect
    <3> QED
      BY <2>1, <2>4, <3>2 DEF Same, Fails
  <2> QED
    BY <2>2, <2>3, <2>4
<1>5. v.agg = [b \in Aggs |-> v.agg[b]]
  BY <1>1
<1>6. Shaped(v)
  <2>1. \A b \in Aggs : DOMAIN v.agg[b] = AggFields /\ DOMAIN v.agg[b].run = RunFields
    BY <1>2, <1>3, <1>4
  <2>2. /\ DOMAIN v = DOMAIN w /\ v.get = w.get /\ v.slot = w.slot
        /\ DOMAIN v.activity = DOMAIN w.activity
    BY <1>1
  <2> QED
    BY <1>5, <2>1, <2>2 DEF Shaped
<1>7. Ends(w, v, a, error)
  <2>1. /\ v.told = w.told \cup {a} /\ v.slot = w.slot /\ v.get = w.get
        /\ v.activity.inFlight = w.activity.inFlight - 1
        /\ v.activity.pending = w.activity.pending
    BY <1>1
  <2> QED
    BY <1>2, <1>4, <2>1 DEF Ends, Released
<1> QED
  BY <1>6, <1>7 DEF v

\* The end of a run that is past its reads keeps the invariant.
LEMMA EndGood ==
    ASSUME NEW n \in Nat, NEW B, NEW w, Good(w, n), Keeps(w, B),
           NEW a \in Aggs, w.agg[a].run.phase \notin {"idle", "reading"},
           NEW error \in Errors, NEW result
    PROVE  LET v == End(w, a, error, result) IN
           /\ Good(v, n) /\ Keeps(v, B \ {a}) /\ v.slot = w.slot
           /\ v.agg[a].failures \in 0 .. MaxRetries
<1> DEFINE v == End(w, a, error, result)
<1>1. Shaped(w)
  BY DEF Good
<1>2. Shaped(v) /\ Ends(w, v, a, error)
  BY <1>1, EndEffect
<1> HIDE DEF v
<1>10. /\ v.told = w.told \cup {a} /\ v.slot = w.slot /\ v.get = w.get
       /\ v.activity.inFlight = w.activity.inFlight - 1
       /\ v.activity.pending = w.activity.pending
  BY <1>2 DEF Ends
<1>11. /\ v.agg[a].run = IdleRun /\ v.agg[a].error = error
       /\ v.agg[a].failures \in {0, w.agg[a].failures}
  BY <1>2 DEF Ends
<1>12. \A b \in Aggs : /\ v.agg[b].armed = w.agg[b].armed
                      /\ v.agg[b].retries = w.agg[b].retries
                      /\ v.agg[b].ext = w.agg[b].ext /\ v.agg[b].last = w.agg[b].last
                      /\ v.agg[b].sub = w.agg[b].sub
  BY <1>2 DEF Ends
<1>13. \A b \in Aggs \ {a} : /\ v.agg[b].error = w.agg[b].error
                            /\ v.agg[b].failures = w.agg[b].failures
  BY <1>2 DEF Ends
<1>14. ASSUME NEW b \in Aggs \ {a}, v.agg[b].run # w.agg[b].run
       PROVE  /\ b \in Downstreams /\ w.agg[b].run.phase = "reading" /\ w.agg[b].run.awaits
              /\ v.agg[b].run.phase \in {"reading", "failed"} /\ v.agg[b].run.awaits = FALSE
              /\ v.agg[b].run.error \in {w.agg[b].run.error, error}
              /\ DOMAIN v.agg[b].run.got = DOMAIN w.agg[b].run.got
  <2>1. Released(w, v, a, error, b)
    BY <1>2, <1>14 DEF Ends
  <2>2. b \in Downstreams /\ w.agg[b].run.awaits
    BY <2>1, AggregationAssumption DEF Released, Downstreams
  <2>3. w.agg[b].run.phase = "reading"
    BY <2>2 DEF Good, AsksOnce
  <2> QED
    BY <2>1, <2>2, <2>3 DEF Released
<1>3. ASSUME NEW b \in Aggs PROVE Sound(b, v.agg[b], n)
  <2>1. Sound(b, w.agg[b], n)
    BY DEF Good
  <2>2. CASE b = a
    <3>1. /\ v.agg[b].run.phase = "idle" /\ v.agg[b].run.awaits = FALSE
          /\ v.agg[b].run.error = "none" /\ v.agg[b].error \in Errors
          /\ v.agg[b].ext = w.agg[b].ext /\ v.agg[b].armed = w.agg[b].armed
          /\ v.agg[b].retries = w.agg[b].retries /\ v.agg[b].sub = w.agg[b].sub
          /\ v.agg[b].failures \in {0, w.agg[b].failures}
      BY <1>11, <1>12, <2>2 DEF IdleRun
    <3>2. v.agg[b].failures \in 0 .. MaxRetries
      BY <2>1, <3>1 DEF Sound, MaxRetries
    <3>3. v.agg[b].run.phase \in Phases /\ v.agg[b].run.error \in Errors
      BY <3>1 DEF Phases, Errors
    <3> QED
      BY <2>1, <3>1, <3>2, <3>3 DEF Sound
  <2>3. CASE b # a
    <3>1. CASE v.agg[b].run = w.agg[b].run
      BY <1>12, <1>13, <2>1, <2>3, <3>1 DEF Sound
    <3>2. CASE v.agg[b].run # w.agg[b].run
      <4>1. /\ w.agg[b].run.phase = "reading"
            /\ v.agg[b].run.phase \in {"reading", "failed"} /\ v.agg[b].run.awaits \in BOOLEAN
            /\ v.agg[b].run.error \in {w.agg[b].run.error, error}
            /\ DOMAIN v.agg[b].run.got = DOMAIN w.agg[b].run.got
        BY <1>14, <2>3, <3>2
      <4>2. /\ v.agg[b].ext = w.agg[b].ext /\ v.agg[b].armed = w.agg[b].armed
            /\ v.agg[b].retries = w.agg[b].retries /\ v.agg[b].sub = w.agg[b].sub
            /\ v.agg[b].error = w.agg[b].error /\ v.agg[b].failures = w.agg[b].failures
        BY <1>12, <1>13, <2>3
      <4> QED
        BY <2>1, <4>1, <4>2 DEF Sound, Phases
    <3> QED
      BY <3>1, <3>2
  <2> QED
    BY <2>2, <2>3
<1>4. ASSUME NEW b \in Downstreams PROVE AsksOnce(v, b)
  <2>1. AsksOnce(w, b) /\ (Calling(v, b) <=> Calling(w, b)) /\ b \in Aggs
    BY <1>10, UpstreamFacts DEF Good, Calling
  <2>2. CASE b = a
    <3>1. ~Calling(w, b) /\ v.agg[b].run.awaits = FALSE
      BY <1>11, <2>1, <2>2 DEF AsksOnce, IdleRun
    <3> QED
      BY <2>1, <3>1 DEF AsksOnce
  <2>3. CASE b # a /\ v.agg[b].run = w.agg[b].run
    BY <2>1, <2>3 DEF AsksOnce
  <2>4. CASE b # a /\ v.agg[b].run # w.agg[b].run
    <3>1. w.agg[b].run.awaits /\ v.agg[b].run.awaits = FALSE
      BY <1>14, <2>1, <2>4
    <3>2. ~Calling(w, b)
      BY <2>1, <3>1 DEF AsksOnce
    <3> QED
      BY <2>1, <3>1, <3>2 DEF AsksOnce
  <2> QED
    BY <2>2, <2>3, <2>4
<1>5. VerifiesOnce(v)
  BY <1>10 DEF Good, VerifiesOnce
<1>6. \A b \in Aggs \ {a} : (v.agg[b].run.phase = "idle") <=> (w.agg[b].run.phase = "idle")
  BY <1>14
<1>7. Counted(v)
  <2>1. Busy(v.agg) = Busy(w.agg) \ {a} /\ a \in Busy(w.agg)
    BY <1>6, <1>11 DEF Busy, IdleRun
  <2>2. IsFiniteSet(Busy(w.agg))
    BY FS_Subset, AggregationAssumption DEF Busy
  <2>3. Cardinality(Busy(v.agg)) = Cardinality(Busy(w.agg)) - 1
    BY <2>1, <2>2, FS_RemoveElement
  <2>4. Armed(v.agg) = Armed(w.agg) /\ Retries(v.agg) = Retries(w.agg)
    BY <1>12 DEF Armed, Retries
  <2> QED
    BY <1>10, <2>3, <2>4 DEF Good, Counted
<1>8. Keeps(v, B \ {a})
  <2>1. ASSUME NEW b \in Aggs \ (v.told \cup (B \ {a})) PROVE Unchanged(v, b)
    <3>1. b # a /\ b \notin w.told \cup B
      BY <1>10
    <3>2. Unchanged(w, b)
      BY <3>1 DEF Keeps
    <3> QED
      BY <1>6, <1>10, <1>12, <1>13, <3>1, <3>2 DEF Unchanged, Verifying
  <2> QED
    BY <1>10, <2>1 DEF Keeps
<1>9. v.agg[a].failures \in 0 .. MaxRetries
  BY <1>3 DEF Sound
<1> QED
  BY <1>2, <1>3, <1>4, <1>5, <1>7, <1>8, <1>9, <1>10 DEF Good, v

\* A run that settles keeps the invariant, with the recompute or the retry that
\* follows it.
LEMMA SettleGood ==
    ASSUME Session, NEW n \in Nat, NEW B, NEW w, Good(w, n), Keeps(w, B),
           NEW a \in Aggs, w.agg[a].run.phase \notin {"idle", "reading"},
           NEW error \in Errors, NEW result
    PROVE  LET v == Settle(w, a, error, result) IN Good(v, n) /\ Keeps(v, B \ {a})
<1> DEFINE v == End(w, a, error, result)
<1>1. Good(v, n) /\ Keeps(v, B \ {a}) /\ v.agg[a].failures \in 0 .. MaxRetries
  BY EndGood
<1> DEFINE x == Excuse(v, IF error = "none" THEN {} ELSE {a})
<1>2. Settle(w, a, error, result) \in {v, x, Trigger(v, {a})}
        \/ (v.agg[a].failures < MaxRetries /\ Settle(w, a, error, result) = Retry(v, a))
  BY DEF Settle
<1> HIDE DEF v
<1>3. Good(Trigger(v, {a}), n) /\ Keeps(Trigger(v, {a}), B \ {a})
  BY <1>1, TriggerGood
<1>4. v.agg[a].failures < MaxRetries => Good(Retry(v, a), n) /\ Keeps(Retry(v, a), B \ {a})
  BY <1>1, RetryGood
<1>5. Good(x, n) /\ Keeps(x, B \ {a})
  BY <1>1, ExcuseGood
<1> QED
  BY <1>1, <1>2, <1>3, <1>4, <1>5

\* A call that leaves the recompute to a run, in flight or started, keeps the
\* invariant and the calls but that run's.
LEMMA AskedForGood ==
    ASSUME Session, NEW n \in Nat, NEW B, NEW w, Good(w, n), Keeps(w, B), NEW a \in Aggs
    PROVE  LET v == AskedFor(w, a) IN
           /\ Good(v, n) /\ Keeps(v, B) /\ w.told \subseteq v.told
           /\ \A g \in Gets : g \notin {RunGet(b) : b \in {a} \cap Downstreams}
                                 => v.get[g] = w.get[g]
<1>1. CASE w.agg[a].run.phase = "idle"
  <2>1. AskedFor(w, a) = Trigger(w, {a})
    BY <1>1 DEF AskedFor
  <2> QED
    BY <2>1, TriggerGood
<1>2. CASE w.agg[a].run.phase # "idle"
  <2>1. AskedFor(w, a) = LeftToRun(w, a)
    BY <1>2 DEF AskedFor
  <2>2. /\ Good(LeftToRun(w, a), n) /\ Keeps(LeftToRun(w, a), B)
        /\ Excuses(w, LeftToRun(w, a))
    BY LeftToRunGood
  <2> QED
    BY <2>1, <2>2 DEF Excuses
<1> QED
  BY <1>1, <1>2

\* From w to v the call g returns: a downstream run that made it goes on
\* reading, awaits the run in flight, or has failed.
Returns(w, v, g) ==
    /\ v.told = w.told /\ v.slot = w.slot /\ v.activity = w.activity
    /\ v.get[g].phase \in {"idle", "done"}
    /\ \A h \in Gets \ {g} : v.get[h].phase = w.get[h].phase
    /\ \A c \in Aggs :
         /\ Same(v.agg[c], w.agg[c]) /\ v.agg[c].sub = w.agg[c].sub
         /\ v.agg[c].run # w.agg[c].run =>
              /\ c \in Downstreams /\ g = RunGet(c)
              /\ v.agg[c].run.phase \in {"reading", "failed"} /\ v.agg[c].run.awaits \in BOOLEAN
              /\ v.agg[c].run.awaits => /\ v.agg[c].run.phase = "reading"
                                        /\ v.agg[c].run.got[Upstream[c]] = Nothing
              /\ DOMAIN v.agg[c].run.got = SourcesOf(c)
              /\ v.agg[c].run.error \in Errors

\* What a call that returns changes, by who made it.
LEMMA ReturnEffect ==
    ASSUME NEW n \in Nat, NEW w, Good(w, n), NEW g \in Gets, NEW data,
           w.get[g].phase \in {"load", "verify"}
    PROVE  LET v == Return(w, g, data) IN Shaped(v) /\ Returns(w, v, g)
<1> DEFINE e == IF g[1] = "run" THEN IdleGet ELSE [IdleGet EXCEPT !.phase = "done"]
           x == [w EXCEPT !.get[g] = e]
           v == Return(w, g, data)
           b == g[2]
           up == Upstream[b]
           q0 == [Fail(w.agg[b], "cold") EXCEPT
                    !.excused = @ \/ stored[CurrentUser][up] # NoEnvelope]
           others == x.agg[up].run.session # x.agg[b].run.session
<1> SUFFICES Shaped(v) /\ Returns(w, v, g)
  OBVIOUS
<1>1. DOMAIN e = GetFields /\ e.phase \in {"idle", "done"}
  BY DEF IdleGet, GetFields
<1>2. /\ DOMAIN x = DOMAIN w /\ x.told = w.told /\ x.slot = w.slot
      /\ x.activity = w.activity /\ x.agg = w.agg
      /\ x.get = [w.get EXCEPT ![g] = e]
  BY DEF Good, Shaped
<1>3. /\ g[1] = "hook" => v = x
      /\ g[1] = "run" /\ data = Nothing =>
           v = [x EXCEPT !.agg[b] = q0]
      /\ g[1] = "run" /\ data # Nothing =>
           v = IF x.agg[up].run.phase # "idle"
               THEN [x EXCEPT !.agg[b].run.awaits = TRUE, !.agg[b].excused = @ \/ others]
               ELSE [x EXCEPT !.agg[b].run.got[up] = data]
      /\ g[1] = "verify" =>
           v = [x EXCEPT !.agg = Verify(@, b, up, IF data = Nothing THEN Null ELSE data,
                                        w.get[g].session),
                         !.get[HookGet(b, g[3])].todo = {c \in @ : c.source # up}]
  BY DEF Return
<1> HIDE DEF e, x, v, q0, others
<1>4. /\ x.get = [h \in Gets |-> x.get[h]]
      /\ \A h \in Gets : DOMAIN x.get[h] = GetFields /\ x.get[h].phase \in GetPhases
      /\ x.get[g].phase \in {"idle", "done"}
      /\ \A h \in Gets \ {g} : x.get[h] = w.get[h]
  BY <1>1, <1>2 DEF Good, Shaped, GetPhases
<1>5. Shaped(x)
  BY <1>2, <1>4 DEF Good, Shaped
<1>6. Returns(w, x, g)
  BY <1>2, <1>4 DEF Returns, Same
<1>7. CASE g[1] = "hook"
  BY <1>3, <1>5, <1>6, <1>7
<1>8. CASE g[1] = "run"
  <2>1. b \in Downstreams /\ g = RunGet(b) /\ b \in Aggs /\ up \in Aggs /\ up # b
    BY <1>8, CallFacts, UpstreamFacts DEF HookGet, RunGet, VerifyGet
  <2>2. /\ w.agg[b].run.phase = "reading" /\ w.agg[b].run.got[up] = Nothing
        /\ ~w.agg[b].run.awaits
    BY <2>1 DEF Good, AsksOnce, Calling
  <2>3. Sound(b, w.agg[b], n) /\ DOMAIN w.agg[b] = AggFields /\ DOMAIN w.agg[b].run = RunFields
    BY <2>1 DEF Good, Shaped
  <2> HIDE DEF b, up
  \* r is the run that made the call, as it goes on.
  <2>4. ASSUME NEW q, DOMAIN q = AggFields, Same(q, w.agg[b]), q.sub = w.agg[b].sub,
               DOMAIN q.run = RunFields,
               q.run.phase \in {"reading", "failed"}, q.run.awaits \in BOOLEAN,
               q.run.awaits => q.run.phase = "reading" /\ q.run.got[Upstream[b]] = Nothing,
               DOMAIN q.run.got = SourcesOf(b), q.run.error \in Errors,
               DOMAIN v = DOMAIN x, v.told = x.told, v.slot = x.slot, v.get = x.get,
               v.activity = x.activity, v.agg = [x.agg EXCEPT ![b] = q]
        PROVE  Shaped(v) /\ Returns(w, v, g)
    <3>1. \A c \in Aggs : v.agg[c] = IF c = b THEN q ELSE w.agg[c]
      BY <1>2, <2>1, <2>4 DEF Good, Shaped
    <3>2. v.agg = [c \in Aggs |-> v.agg[c]]
      BY <1>5, <2>4 DEF Shaped
    <3>6. Shaped(w)
      BY DEF Good
    <3>3. \A c \in Aggs : DOMAIN v.agg[c] = AggFields /\ DOMAIN v.agg[c].run = RunFields
      BY <2>4, <3>1, <3>6 DEF Shaped
    <3>4. Shaped(v)
      BY <1>5, <2>4, <3>2, <3>3 DEF Shaped
    <3>5. Returns(w, v, g)
      <4>1. Same(v.agg[b], w.agg[b]) /\ v.agg[b].sub = w.agg[b].sub
        BY <2>1, <2>4, <3>1
      <4>2. \A c \in Aggs \ {b} : v.agg[c] = w.agg[c]
        BY <3>1
      <4>3. /\ v.agg[b].run.phase \in {"reading", "failed"} /\ v.agg[b].run.awaits \in BOOLEAN
            /\ v.agg[b].run.awaits => /\ v.agg[b].run.phase = "reading"
                                      /\ v.agg[b].run.got[Upstream[b]] = Nothing
            /\ DOMAIN v.agg[b].run.got = SourcesOf(b) /\ v.agg[b].run.error \in Errors
        BY <2>1, <2>4, <3>1
      <4>4. /\ v.told = w.told /\ v.slot = w.slot /\ v.activity = w.activity
            /\ v.get[g].phase \in {"idle", "done"}
            /\ \A h \in Gets \ {g} : v.get[h].phase = w.get[h].phase
        BY <1>6, <2>4 DEF Returns
      <4> QED
        BY <2>1, <4>1, <4>2, <4>3, <4>4 DEF Returns, Same
    <3> QED
      BY <3>4, <3>5
  <2>5. CASE data = Nothing
    <3> DEFINE was == w.agg[b]
               cold == Fail(was, "cold")
    <3>1. v = [x EXCEPT !.agg[b] = q0]
      BY <1>3, <1>8, <2>5 DEF b
    <3>0. Fails(was, cold, "cold")
      BY <2>3, FailEffect
    <3>2. /\ DOMAIN cold = AggFields /\ Same(cold, was) /\ cold.sub = was.sub
          /\ DOMAIN cold.run = RunFields
          /\ cold.run.phase = "failed" /\ cold.run.error = "cold" /\ cold.run.awaits = FALSE
          /\ cold.run.got = was.run.got
      BY <3>0 DEF Fails
    <3>3. DOMAIN q0 = AggFields /\ Same(q0, was) /\ q0.sub = was.sub /\ q0.run = cold.run
      BY <3>2 DEF AggFields, Same, q0
    <3>4. /\ DOMAIN v = DOMAIN x /\ v.told = x.told /\ v.slot = x.slot /\ v.get = x.get
          /\ v.activity = x.activity /\ v.agg = [x.agg EXCEPT ![b] = q0]
      BY <1>5, <3>1 DEF Shaped
    <3>5. DOMAIN q0.run.got = SourcesOf(b) /\ q0.run.error \in Errors
      BY <2>2, <2>3, <3>2, <3>3 DEF Sound, Errors
    <3> QED
      BY <2>4, <3>2, <3>3, <3>4, <3>5
  <2>6. CASE data # Nothing /\ x.agg[up].run.phase # "idle"
    <3> DEFINE was == w.agg[b]
               q == [[was EXCEPT !.run = [was.run EXCEPT !.awaits = TRUE]]
                            EXCEPT !.excused = @ \/ others]
    <3>1. v = [x EXCEPT !.agg[b].run.awaits = TRUE, !.agg[b].excused = @ \/ others]
      BY <1>3, <1>8, <2>6 DEF b, up
    <3>2. /\ DOMAIN v = DOMAIN x /\ v.told = x.told /\ v.slot = x.slot /\ v.get = x.get
          /\ v.activity = x.activity /\ v.agg = [x.agg EXCEPT ![b] = q]
      BY <1>2, <1>5, <2>1, <2>3, <3>1 DEF Shaped, AggFields, RunFields
    <3>3. DOMAIN q = AggFields /\ Same(q, was) /\ q.sub = was.sub
          /\ q.run = [was.run EXCEPT !.awaits = TRUE]
      BY <2>3 DEF AggFields, Same
    <3> HIDE DEF q
    <3>4. /\ DOMAIN q.run = RunFields /\ q.run.phase = "reading" /\ q.run.awaits = TRUE
          /\ q.run.error = was.run.error /\ q.run.got = was.run.got
      BY <2>2, <2>3, <3>3 DEF RunFields
    <3>5. /\ DOMAIN q.run.got = SourcesOf(b) /\ q.run.error \in Errors
          /\ q.run.got[Upstream[b]] = Nothing
      BY <2>2, <2>3, <3>4 DEF Sound, up
    <3> QED
      BY <2>4, <3>2, <3>3, <3>4, <3>5
  <2>7. CASE data # Nothing /\ x.agg[up].run.phase = "idle"
    <3> DEFINE was == w.agg[b]
               q == [was EXCEPT !.run = [was.run EXCEPT !.got = [@ EXCEPT ![up] = data]]]
    <3>1. v = [x EXCEPT !.agg[b].run.got[up] = data]
      BY <1>3, <1>8, <2>7 DEF b, up
    <3>2. /\ DOMAIN v = DOMAIN x /\ v.told = x.told /\ v.slot = x.slot /\ v.get = x.get
          /\ v.activity = x.activity /\ v.agg = [x.agg EXCEPT ![b] = q]
      BY <1>2, <1>5, <2>1, <2>3, <3>1 DEF Shaped, AggFields, RunFields
    <3>3. DOMAIN q = AggFields /\ Same(q, was) /\ q.sub = was.sub
          /\ q.run = [was.run EXCEPT !.got = [@ EXCEPT ![up] = data]]
      BY <2>3 DEF AggFields, Same
    <3> HIDE DEF q
    <3>4. /\ DOMAIN q.run = RunFields /\ q.run.phase = "reading"
          /\ q.run.awaits = was.run.awaits
          /\ q.run.error = was.run.error /\ DOMAIN q.run.got = DOMAIN was.run.got
      BY <2>2, <2>3, <3>3 DEF RunFields
    <3>5. /\ DOMAIN q.run.got = SourcesOf(b) /\ q.run.error \in Errors
          /\ q.run.awaits \in BOOLEAN /\ ~q.run.awaits
      BY <2>2, <2>3, <3>4 DEF Sound
    <3> QED
      BY <2>4, <3>2, <3>3, <3>4, <3>5
  <2> QED
    BY <2>5, <2>6, <2>7
<1>9. CASE g[1] = "verify"
  <2> DEFINE hash == IF data = Nothing THEN Null ELSE data
             k == w.get[g].session
             h == HookGet(b, g[3])
             left2 == {c \in x.get[h].todo : c.source # up}
  <2>1. b \in Downstreams /\ b \in Aggs /\ h \in Gets /\ g[3] \in SessionNumbers
    BY <1>9, CallFacts, UpstreamFacts DEF HookGet, RunGet, VerifyGet
  <2>2. v = [x EXCEPT !.agg = Verify(x.agg, b, up, hash, k), !.get[h].todo = left2]
    BY <1>3, <1>5, <1>9 DEF Shaped
  <2> HIDE DEF b, up, hash, k, h, left2
  <2>3. /\ DOMAIN v = DOMAIN x /\ v.told = x.told /\ v.slot = x.slot
        /\ v.activity = x.activity /\ v.agg = Verify(x.agg, b, up, hash, k)
        /\ v.get = [x.get EXCEPT ![h] = [x.get[h] EXCEPT !.todo = left2]]
    BY <1>5, <2>1, <2>2 DEF Shaped
  <2> DEFINE mark == \/ x.agg[b].excused \/ x.agg[b].seen[up] # Undefined
                     \/ k # session \/ x.agg[b].sub # CurrentUser
  <2>4. v.agg = [x.agg EXCEPT ![b] = [[x.agg[b] EXCEPT !.seen = [@ EXCEPT ![up] = hash]]
                                        EXCEPT !.excused = mark]]
    BY <1>5, <2>1, <2>3 DEF Verify, Shaped, AggFields
  <2> HIDE DEF mark
  <2>5. ASSUME NEW c \in Aggs
        PROVE  /\ DOMAIN v.agg[c] = AggFields /\ Same(v.agg[c], w.agg[c])
               /\ v.agg[c].sub = w.agg[c].sub /\ v.agg[c].run = w.agg[c].run
    <3>1. v.agg[c] = IF c = b THEN [[w.agg[b] EXCEPT !.seen = [@ EXCEPT ![up] = hash]]
                                      EXCEPT !.excused = mark]
                     ELSE w.agg[c]
      BY <1>2, <2>1, <2>4 DEF Good, Shaped
    <3>2. DOMAIN w.agg[c] = AggFields
      BY DEF Good, Shaped
    <3> QED
      BY <3>1, <3>2 DEF AggFields, Same
  <2>6. /\ v.agg = [c \in Aggs |-> v.agg[c]]
        /\ \A c \in Aggs : DOMAIN v.agg[c] = AggFields /\ DOMAIN v.agg[c].run = RunFields
    <3>1. v.agg = [c \in Aggs |-> v.agg[c]]
      BY <1>5, <2>4 DEF Shaped
    <3> QED
      BY <2>5, <3>1 DEF Good, Shaped
  <2>7. /\ v.get = [i \in Gets |-> v.get[i]]
        /\ \A i \in Gets : DOMAIN v.get[i] = GetFields /\ v.get[i].phase = x.get[i].phase
    <3>1. v.get = [i \in Gets |-> v.get[i]]
      BY <1>4, <2>3
    <3>2. ASSUME NEW i \in Gets
          PROVE  DOMAIN v.get[i] = GetFields /\ v.get[i].phase = x.get[i].phase
      <4>1. v.get[i] = IF i = h THEN [x.get[h] EXCEPT !.todo = left2] ELSE x.get[i]
        BY <1>4, <2>3
      <4> QED
        BY <1>4, <4>1 DEF GetFields
    <3> QED
      BY <3>1, <3>2
  <2>8. Shaped(v)
    <3>1. \A i \in Gets : v.get[i].phase \in GetPhases
      BY <1>4, <2>7
    <3>2. DOMAIN v = DOMAIN x /\ v.slot = x.slot /\ v.activity = x.activity
      BY <2>3
    <3> QED
      BY <1>5, <2>6, <2>7, <3>1, <3>2 DEF Shaped
  <2>9. Returns(w, v, g)
    BY <1>6, <2>3, <2>5, <2>7 DEF Returns
  <2> QED
    BY <2>8, <2>9
<1> QED
  <2>1. g[1] \in {"hook", "run", "verify"}
    BY DEF Gets
  <2> QED
    BY <1>7, <1>8, <1>9, <2>1

\* A call that returns keeps the invariant; React must have been told of its
\* aggregation.
LEMMA ReturnGood ==
    ASSUME NEW n \in Nat, NEW B, NEW w, Good(w, n), Keeps(w, B), NEW g \in Gets, NEW data,
           w.get[g].phase \in {"load", "verify"}, AggOf(g) \in w.told
    PROVE  LET v == Return(w, g, data) IN Good(v, n) /\ Keeps(v, B)
<1> DEFINE v == Return(w, g, data)
<1>1. Shaped(v) /\ Returns(w, v, g)
  BY ReturnEffect
<1> HIDE DEF v
<1>2. ASSUME NEW c \in Aggs, v.agg[c].run # w.agg[c].run
      PROVE  /\ c \in Downstreams /\ g = RunGet(c)
             /\ w.agg[c].run.phase = "reading"
             /\ v.agg[c].run.phase \in {"reading", "failed"}
  <2>1. c \in Downstreams /\ g = RunGet(c) /\ v.agg[c].run.phase \in {"reading", "failed"}
    BY <1>1, <1>2 DEF Returns
  <2>2. w.agg[c].run.phase = "reading"
    BY <2>1 DEF Good, AsksOnce, Calling
  <2> QED
    BY <2>1, <2>2
<1>3. ASSUME NEW c \in Aggs PROVE Sound(c, v.agg[c], n)
  <2>1. Sound(c, w.agg[c], n) /\ Same(v.agg[c], w.agg[c]) /\ v.agg[c].sub = w.agg[c].sub
    BY <1>1 DEF Good, Returns
  <2>2. CASE v.agg[c].run = w.agg[c].run
    BY <2>1, <2>2 DEF Sound, Same
  <2>3. CASE v.agg[c].run # w.agg[c].run
    <3>1. /\ v.agg[c].run.phase \in {"reading", "failed"} /\ v.agg[c].run.awaits \in BOOLEAN
          /\ DOMAIN v.agg[c].run.got = SourcesOf(c) /\ v.agg[c].run.error \in Errors
      BY <1>1, <2>3 DEF Returns
    <3> QED
      BY <2>1, <3>1 DEF Sound, Same, Phases
  <2> QED
    BY <2>2, <2>3
<1>4. ASSUME NEW c \in Downstreams PROVE AsksOnce(v, c)
  <2>1. RunGet(c) \in Gets /\ c \in Aggs
    BY CallFacts, UpstreamFacts
  <2>2. CASE g = RunGet(c)
    <3>1. ~Calling(v, c)
      BY <1>1, <2>2 DEF Returns, Calling
    <3>2. CASE v.agg[c].run = w.agg[c].run
      BY <3>1, <3>2 DEF Good, AsksOnce
    <3>3. CASE v.agg[c].run # w.agg[c].run
      BY <1>1, <2>1, <3>1, <3>3 DEF AsksOnce, Returns
    <3> QED
      BY <3>2, <3>3
  <2>3. CASE g # RunGet(c)
    <3>1. v.agg[c].run = w.agg[c].run
      BY <1>2, <2>1, <2>3
    <3>2. Calling(v, c) <=> Calling(w, c)
      BY <1>1, <2>1, <2>3 DEF Returns, Calling
    <3> QED
      BY <3>1, <3>2 DEF Good, AsksOnce
  <2> QED
    BY <2>2, <2>3
<1>5. VerifiesOnce(v)
  <2> SUFFICES ASSUME NEW b \in Downstreams, NEW m \in SessionNumbers,
                      v.get[HookGet(b, m)].phase \in {"idle", "load"}
               PROVE  v.get[VerifyGet(HookGet(b, m))].phase = "idle"
    BY DEF VerifiesOnce
  <2>1. HookGet(b, m) \in Gets /\ VerifyGet(HookGet(b, m)) \in Gets
    BY CallFacts, UpstreamFacts
  <2>2. g = HookGet(b, m) => v.get[g].phase = "done"
    <3>1. g = HookGet(b, m) => g[1] # "run" /\ g[1] = "hook"
      BY DEF HookGet
    <3>2. g[1] = "hook" => v.get[g] = [IdleGet EXCEPT !.phase = "done"]
      BY DEF Return, Good, Shaped, v
    <3> QED
      BY <3>1, <3>2 DEF IdleGet
  <2>3. g # HookGet(b, m)
    BY <2>2
  <2>4. w.get[HookGet(b, m)].phase \in {"idle", "load"}
    BY <1>1, <2>1, <2>3 DEF Returns
  <2>5. w.get[VerifyGet(HookGet(b, m))].phase = "idle"
    BY <2>4 DEF Good, VerifiesOnce
  <2>6. g # VerifyGet(HookGet(b, m))
    BY <2>5
  <2> QED
    BY <1>1, <2>1, <2>5, <2>6 DEF Returns
<1>6. Counted(v)
  <2>1. Busy(v.agg) = Busy(w.agg)
    BY <1>2 DEF Busy
  <2>2. Armed(v.agg) = Armed(w.agg) /\ Retries(v.agg) = Retries(w.agg)
    BY <1>1 DEF Returns, Armed, Retries, Same
  <2> QED
    BY <1>1, <2>1, <2>2 DEF Good, Counted, Returns
<1>7. Keeps(v, B)
  <2>1. ASSUME NEW a \in Aggs \ (v.told \cup B) PROVE Unchanged(v, a)
    <3>1. a \notin w.told \cup B /\ AggOf(g) # a
      BY <1>1 DEF Returns
    <3>2. Unchanged(w, a)
      BY <3>1 DEF Keeps
    <3>3. (v.agg[a].run.phase = "idle") <=> (w.agg[a].run.phase = "idle")
      BY <1>2
    <3>4. Verifying(v.get, a) <=> Verifying(w.get, a)
      BY <1>1, <3>1 DEF Verifying, Returns
    <3>5. Same(v.agg[a], w.agg[a])
      BY <1>1 DEF Returns
    <3> QED
      BY <3>2, <3>3, <3>4, <3>5 DEF Unchanged, Same
  <2> QED
    BY <1>1, <2>1 DEF Keeps, Returns
<1> QED
  BY <1>1, <1>3, <1>4, <1>5, <1>6, <1>7 DEF Good, v

-----------------------------------------------------------------------------
(* Steps. *)

\* The state after a step.
After == [agg |-> agg', get |-> get', activity |-> activity', slot |-> slot', told |-> {}]

\* The invariant after a step that leaves the session and the server alone.
LEMMA RestKept ==
    ASSUME AInv, UNCHANGED << plan, session, unlocked, stored, world >>,
           writing' = writing \/ writing' = Nothing
           \/ (writing'.user \in Users /\ writing'.store \in Stores),
           Good(After, world.value), Shown', LockedCacheEmpty'
    PROVE  AInv'
<1>1. Session'
  BY DEF AInv, Session
<1>2. Stored'
  BY DEF AInv, Stored
<1>3. EnvelopeHonest'
  BY DEF AInv, EnvelopeHonest
<1>4. Good(W, world.value)'
  BY DEF W, After
<1> QED
  BY <1>1, <1>2, <1>3, <1>4 DEF AInv

\* A working state may be published.
LEMMA Publish ==
    ASSUME AInv, NEW n \in Nat, NEW w, Good(w, n), Keeps(w, {}), Commit(w),
           UNCHANGED << plan, session, unlocked >>
    PROVE  Good(After, n) /\ Shown' /\ LockedCacheEmpty'
<1>1. agg' = w.agg /\ get' = w.get /\ activity' = w.activity /\ slot' = w.slot
  BY DEF Commit
<1>2. Good(After, n)
  <2>1. /\ DOMAIN After = {"agg", "get", "activity", "slot", "told"}
        /\ After.agg = w.agg /\ After.get = w.get /\ After.activity = w.activity
        /\ After.slot = w.slot
    BY <1>1 DEF After
  <2>2. Shaped(After)
    BY <2>1 DEF Good, Shaped
  <2> QED
    BY <2>1, <2>2 DEF Good, AsksOnce, Calling, VerifiesOnce, Counted
<1>3. CurrentUser \in Users /\ CurrentUser' = CurrentUser
  BY CurrentUserType DEF AInv, CurrentUser, User
<1>4. react = [u \in Users |-> [a \in Aggs |-> react[u][a]]]
  BY DEF AInv, Shown
<1>5. CASE ~unlocked
  <2>1. react' = react
    BY <1>5 DEF Commit
  <2>2. \A u \in Users, a \in Aggs : slot'[u][a] = slot[u][a]
    BY <1>1, <1>5 DEF Keeps
  <2> QED
    BY <1>2, <1>5, <2>1, <2>2 DEF AInv, Shown, LockedCacheEmpty
<1>6. CASE unlocked
  <2> DEFINE now == [a \in Aggs |-> IF a \in w.told THEN StateOf(a, w.agg[a])
                                    ELSE react[CurrentUser][a]]
  <2>1. react' = [react EXCEPT ![CurrentUser] = now]
    BY <1>6 DEF Commit
  <2>2. \A u \in Users : react'[u] = IF u = CurrentUser THEN now ELSE react[u]
    BY <1>4, <2>1
  <2>3. react' = [u \in Users |-> [a \in Aggs |-> react'[u][a]]]
    <3>1. react' = [u \in Users |-> react'[u]]
      BY <1>4, <2>1
    <3>2. \A u \in Users : react'[u] = [a \in Aggs |-> react'[u][a]]
      BY <1>4, <2>2
    <3> QED
      BY <3>1, <3>2
  <2>4. ASSUME NEW a \in Aggs, react'[CurrentUser][a] # Nothing
        PROVE  Shows(react[CurrentUser][a], a)'
    <3>1. react'[CurrentUser][a] = IF a \in w.told THEN StateOf(a, w.agg[a])
                                   ELSE react[CurrentUser][a]
      BY <1>3, <2>2
    <3>2. CASE a \in w.told
      <4>1. react'[CurrentUser][a] = StateOf(a, agg'[a])
        BY <1>1, <3>1, <3>2
      <4> QED
        BY <1>3, <4>1 DEF Shows, StateOf, DataOf
    <3>3. CASE a \notin w.told
      <4>1. react'[CurrentUser][a] = react[CurrentUser][a]
        BY <3>1, <3>3
      <4>2. Shows(react[CurrentUser][a], a)
        BY <1>6, <2>4, <4>1 DEF AInv, Shown
      <4>3. Unchanged(w, a)
        BY <3>3 DEF Keeps
      <4> QED
        BY <1>1, <1>3, <4>1, <4>2, <4>3 DEF Shows, Unchanged, DataOf
    <3> QED
      BY <3>2, <3>3
  <2>5. Shown'
    BY <1>3, <2>3, <2>4 DEF Shown
  <2>6. LockedCacheEmpty'
    BY <1>6 DEF LockedCacheEmpty
  <2> QED
    BY <1>2, <2>5, <2>6
<1> QED
  <2>1. unlocked \in BOOLEAN
    BY DEF AInv, Session
  <2> QED
    BY <1>5, <1>6, <2>1

\* The working state a step begins with.
LEMMA WFacts ==
    ASSUME AInv
    PROVE  /\ Session /\ world.value \in Nat
           /\ Good(W, world.value) /\ Keeps(W, {})
           /\ W.agg = agg /\ W.get = get /\ W.activity = activity /\ W.slot = slot
           /\ W.told = {}
<1>1. Keeps(W, {})
  BY DEF W, Keeps, Unchanged
<1> QED
  BY <1>1 DEF AInv, Session, W

\* A step within runs and calls that React does not see.
LEMMA Silent ==
    ASSUME AInv,
           UNCHANGED << plan, session, unlocked, stored, slot, react, writing, activity, world >>,
           Shaped(After),
           \A g \in Gets : get'[g].phase = get[g].phase,
           \A a \in Aggs : /\ Sound(a, agg'[a], world.value)
                           /\ agg'[a].armed = agg[a].armed
                           /\ agg'[a].retries = agg[a].retries
                           /\ agg'[a].error = agg[a].error /\ agg'[a].last = agg[a].last
                           /\ (agg'[a].run.phase = "idle") <=> (agg[a].run.phase = "idle"),
           \A b \in Downstreams : AsksOnce(After, b)
    PROVE  AInv'
<1>1. Good(W, world.value) /\ Session
  BY DEF AInv
<1>2. After.agg = agg' /\ After.get = get' /\ After.activity = activity
  BY DEF After
<1>3. VerifiesOnce(After)
  BY <1>1, <1>2, CallFacts, UpstreamFacts DEF Good, VerifiesOnce, W
<1>4. Counted(After)
  <2>1. Busy(agg') = Busy(agg) /\ Armed(agg') = Armed(agg) /\ Retries(agg') = Retries(agg)
    BY DEF Busy, Armed, Retries
  <2> QED
    BY <1>1, <1>2, <2>1 DEF Good, Counted, W
<1>5. Good(After, world.value)
  BY <1>2, <1>3, <1>4 DEF Good
<1>6. CurrentUser' = CurrentUser
  BY DEF CurrentUser, User
<1>7. Shown'
  <2>1. ASSUME NEW a \in Aggs PROVE Verifying(get', a) <=> Verifying(get, a)
    BY DEF Verifying
  <2>2. ASSUME NEW a \in Aggs, Shows(react[CurrentUser][a], a)
        PROVE  Shows(react[CurrentUser][a], a)'
    BY <1>6, <2>1, <2>2 DEF Shows, DataOf
  <2> QED
    BY <1>6, <2>2 DEF AInv, Shown
<1>8. LockedCacheEmpty'
  BY DEF AInv, LockedCacheEmpty
<1> QED
  BY <1>5, <1>7, <1>8, RestKept

\* The sessions are those that calls are numbered by.
LEMMA SessionNumber == ASSUME Session PROVE session \in SessionNumbers
  BY AggregationAssumption DEF Session, SessionNumbers

\* A hook asks once per session.
LEMMA HookCallsGetStep ==
    ASSUME AInv, NEW a \in Aggs, HookCallsGet(a) PROVE AInv'
<1> DEFINE g == HookGet(a, session)
           G == {g}
<1>1. Session /\ world.value \in Nat /\ Good(W, world.value) /\ Keeps(W, {}) /\ W.get = get
  BY WFacts
<1>2. session \in SessionNumbers
  BY <1>1, SessionNumber
<1>3. g \in Gets /\ get[g].phase = "idle" /\ Commit(StartGet(W, G))
      /\ UNCHANGED << plan, session, unlocked, stored, writing, world >>
  BY <1>2, CallFacts DEF HookCallsGet
<1>4. /\ \A b \in Downstreams : RunGet(b) \notin G
      /\ \A b \in Downstreams, m \in SessionNumbers : VerifyGet(HookGet(b, m)) \notin G
      /\ \A b \in Downstreams, m \in SessionNumbers : HookGet(b, m) \in G => HookGet(b, m) = g
  BY DEF HookGet, RunGet, VerifyGet
<1>5. \A b \in Downstreams, m \in SessionNumbers :
        HookGet(b, m) \in G => W.get[VerifyGet(HookGet(b, m))].phase = "idle"
  BY <1>1, <1>3, <1>4 DEF Good, VerifiesOnce
<1>6. G \in SUBSET Gets /\ \A h \in G : W.get[h].phase # "verify"
  BY <1>1, <1>3
<1> HIDE DEF G
<1>7. Good(StartGet(W, G), world.value) /\ Keeps(StartGet(W, G), {})
  BY <1>1, <1>4, <1>5, <1>6, StartGetGood
<1> QED
  BY <1>1, <1>3, <1>7, Publish, RestKept

\* The state itself is shaped as a working state is.
LEMMA StateShape ==
    ASSUME AInv
    PROVE  /\ agg = [a \in Aggs |-> agg[a]]
           /\ \A a \in Aggs : DOMAIN agg[a] = AggFields /\ DOMAIN agg[a].run = RunFields
           /\ get = [g \in Gets |-> get[g]]
           /\ \A g \in Gets : DOMAIN get[g] = GetFields /\ get[g].phase \in GetPhases
           /\ DOMAIN activity = {"inFlight", "pending"}
           /\ slot = [u \in Users |-> [s \in Stores \cup Aggs |-> slot[u][s]]]
<1>1. Shaped(W) /\ W.get = get /\ W.agg = agg /\ W.slot = slot /\ W.activity = activity
  BY WFacts DEF Good
<1> QED
  BY <1>1 DEF Shaped

\* A state of that shape after a step that leaves the cache and the counters.
LEMMA AfterShaped ==
    ASSUME AInv, UNCHANGED << slot, activity >>,
           agg' = [a \in Aggs |-> agg'[a]],
           \A a \in Aggs : DOMAIN agg'[a] = AggFields /\ DOMAIN agg'[a].run = RunFields,
           get' = [g \in Gets |-> get'[g]],
           \A g \in Gets : DOMAIN get'[g] = GetFields /\ get'[g].phase \in GetPhases
    PROVE  Shaped(After)
<1>1. /\ DOMAIN After = {"agg", "get", "activity", "slot", "told"} /\ After.get = get'
      /\ After.agg = agg' /\ After.activity = activity /\ After.slot = slot
  BY DEF After
<1>2. /\ DOMAIN activity = {"inFlight", "pending"}
      /\ slot = [u \in Users |-> [s \in Stores \cup Aggs |-> slot[u][s]]]
  BY StateShape
<1> QED
  BY <1>1, <1>2 DEF Shaped

\* The server's answer reaches every call that shares the read.
LEMMA EnvelopeReadStep ==
    ASSUME AInv, NEW g \in Gets, EnvelopeRead(g) PROVE AInv'
<1>1. Shaped(W) /\ W.get = get /\ W.agg = agg /\ W.slot = slot /\ W.activity = activity
      /\ Good(W, world.value)
  BY WFacts DEF Good
<1>2. UNCHANGED << plan, session, unlocked, stored, slot, react, writing, agg, activity, world >>
  BY DEF EnvelopeRead
<1>3. ASSUME NEW h \in Gets
      PROVE  get'[h].phase = get[h].phase /\ DOMAIN get'[h] = GetFields
  <2>1. \/ get'[h] = get[h]
        \/ \E e : get'[h] = [get[h] EXCEPT !.env = e]
    BY DEF EnvelopeRead
  <2>2. DOMAIN get[h] = GetFields
    BY <1>1 DEF Shaped
  <2> QED
    BY <2>1, <2>2 DEF GetFields
<1>4. get' = [h \in Gets |-> get'[h]]
  BY DEF EnvelopeRead
<1>5. /\ DOMAIN After = {"agg", "get", "activity", "slot", "told"} /\ After.get = get'
      /\ After.agg = agg /\ After.activity = activity /\ After.slot = slot
  BY <1>2 DEF After
<1>6. Shaped(After)
  BY <1>2, <1>3, <1>4, StateShape, AfterShaped
<1>7. \A b \in Downstreams : AsksOnce(After, b)
  BY <1>1, <1>3, <1>5, CallFacts DEF Good, AsksOnce, Calling
<1>8. \A a \in Aggs : Sound(a, agg'[a], world.value)
  BY <1>1, <1>2 DEF Good
<1> QED
  BY <1>2, <1>3, <1>6, <1>7, <1>8, Silent

\* One aggregation is another record: what a silent step needs to know of it.
LEMMA SilentAgg ==
    ASSUME AInv, NEW a \in Aggs, NEW q,
           UNCHANGED << plan, session, unlocked, stored, slot, react, writing, activity, world >>,
           agg' = [agg EXCEPT ![a] = q],
           get' = [g \in Gets |-> get'[g]],
           \A g \in Gets : get'[g].phase = get[g].phase /\ DOMAIN get'[g] = GetFields,
           DOMAIN q = AggFields, DOMAIN q.run = RunFields, Sound(a, q, world.value),
           q.armed = agg[a].armed, q.retries = agg[a].retries,
           q.error = agg[a].error, q.last = agg[a].last,
           (q.run.phase = "idle") <=> (agg[a].run.phase = "idle"),
           q.run.awaits = agg[a].run.awaits,
           a \in Downstreams /\ (Calling(W, a) \/ q.run.awaits) =>
               q.run.phase = "reading" /\ q.run.got[Upstream[a]] = Nothing
    PROVE  AInv'
<1>1. Shaped(W) /\ W.get = get /\ W.agg = agg /\ W.slot = slot /\ W.activity = activity
      /\ Good(W, world.value)
  BY WFacts DEF Good
<1>2. \A c \in Aggs : agg'[c] = IF c = a THEN q ELSE agg[c]
  BY <1>1 DEF Shaped
<1>3. /\ DOMAIN After = {"agg", "get", "activity", "slot", "told"} /\ After.get = get'
      /\ After.agg = agg' /\ After.activity = activity /\ After.slot = slot
  BY DEF After
<1>4. Shaped(After)
  <2>1. agg' = [c \in Aggs |-> agg'[c]]
    BY <1>1 DEF Shaped
  <2>2. \A c \in Aggs : DOMAIN agg'[c] = AggFields /\ DOMAIN agg'[c].run = RunFields
    BY <1>1, <1>2 DEF Shaped
  <2>3. \A g \in Gets : get'[g].phase \in GetPhases
    BY <1>1 DEF Shaped
  <2> QED
    BY <2>1, <2>2, <2>3, AfterShaped
<1>5. ASSUME NEW b \in Downstreams PROVE AsksOnce(After, b)
  <2>1. AsksOnce(W, b) /\ b \in Aggs
    BY <1>1, UpstreamFacts DEF Good
  <2>2. Calling(After, b) <=> Calling(W, b)
    BY <1>1, <1>3, CallFacts DEF Calling
  <2>3. CASE b # a
    BY <1>1, <1>2, <1>3, <2>1, <2>2, <2>3 DEF AsksOnce
  <2>4. CASE b = a
    BY <1>1, <1>2, <1>3, <2>1, <2>2, <2>4 DEF AsksOnce
  <2> QED
    BY <2>3, <2>4
<1>6. \A c \in Aggs : /\ Sound(c, agg'[c], world.value)
                      /\ agg'[c].armed = agg[c].armed
                      /\ agg'[c].retries = agg[c].retries
                      /\ agg'[c].error = agg[c].error /\ agg'[c].last = agg[c].last
                      /\ (agg'[c].run.phase = "idle") <=> (agg[c].run.phase = "idle")
  BY <1>1, <1>2 DEF Good
<1> QED
  BY <1>4, <1>5, <1>6, Silent

\* A verified hash is observed.
LEMMA HashArrivesStep ==
    ASSUME AInv, NEW g \in Gets, HashArrives(g) PROVE AInv'
<1> DEFINE a == AggOf(g)
<1>1. Shaped(W) /\ W.get = get /\ W.agg = agg /\ Good(W, world.value)
  BY WFacts DEF Good
<1>2. a \in Aggs
  BY CallFacts
<1> HIDE DEF a
<1>3. PICK c, hash :
        /\ get' = [get EXCEPT ![g].todo = @ \ {c}]
        /\ agg' = Verify(agg, a, c.source, hash, get[g].session)
  BY DEF HashArrives, a
<1>4. UNCHANGED << plan, session, unlocked, stored, slot, react, writing, activity, world >>
  BY DEF HashArrives
<1> DEFINE s == c.source
           mark == \/ agg[a].excused \/ agg[a].seen[s] # Undefined
                   \/ get[g].session # session \/ agg[a].sub # CurrentUser
           q == [[agg[a] EXCEPT !.seen = [@ EXCEPT ![s] = hash]] EXCEPT !.excused = mark]
<1>5. agg' = [agg EXCEPT ![a] = q]
  BY <1>1, <1>2, <1>3 DEF Verify, Shaped, AggFields
<1>6. /\ DOMAIN q = AggFields /\ q.run = agg[a].run /\ Same(q, agg[a]) /\ q.sub = agg[a].sub
  BY <1>1, <1>2 DEF Shaped, AggFields, Same
<1>7. /\ get' = [h \in Gets |-> get'[h]]
      /\ \A h \in Gets : get'[h].phase = get[h].phase /\ DOMAIN get'[h] = GetFields
  <2>1. get' = [h \in Gets |-> get'[h]]
    BY <1>1, <1>3 DEF Shaped
  <2>2. ASSUME NEW h \in Gets
        PROVE  get'[h].phase = get[h].phase /\ DOMAIN get'[h] = GetFields
    <3>1. get'[h] = IF h = g THEN [get[g] EXCEPT !.todo = @ \ {c}] ELSE get[h]
      BY <1>1, <1>3 DEF Shaped
    <3> QED
      BY <1>1, <3>1 DEF Shaped, GetFields
  <2> QED
    BY <2>1, <2>2
<1> HIDE DEF q
<1>8. Sound(a, agg[a], world.value) /\ DOMAIN agg[a].run = RunFields
  BY <1>1, <1>2 DEF Good, Shaped
<1>9. Sound(a, q, world.value)
  BY <1>6, <1>8 DEF Sound, Same
<1> QED
  <2>1. a \in Downstreams => AsksOnce(W, a)
    BY <1>1 DEF Good
  <2>2. a \in Downstreams /\ (Calling(W, a) \/ q.run.awaits) =>
            q.run.phase = "reading" /\ q.run.got[Upstream[a]] = Nothing
    BY <1>1, <1>6, <2>1 DEF AsksOnce
  <2> QED
    BY <1>2, <1>4, <1>5, <1>6, <1>7, <1>8, <1>9, <2>2, SilentAgg DEF Same

\* The run reads a row.
LEMMA ReadStoreStep ==
    ASSUME AInv, NEW a \in Aggs, NEW s \in Stores, ReadStore(a, s) PROVE AInv'
<1> DEFINE r == agg[a]
           q == [r EXCEPT !.run = [r.run EXCEPT !.got = [@ EXCEPT ![s] = rows[RunUser(a)][s]]]]
<1>1. /\ r.run.phase = "reading" /\ s \in StoresOf[a]
      /\ UNCHANGED << plan, session, unlocked, stored, slot, react, writing, get, activity, world >>
      /\ agg' = [agg EXCEPT ![a].run.got[s] = rows[RunUser(a)][s]]
  BY DEF ReadStore, Run
<1>2. /\ DOMAIN r = AggFields /\ DOMAIN r.run = RunFields /\ Sound(a, r, world.value)
      /\ agg = [b \in Aggs |-> agg[b]]
      /\ get = [g \in Gets |-> get[g]]
      /\ \A g \in Gets : DOMAIN get[g] = GetFields
  BY StateShape, WFacts DEF Good
<1>3. agg' = [agg EXCEPT ![a] = q]
  BY <1>1, <1>2 DEF AggFields, RunFields
<1>4. /\ DOMAIN q = AggFields /\ Same(q, r) /\ q.sub = r.sub
      /\ q.run = [r.run EXCEPT !.got = [@ EXCEPT ![s] = rows[RunUser(a)][s]]]
  BY <1>2 DEF AggFields, Same
<1> HIDE DEF q
<1>5. /\ DOMAIN q.run = RunFields /\ q.run.phase = "reading" /\ q.run.awaits = r.run.awaits
      /\ q.run.error = r.run.error /\ q.run.ext = r.run.ext
      /\ q.run.got = [r.run.got EXCEPT ![s] = rows[RunUser(a)][s]]
  BY <1>1, <1>2, <1>4 DEF RunFields
<1>6. Sound(a, q, world.value)
  BY <1>1, <1>2, <1>4, <1>5 DEF Sound, Same
<1>7. a \in Downstreams => Upstream[a] # s
  BY UpstreamFacts, AggregationAssumption
<1>8. a \in Downstreams => q.run.got[Upstream[a]] = r.run.got[Upstream[a]]
  BY <1>1, <1>2, <1>5, <1>7, UpstreamFacts DEF Sound
<1>9. a \in Downstreams /\ (Calling(W, a) \/ q.run.awaits) =>
         q.run.phase = "reading" /\ q.run.got[Upstream[a]] = Nothing
  <2>1. W.agg = agg /\ (a \in Downstreams => AsksOnce(W, a))
    BY WFacts DEF Good
  <2> QED
    BY <1>5, <1>8, <2>1 DEF AsksOnce
<1>10. /\ get' = [g \in Gets |-> get'[g]]
       /\ \A g \in Gets : get'[g].phase = get[g].phase /\ DOMAIN get'[g] = GetFields
  BY <1>1, <1>2
<1>11. /\ q.armed = r.armed /\ q.retries = r.retries /\ q.error = r.error /\ q.last = r.last
       /\ (q.run.phase = "idle") <=> (r.run.phase = "idle")
  BY <1>1, <1>4, <1>5 DEF Same
<1>12. UNCHANGED << plan, session, unlocked, stored, slot, react, writing, activity, world >>
  BY <1>1
<1> QED
  BY <1>3, <1>4, <1>5, <1>6, <1>9, <1>10, <1>11, <1>12, SilentAgg

\* Nothing of the upstream is outstanding once every source is read.
LEMMA AllRead ==
    ASSUME AInv, NEW a \in Aggs,
           agg[a].run.phase # "reading" \/ \A s \in SourcesOf(a) : agg[a].run.got[s] # Nothing
    PROVE  a \in Downstreams => ~Calling(W, a) /\ ~agg[a].run.awaits
<1>1. W.agg = agg /\ (a \in Downstreams => AsksOnce(W, a))
  BY WFacts DEF Good
<1> QED
  BY <1>1, UpstreamFacts DEF AsksOnce

\* A run past its reads goes on to another phase, or the external is cached.
LEMMA PhaseStep ==
    ASSUME AInv, NEW a \in Aggs, NEW q,
           UNCHANGED << plan, session, unlocked, stored, slot, react, writing, get, activity, world >>,
           agg' = [agg EXCEPT ![a] = q],
           agg[a].run.phase # "reading" \/ \A s \in SourcesOf(a) : agg[a].run.got[s] # Nothing,
           agg[a].run.phase # "idle",
           DOMAIN q = AggFields, DOMAIN q.run = RunFields, Sound(a, q, world.value),
           q.armed = agg[a].armed, q.retries = agg[a].retries,
           q.error = agg[a].error, q.last = agg[a].last,
           q.run.phase # "idle", q.run.awaits = agg[a].run.awaits
    PROVE  AInv'
<1>1. a \in Downstreams => ~Calling(W, a) /\ ~q.run.awaits
  BY AllRead
<1>2. /\ get' = [g \in Gets |-> get'[g]]
      /\ \A g \in Gets : get'[g].phase = get[g].phase /\ DOMAIN get'[g] = GetFields
  BY StateShape
<1>3. a \in Downstreams /\ (Calling(W, a) \/ q.run.awaits) =>
        q.run.phase = "reading" /\ q.run.got[Upstream[a]] = Nothing
  BY <1>1
<1>4. (q.run.phase = "idle") <=> (agg[a].run.phase = "idle")
  OBVIOUS
<1>5. UNCHANGED << plan, session, unlocked, stored, slot, react, writing, activity, world >>
  OBVIOUS
<1> QED
  BY ONLY AInv, a \in Aggs, agg' = [agg EXCEPT ![a] = q],
          DOMAIN q = AggFields, DOMAIN q.run = RunFields, Sound(a, q, world.value),
          q.armed = agg[a].armed, q.retries = agg[a].retries,
          q.error = agg[a].error, q.last = agg[a].last,
          q.run.awaits = agg[a].run.awaits, <1>2, <1>3, <1>4, <1>5, SilentAgg

\* Every source is read: the external is asked, or its cached value is used.
LEMMA UseExternalStep ==
    ASSUME AInv, NEW a \in Aggs, UseExternal(a) PROVE AInv'
<1> DEFINE r == agg[a]
           fresh == r.ext # Nothing /\ r.ext.at = world.tick
           run == IF a \notin HasExternal THEN [r.run EXCEPT !.phase = "compute"]
                  ELSE IF fresh THEN [r.run EXCEPT !.phase = "compute", !.ext = r.ext]
                  ELSE [r.run EXCEPT !.phase = "external",
                                     !.ext = [value |-> world.value, at |-> world.tick]]
           q == [r EXCEPT !.run = run]
<1>1. /\ r.run.phase = "reading" /\ \A s \in SourcesOf(a) : r.run.got[s] # Nothing
      /\ UNCHANGED << plan, session, unlocked, stored, slot, react, writing, get, activity, world >>
  BY DEF UseExternal, Run
<1>2. /\ DOMAIN r = AggFields /\ DOMAIN r.run = RunFields /\ Sound(a, r, world.value)
      /\ agg = [b \in Aggs |-> agg[b]]
  BY StateShape, WFacts DEF Good
<1>3. agg' = [agg EXCEPT ![a] = q]
  BY <1>2 DEF UseExternal, AggFields
<1>4. /\ DOMAIN run = RunFields /\ run.phase \in {"compute", "external"}
      /\ run.awaits = r.run.awaits /\ run.error = r.run.error /\ run.got = r.run.got
      /\ a \in HasExternal => run.ext \in {r.ext, [value |-> world.value, at |-> world.tick]}
                               /\ (run.ext = r.ext => run.ext # Nothing
                                    \/ run.ext = [value |-> world.value, at |-> world.tick])
  BY <1>2 DEF RunFields
<1> HIDE DEF run
<1>5. DOMAIN q = AggFields /\ Same(q, r) /\ q.sub = r.sub /\ q.run = run
  BY <1>2 DEF AggFields, Same
<1> HIDE DEF q
<1>6. [value |-> world.value, at |-> world.tick] \in Known(world.value)
  BY WFacts DEF Known, Session
<1>7. a \in HasExternal => run.ext \in Known(world.value)
  BY <1>2, <1>4, <1>6 DEF Sound
<1>9. run.phase = "external" => a \in HasExternal
  BY <1>2 DEF RunFields, run
<1>8. Sound(a, q, world.value)
  BY <1>1, <1>2, <1>4, <1>5, <1>7, <1>9 DEF Sound, Same, Phases
<1> QED
  BY <1>1, <1>2, <1>3, <1>4, <1>5, <1>8, PhaseStep DEF Same

\* The external's value is cached.
LEMMA ExternalArrivesStep ==
    ASSUME AInv, NEW a \in Aggs, ExternalArrives(a) PROVE AInv'
<1> DEFINE r == agg[a]
           q == [[r EXCEPT !.run = [r.run EXCEPT !.phase = "compute"]] EXCEPT !.ext = r.run.ext]
<1>1. /\ r.run.phase = "external"
      /\ UNCHANGED << plan, session, unlocked, stored, slot, react, writing, get, activity, world >>
  BY DEF ExternalArrives, Run
<1>2. /\ DOMAIN r = AggFields /\ DOMAIN r.run = RunFields /\ Sound(a, r, world.value)
      /\ agg = [b \in Aggs |-> agg[b]]
  BY StateShape, WFacts DEF Good
<1>3. agg' = [agg EXCEPT ![a] = q]
  BY <1>2 DEF ExternalArrives, AggFields, RunFields, Run
<1>4. /\ DOMAIN q = AggFields /\ q.sub = r.sub /\ q.armed = r.armed /\ q.retries = r.retries
      /\ q.error = r.error /\ q.last = r.last /\ q.failures = r.failures /\ q.ext = r.run.ext
      /\ q.run = [r.run EXCEPT !.phase = "compute"]
  BY <1>2 DEF AggFields
<1> HIDE DEF q
<1>5. /\ DOMAIN q.run = RunFields /\ q.run.phase = "compute" /\ q.run.awaits = r.run.awaits
      /\ q.run.error = r.run.error /\ q.run.ext = r.run.ext /\ q.run.got = r.run.got
  BY <1>2, <1>4 DEF RunFields
<1>6. Sound(a, q, world.value)
  BY <1>1, <1>2, <1>4, <1>5 DEF Sound, Phases
<1> QED
  BY <1>1, <1>2, <1>3, <1>4, <1>5, <1>6, PhaseStep

\* The working state with another envelope held, and with a call that verifies.
Holding(w, a, env) == [w EXCEPT !.agg[a].last = env]
Asking(w, g, todo) == [w EXCEPT !.get[g].phase = "verify", !.get[g].todo = todo]

\* Holding another envelope keeps the invariant; React is to be told.
LEMMA LastGood ==
    ASSUME NEW n \in Nat, NEW B, NEW w, Good(w, n), Keeps(w, B), NEW a \in Aggs, NEW env
    PROVE  LET v == Holding(w, a, env) IN
           /\ Good(v, n) /\ Keeps(v, B \cup {a})
           /\ v.told = w.told /\ v.get = w.get
           /\ \A b \in Aggs : /\ v.agg[b].run = w.agg[b].run /\ v.agg[b].seen = w.agg[b].seen
                              /\ v.agg[b].error = w.agg[b].error
<1> DEFINE v == Holding(w, a, env)
<1> SUFFICES /\ Good(v, n) /\ Keeps(v, B \cup {a})
             /\ v.told = w.told /\ v.get = w.get
             /\ \A b \in Aggs : /\ v.agg[b].run = w.agg[b].run /\ v.agg[b].seen = w.agg[b].seen
                              /\ v.agg[b].error = w.agg[b].error
  OBVIOUS
<1>1. /\ DOMAIN v = DOMAIN w /\ v.told = w.told /\ v.get = w.get /\ v.slot = w.slot
      /\ v.activity = w.activity
      /\ v.agg = [w.agg EXCEPT ![a] = [w.agg[a] EXCEPT !.last = env]]
  BY DEF Good, Shaped, Holding
<1> HIDE DEF v
<1>2. ASSUME NEW b \in Aggs
      PROVE  /\ DOMAIN v.agg[b] = AggFields
             /\ v.agg[b].run = w.agg[b].run /\ v.agg[b].sub = w.agg[b].sub
             /\ v.agg[b].error = w.agg[b].error /\ v.agg[b].failures = w.agg[b].failures
             /\ v.agg[b].ext = w.agg[b].ext /\ (b # a => v.agg[b].last = w.agg[b].last)
             /\ v.agg[b].retries = w.agg[b].retries /\ v.agg[b].armed = w.agg[b].armed
             /\ v.agg[b].seen = w.agg[b].seen
  <2>1. DOMAIN w.agg[b] = AggFields
    BY DEF Good, Shaped
  <2>2. v.agg[b] = IF b = a THEN [w.agg[a] EXCEPT !.last = env] ELSE w.agg[b]
    BY <1>1 DEF Good, Shaped
  <2> QED
    BY <2>1, <2>2 DEF AggFields
<1>3. Shaped(v)
  <2>1. v.agg = [b \in Aggs |-> v.agg[b]]
    BY <1>1 DEF Good, Shaped
  <2>2. \A b \in Aggs : DOMAIN v.agg[b] = AggFields /\ DOMAIN v.agg[b].run = RunFields
    BY <1>2 DEF Good, Shaped
  <2>3. Shaped(w) /\ DOMAIN v = DOMAIN w /\ v.get = w.get /\ v.slot = w.slot
        /\ v.activity = w.activity
    BY <1>1 DEF Good
  <2> QED
    BY <2>1, <2>2, <2>3 DEF Shaped
<1>4. Alike(w, v, {a}) /\ SameTimers(w, v)
  BY <1>1, <1>2 DEF Alike, SameTimers
<1>5. Good(v, n) /\ Keeps(v, B \cup {a})
  BY <1>3, <1>4, AlikeKept
<1> QED
  BY <1>1, <1>2, <1>5

\* A published working state keeps the invariant, and the step with it.
LEMMA Published ==
    ASSUME AInv, NEW w, Good(w, world.value), Keeps(w, {}), Commit(w),
           UNCHANGED << plan, session, unlocked, stored, world >>,
           writing' = writing \/ writing' = Nothing
    PROVE  AInv'
<1>1. world.value \in Nat
  BY WFacts
<1>2. Good(After, world.value) /\ Shown' /\ LockedCacheEmpty'
  BY <1>1, Publish
<1> QED
  BY <1>2, RestKept

\* A call that waits begins to verify: until it returns, React may be behind.
LEMMA VerifyBegins ==
    ASSUME NEW n \in Nat, NEW w, Good(w, n), NEW g \in Gets,
           w.get[g].phase = "load", NEW todo, Keeps(w, {AggOf(g)}),
           (w.agg[AggOf(g)].run.phase = "idle") <=> (agg[AggOf(g)].run.phase = "idle"),
           w.agg[AggOf(g)].error = agg[AggOf(g)].error
    PROVE  LET v == Asking(w, g, todo) IN
           /\ Good(v, n) /\ Keeps(v, {}) /\ v.agg = w.agg
           /\ v.get[g].phase = "verify"
           /\ \A h \in Gets \ {g} : v.get[h] = w.get[h]
<1> DEFINE v == Asking(w, g, todo)
<1> SUFFICES /\ Good(v, n) /\ Keeps(v, {}) /\ v.agg = w.agg
             /\ v.get[g].phase = "verify"
             /\ \A h \in Gets \ {g} : v.get[h] = w.get[h]
  OBVIOUS
<1>1. /\ DOMAIN v = DOMAIN w /\ v.told = w.told /\ v.agg = w.agg /\ v.slot = w.slot
      /\ v.activity = w.activity
      /\ v.get = [w.get EXCEPT ![g] = [[w.get[g] EXCEPT !.phase = "verify"] EXCEPT !.todo = todo]]
  BY DEF Good, Shaped, GetFields, Asking
<1> HIDE DEF v
<1>2. /\ DOMAIN v.get[g] = GetFields /\ v.get[g].phase = "verify"
      /\ v.get = [h \in Gets |-> v.get[h]]
      /\ \A h \in Gets \ {g} : v.get[h] = w.get[h]
  BY <1>1 DEF Good, Shaped, GetFields
<1>3. Shaped(v)
  <2>1. \A h \in Gets : DOMAIN v.get[h] = GetFields /\ v.get[h].phase \in GetPhases
    BY <1>2 DEF Good, Shaped, GetPhases
  <2>2. Shaped(w)
    BY DEF Good
  <2> QED
    BY <1>1, <1>2, <2>1, <2>2 DEF Shaped
<1>4. \A a \in Aggs : Sound(a, v.agg[a], n)
  BY <1>1 DEF Good
<1>5. ASSUME NEW b \in Downstreams PROVE AsksOnce(v, b)
  <2>1. Calling(v, b) <=> Calling(w, b)
    BY <1>2, CallFacts DEF Calling
  <2> QED
    BY <1>1, <2>1 DEF Good, AsksOnce
<1>6. VerifiesOnce(v)
  <2> SUFFICES ASSUME NEW b \in Downstreams, NEW m \in SessionNumbers,
                      v.get[HookGet(b, m)].phase \in {"idle", "load"}
               PROVE  v.get[VerifyGet(HookGet(b, m))].phase = "idle"
    BY DEF VerifiesOnce
  <2>1. HookGet(b, m) \in Gets /\ VerifyGet(HookGet(b, m)) \in Gets
    BY CallFacts, UpstreamFacts
  <2>2. g # HookGet(b, m)
    BY <1>2
  <2>3. w.get[VerifyGet(HookGet(b, m))].phase = "idle"
    BY <1>2, <2>1, <2>2 DEF Good, VerifiesOnce
  <2> QED
    BY <1>2, <2>1, <2>3
<1>7. Counted(v)
  BY <1>1 DEF Good, Counted
<1>8. Keeps(v, {})
  <2>1. ASSUME NEW a \in Aggs \ v.told PROVE Unchanged(v, a)
    <3>1. CASE AggOf(g) = a
      <4>1. Verifying(v.get, a)
        BY <1>2, <3>1 DEF Verifying
      <4> QED
        BY <1>1, <3>1, <4>1 DEF Unchanged
    <3>2. CASE AggOf(g) # a
      <4>1. Unchanged(w, a)
        BY <1>1, <2>1, <3>2 DEF Keeps
      <4>2. Verifying(v.get, a) <=> Verifying(w.get, a)
        BY <1>2, <3>2 DEF Verifying
      <4> QED
        BY <1>1, <4>1, <4>2 DEF Unchanged
    <3> QED
      BY <3>1, <3>2
  <2> QED
    BY <1>1, <2>1 DEF Keeps
<1> QED
  BY <1>1, <1>2, <1>3, <1>4, <1>5, <1>6, <1>7, <1>8 DEF Good

\* The envelope arrives: a call without one returns, and the others verify the
\* sources that were never observed.
LEMMA EnvelopeArrivesStep ==
    ASSUME AInv, NEW g \in Gets, EnvelopeArrives(g) PROVE AInv'
<1> DEFINE a == AggOf(g)
           env == get[g].env
           n == world.value
           w == Holding(W, a, env)
           asked(s) == [source |-> s, hash |-> rows[User(get[g].session)][s]]
           unobserved == {s \in SourcesOf(a) : agg[a].seen[s] = Undefined}
           todo == IF ~unlocked THEN {}
                   ELSE {asked(s) : s \in unobserved \cap Stores}
                        \cup {[source |-> x, hash |-> Nothing] : x \in unobserved \cap Aggs}
           v == Asking(w, g, todo)
           back == Return(Tell(AskedFor(w, a), {a}), g, Nothing)
           asks == unlocked /\ unobserved \cap Aggs # {}
           on == IF asks THEN StartGet(v, {VerifyGet(g)}) ELSE v
<1>1. /\ get[g].phase = "load"
      /\ Commit(back) \/ Commit(on)
      /\ UNCHANGED << plan, session, unlocked, stored, world, writing >>
  BY DEF EnvelopeArrives, Holding, Asking
<1>2. Session /\ n \in Nat /\ Good(W, n) /\ Keeps(W, {}) /\ W.agg = agg /\ W.get = get
      /\ W.told = {} /\ a \in Aggs
  BY WFacts, CallFacts
<1> HIDE DEF env, a
<1>3. /\ Good(w, n) /\ Keeps(w, {} \cup {a})
      /\ w.told = W.told /\ w.get = W.get
      /\ \A b \in Aggs : /\ w.agg[b].run = W.agg[b].run /\ w.agg[b].seen = W.agg[b].seen
                         /\ w.agg[b].error = W.agg[b].error
  BY <1>2, LastGood
<1>4. Keeps(w, {a})
  BY <1>3
<1> HIDE DEF w, todo
<1>5. Good(back, n) /\ Keeps(back, {})
  <2> DEFINE x == AskedFor(w, a)
             y == Tell(x, {a})
  <2>1. /\ Good(x, n) /\ Keeps(x, {a})
        /\ \A h \in Gets : h \notin {RunGet(b) : b \in {a} \cap Downstreams}
                              => x.get[h] = w.get[h]
    BY <1>2, <1>3, <1>4, AskedForGood
  <2>2. g \notin {RunGet(b) : b \in {a} \cap Downstreams}
    BY CallFacts, UpstreamFacts DEF a
  <2>3. x.get[g].phase = "load"
    BY <1>1, <1>2, <1>3, <2>1, <2>2
  <2> HIDE DEF x
  <2>4. Good(y, n) /\ Keeps(y, {a} \ {a}) /\ y.told = x.told \cup {a} /\ y.get = x.get
    <3> DEFINE A == {a}
    <3>1. Keeps(x, A) /\ Good(x, n) /\ n \in Nat
      BY <1>2, <2>1
    <3> HIDE DEF A, n
    <3>2. /\ Good(Tell(x, A), n) /\ Keeps(Tell(x, A), A \ A)
          /\ Tell(x, A).told = x.told \cup A /\ Tell(x, A).get = x.get
      BY <3>1, TellGood
    <3> QED
      BY <3>2 DEF A
  <2>5. Keeps(y, {}) /\ a \in y.told /\ y.get[g].phase \in {"load", "verify"}
    <3>1. {a} \ {a} = {}
      OBVIOUS
    <3>2. Keeps(y, {})
      BY <2>4, <3>1
    <3> QED
      BY <2>3, <2>4, <3>2
  <2> HIDE DEF y
  <2>6. Good(Return(y, g, Nothing), n) /\ Keeps(Return(y, g, Nothing), {})
    BY <1>2, <2>4, <2>5, ReturnGood DEF a
  <2> QED
    BY <2>6 DEF x, y
<1>6. /\ Good(v, n) /\ Keeps(v, {}) /\ v.agg = w.agg /\ v.get[g].phase = "verify"
      /\ \A h \in Gets \ {g} : v.get[h] = w.get[h]
  <2>1. w.get[g].phase = "load"
    BY <1>1, <1>2, <1>3
  <2>2. (w.agg[a].run.phase = "idle") <=> (agg[a].run.phase = "idle")
    BY <1>2, <1>3
  <2>3. w.agg[a].error = agg[a].error
    BY <1>2, <1>3
  <2> QED
    BY <1>2, <1>3, <1>4, <2>1, <2>2, <2>3, VerifyBegins DEF a
<1> HIDE DEF v
<1>7. ASSUME asks PROVE Good(StartGet(v, {VerifyGet(g)}), n) /\ Keeps(StartGet(v, {VerifyGet(g)}), {})
  <2> DEFINE G == {VerifyGet(g)}
  <2>1. a \in Downstreams
    BY <1>2, <1>7, AggregationAssumption DEF SourcesOf, Downstreams
  <2>2. PICK m \in SessionNumbers : g = HookGet(a, m)
    <3>1. AggOf(g) \in Downstreams
      BY <2>1 DEF a
    <3> QED
      BY <3>1, CallFacts, UpstreamFacts DEF a
  <2>3. /\ \A b \in Downstreams : RunGet(b) \notin G
        /\ \A b \in Downstreams, k \in SessionNumbers : HookGet(b, k) \notin G
        /\ \A b \in Downstreams, k \in SessionNumbers :
             VerifyGet(HookGet(b, k)) \in G => HookGet(b, k) = g
    BY <2>2 DEF RunGet, VerifyGet, HookGet
  <2>4. G \in SUBSET Gets
    BY <2>1, <2>2, CallFacts
  <2>5. VerifyGet(g) # g
    BY <2>2 DEF VerifyGet, HookGet
  <2>6. v.get[VerifyGet(g)].phase = "idle"
    <3>1. W.get[VerifyGet(g)].phase = "idle"
      BY <1>1, <1>2, <2>1, <2>2 DEF Good, VerifiesOnce
    <3> QED
      BY <1>2, <1>3, <1>6, <2>4, <2>5, <3>1
  <2>7. \A h \in G : v.get[h].phase # "verify"
    BY <2>6
  <2>8. \A b \in Downstreams, k \in SessionNumbers : VerifyGet(HookGet(b, k)) \in G =>
           v.get[HookGet(b, k)].phase = "verify" /\ HookGet(b, k) \notin G
    BY <1>6, <2>3
  <2>9. \A b \in Downstreams : RunGet(b) \in G =>
               /\ v.agg[b].run.phase = "reading" /\ v.agg[b].run.got[Upstream[b]] = Nothing
               /\ ~v.agg[b].run.awaits
    BY <2>3
  <2>10. \A b \in Downstreams, k \in SessionNumbers : HookGet(b, k) \in G =>
               v.get[VerifyGet(HookGet(b, k))].phase = "idle"
    BY <2>3
  <2> HIDE DEF G
  <2>11. Good(StartGet(v, G), n) /\ Keeps(StartGet(v, G), {})
    BY <1>2, <1>6, <2>4, <2>7, <2>8, <2>9, <2>10, StartGetGood
  <2> QED
    BY <2>11 DEF G
<1>8. Good(on, n) /\ Keeps(on, {})
  BY <1>6, <1>7
<1> HIDE DEF on, back
<1> QED
  BY <1>1, <1>5, <1>8, Published

\* The rest of get(): a stale envelope is left to a run, and the call returns.
LEMMA VerifiedStep ==
    ASSUME AInv, NEW g \in Gets, Verified(g) PROVE AInv'
<1> DEFINE a == AggOf(g)
           n == world.value
           stale == ~IsFresh(a, agg[a], get[g].env)
           x == IF stale THEN AskedFor(W, a) ELSE LeftToRun(W, a)
           y == Tell(x, {a})
           data == get[g].env.data
<1>1. /\ get[g].phase = "verify" /\ Commit(Return(y, g, data))
      /\ UNCHANGED << plan, session, unlocked, stored, world, writing >>
  BY DEF Verified
<1>2. Session /\ n \in Nat /\ Good(W, n) /\ Keeps(W, {}) /\ W.get = get /\ a \in Aggs
  BY WFacts, CallFacts
<1> HIDE DEF a, stale, data
<1>3. /\ Good(AskedFor(W, a), n) /\ Keeps(AskedFor(W, a), {})
      /\ \A h \in Gets : h \notin {RunGet(b) : b \in {a} \cap Downstreams}
                            => AskedFor(W, a).get[h] = W.get[h]
  BY <1>2, AskedForGood
<1>4. g \notin {RunGet(b) : b \in {a} \cap Downstreams}
  BY CallFacts, UpstreamFacts DEF a
<1>5. Good(x, n) /\ Keeps(x, {}) /\ x.get[g].phase = "verify"
  <2> DEFINE l == LeftToRun(W, a)
  <2>1. Good(l, n) /\ Keeps(l, {}) /\ Excuses(W, l)
    BY <1>2, LeftToRunGood
  <2> HIDE DEF l
  <2> QED
    BY <1>1, <1>2, <1>3, <1>4, <2>1 DEF Excuses, l
<1> HIDE DEF x
<1>6. Good(y, n) /\ Keeps(y, {} \ {a}) /\ y.told = x.told \cup {a} /\ y.get = x.get
  <2> DEFINE A == {a}
             B == {}
  <2>1. Keeps(x, B) /\ Good(x, n) /\ n \in Nat
    BY <1>2, <1>5
  <2> HIDE DEF A, B, n
  <2>2. /\ Good(Tell(x, A), n) /\ Keeps(Tell(x, A), B \ A)
        /\ Tell(x, A).told = x.told \cup A /\ Tell(x, A).get = x.get
    BY <2>1, TellGood
  <2> QED
    BY <2>2 DEF A, B
<1>7. Keeps(y, {}) /\ AggOf(g) \in y.told /\ y.get[g].phase \in {"load", "verify"}
  <2>1. {} \ {a} = {}
    OBVIOUS
  <2>2. Keeps(y, {})
    BY <1>6, <2>1
  <2> QED
    BY <1>5, <1>6, <2>2 DEF a
<1> HIDE DEF y
<1>8. Good(Return(y, g, data), n) /\ Keeps(Return(y, g, data), {})
  BY <1>2, <1>6, <1>7, ReturnGood
<1> QED
  BY <1>1, <1>8, Published

\* A run that settles in the state itself.
LEMMA SettleStep ==
    ASSUME AInv, NEW a \in Aggs, agg[a].run.phase \notin {"idle", "reading"},
           NEW error \in Errors, NEW result, Commit(Settle(W, a, error, result)),
           UNCHANGED << plan, session, unlocked, stored, writing, world >>
    PROVE  AInv'
<1>1. /\ Session /\ world.value \in Nat /\ Good(W, world.value) /\ Keeps(W, {})
      /\ W.agg = agg
  BY WFacts
<1> DEFINE v == Settle(W, a, error, result)
<1>2. Good(v, world.value) /\ Keeps(v, {} \ {a})
  BY <1>1, SettleGood
<1>3. Keeps(v, {})
  <2>1. {} \ {a} = {}
    OBVIOUS
  <2> QED
    BY <1>2, <2>1
<1> HIDE DEF v
<1>4. Commit(v)
  BY DEF v
<1> QED
  BY <1>2, <1>3, <1>4, Published

\* A run that throws settles with the error.
LEMMA ThrowsStep ==
    ASSUME AInv, NEW a \in Aggs, Throws(a) PROVE AInv'
<1>1. /\ agg[a].run.phase \notin {"idle", "reading"}
      /\ Commit(Settle(W, a, "other", Nothing))
      /\ UNCHANGED << plan, session, unlocked, stored, writing, world >>
  BY DEF Throws, Run
<1>2. "other" \in Errors
  BY DEF Errors
<1> QED
  BY <1>1, <1>2, SettleStep

\* A run that was refused settles with its error.
LEMMA RefusedStep ==
    ASSUME AInv, NEW a \in Aggs, Refused(a) PROVE AInv'
<1>1. /\ agg[a].run.phase \notin {"idle", "reading"}
      /\ Commit(Settle(W, a, agg[a].run.error, Nothing))
      /\ UNCHANGED << plan, session, unlocked, stored, writing, world >>
  BY DEF Refused, Run
<1>2. agg[a].run.error \in Errors
  BY WFacts DEF Good, Sound
<1> QED
  BY <1>1, <1>2, SettleStep

\* The run writes nothing, or goes on to save.
LEMMA ComputeAndCompareStep ==
    ASSUME AInv, NEW a \in Aggs, ComputeAndCompare(a) PROVE AInv'
<1> DEFINE env == NewEnvelope(a)
           n == world.value
<1>1. /\ agg[a].run.phase = "compute"
      /\ UNCHANGED << plan, session, unlocked, stored, writing, world >>
      /\ \/ Commit(Settle(Excuse(W, Behind(a)), a, "none", env.data))
         \/ Commit(Settle(Holding(W, a, env), a, "none", env.data))
         \/ Commit([W EXCEPT !.agg[a].run.phase = "save"])
  BY DEF ComputeAndCompare, Run, Holding
<1>2. "none" \in Errors
  BY DEF Errors
<1> HIDE DEF env
<1>3. Session /\ n \in Nat /\ Good(W, n) /\ Keeps(W, {}) /\ W.agg = agg
  BY WFacts
<1>4. CASE Commit(Settle(Excuse(W, Behind(a)), a, "none", env.data))
  <2> DEFINE w == Excuse(W, Behind(a))
             v == Settle(w, a, "none", env.data)
             B == {}
  <2>1. Keeps(W, B)
    BY <1>3
  <2> HIDE DEF v, B
  <2>2. Good(w, n) /\ Keeps(w, B) /\ w.agg[a].run = W.agg[a].run
    BY <1>3, <2>1, ExcuseGood DEF Excuses
  <2> HIDE DEF w
  <2>3. Good(v, n) /\ Keeps(v, B \ {a})
    BY <1>1, <1>2, <1>3, <2>2, SettleGood DEF v
  <2>4. B \ {a} = {} /\ Commit(v)
    BY <1>4 DEF B, v, w
  <2>5. Keeps(v, {})
    BY <2>3, <2>4
  <2> QED
    BY <1>1, <2>3, <2>4, <2>5, Published
<1>5. CASE Commit(Settle(Holding(W, a, env), a, "none", env.data))
  <2> DEFINE w == Holding(W, a, env)
             v == Settle(w, a, "none", env.data)
  <2> HIDE DEF v
  <2>1. Good(w, n) /\ Keeps(w, {} \cup {a}) /\ w.agg[a].run = W.agg[a].run
    BY <1>3, LastGood, SMTT(30)
  <2> HIDE DEF w
  <2>2. w.agg[a].run.phase \notin {"idle", "reading"}
    <3>1. agg[a].run.phase \notin {"idle", "reading"}
      BY <1>1
    <3> QED
      BY <1>3, <2>1, <3>1
  <2>3. Good(v, n) /\ Keeps(v, ({} \cup {a}) \ {a})
    BY <1>2, <1>3, <2>1, <2>2, SettleGood DEF v
  <2>4. Keeps(v, {})
    <3>1. ({} \cup {a}) \ {a} = {}
      OBVIOUS
    <3> QED
      BY <2>3, <3>1
  <2>5. Commit(v)
    BY <1>5 DEF v, w
  <2> QED
    BY <1>1, <2>3, <2>4, <2>5, Published
<1>6. CASE Commit([W EXCEPT !.agg[a].run.phase = "save"])
  <2> DEFINE r == agg[a]
             q == [r EXCEPT !.run = [r.run EXCEPT !.phase = "save"]]
  <2>1. /\ DOMAIN r = AggFields /\ DOMAIN r.run = RunFields /\ Sound(a, r, n)
        /\ react = [u \in Users |-> [b \in Aggs |-> react[u][b]]]
    BY <1>3, StateShape DEF Good, AInv, Shown
  <2>2. agg' = [agg EXCEPT ![a].run.phase = "save"]
    BY <1>6 DEF Commit, W
  <2>3. agg' = [agg EXCEPT ![a] = q]
    BY <2>1, <2>2 DEF AggFields, RunFields
  <2>4. get' = get /\ activity' = activity /\ slot' = slot
    BY <1>6 DEF Commit, W
  <2>5. react' = react
    <3>1. \/ react' = react
          \/ react' = [react EXCEPT ![CurrentUser] = [b \in Aggs |-> react[CurrentUser][b]]]
      BY <1>6 DEF Commit, W
    <3>2. CurrentUser \in Users
      BY <1>3, CurrentUserType
    <3> QED
      BY <2>1, <3>1, <3>2
  <2>6. /\ DOMAIN q = AggFields /\ Same(q, r) /\ q.sub = r.sub
        /\ q.run = [r.run EXCEPT !.phase = "save"]
    BY <2>1 DEF AggFields, Same
  <2> HIDE DEF q
  <2>7. /\ DOMAIN q.run = RunFields /\ q.run.phase = "save" /\ q.run.awaits = r.run.awaits
        /\ q.run.error = r.run.error /\ q.run.ext = r.run.ext /\ q.run.got = r.run.got
    BY <2>1, <2>6 DEF RunFields
  <2>8. Sound(a, q, n)
    BY <1>1, <2>1, <2>6, <2>7 DEF Sound, Phases, Same
  <2>9. /\ q.armed = r.armed /\ q.retries = r.retries /\ q.error = r.error /\ q.last = r.last
        /\ q.run.phase # "idle" /\ r.run.phase # "idle" /\ r.run.phase # "reading"
    BY <1>1, <2>6, <2>7 DEF Same
  <2>10. UNCHANGED << plan, session, unlocked, stored, slot, react, writing, get, activity, world >>
    BY <1>1, <2>4, <2>5
  <2> QED
    BY <2>3, <2>6, <2>7, <2>8, <2>9, <2>10, PhaseStep
<1> QED
  BY <1>1, <1>4, <1>5, <1>6

\* A debounce fires: its recompute starts, is noted, or is not needed.
LEMMA DebounceFiresStep ==
    ASSUME AInv, NEW a \in Aggs, DebounceFires(a) PROVE AInv'
<1> DEFINE n == world.value
           w == Cancel(W, a)
           v == Trigger(w, {a})
           l == LeftToRun(w, a)
<1>1. Session /\ n \in Nat /\ Good(W, n) /\ Keeps(W, {}) /\ W.agg = agg /\ Shaped(W)
  BY WFacts DEF Good
<1>2. agg[a].armed
  BY DEF DebounceFires
<1>3. w = [W EXCEPT !.agg[a].armed = FALSE, !.activity.pending = @ - 1]
  BY <1>1, <1>2 DEF Cancel
<1>4. /\ Commit(l) \/ Commit(v)
      /\ UNCHANGED << plan, session, unlocked, stored, world, writing >>
  BY <1>3 DEF DebounceFires
<1>5. Good(w, n) /\ Keeps(w, {})
  BY <1>1, CancelGood
<1> HIDE DEF w
<1>6. {a} \in SUBSET Aggs
  OBVIOUS
<1>7. Good(v, n) /\ Keeps(v, {})
  BY <1>1, <1>5, <1>6, TriggerGood
<1>8. Good(l, n) /\ Keeps(l, {})
  BY <1>1, <1>5, LeftToRunGood
<1> HIDE DEF v, l
<1> QED
  BY <1>4, <1>7, <1>8, Published

\* A retry timer fires.
LEMMA RetryFiresStep ==
    ASSUME AInv, NEW a \in Aggs, RetryFires(a) PROVE AInv'
<1> DEFINE n == world.value
           w == [W EXCEPT !.agg[a].retries = @ - 1, !.activity.pending = @ - 1]
           v == Trigger(w, {a})
<1>1. Session /\ n \in Nat /\ Good(W, n) /\ Keeps(W, {}) /\ W.agg = agg
  BY WFacts
<1>2. /\ agg[a].retries > 0 /\ Commit(v)
      /\ UNCHANGED << plan, session, unlocked, stored, world, writing >>
  BY DEF RetryFires
<1>3. W.agg[a].retries > 0
  BY <1>1, <1>2
<1>4. Good(w, n) /\ Keeps(w, {})
  BY <1>1, <1>3, RetryDoneGood
<1> HIDE DEF w
<1>5. {a} \in SUBSET Aggs
  OBVIOUS
<1>6. Good(v, n) /\ Keeps(v, {})
  BY <1>1, <1>4, <1>5, TriggerGood
<1> HIDE DEF v
<1> QED
  BY <1>2, <1>6, Published

\* The envelope a run saves has the sources' versions and the external's value
\* that it was computed from.
LEMMA NewEnvelopeHonest ==
    ASSUME AInv, NEW a \in Aggs, agg[a].run.phase = "save"
    PROVE  LET env == NewEnvelope(a) IN
           /\ DOMAIN env.fps = SourcesOf(a)
           /\ \E value \in 0 .. world.value :
                env.data = Compute(a, env.fps, IF a \in HasExternal THEN value ELSE Nothing)
<1> DEFINE r == agg[a].run
           ext == IF a \in HasExternal THEN r.ext.value ELSE Nothing
           env == NewEnvelope(a)
<1>1. Sound(a, agg[a], world.value) /\ world.value \in Nat
  BY WFacts DEF Good
<1>2. DOMAIN r.got = SourcesOf(a) /\ (a \in HasExternal => r.ext \in Known(world.value))
  BY <1>1 DEF Sound
<1>3. env.fps = r.got /\ env.data = Compute(a, r.got, ext)
  BY DEF NewEnvelope, Run
<1> HIDE DEF env
<1>4. a \in HasExternal => r.ext.value \in 0 .. world.value
  BY <1>2 DEF Known
<1>5. \E value \in 0 .. world.value :
         env.data = Compute(a, env.fps, IF a \in HasExternal THEN value ELSE Nothing)
  <2>1. CASE a \in HasExternal
    BY <1>3, <1>4, <2>1
  <2>2. CASE a \notin HasExternal
    <3>1. 0 \in 0 .. world.value
      BY <1>1
    <3> QED
      BY <1>3, <2>2, <3>1
  <2> QED
    BY <2>1, <2>2
<1> QED
  BY <1>2, <1>3, <1>5 DEF env

\* The save returns: the envelope is stored, and published for the session it
\* was computed in.
LEMMA SavedStep ==
    ASSUME AInv, NEW a \in Aggs, Saved(a) PROVE AInv'
<1> DEFINE env == NewEnvelope(a)
           n == world.value
           u == RunUser(a)
           w == Holding(W, a, env)
           p == CacheSet(w, u, a, env.data)
           v == Settle(p, a, "none", env.data)
           y0 == Excuse(W, Behind(a))
           z == Settle(y0, a, "none", env.data)
           current == StillMatches(Run(a).session)
<1>1. /\ agg[a].run.phase = "save"
      /\ UNCHANGED << plan, session, unlocked, writing, world >>
      /\ stored' = [stored EXCEPT ![u][a] = env]
      /\ Commit(IF current THEN v ELSE z)
  <2>1. Commit(Settle(IF current THEN p ELSE y0, a, "none", env.data))
    BY DEF Saved, Holding
  <2> QED
    BY <2>1 DEF Saved, Run
<1>2. "none" \in Errors
  BY DEF Errors
<1>3. Session /\ n \in Nat /\ Good(W, n) /\ Keeps(W, {}) /\ W.agg = agg
  BY WFacts
<1>4. /\ DOMAIN env.fps = SourcesOf(a)
      /\ \E value \in 0 .. n :
           env.data = Compute(a, env.fps, IF a \in HasExternal THEN value ELSE Nothing)
  BY <1>1, NewEnvelopeHonest
<1>5. current => unlocked /\ u \in Users
  BY <1>3, CurrentUserType DEF StillMatches, RunUser
<1> HIDE DEF env, u, n, current
<1>6. ASSUME current PROVE Good(v, n) /\ Keeps(v, {})
  <2>1. Good(w, n) /\ Keeps(w, {} \cup {a}) /\ w.agg[a].run = W.agg[a].run
    BY <1>3, LastGood
  <2>2. Keeps(w, {a})
    BY <2>1
  <2> HIDE DEF w
  <2>3. unlocked /\ u \in Users /\ a \in Stores \cup Aggs
    BY <1>5, <1>6
  <2>4. Good(p, n) /\ Keeps(p, {a}) /\ p.agg[a].run = w.agg[a].run
    BY <1>3, <2>1, <2>2, <2>3, CacheSetGood
  <2> HIDE DEF p
  <2>5. p.agg[a].run.phase \notin {"idle", "reading"}
    BY <1>1, <1>3, <2>1, <2>4
  <2>6. Good(v, n) /\ Keeps(v, {a} \ {a})
    BY <1>2, <1>3, <2>4, <2>5, SettleGood
  <2> HIDE DEF v
  <2>7. {a} \ {a} = {}
    OBVIOUS
  <2> QED
    BY <2>6, <2>7
<1>7. Good(z, n) /\ Keeps(z, {})
  <2> DEFINE B == {}
  <2>1. Keeps(W, B) /\ W.agg[a].run.phase \notin {"idle", "reading"}
    BY <1>1, <1>3
  <2> HIDE DEF B
  <2>4. Good(y0, n) /\ Keeps(y0, B) /\ y0.agg[a].run = W.agg[a].run
    BY <1>3, <2>1, ExcuseGood DEF Excuses
  <2> HIDE DEF y0
  <2>2. Good(z, n) /\ Keeps(z, B \ {a})
    BY <1>2, <1>3, <2>1, <2>4, SettleGood
  <2> HIDE DEF z
  <2>3. B \ {a} = {}
    BY DEF B
  <2> QED
    BY <2>2, <2>3
<1> HIDE DEF v, z
<1>8. Good(After, n) /\ Shown' /\ LockedCacheEmpty'
  <2> DEFINE x == IF current THEN v ELSE z
  <2>1. Good(x, n) /\ Keeps(x, {})
    BY <1>6, <1>7
  <2>2. Commit(x)
    BY <1>1
  <2> HIDE DEF x
  <2> QED
    BY <1>1, <1>3, <2>1, <2>2, Publish
<1>9. stored = [y \in Users |-> [b \in Aggs |-> stored[y][b]]]
  BY DEF AInv, Stored
<1>10. ASSUME NEW y \in Users
       PROVE  /\ stored'[y] = [b \in Aggs |-> stored'[y][b]]
              /\ \A b \in Aggs : stored'[y][b] \in {stored[y][b], env}
              /\ \A b \in Aggs : b # a => stored'[y][b] = stored[y][b]
  <2>1. stored'[y] = IF y = u THEN [stored[u] EXCEPT ![a] = env] ELSE stored[y]
    BY <1>1, <1>9
  <2>2. stored[y] = [b \in Aggs |-> stored[y][b]]
    BY <1>9
  <2> QED
    BY <2>1, <2>2
<1>11. Stored'
  <2>1. stored' = [y \in Users |-> stored'[y]]
    BY <1>1, <1>9
  <2>2. stored' = [y \in Users |-> [b \in Aggs |-> stored'[y][b]]]
    BY <1>10, <2>1
  <2>3. ASSUME NEW y \in Users, NEW b \in Aggs, stored'[y][b] # NoEnvelope
        PROVE  DOMAIN stored'[y][b].fps = SourcesOf(b)
    <3>1. CASE stored'[y][b] = stored[y][b]
      BY <2>3, <3>1 DEF AInv, Stored
    <3>2. CASE b = a /\ stored'[y][b] = env
      BY <1>4, <3>2
    <3> QED
      BY <1>10, <3>1, <3>2
  <2> QED
    BY <2>2, <2>3 DEF Stored
<1>12. EnvelopeHonest'
  <2> SUFFICES ASSUME NEW y \in Users, NEW b \in Aggs, stored'[y][b] # NoEnvelope
               PROVE  \E value \in 0 .. n :
                        stored'[y][b].data = Compute(b, stored'[y][b].fps,
                                               IF b \in HasExternal THEN value ELSE Nothing)
    BY <1>1 DEF EnvelopeHonest, n
  <2>1. CASE stored'[y][b] = stored[y][b]
    BY <2>1 DEF AInv, EnvelopeHonest, n
  <2>2. CASE b = a /\ stored'[y][b] = env
    BY <1>4, <2>2
  <2> QED
    BY <1>10, <2>1, <2>2
<1>13. Session'
  BY <1>1 DEF AInv, Session
<1>14. Good(W, world.value)'
  BY <1>1, <1>8 DEF W, After, n
<1> QED
  BY <1>8, <1>11, <1>12, <1>13, <1>14 DEF AInv

\* The working state without the cached values of externals.
Forgetting(w, A) ==
    [w EXCEPT !.agg = [b \in Aggs |-> IF b \in A THEN [w.agg[b] EXCEPT !.ext = Nothing]
                                      ELSE w.agg[b]]]

\* A cached external may be forgotten at any time.
LEMMA ForgettingGood ==
    ASSUME NEW n \in Nat, NEW B, NEW w, Good(w, n), Keeps(w, B), NEW A
    PROVE  Good(Forgetting(w, A), n) /\ Keeps(Forgetting(w, A), B)
<1> DEFINE v == Forgetting(w, A)
<1>1. /\ DOMAIN v = DOMAIN w /\ v.told = w.told /\ v.get = w.get /\ v.slot = w.slot
      /\ v.activity = w.activity
      /\ v.agg = [b \in Aggs |-> IF b \in A THEN [w.agg[b] EXCEPT !.ext = Nothing]
                                 ELSE w.agg[b]]
  BY DEF Good, Shaped, Forgetting
<1> HIDE DEF v
<1>2. ASSUME NEW b \in Aggs
      PROVE  /\ DOMAIN v.agg[b] = AggFields
             /\ v.agg[b].run = w.agg[b].run /\ v.agg[b].sub = w.agg[b].sub
             /\ v.agg[b].error = w.agg[b].error /\ v.agg[b].failures = w.agg[b].failures
             /\ v.agg[b].ext \in {w.agg[b].ext, Nothing} /\ v.agg[b].last = w.agg[b].last
             /\ v.agg[b].retries = w.agg[b].retries /\ v.agg[b].armed = w.agg[b].armed
  <2>1. DOMAIN w.agg[b] = AggFields
    BY DEF Good, Shaped
  <2>2. v.agg[b] = IF b \in A THEN [w.agg[b] EXCEPT !.ext = Nothing] ELSE w.agg[b]
    BY <1>1
  <2>3. CASE b \in A
    BY <2>1, <2>2, <2>3 DEF AggFields
  <2>4. CASE b \notin A
    BY <2>1, <2>2, <2>4
  <2> QED
    BY <2>3, <2>4
<1>3. Shaped(v)
  <2>1. v.agg = [b \in Aggs |-> v.agg[b]]
    BY <1>1
  <2>2. \A b \in Aggs : DOMAIN v.agg[b] = AggFields /\ DOMAIN v.agg[b].run = RunFields
    BY <1>2 DEF Good, Shaped
  <2>3. Shaped(w) /\ DOMAIN v = DOMAIN w /\ v.get = w.get /\ v.slot = w.slot
        /\ v.activity = w.activity
    BY <1>1 DEF Good
  <2> QED
    BY <2>1, <2>2, <2>3 DEF Shaped
<1>4. Alike(w, v, {}) /\ SameTimers(w, v)
  BY <1>1, <1>2 DEF Alike, SameTimers
<1>5. Good(v, n) /\ Keeps(v, B \cup {})
  BY <1>3, <1>4, AlikeKept
<1>6. B \cup {} = B
  OBVIOUS
<1> QED
  BY <1>5, <1>6 DEF v

\* refresh() cancels the debounce and starts a run, or asks for one more.
LEMMA RefreshStep ==
    ASSUME AInv, NEW a \in Aggs, NEW bypass \in BOOLEAN, Refresh(a, bypass) PROVE AInv'
<1> DEFINE n == world.value
           w == Cancel(W, a)
           f == [w EXCEPT !.agg[a].ext = Nothing]
           A == {a}
<1>1. Session /\ n \in Nat /\ Good(W, n) /\ Keeps(W, {})
  BY WFacts
<1>2. /\ Commit(Trigger(IF bypass THEN f ELSE w, A))
      /\ UNCHANGED << plan, session, unlocked, stored, world, writing >>
  BY DEF Refresh
<1>3. Good(w, n) /\ Keeps(w, {})
  BY <1>1, CancelGood
<1> HIDE DEF w
<1>4. f = Forgetting(w, A)
  <2>1. w.agg = [b \in Aggs |-> w.agg[b]] /\ "agg" \in DOMAIN w
    BY <1>3 DEF Good, Shaped
  <2>2. [w.agg EXCEPT ![a].ext = Nothing]
        = [b \in Aggs |-> IF b \in A THEN [w.agg[b] EXCEPT !.ext = Nothing] ELSE w.agg[b]]
    BY <2>1
  <2> QED
    BY <2>2 DEF Forgetting
<1>5. Good(f, n) /\ Keeps(f, {})
  BY <1>1, <1>3, <1>4, ForgettingGood
<1>6. A \in SUBSET Aggs
  OBVIOUS
<1> HIDE DEF f, A
<1>7. Good(Trigger(f, A), n) /\ Keeps(Trigger(f, A), {})
  BY <1>1, <1>5, <1>6, TriggerGood
<1>8. Good(Trigger(w, A), n) /\ Keeps(Trigger(w, A), {})
  BY <1>1, <1>3, <1>6, TriggerGood
<1> QED
  <2>1. Commit(Trigger(f, A)) \/ Commit(Trigger(w, A))
    BY <1>2
  <2> QED
    BY <1>2, <1>7, <1>8, <2>1, Published

\* The external's value changes, and every subscriber of the channel forgets it.
LEMMA InvalidateChannelStep ==
    ASSUME AInv, InvalidateChannel PROVE AInv'
<1> DEFINE n == world.value
           w == Forgetting(W, HasExternal)
           v == Trigger(w, HasExternal)
<1>1. Session /\ n \in Nat /\ Good(W, n) /\ Keeps(W, {}) /\ W.agg = agg
  BY WFacts
<1>2. /\ Commit(v)
      /\ UNCHANGED << plan, session, unlocked, stored, writing >>
      /\ world' = [world EXCEPT !.value = @ + 1]
  BY <1>1 DEF InvalidateChannel, Forgetting
<1>3. world'.value = n + 1 /\ world' \in [value : Nat, tick : Nat]
  BY <1>1, <1>2 DEF Session
<1>4. Good(w, n) /\ Keeps(w, {}) /\ HasExternal \in SUBSET Aggs
  BY <1>1, ForgettingGood, AggregationAssumption
<1> HIDE DEF w
<1>5. Good(v, n) /\ Keeps(v, {})
  BY <1>1, <1>4, TriggerGood
<1> HIDE DEF v
<1>6. Good(After, n) /\ Shown' /\ LockedCacheEmpty'
  BY <1>1, <1>2, <1>5, Publish
<1> HIDE DEF n
<1>7. Good(After, n + 1)
  <2>1. Known(n) \subseteq Known(n + 1)
    BY <1>1 DEF Known
  <2>2. \A a \in Aggs : Sound(a, After.agg[a], n + 1)
    BY <1>6, <2>1 DEF Good, Sound
  <2> QED
    BY <1>6, <2>2 DEF Good
<1>8. EnvelopeHonest'
  <2>1. \A i \in 0 .. n : i \in 0 .. n + 1
    BY <1>1
  <2> QED
    BY <1>2, <1>3, <2>1 DEF AInv, EnvelopeHonest, n
<1>9. Session' /\ Stored'
  BY <1>2, <1>3 DEF AInv, Session, Stored
<1>10. Good(W, world.value)'
  BY <1>3, <1>7 DEF W, After
<1> QED
  BY <1>6, <1>8, <1>9, <1>10 DEF AInv

\* An ambient write lands on the server.
LEMMA WriteLandsStep ==
    ASSUME AInv, NEW s \in Stores, WriteLands(s) PROVE AInv'
<1>1. /\ UNCHANGED << plan, session, unlocked, stored, slot, react, agg, get, activity, world >>
      /\ writing' = [user |-> CurrentUser, store |-> s]
  BY DEF WriteLands
<1>2. Session /\ Good(W, world.value)
  BY WFacts
<1>3. writing'.user \in Users /\ writing'.store \in Stores
  BY <1>1, <1>2, CurrentUserType
<1>4. Good(After, world.value)
  <2>1. After = W
    BY <1>1 DEF After, W
  <2> QED
    BY <1>2, <2>1
<1>5. Shown' /\ LockedCacheEmpty'
  BY <1>1 DEF AInv, Shown, Shows, DataOf, Verifying, LockedCacheEmpty, CurrentUser, User
<1>6. UNCHANGED << plan, session, unlocked, stored, world >>
  BY <1>1
<1> QED
  BY <1>3, <1>4, <1>5, <1>6, RestKept

\* Its write to the cache lands, locked or not.
LEMMA WriteThroughCacheStep ==
    ASSUME AInv, WriteThroughCache PROVE AInv'
<1> DEFINE n == world.value
           u == writing.user
           s == writing.store
           hash == rows[writing.user][writing.store]
           v == CacheSet(W, u, s, hash)
<1>1. Session /\ n \in Nat /\ Good(W, n) /\ Keeps(W, {})
  BY WFacts
<1>2. /\ writing # Nothing /\ writing' = Nothing /\ Commit(v)
      /\ UNCHANGED << plan, session, unlocked, stored, world >>
  BY DEF WriteThroughCache
<1>3. u \in Users /\ s \in Stores
  BY <1>1, <1>2 DEF Session
<1> HIDE DEF u, s, hash
<1>4. s \in Stores \cup Aggs /\ (unlocked \/ s \in Stores)
  BY <1>3
<1>5. Good(v, n) /\ Keeps(v, {})
  BY <1>1, <1>3, <1>4, CacheSetGood
<1> HIDE DEF v
<1> QED
  BY <1>2, <1>5, Published

\* The lock wipes the cache.
LEMMA LockStep == ASSUME AInv, Lock PROVE AInv'
<1>1. /\ UNCHANGED << plan, session, stored, writing, agg, get, activity, world >>
      /\ unlocked' = FALSE
      /\ slot' = [u \in Users |-> [s \in Stores \cup Aggs |-> Undefined]]
      /\ react' = [u \in Users |-> [a \in Aggs |-> Nothing]]
  BY DEF Lock
<1>2. /\ DOMAIN After = {"agg", "get", "activity", "slot", "told"} /\ After.get = get
      /\ After.agg = agg /\ After.activity = activity /\ After.slot = slot'
  BY <1>1 DEF After
<1>3. Good(W, world.value) /\ W.agg = agg /\ W.get = get /\ W.activity = activity
  BY WFacts
<1>4. Shaped(After)
  <2>1. slot' = [u \in Users |-> [s \in Stores \cup Aggs |-> slot'[u][s]]]
    BY <1>1
  <2>2. Shaped(W)
    BY <1>3 DEF Good
  <2>3. /\ agg = [a \in Aggs |-> agg[a]] /\ get = [g \in Gets |-> get[g]]
        /\ \A a \in Aggs : DOMAIN agg[a] = AggFields /\ DOMAIN agg[a].run = RunFields
        /\ \A g \in Gets : DOMAIN get[g] = GetFields /\ get[g].phase \in GetPhases
        /\ DOMAIN activity = {"inFlight", "pending"}
    BY <1>3, <2>2 DEF Shaped
  <2> QED
    BY <1>2, <2>1, <2>3, ZenonT(40) DEF Shaped
<1>5. Good(After, world.value)
  BY <1>2, <1>3, <1>4 DEF Good, AsksOnce, Calling, VerifiesOnce, Counted
<1>6. Good(W, world.value)'
  BY <1>1, <1>5 DEF W, After
<1>7. Session' /\ Stored' /\ EnvelopeHonest'
  BY <1>1 DEF AInv, Session, Stored, EnvelopeHonest
<1>8. Shown'
  BY <1>1 DEF Shown
<1>9. LockedCacheEmpty'
  BY <1>1 DEF LockedCacheEmpty
<1> QED
  BY <1>6, <1>7, <1>8, <1>9 DEF AInv

\* The next session has nothing to show yet.
LEMMA UnlockStep == ASSUME AInv, Unlock PROVE AInv'
<1>1. /\ UNCHANGED << plan, stored, slot, react, writing, agg, get, activity, world >>
      /\ ~unlocked /\ unlocked' = TRUE /\ session' = session + 1
      /\ session < Len(plan.sessions)
  BY DEF Unlock
<1>2. Session'
  <2>1. Len(plan.sessions) \in Nat
    BY AggregationAssumption DEF AInv, Session
  <2> QED
    BY <1>1, <2>1 DEF AInv, Session
<1>3. Good(W, world.value)'
  <2>1. W' = W /\ world' = world
    BY <1>1 DEF W
  <2>2. Good(W, world.value)
    BY WFacts
  <2>3. Good(W', world'.value)
    BY <2>1, <2>2
  <2> QED
    BY <2>3
<1>4. Stored' /\ EnvelopeHonest'
  BY <1>1 DEF AInv, Stored, EnvelopeHonest
<1>5. LockedCacheEmpty'
  BY <1>1 DEF LockedCacheEmpty
<1>6. CurrentUser' \in Users
  BY <1>2, AggregationAssumption DEF Session, CurrentUser, User
<1>7. Shown'
  BY <1>1, <1>6 DEF AInv, Shown, LockedCacheEmpty
<1> QED
  BY <1>2, <1>3, <1>4, <1>5, <1>7 DEF AInv

\* A tick, or a step of nothing.
LEMMA RestStep ==
    ASSUME AInv, UNCHANGED vars \/ TtlExpires PROVE AInv'
<1>1. /\ UNCHANGED << plan, session, unlocked, stored, slot, react, writing, agg, get, activity >>
      /\ world'.value = world.value /\ world' \in [value : Nat, tick : Nat]
  BY DEF AInv, Session, vars, TtlExpires
<1>2. Session'
  BY <1>1 DEF AInv, Session
<1>3. Good(W, world.value)'
  <2>1. W' = W
    BY <1>1 DEF W
  <2>2. Good(W, world.value)
    BY WFacts
  <2>3. Good(W', world'.value)
    BY <1>1, <2>1, <2>2
  <2> QED
    BY <2>3
<1>4. Stored' /\ EnvelopeHonest'
  BY <1>1 DEF AInv, Stored, EnvelopeHonest
<1>5. Shown' /\ LockedCacheEmpty'
  BY <1>1 DEF AInv, Shown, Shows, DataOf, Verifying, LockedCacheEmpty, CurrentUser, User
<1> QED
  BY <1>2, <1>3, <1>4, <1>5 DEF AInv

-----------------------------------------------------------------------------
(* The initial states. *)

\* What an earlier session left is honest: the external was worth 0.
LEMMA LeftHonest ==
    ASSUME NEW a \in Aggs, NEW v
    PROVE  LET env == Left(a, v) IN
           /\ DOMAIN env.fps = SourcesOf(a)
           /\ env.data = Compute(a, env.fps, IF a \in HasExternal THEN 0 ELSE Nothing)
<1> DEFINE rowsOf(x) == [s \in StoresOf[x] |-> v]
           ext(x) == IF x \in HasExternal THEN 0 ELSE Nothing
           up == Upstream[a]
           fps == IF up = NoAgg THEN rowsOf(a)
                  ELSE [s \in SourcesOf(a) |->
                          IF s = up THEN Compute(up, rowsOf(up), ext(up)) ELSE v]
           env == Left(a, v)
<1>1. env.fps = fps /\ env.data = Compute(a, fps, ext(a))
  BY DEF Left
<1>2. DOMAIN fps = SourcesOf(a)
  <2>1. CASE up = NoAgg
    <3>1. SourcesOf(a) = StoresOf[a]
      BY <2>1 DEF SourcesOf
    <3> QED
      BY <2>1, <3>1
  <2>2. CASE up # NoAgg
    BY <2>2
  <2> QED
    BY <2>1, <2>2
<1> HIDE DEF fps, env
<1> QED
  BY <1>1, <1>2 DEF env

\* The first state of a behaviour.
LEMMA InitInv == ASSUME Init PROVE AInv
<1>1. /\ plan \in Plans /\ session = 1 /\ unlocked = TRUE /\ writing = Nothing
      /\ stored = [u \in Users |-> [a \in Aggs |->
                    IF plan.stored = "none" THEN NoEnvelope
                    ELSE Left(a, IF plan.stored = "old" THEN 0 ELSE 1)]]
      /\ slot = [u \in Users |-> [s \in Stores \cup Aggs |-> Undefined]]
      /\ react = [u \in Users |-> [a \in Aggs |-> Nothing]]
      /\ agg = [a \in Aggs |-> NewAgg]
      /\ get = [g \in Gets |-> IdleGet]
      /\ activity = [inFlight |-> 0, pending |-> 0]
      /\ world = [value |-> 0, tick |-> 0]
  BY DEF Init
<1>2. Session
  <2>1. Len(plan.sessions) \in 1 .. MaxSessions
    BY <1>1, AggregationAssumption
  <2> QED
    BY <1>1, <2>1, AggregationAssumption DEF Session
<1>3. CurrentUser \in Users
  BY <1>2, CurrentUserType
<1>4. Stored /\ EnvelopeHonest
  <2>1. \A u \in Users, a \in Aggs : stored[u][a] # NoEnvelope => \E v : stored[u][a] = Left(a, v)
    BY <1>1
  <2>2. stored = [u \in Users |-> [a \in Aggs |-> stored[u][a]]]
    BY <1>1
  <2>3. Stored
    BY <2>1, <2>2, LeftHonest DEF Stored
  <2>4. 0 \in 0 .. world.value
    BY <1>1
  <2>5. EnvelopeHonest
    BY <2>1, <2>4, LeftHonest DEF EnvelopeHonest
  <2> QED
    BY <2>3, <2>5
<1>5. Shown /\ LockedCacheEmpty
  BY <1>1, <1>3 DEF Shown, LockedCacheEmpty
<1>6. /\ W.agg = agg /\ W.get = get /\ W.activity = activity /\ W.slot = slot
      /\ DOMAIN W = {"agg", "get", "activity", "slot", "told"}
  BY DEF W
<1>7. /\ \A a \in Aggs : agg[a] = NewAgg
      /\ \A g \in Gets : get[g] = IdleGet
  BY <1>1
<1>8. /\ DOMAIN NewAgg = AggFields /\ NewAgg.run = IdleRun /\ NewAgg.armed = FALSE
      /\ NewAgg.retries = 0 /\ NewAgg.failures = 0 /\ NewAgg.error = "none"
      /\ NewAgg.sub = NoUser /\ NewAgg.ext = Nothing
      /\ DOMAIN IdleRun = RunFields /\ IdleRun.phase = "idle" /\ IdleRun.awaits = FALSE
      /\ IdleRun.error = "none"
      /\ DOMAIN IdleGet = GetFields /\ IdleGet.phase = "idle"
  BY DEF NewAgg, IdleRun, IdleGet, AggFields, RunFields, GetFields
<1>9. Shaped(W)
  <2>1. agg = [a \in Aggs |-> agg[a]] /\ get = [g \in Gets |-> get[g]]
    BY <1>1
  <2>2. slot = [u \in Users |-> [s \in Stores \cup Aggs |-> slot[u][s]]]
    BY <1>1
  <2>3. DOMAIN activity = {"inFlight", "pending"}
    BY <1>1
  <2> QED
    BY <1>6, <1>7, <1>8, <2>1, <2>2, <2>3 DEF Shaped, GetPhases
<1>10. ASSUME NEW a \in Aggs PROVE Sound(a, agg[a], 0)
  <2> DEFINE r == NewAgg
  <2>1. /\ r.run.phase = "idle" /\ r.run.awaits = FALSE /\ r.run.error = "none"
        /\ r.ext = Nothing /\ r.armed = FALSE /\ r.retries = 0 /\ r.failures = 0
        /\ r.error = "none" /\ r.sub = NoUser
    BY <1>8
  <2> HIDE DEF r
  <2>2. Sound(a, r, 0)
    <3>1. r.run.phase \in Phases /\ r.run.awaits \in BOOLEAN /\ r.run.error \in Errors
      BY <2>1 DEF Phases, Errors
    <3>2. ~(r.run.phase = "external" \/ (a \in HasExternal /\ r.run.phase \in {"compute", "save"}))
      BY <2>1
    <3>3. r.armed \in BOOLEAN /\ r.retries \in Nat /\ r.failures \in 0 .. MaxRetries
      <4>1. r.armed \in BOOLEAN
        BY <2>1, Zenon
      <4>2. r.retries \in Nat /\ r.failures \in 0 .. MaxRetries
        <5>1. r.retries = 0 /\ r.failures = 0
          BY <2>1
        <5> QED
          BY <5>1 DEF MaxRetries
      <4> QED
        BY <4>1, <4>2
    <3>4. r.error \in Errors /\ r.sub \in Users \cup {NoUser} /\ r.ext \in Known(0) \cup {Nothing}
      BY <2>1 DEF Errors
    <3> QED
      BY <2>1, <3>1, <3>2, <3>3, <3>4 DEF Sound
  <2> QED
    BY <1>7, <2>2 DEF r
<1>11. \A b \in Downstreams : AsksOnce(W, b)
  BY <1>6, <1>7, <1>8, CallFacts, UpstreamFacts DEF AsksOnce, Calling
<1>12. VerifiesOnce(W)
  BY <1>6, <1>7, <1>8, CallFacts, UpstreamFacts DEF VerifiesOnce
<1>13. Counted(W)
  <2>1. Busy(agg) = {} /\ Armed(agg) = {}
    BY <1>7, <1>8 DEF Busy, Armed
  <2>2. Retries(agg) = {}
    BY <1>7, <1>8 DEF Retries
  <2>3. IsFiniteSet({}) /\ Cardinality({}) = 0
    BY FS_EmptySet
  <2> QED
    <3>1. activity.inFlight = 0 /\ activity.pending = 0 + 0
      BY <1>1
    <3> HIDE <1>1
    <3> QED
      BY <1>6, <2>1, <2>2, <2>3, <3>1 DEF Counted
<1>14. Good(W, world.value)
  <2>1. world.value = 0
    BY <1>1
  <2> QED
    BY <1>6, <1>9, <1>10, <1>11, <1>12, <1>13, <2>1 DEF Good
<1> QED
  BY <1>2, <1>4, <1>5, <1>14 DEF AInv

-----------------------------------------------------------------------------
(* The theorems. *)

\* AInv holds in every state of every behaviour.
LEMMA Invariant == Spec => []AInv
<1>1. Init => AInv
  BY InitInv
<1>2. AInv /\ [Next]_vars => AInv'
  <2> SUFFICES ASSUME AInv, [Next]_vars PROVE AInv'
    OBVIOUS
  <2>1. CASE UNCHANGED vars \/ TtlExpires
    BY <2>1, RestStep
  <2>2. ASSUME NEW g \in Gets,
               EnvelopeRead(g) \/ EnvelopeArrives(g) \/ HashArrives(g) \/ Verified(g)
        PROVE  AInv'
    BY <2>2, EnvelopeReadStep, EnvelopeArrivesStep, HashArrivesStep, VerifiedStep
  <2>3. ASSUME NEW a \in Aggs, NEW s \in Stores, ReadStore(a, s) PROVE AInv'
    BY <2>3, ReadStoreStep
  <2>4. ASSUME NEW a \in Aggs,
               HookCallsGet(a) \/ UseExternal(a) \/ ExternalArrives(a)
               \/ ComputeAndCompare(a) \/ Saved(a) \/ Refused(a)
        PROVE  AInv'
    BY <2>4, HookCallsGetStep, UseExternalStep, ExternalArrivesStep, ComputeAndCompareStep,
       SavedStep, RefusedStep
  <2>5. ASSUME NEW a \in Aggs, DebounceFires(a) \/ RetryFires(a) \/ Throws(a) PROVE AInv'
    BY <2>5, DebounceFiresStep, RetryFiresStep, ThrowsStep
  <2>6. ASSUME NEW a \in Aggs, NEW bypass \in BOOLEAN, Refresh(a, bypass) PROVE AInv'
    BY <2>6, RefreshStep
  <2>7. ASSUME NEW s \in Stores, WriteLands(s) PROVE AInv'
    BY <2>7, WriteLandsStep
  <2>8. CASE WriteThroughCache
    BY <2>8, WriteThroughCacheStep
  <2>9. CASE InvalidateChannel
    BY <2>9, InvalidateChannelStep
  <2>10. CASE Lock
    BY <2>10, LockStep
  <2>11. CASE Unlock
    BY <2>11, UnlockStep
  <2> QED
    BY <2>1, <2>2, <2>3, <2>4, <2>5, <2>6, <2>7, <2>8, <2>9, <2>10, <2>11
       DEF Next, Internal, Outside
<1> QED
  BY <1>1, <1>2, PTL DEF Spec

\* Every state has its types, and the two counters that the app's "is anything
\* computing" reads are the number of runs in flight and of timers that are set.
THEOREM TypeCorrect == Spec => []TypeOK
<1>1. AInv => TypeOK
  <2> SUFFICES ASSUME AInv PROVE TypeOK
    OBVIOUS
  <2>1. Session /\ Good(W, world.value) /\ W.agg = agg /\ W.get = get /\ W.activity = activity
    BY WFacts
  <2>2. session \in SessionNumbers /\ unlocked \in BOOLEAN
    BY <2>1, SessionNumber DEF Session
  <2>3. \A u \in Users, a \in Aggs :
          stored[u][a] # NoEnvelope => DOMAIN stored[u][a].fps = SourcesOf(a)
    BY DEF AInv, Stored
  <2>4. Known(world.value) \subseteq Fetched
    BY <2>1 DEF Known, Fetched, Session
  <2>5. \A a \in Aggs :
         /\ agg[a].run.phase \in {"idle", "reading", "external", "compute", "save", "failed"}
         /\ agg[a].failures \in 0 .. MaxRetries /\ agg[a].retries \in Nat
         /\ agg[a].error \in {"none", "cold", "other"}
         /\ agg[a].sub \in Users \cup {NoUser}
         /\ agg[a].ext \in Fetched \cup {Nothing}
    BY <2>1, <2>4 DEF Good, Sound, Phases, Errors
  <2>6. \A g \in Gets : get[g].phase \in {"idle", "load", "verify", "done"}
    BY <2>1 DEF Good, Shaped, GetPhases
  <2>7. /\ activity.inFlight = Cardinality({a \in Aggs : agg[a].run.phase # "idle"})
        /\ activity.pending = Cardinality({a \in Aggs : agg[a].armed})
                              + Cardinality(RetryTimers)
    BY <2>1 DEF Good, Counted, Busy, Armed, Retries, RetryTimers
  <2> QED
    BY <2>2, <2>3, <2>5, <2>6, <2>7 DEF TypeOK
<1> QED
  BY <1>1, Invariant, PTL

\* A persisted envelope is what compute() makes of the versions its fingerprints
\* name, whatever was written, refreshed or locked while it was computed.
THEOREM StoredIsComputed == Spec => []EnvelopeHonest
<1>1. AInv => EnvelopeHonest
  BY DEF AInv
<1> QED
  BY <1>1, Invariant, PTL

\* After the wipe of a lock nothing that was on its way fills the cache again.
THEOREM WipeIsFinal == Spec => []LockedCacheEmpty
<1>1. AInv => LockedCacheEmpty
  BY DEF AInv
<1> QED
  BY <1>1, Invariant, PTL

\* What React shows is what the aggregation is doing, and at rest its data.
THEOREM ReactFollows == Spec => []ReactShowsState
<1>1. AInv => ReactShowsState
  <2> SUFFICES ASSUME AInv, unlocked, NEW a \in Aggs, react[CurrentUser][a] # Nothing
               PROVE  /\ react[CurrentUser][a].computing = StateOf(a, agg[a]).computing
                      /\ react[CurrentUser][a].error = StateOf(a, agg[a]).error
                      /\ Quiet => react[CurrentUser][a].data = StateOf(a, agg[a]).data
    BY DEF ReactShowsState
  <2>1. Shows(react[CurrentUser][a], a)
    BY DEF AInv, Shown
  <2>2. Quiet => ~Verifying(get, a)
    BY DEF Quiet, Verifying
  <2> QED
    BY <2>1, <2>2 DEF Shows, StateOf, DataOf
<1> QED
  BY <1>1, Invariant, PTL
=============================================================================
