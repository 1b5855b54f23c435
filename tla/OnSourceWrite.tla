---------------------------- MODULE OnSourceWrite ----------------------------
(***************************************************************************)
(* onSourceWrite.ts: a reaction to the writes of a keyed store.  Written   *)
(* keys gather in a debounce window; one handler call at a time takes the  *)
(* union; a failed call is retried with backoff until its budget is spent; *)
(* a change of the ambient user discards what belonged to the other one.   *)
(*                                                                         *)
(* The handler is external: it settles once, with either outcome, at any   *)
(* later moment.  Its promise chain settles in two turns of the event      *)
(* loop, .then/.catch and .finally, and other callbacks can run between.   *)
(* A timer is a flag: when it fires is left open.                          *)
(***************************************************************************)
EXTENDS Integers

CONSTANTS
    Users, NoUser,
    KeysOf,         \* [Users -> set of keys]: the months each user writes
    MaxAttempts,    \* retry.maxAttempts
    NoRun, NoError

AllKeys == UNION {KeysOf[u] : u \in Users}

(* The keys of different users are told apart, as the users' months are.   *)
ASSUME OnSourceWriteAssumption ==
    /\ NoUser \notin Users
    /\ \A u, v \in Users : u # v => KeysOf[u] \cap KeysOf[v] = {}
    /\ MaxAttempts \in Nat \ {0}

VARIABLES
    coalesce,       \* opts.coalesce
    user,           \* KeyProvider.getUserId()
    subscribed,     \* subscribedUserId
    disposed,
    pending,        \* pendingKeys
    debounce,       \* debounceTimer is set
    run,            \* inFlight: the call's keys, its callUserId and its phase
    rerun,          \* rerunKeys; {} is null
    failed,         \* failedKeys; {} is null
    attempt,        \* retryAttempt
    retry,          \* retryTimer is set
    lastError,      \* {keys, attempt}; exhausted is attempt >= MaxAttempts
    flushing        \* a caller awaits flush()

(* History, read by the properties only. *)
VARIABLES
    dirty,          \* keys of the user written since a call that took them in succeeded
    covered,        \* those of the call in flight: not written again since it started
    unsynced,       \* keys of failed calls that no later call has made up for
    owed            \* keys a flush() has yet to see attempted

queueVars == << pending, debounce, run, rerun >>
retryVars == << failed, attempt, retry, lastError >>
history == << dirty, covered, unsynced, owed >>
vars == << coalesce, user, subscribed, disposed, queueVars, retryVars, flushing, history >>

Run == [keys : SUBSET AllKeys, user : Users \cup {NoUser}, phase : {"running", "settled"}]
Failure == [keys : SUBSET AllKeys, attempt : 1 .. MaxAttempts]
ASSUME NoRunAssumption == NoRun \notin Run /\ NoError \notin Failure

(* The retry budget is never exceeded: a parked failure that a new write   *)
(* folds in starts again from 0 (scheduleRetry, foldFailedKeysIntoNewWrite).*)
TypeOK ==
    /\ coalesce \in BOOLEAN /\ disposed \in BOOLEAN /\ debounce \in BOOLEAN
    /\ retry \in BOOLEAN /\ flushing \in BOOLEAN
    /\ user \in Users \cup {NoUser} /\ subscribed \in Users \cup {NoUser}
    /\ pending \subseteq AllKeys /\ rerun \subseteq AllKeys /\ failed \subseteq AllKeys
    /\ run \in Run \cup {NoRun}
    /\ attempt \in 0 .. MaxAttempts
    /\ lastError \in Failure \cup {NoError}
    /\ dirty \subseteq AllKeys /\ covered \subseteq AllKeys
    /\ unsynced \subseteq AllKeys /\ owed \subseteq AllKeys

Init ==
    /\ coalesce \in BOOLEAN
    /\ user \in Users \cup {NoUser} /\ subscribed = user
    /\ disposed = FALSE
    /\ pending = {} /\ debounce = FALSE /\ run = NoRun /\ rerun = {}
    /\ failed = {} /\ attempt = 0 /\ retry = FALSE /\ lastError = NoError
    /\ flushing = FALSE
    /\ dirty = {} /\ covered = {} /\ unsynced = {} /\ owed = {}

-----------------------------------------------------------------------------
(* Mutants: the queued batch is replaced; the failed keys stay behind; the *)
(* budget is not given back.                                               *)
Queued_Replaced(keys) == keys
WithFailed_Dropped(keys) == keys
FoldedAttempt_Kept == attempt

(* runHandler: single flight.  Keys that find a call in flight join the    *)
(* one rerun queued behind it.                                             *)
Queued(keys) == rerun \cup keys
NewRun(keys) == [keys |-> keys, user |-> subscribed, phase |-> "running"]

RunHandler(keys) ==
    \/ /\ keys = {}
       /\ UNCHANGED << run, rerun, covered >>
    \/ /\ keys # {} /\ run # NoRun
       /\ rerun' = Queued(keys)
       /\ UNCHANGED << run, covered >>
    \/ /\ keys # {} /\ run = NoRun
       /\ run' = NewRun(keys)
       /\ covered' = keys
       /\ UNCHANGED rerun

(* foldFailedKeysIntoNewWrite. *)
WithFailed(keys) == keys \cup failed
FoldedAttempt == IF failed = {} THEN attempt ELSE 0
FoldFailed ==
    /\ failed' = {}
    /\ retry' = FALSE
    /\ attempt' = FoldedAttempt

Dispatch(keys) ==
    /\ pending' = {}
    /\ FoldFailed
    /\ RunHandler(WithFailed(keys))

(* set(), mutate(), createMany() of the ambient user: the subscriber runs  *)
(* inside cache.set().  Without coalesce every write is dispatched at once.*)
Write(K) ==
    /\ user # NoUser
    /\ K # {} /\ K \subseteq KeysOf[user]
    /\ ~disposed
    /\ dirty' = dirty \cup K
    /\ \/ /\ coalesce
          /\ pending' = pending \cup K
          /\ debounce' = TRUE
          /\ covered' = covered \ K
          /\ UNCHANGED << run, rerun, retryVars >>
       \/ /\ ~coalesce
          /\ pending' = {}
          /\ FoldFailed
          /\ LET keys == WithFailed(pending \cup K)
             IN  \/ /\ run # NoRun
                    /\ rerun' = Queued(keys)
                    /\ covered' = covered \ K
                    /\ UNCHANGED run
                 \/ /\ run = NoRun
                    /\ RunHandler(keys)
          /\ UNCHANGED << debounce, lastError >>
    /\ UNCHANGED << coalesce, user, subscribed, disposed, flushing, unsynced, owed >>

(* A timer never fires between the two turns of a settling promise chain. *)
BetweenTasks == run # NoRun => run.phase = "running"

DebounceFires ==
    /\ debounce
    /\ BetweenTasks
    /\ debounce' = FALSE
    /\ Dispatch(pending)
    /\ UNCHANGED << coalesce, user, subscribed, disposed, lastError, flushing,
                    dirty, unsynced, owed >>

RetryFires ==
    /\ retry
    /\ BetweenTasks
    /\ retry' = FALSE
    /\ failed' = {}
    /\ RunHandler(failed)
    /\ UNCHANGED << coalesce, user, subscribed, disposed, pending, debounce,
                    attempt, lastError, flushing, dirty, unsynced, owed >>

-----------------------------------------------------------------------------
(* Mutant: the settlement is booked for whoever is subscribed now. *)
BooksResult_Always == TRUE

(* callUserId === subscribedUserId. *)
BooksResult == run.user = subscribed

(* .then: the handler resolved. *)
Succeed ==
    /\ run # NoRun /\ run.phase = "running"
    /\ run' = [run EXCEPT !.phase = "settled"]
    /\ lastError' = IF BooksResult THEN NoError ELSE lastError
    /\ dirty' = dirty \ covered
    /\ unsynced' = IF BooksResult THEN unsynced \ run.keys ELSE unsynced
    /\ covered' = {}
    /\ owed' = owed \ run.keys
    /\ UNCHANGED << coalesce, user, subscribed, disposed, pending, debounce, rerun,
                    failed, attempt, retry, flushing >>

(* Mutant: no timer is armed after the first failure. *)
ArmsRetry_Never == FALSE

(* scheduleRetry arms the backoff timer. *)
ArmsRetry == attempt + 1 < MaxAttempts /\ ~disposed

ScheduleRetry(keys) ==
    /\ failed' = keys
    /\ attempt' = attempt + 1
    /\ lastError' = [keys |-> keys, attempt |-> attempt + 1]
    /\ retry' = (retry \/ ArmsRetry)
    /\ unsynced' = unsynced \cup keys

(* .catch: the handler rejected.  A failure of another user's call is      *)
(* dropped.                                                                *)
Fail ==
    /\ run # NoRun /\ run.phase = "running"
    /\ run' = [run EXCEPT !.phase = "settled"]
    /\ \/ BooksResult /\ ScheduleRetry(run.keys)
       \/ ~BooksResult /\ UNCHANGED << retryVars, unsynced >>
    /\ covered' = {}
    /\ owed' = owed \ run.keys
    /\ UNCHANGED << coalesce, user, subscribed, disposed, pending, debounce, rerun,
                    flushing, dirty >>

(* .finally: the queued rerun starts, with what just failed folded in. *)
Finally ==
    /\ run # NoRun /\ run.phase = "settled"
    /\ \/ /\ rerun = {}
          /\ run' = NoRun
          /\ UNCHANGED << rerun, failed, attempt, retry, covered >>
       \/ /\ rerun # {}
          /\ FoldFailed
          /\ rerun' = {}
          /\ run' = NewRun(WithFailed(rerun))
          /\ covered' = WithFailed(rerun)
    /\ UNCHANGED << coalesce, user, subscribed, disposed, pending, debounce,
                    lastError, flushing, dirty, unsynced, owed >>

-----------------------------------------------------------------------------
(* The ambient user changes; the reaction is told at once, until it is     *)
(* unsubscribed (ensureSubscribed).  Leaving "no user" discards nothing.   *)
DiscardOldUser ==
    /\ pending' = {} /\ debounce' = FALSE /\ rerun' = {}
    /\ failed' = {} /\ attempt' = 0 /\ retry' = FALSE /\ lastError' = NoError
    /\ dirty' = {} /\ covered' = {} /\ unsynced' = {} /\ owed' = {}

SwitchUser(u) ==
    /\ u # user
    /\ user' = u
    /\ \/ disposed /\ UNCHANGED << subscribed, queueVars, retryVars, history >>
       \/ /\ ~disposed
          /\ subscribed' = u
          /\ \/ subscribed # NoUser /\ DiscardOldUser /\ UNCHANGED run
             \/ subscribed = NoUser /\ UNCHANGED << queueVars, retryVars, history >>
    /\ UNCHANGED << coalesce, disposed, flushing >>

(* The handle called as a function. *)
Unsubscribe ==
    /\ ~disposed
    /\ disposed' = TRUE
    /\ debounce' = FALSE
    /\ retry' = FALSE
    /\ UNCHANGED << coalesce, user, subscribed, pending, run, rerun, failed,
                    attempt, lastError, flushing, history >>

(* Mutant: one await instead of the loop. *)
Idle_AfterOneCall == run # NoRun => run.phase = "settled"

(* flush(): dispatch now, and wait until nothing is in flight. *)
Idle == run = NoRun

Flush ==
    /\ ~flushing
    /\ flushing' = TRUE
    /\ debounce' = FALSE
    /\ owed' = WithFailed(pending)
    /\ Dispatch(pending)
    /\ UNCHANGED << coalesce, user, subscribed, disposed, lastError, dirty, unsynced >>

FlushReturns ==
    /\ flushing
    /\ Idle
    /\ flushing' = FALSE
    /\ UNCHANGED << coalesce, user, subscribed, disposed, queueVars, retryVars, history >>

Next ==
    \/ \E K \in SUBSET AllKeys : Write(K)
    \/ DebounceFires \/ RetryFires
    \/ Succeed \/ Fail \/ Finally
    \/ \E u \in Users \cup {NoUser} : SwitchUser(u)
    \/ Unsubscribe
    \/ Flush \/ FlushReturns

Spec == Init /\ [][Next]_vars

(* Timers fire - in a pause between writes, for the debounce - and promise *)
(* chains run on.  The handler settles, one way or the other.              *)
FairSpec ==
    /\ Spec
    /\ WF_vars(DebounceFires) /\ WF_vars(RetryFires)
    /\ WF_vars(Succeed \/ Fail) /\ WF_vars(Finally)
    /\ WF_vars(FlushReturns)

-----------------------------------------------------------------------------
(* A written key is never forgotten: until a handler call that started     *)
(* after the write succeeds, the key waits in the debounce window, in the  *)
(* rerun, among the failed keys, or is in the call in flight (the sets     *)
(* move between dispatch, runHandler, scheduleRetry and the fold).         *)
NothingForgotten ==
    ~disposed => dirty \subseteq pending \cup rerun \cup failed \cup covered

(* getLastError() shows a failure exactly while keys of a failed call are  *)
(* unresolved, and names them all: no success of a call that did not carry *)
(* them clears it.                                                         *)
ErrorVisible ==
    /\ unsynced # {} <=> lastError # NoError
    /\ lastError # NoError => unsynced \subseteq lastError.keys

(* Keys of one user are never handled for another: what is queued belongs  *)
(* to the subscribed user, and a call in flight carries only keys of the   *)
(* user it was dispatched for (callUserId, ensureSubscribed).              *)
KeysOfUser(u) == IF u \in Users THEN KeysOf[u] ELSE {}
UsersApart ==
    /\ pending \cup rerun \cup failed \subseteq KeysOfUser(subscribed)
    /\ run # NoRun => run.keys \subseteq KeysOfUser(run.user)

(* flush() returns only after every key that was queued, failed or parked  *)
(* when it was called has been through a handler call, or was discarded by *)
(* a change of user.                                                       *)
FlushAttemptsAll == [][flushing /\ ~flushing' => owed = {}]_vars

(* Once writes and flushes pause, a written key is eventually handled, or  *)
(* its failure is parked for all to see, or the user or the reaction is    *)
(* gone.  (Each of them gives a failing batch a new budget.)               *)
Exhausted == lastError # NoError /\ lastError.attempt = MaxAttempts
CallersGoOn == []<><<Flush \/ \E K \in SUBSET AllKeys : Write(K)>>_vars
Synchronizes ==
    \A k \in AllKeys :
        CallersGoOn \/ (k \in dirty ~> (k \notin dirty \/ Exhausted \/ disposed))

(* The attempts of a failure are counted per failing batch: one that       *)
(* follows a success is a first attempt (OnSourceWriteRetryOptions).       *)
BudgetPerBatch ==
    [][lastError = NoError /\ lastError' # NoError => lastError'.attempt = 1]_vars

-----------------------------------------------------------------------------
(* Why they hold: where the keys of a call can be at each of its phases.   *)
Running == run # NoRun /\ run.phase = "running"
RunningKeys == IF Running THEN run.keys ELSE {}

(* Only a call in flight has a rerun queued behind it; failed keys and the *)
(* backoff timer exist only between calls.                                 *)
Phases ==
    /\ run = NoRun => rerun = {}
    /\ Running => failed = {}
    /\ retry => failed # {}
    /\ ~disposed => subscribed = user

(* An exhausted budget waits for a fold, which gives it back. *)
Budget ==
    /\ attempt = MaxAttempts => failed # {} /\ ~retry
    /\ failed # {} => attempt > 0

(* Every call carries all that is unsynced; a call of another user has     *)
(* nothing to make up for.                                                 *)
CallsCarryFailures ==
    /\ unsynced \subseteq IF Running THEN run.keys ELSE failed \cup rerun
    /\ run # NoRun => run.keys # {}
    /\ run # NoRun /\ run.user # subscribed => unsynced = {} /\ covered = {}

(* A flush in progress still awaits the calls that take its keys. *)
FlushAwaits == owed \subseteq rerun \cup RunningKeys

IInv ==
    /\ Phases /\ Budget /\ CallsCarryFailures /\ FlushAwaits
    /\ covered \subseteq RunningKeys
    /\ NothingForgotten /\ ErrorVisible /\ UsersApart
=============================================================================
