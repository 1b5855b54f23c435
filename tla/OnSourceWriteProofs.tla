------------------------- MODULE OnSourceWriteProofs -------------------------
(***************************************************************************)
(* Proofs about the write reaction, for every set of users, keys and every *)
(* retry budget: its type invariant with the budget's bound, and the       *)
(* accounting of the keys that no interleaving of writes, timers,          *)
(* settlements, flushes and changes of user breaks.                        *)
(***************************************************************************)
EXTENDS OnSourceWrite, TLAPS

Inv == TypeOK /\ IInv

(* A batch of the subscribed user's keys, given to runHandler. *)
LEMMA RunHandlerTypes ==
    ASSUME TypeOK, NEW K \in SUBSET AllKeys, RunHandler(K)
    PROVE  run' \in Run \cup {NoRun} /\ rerun' \subseteq AllKeys /\ covered' \subseteq AllKeys
BY DEF TypeOK, RunHandler, NewRun, Queued, Run

LEMMA FoldTypes ==
    ASSUME TypeOK, FoldFailed
    PROVE  failed' \subseteq AllKeys /\ retry' \in BOOLEAN /\ attempt' \in 0 .. MaxAttempts
<1>1. 0 \in 0 .. MaxAttempts
  BY OnSourceWriteAssumption
<1>2. FoldedAttempt \in 0 .. MaxAttempts
  BY <1>1 DEF TypeOK, FoldedAttempt
<1> QED BY <1>2 DEF FoldFailed

LEMMA WriteType ==
    ASSUME Inv, NEW K \in SUBSET AllKeys, Write(K)
    PROVE  TypeOK'
<1>1. CASE coalesce
  BY <1>1, OnSourceWriteAssumption DEF Inv, TypeOK, Write, retryVars
<1>2. CASE ~coalesce
  <2>1. FoldFailed /\ pending' = {} /\ debounce' = debounce /\ lastError' = lastError
    BY <1>2 DEF Write
  <2>2. WithFailed(pending \cup K) \in SUBSET AllKeys
    BY DEF WithFailed, Inv, TypeOK
  <2>3. run' \in Run \cup {NoRun} /\ rerun' \subseteq AllKeys /\ covered' \subseteq AllKeys
    <3>1. CASE run # NoRun
      BY <1>2, <2>2, <3>1 DEF Write, Queued, RunHandler, Inv, TypeOK
    <3>2. CASE run = NoRun
      BY <1>2, <2>2, <3>2, RunHandlerTypes DEF Write, Inv
    <3> QED BY <3>1, <3>2
  <2>4. failed' \subseteq AllKeys /\ retry' \in BOOLEAN /\ attempt' \in 0 .. MaxAttempts
    BY <2>1, FoldTypes DEF Inv
  <2> QED BY <2>1, <2>3, <2>4 DEF Inv, TypeOK, Write
<1> QED BY <1>1, <1>2 DEF Inv, TypeOK

LEMMA DispatchType ==
    ASSUME Inv, DebounceFires \/ RetryFires \/ Flush
    PROVE  TypeOK'
<1>1. failed \in SUBSET AllKeys /\ WithFailed(pending) \in SUBSET AllKeys
  BY DEF WithFailed, Inv, TypeOK
<1>2. CASE DebounceFires
  BY <1>1, <1>2, FoldTypes, RunHandlerTypes DEF DebounceFires, Dispatch, Inv, TypeOK
<1>3. CASE RetryFires
  BY <1>1, <1>3, RunHandlerTypes DEF RetryFires, Inv, TypeOK
<1>4. CASE Flush
  BY <1>1, <1>4, FoldTypes, RunHandlerTypes DEF Flush, Dispatch, Inv, TypeOK
<1> QED BY <1>2, <1>3, <1>4

LEMMA SettleType ==
    ASSUME Inv, Succeed \/ Fail \/ Finally
    PROVE  TypeOK'
<1>0. run # NoRun => run \in Run
  BY DEF Inv, TypeOK
<1>1. CASE Succeed
  BY <1>0, <1>1 DEF Succeed, Inv, TypeOK, Run
<1>2. CASE Fail
  <2>1. run' \in Run
    BY <1>0, <1>2 DEF Fail, Run
  <2>2. attempt # MaxAttempts
    BY <1>2 DEF Fail, Inv, IInv, Phases, Budget, Running
  <2>3. CASE BooksResult /\ ScheduleRetry(run.keys)
    <3>1. attempt + 1 \in 1 .. MaxAttempts /\ run.keys \subseteq AllKeys
      BY <1>0, <1>2, <2>2, OnSourceWriteAssumption DEF Fail, Inv, TypeOK, Run
    <3>2. lastError' \in Failure
      BY <2>3, <3>1 DEF ScheduleRetry, Failure
    <3>3. retry' \in BOOLEAN
      BY <2>3 DEF ScheduleRetry, ArmsRetry, Inv, TypeOK
    <3>4. attempt' \in 0 .. MaxAttempts /\ failed' \subseteq AllKeys /\ unsynced' \subseteq AllKeys
      BY <2>3, <3>1, OnSourceWriteAssumption DEF ScheduleRetry, Inv, TypeOK
    <3>5. UNCHANGED << coalesce, user, subscribed, disposed, pending, debounce, rerun,
                       flushing, dirty >> /\ covered' = {} /\ owed' \subseteq owed
      BY <1>2 DEF Fail
    <3> QED BY <2>1, <3>2, <3>3, <3>4, <3>5 DEF Inv, TypeOK
  <2>4. CASE ~BooksResult /\ UNCHANGED << retryVars, unsynced >>
    BY <1>2, <2>1, <2>4 DEF Fail, Inv, TypeOK, retryVars
  <2> QED BY <1>2, <2>3, <2>4 DEF Fail
<1>3. CASE Finally
  <2>1. CASE rerun = {}
    BY <1>3, <2>1 DEF Finally, Inv, TypeOK
  <2>2. CASE rerun # {}
    <3>1. WithFailed(rerun) \in SUBSET AllKeys
      BY DEF WithFailed, Inv, TypeOK
    <3>2. NewRun(WithFailed(rerun)) \in Run
      BY <3>1 DEF NewRun, Run, Inv, TypeOK
    <3> QED BY <1>3, <2>2, <3>1, <3>2, FoldTypes DEF Finally, Inv, TypeOK
  <2> QED BY <2>1, <2>2
<1> QED BY <1>1, <1>2, <1>3

LEMMA NextType == ASSUME Inv, [Next]_vars PROVE TypeOK'
<1>1. ASSUME NEW u \in Users \cup {NoUser}, SwitchUser(u) PROVE TypeOK'
  <2>1. CASE disposed
    BY <1>1, <2>1 DEF SwitchUser, Inv, TypeOK, queueVars, retryVars, history
  <2>2. CASE ~disposed /\ subscribed # NoUser
    <3>1. /\ user' \in Users \cup {NoUser} /\ subscribed' \in Users \cup {NoUser}
          /\ coalesce' = coalesce /\ disposed' = disposed /\ flushing' = flushing /\ run' = run
          /\ DiscardOldUser
      BY <1>1, <2>2 DEF SwitchUser
    <3>2. attempt' \in 0 .. MaxAttempts
      BY <3>1, OnSourceWriteAssumption DEF DiscardOldUser
    <3> QED BY <3>1, <3>2 DEF DiscardOldUser, Inv, TypeOK
  <2>3. CASE ~disposed /\ subscribed = NoUser
    BY <1>1, <2>3 DEF SwitchUser, Inv, TypeOK, queueVars, retryVars, history
  <2> QED BY <2>1, <2>2, <2>3 DEF Inv, TypeOK
<1>2. CASE Unsubscribe
  BY <1>2 DEF Unsubscribe, Inv, TypeOK, history
<1>3. CASE FlushReturns
  BY <1>3 DEF FlushReturns, Inv, TypeOK, queueVars, retryVars, history
<1>4. CASE UNCHANGED vars
  BY <1>4 DEF vars, Inv, TypeOK, queueVars, retryVars, history
<1> QED BY <1>1, <1>2, <1>3, <1>4, WriteType, DispatchType, SettleType DEF Next

-----------------------------------------------------------------------------
(* The state without its timers, which IInv does not read but for retry.   *)
accounts == << user, subscribed, disposed, pending, run, rerun, failed, attempt,
               retry, lastError, dirty, covered, unsynced, owed >>

(* Every dispatch - the debounce window closing, a flush, a write without  *)
(* coalesce - moves the pending and the failed keys, and the keys W just   *)
(* written, into a call or into the rerun.                                 *)
Moves(W) ==
    LET keys == WithFailed(pending \cup W)
    IN  /\ pending' = {} /\ FoldFailed
        /\ \/ keys = {} /\ UNCHANGED << run, rerun, covered >>
           \/ run # NoRun /\ run' = run /\ rerun' = rerun \cup keys /\ covered' = covered \ W
           \/ /\ keys # {} /\ run = NoRun
              /\ run' = NewRun(keys) /\ covered' = keys /\ rerun' = rerun
        /\ UNCHANGED << user, subscribed, disposed, lastError, unsynced >>
        /\ dirty' = dirty \cup W
        /\ owed' = owed \/ owed' = keys

LEMMA MoveSound ==
    ASSUME Inv, NEW W \in SUBSET AllKeys, Moves(W),
           W \subseteq KeysOfUser(subscribed), W # {} => ~disposed
    PROVE  IInv'
<1> DEFINE keys == WithFailed(pending \cup W)
<1>0. /\ keys = pending \cup W \cup failed
      /\ keys \subseteq KeysOfUser(subscribed)
      /\ failed' = {} /\ retry' = FALSE /\ pending' = {}
      /\ NewRun(keys).keys = keys /\ NewRun(keys).user = subscribed
      /\ NewRun(keys).phase = "running" /\ NewRun(keys) # NoRun
  <2>1. keys \subseteq AllKeys
    BY DEF WithFailed, Inv, TypeOK
  <2>2. NewRun(keys) \in Run
    BY <2>1 DEF NewRun, Run, Inv, TypeOK
  <2> QED BY <2>2, NoRunAssumption DEF Moves, FoldFailed, WithFailed, NewRun, Inv, IInv, UsersApart
<1>1. Phases'
  BY <1>0 DEF Phases, Running, Moves, Inv, IInv
<1>2. Budget'
  <2>1. attempt = MaxAttempts => attempt' = 0
    BY DEF Moves, FoldFailed, FoldedAttempt, Inv, IInv, Budget
  <2>2. attempt' = attempt \/ attempt' = 0
    BY DEF Moves, FoldFailed, FoldedAttempt
  <2> QED BY <1>0, <2>1, <2>2, OnSourceWriteAssumption DEF Budget
<1>3. CallsCarryFailures'
  BY <1>0 DEF CallsCarryFailures, Running, Moves, Inv, IInv, Phases
<1>4. FlushAwaits'
  BY <1>0 DEF FlushAwaits, RunningKeys, Running, Moves, Inv, IInv, Phases
<1>5. (covered \subseteq RunningKeys)'
  BY <1>0 DEF RunningKeys, Running, Moves, Inv, IInv
<1>6. NothingForgotten'
  <2>1. run = NoRun => covered = {}
    BY DEF Inv, IInv, RunningKeys, Running
  <2>2. ~disposed => dirty \subseteq pending \cup rerun \cup failed \cup covered
    BY DEF Inv, IInv, NothingForgotten
  <2>3. /\ dirty' = dirty \cup W /\ disposed' = disposed
        /\ \/ keys = {} /\ rerun' = rerun /\ covered' = covered
           \/ run # NoRun /\ rerun' = rerun \cup keys /\ covered' = covered \ W
           \/ run = NoRun /\ covered' = keys /\ rerun' = rerun
    BY DEF Moves
  <2> HIDE DEF keys
  <2> QED BY <1>0, <2>1, <2>2, <2>3 DEF NothingForgotten
<1>7. ErrorVisible'
  BY DEF ErrorVisible, Moves, Inv, IInv
<1>8. UsersApart'
  BY <1>0 DEF UsersApart, Moves, Inv, IInv
<1> QED BY <1>1, <1>2, <1>3, <1>4, <1>5, <1>6, <1>7, <1>8 DEF IInv

LEMMA WriteSound ==
    ASSUME Inv, NEW K \in SUBSET AllKeys, Write(K)
    PROVE  IInv'
<1>0. K \subseteq KeysOfUser(subscribed) /\ ~disposed
  BY DEF Write, Inv, IInv, Phases, TypeOK, KeysOfUser
<1>1. CASE coalesce
  <2>1. /\ pending' = pending \cup K /\ dirty' = dirty \cup K /\ covered' = covered \ K
        /\ UNCHANGED << run, rerun, retryVars, user, subscribed, disposed, unsynced, owed >>
    BY <1>1 DEF Write
  <2>2. Phases' /\ Budget' /\ CallsCarryFailures' /\ FlushAwaits' /\ ErrorVisible'
    BY <2>1 DEF Inv, IInv, Phases, Budget, CallsCarryFailures, FlushAwaits, ErrorVisible,
       Running, RunningKeys, retryVars
  <2>3. (covered \subseteq RunningKeys)' /\ NothingForgotten'
    BY <2>1 DEF Inv, IInv, NothingForgotten, Running, RunningKeys, retryVars
  <2>4. UsersApart'
    BY <1>0, <2>1 DEF Inv, IInv, UsersApart, retryVars
  <2> QED BY <2>2, <2>3, <2>4 DEF IInv
<1>2. CASE ~coalesce
  <2>1. Moves(K)
    BY <1>2 DEF Write, Moves, RunHandler, Queued, WithFailed
  <2> QED BY <1>0, <2>1, MoveSound
<1> QED BY <1>1, <1>2 DEF Inv, TypeOK

LEMMA DispatchSound ==
    ASSUME Inv, DebounceFires \/ Flush
    PROVE  IInv'
<1>1. WithFailed(pending \cup {}) = WithFailed(pending) /\ covered \ {} = covered
      /\ dirty \cup {} = dirty
  BY DEF WithFailed
<1>2. Moves({})
  BY <1>1 DEF DebounceFires, Flush, Dispatch, Moves, RunHandler, Queued
<1> QED BY <1>2, MoveSound

LEMMA RetrySound == ASSUME Inv, RetryFires PROVE IInv'
<1>1. /\ failed # {} /\ ~Running /\ attempt # MaxAttempts
      /\ failed \subseteq AllKeys /\ failed \subseteq KeysOfUser(subscribed)
  BY DEF RetryFires, Inv, IInv, Phases, Budget, UsersApart, TypeOK
<1>2. /\ retry' = FALSE /\ failed' = {}
      /\ UNCHANGED << user, subscribed, disposed, pending, attempt, lastError, dirty, unsynced, owed >>
      /\ RunHandler(failed)
  BY DEF RetryFires
<1>3. NewRun(failed) # NoRun
  BY <1>1, NoRunAssumption DEF NewRun, Run, Inv, TypeOK
<1>4. CASE run = NoRun
  <2>1. /\ run' = NewRun(failed) /\ covered' = failed /\ rerun' = {}
        /\ NewRun(failed).keys = failed /\ NewRun(failed).user = subscribed
        /\ NewRun(failed).phase = "running"
    BY <1>1, <1>2, <1>4 DEF RunHandler, NewRun, Inv, IInv, Phases
  <2>2. Phases' /\ Budget' /\ CallsCarryFailures'
    BY <1>1, <1>2, <1>3, <1>4, <2>1 DEF Inv, IInv, Phases, Budget, CallsCarryFailures, Running
  <2>3. FlushAwaits' /\ (covered \subseteq RunningKeys)' /\ NothingForgotten'
    BY <1>1, <1>2, <1>3, <1>4, <2>1 DEF Inv, IInv, Phases, FlushAwaits, NothingForgotten,
       Running, RunningKeys
  <2>4. ErrorVisible' /\ UsersApart'
    BY <1>1, <1>2, <2>1 DEF Inv, IInv, ErrorVisible, UsersApart
  <2> QED BY <2>2, <2>3, <2>4 DEF IInv
<1>5. CASE run # NoRun
  <2>1. run' = run /\ covered' = covered /\ rerun' = rerun \cup failed
    BY <1>1, <1>2, <1>5 DEF RunHandler, Queued
  <2>2. Phases' /\ Budget' /\ CallsCarryFailures'
    BY <1>1, <1>2, <1>5, <2>1 DEF Inv, IInv, Phases, Budget, CallsCarryFailures, Running
  <2>3. FlushAwaits' /\ (covered \subseteq RunningKeys)' /\ NothingForgotten'
    BY <1>1, <1>2, <1>5, <2>1 DEF Inv, IInv, FlushAwaits, NothingForgotten, Running, RunningKeys
  <2>4. ErrorVisible' /\ UsersApart'
    BY <1>1, <1>2, <2>1 DEF Inv, IInv, ErrorVisible, UsersApart
  <2> QED BY <2>2, <2>3, <2>4 DEF IInv
<1> QED BY <1>4, <1>5

LEMMA SucceedSound == ASSUME Inv, Succeed PROVE IInv'
<1>1. /\ Running /\ run \in Run /\ run' = [run EXCEPT !.phase = "settled"]
      /\ dirty' = dirty \ covered /\ covered' = {} /\ owed' = owed \ run.keys
      /\ UNCHANGED << user, subscribed, disposed, pending, rerun, failed, attempt, retry >>
  BY DEF Succeed, Running, Inv, TypeOK
<1>2. /\ run' # NoRun /\ ~Running' /\ run'.keys = run.keys /\ run'.user = run.user
  BY <1>1, NoRunAssumption DEF Run, Running
<1>3. unsynced' = {} /\ lastError' = NoError
  <2>1. CASE BooksResult
    BY <1>1, <2>1 DEF Succeed, Inv, IInv, CallsCarryFailures
  <2>2. CASE ~BooksResult
    BY <1>1, <2>2 DEF Succeed, BooksResult, Inv, IInv, CallsCarryFailures, ErrorVisible
  <2> QED BY <2>1, <2>2
<1>4. Phases' /\ Budget' /\ CallsCarryFailures' /\ ErrorVisible'
  <2>1. Phases' /\ Budget'
    BY <1>1, <1>2 DEF Inv, IInv, Phases, Budget
  <2>2. run.keys # {}
    BY <1>1 DEF Inv, IInv, CallsCarryFailures, Running
  <2>3. CallsCarryFailures'
    BY <1>1, <1>2, <1>3, <2>2 DEF CallsCarryFailures
  <2> QED BY <1>3, <2>1, <2>3 DEF ErrorVisible
<1>5. FlushAwaits' /\ (covered \subseteq RunningKeys)'
  BY <1>1, <1>2 DEF Inv, IInv, FlushAwaits, RunningKeys
<1>6. NothingForgotten' /\ UsersApart'
  BY <1>1, <1>2 DEF Inv, IInv, NothingForgotten, UsersApart, Running
<1> QED BY <1>4, <1>5, <1>6 DEF IInv

LEMMA FailSound == ASSUME Inv, Fail PROVE IInv'
<1>1. /\ Running /\ run \in Run /\ run' = [run EXCEPT !.phase = "settled"]
      /\ covered' = {} /\ owed' = owed \ run.keys
      /\ UNCHANGED << user, subscribed, disposed, pending, rerun, dirty >>
  BY DEF Fail, Running, Inv, TypeOK
<1>2. /\ run' # NoRun /\ ~Running' /\ run'.keys = run.keys /\ run'.user = run.user
  BY <1>1, NoRunAssumption DEF Run, Running
<1>3. /\ failed = {} /\ ~retry /\ attempt # MaxAttempts /\ attempt \in 0 .. MaxAttempts
      /\ covered \subseteq run.keys /\ unsynced \subseteq run.keys /\ run.keys # {}
  BY <1>1 DEF Inv, TypeOK, IInv, Phases, Budget, Running, RunningKeys, CallsCarryFailures
<1>4. FlushAwaits' /\ (covered \subseteq RunningKeys)'
  BY <1>1, <1>2 DEF Inv, IInv, FlushAwaits, RunningKeys
<1>5. CASE BooksResult /\ ScheduleRetry(run.keys)
  <2>1. /\ failed' = run.keys /\ attempt' = attempt + 1 /\ unsynced' = run.keys
        /\ lastError' = [keys |-> run.keys, attempt |-> attempt + 1]
        /\ retry' => attempt + 1 < MaxAttempts /\ ~disposed
    BY <1>3, <1>5 DEF ScheduleRetry, ArmsRetry
  <2>2. lastError' # NoError
    <3>1. attempt + 1 \in 1 .. MaxAttempts /\ run.keys \in SUBSET AllKeys
      BY <1>1, <1>3, OnSourceWriteAssumption DEF Run
    <3> QED BY <2>1, <3>1, NoRunAssumption DEF Failure
  <2>3. Phases'
    BY <1>1, <1>2, <1>3, <1>5, <2>1 DEF Inv, IInv, Phases
  <2>4. Budget'
    BY <1>3, <2>1, OnSourceWriteAssumption DEF Budget
  <2>5. CallsCarryFailures'
    BY <1>1, <1>2, <1>3, <1>5, <2>1 DEF CallsCarryFailures, BooksResult
  <2>6. ErrorVisible'
    BY <1>3, <1>5, <2>1, <2>2 DEF ErrorVisible
  <2>7. NothingForgotten'
    BY <1>1, <1>3, <2>1 DEF Inv, IInv, NothingForgotten
  <2>8. UsersApart'
    BY <1>1, <1>2, <1>5, <2>1 DEF Inv, IInv, UsersApart, BooksResult, Running
  <2> QED BY <1>4, <2>3, <2>4, <2>5, <2>6, <2>7, <2>8 DEF IInv
<1>6. CASE ~BooksResult /\ UNCHANGED << retryVars, unsynced >>
  <2>1. UNCHANGED << failed, attempt, retry, lastError, unsynced >> /\ unsynced = {} /\ covered = {}
    BY <1>1, <1>6 DEF retryVars, BooksResult, Inv, IInv, CallsCarryFailures, Running
  <2>2. Phases' /\ Budget' /\ CallsCarryFailures' /\ ErrorVisible'
    BY <1>1, <1>2, <1>3, <2>1 DEF Inv, IInv, Phases, Budget, CallsCarryFailures, ErrorVisible
  <2>3. NothingForgotten' /\ UsersApart'
    BY <1>1, <1>2, <2>1 DEF Inv, IInv, NothingForgotten, UsersApart, Running
  <2> QED BY <1>4, <2>2, <2>3 DEF IInv
<1> QED BY <1>5, <1>6 DEF Fail

LEMMA FinallySound == ASSUME Inv, Finally PROVE IInv'
<1>1. /\ run # NoRun /\ ~Running /\ covered = {}
      /\ UNCHANGED << user, subscribed, disposed, pending, lastError, dirty, unsynced, owed >>
  BY DEF Finally, Running, RunningKeys, Inv, IInv
<1>2. CASE rerun = {}
  <2>1. run' = NoRun /\ UNCHANGED << rerun, failed, attempt, retry, covered >>
    BY <1>2 DEF Finally
  <2>2. Phases' /\ Budget' /\ CallsCarryFailures' /\ ErrorVisible'
    BY <1>1, <1>2, <2>1 DEF Inv, IInv, Phases, Budget, CallsCarryFailures, ErrorVisible, Running
  <2>3. FlushAwaits' /\ (covered \subseteq RunningKeys)'
    BY <1>1, <1>2, <2>1 DEF Inv, IInv, FlushAwaits, RunningKeys, Running
  <2>4. NothingForgotten' /\ UsersApart'
    BY <1>1, <1>2, <2>1 DEF Inv, IInv, NothingForgotten, UsersApart
  <2> QED BY <2>2, <2>3, <2>4 DEF IInv
<1>3. CASE rerun # {}
  <2> DEFINE keys == WithFailed(rerun)
  <2>1. /\ keys = rerun \cup failed /\ keys # {} /\ keys \subseteq AllKeys
        /\ keys \subseteq KeysOfUser(subscribed)
    BY <1>3 DEF WithFailed, Inv, TypeOK, IInv, UsersApart
  <2>2. /\ NewRun(keys).keys = keys /\ NewRun(keys).user = subscribed
        /\ NewRun(keys).phase = "running" /\ NewRun(keys) # NoRun
    BY <2>1, NoRunAssumption DEF NewRun, Run, Inv, TypeOK
  <2>3. /\ run' = NewRun(keys) /\ covered' = keys /\ rerun' = {}
        /\ failed' = {} /\ retry' = FALSE /\ attempt' = FoldedAttempt
    BY <1>3 DEF Finally, FoldFailed
  <2> HIDE DEF keys
  <2>4. Running' /\ run'.keys = keys /\ run'.user = subscribed' /\ RunningKeys' = keys
    BY <1>1, <2>2, <2>3 DEF Running, RunningKeys
  <2>5. Phases'
    BY <1>1, <2>3, <2>4 DEF Inv, IInv, Phases, Running
  <2>6. Budget'
    BY <2>3, OnSourceWriteAssumption DEF FoldedAttempt, Inv, TypeOK, IInv, Budget
  <2>7. CallsCarryFailures'
    BY <1>1, <2>1, <2>4 DEF Inv, IInv, CallsCarryFailures
  <2>8. FlushAwaits' /\ (covered \subseteq RunningKeys)'
    BY <1>1, <2>1, <2>3, <2>4 DEF Inv, IInv, FlushAwaits, RunningKeys
  <2>9. NothingForgotten' /\ UsersApart'
    BY <1>1, <2>1, <2>3, <2>4 DEF Inv, IInv, NothingForgotten, UsersApart
  <2>10. ErrorVisible'
    BY <1>1 DEF Inv, IInv, ErrorVisible
  <2> QED BY <2>5, <2>6, <2>7, <2>8, <2>9, <2>10 DEF IInv
<1> QED BY <1>2, <1>3

LEMMA SwitchSound ==
    ASSUME Inv, NEW u \in Users \cup {NoUser}, SwitchUser(u)
    PROVE  IInv'
<1>1. CASE disposed
  <2>1. UNCHANGED << subscribed, disposed, queueVars, retryVars, history >>
    BY <1>1 DEF SwitchUser
  <2> QED BY <1>1, <2>1 DEF Inv, IInv, Phases, Budget, CallsCarryFailures, FlushAwaits,
          NothingForgotten, ErrorVisible, UsersApart, Running, RunningKeys,
          queueVars, retryVars, history
<1>2. CASE ~disposed /\ subscribed # NoUser
  <2>1. /\ user' = u /\ subscribed' = u /\ run' = run /\ disposed' = disposed
        /\ pending' = {} /\ rerun' = {} /\ failed' = {} /\ attempt' = 0 /\ retry' = FALSE
        /\ lastError' = NoError /\ dirty' = {} /\ covered' = {} /\ unsynced' = {} /\ owed' = {}
    BY <1>2 DEF SwitchUser, DiscardOldUser
  <2>2. Phases' /\ Budget' /\ CallsCarryFailures' /\ ErrorVisible'
    BY <2>1, OnSourceWriteAssumption DEF Phases, Budget, CallsCarryFailures, ErrorVisible,
       Inv, IInv, Running
  <2>3. FlushAwaits' /\ (covered \subseteq RunningKeys)' /\ NothingForgotten' /\ UsersApart'
    BY <2>1 DEF FlushAwaits, NothingForgotten, UsersApart, Inv, IInv
  <2> QED BY <2>2, <2>3 DEF IInv
<1>3. CASE ~disposed /\ subscribed = NoUser
  <2>1. user' = u /\ subscribed' = u /\ disposed' = disposed
        /\ UNCHANGED << queueVars, retryVars, history >>
    BY <1>3 DEF SwitchUser
  <2>2. pending = {} /\ rerun = {} /\ failed = {} /\ (run # NoRun => run.user # NoUser)
    BY <1>3, OnSourceWriteAssumption DEF Inv, IInv, UsersApart, KeysOfUser, CallsCarryFailures
  <2>3. unsynced = {} /\ covered = {}
    BY <1>3, <2>2 DEF Inv, IInv, CallsCarryFailures, RunningKeys, Running
  <2> QED BY <2>1, <2>2, <2>3 DEF Inv, IInv, Phases, Budget, CallsCarryFailures, FlushAwaits,
          NothingForgotten, ErrorVisible, UsersApart, Running, RunningKeys,
          queueVars, retryVars, history
<1> QED BY <1>1, <1>2, <1>3 DEF Inv, TypeOK

LEMMA NextSound == ASSUME Inv, [Next]_vars PROVE IInv'
<1>1. CASE Unsubscribe
  <2>1. /\ UNCHANGED << user, subscribed, pending, run, rerun, failed, attempt, lastError, history >>
        /\ retry' = FALSE /\ disposed' = TRUE
    BY <1>1 DEF Unsubscribe
  <2> QED BY <2>1 DEF Inv, IInv, Phases, Budget, CallsCarryFailures, FlushAwaits,
          NothingForgotten, ErrorVisible, UsersApart, Running, RunningKeys, history
<1>2. CASE UNCHANGED accounts
  BY <1>2 DEF accounts, Inv, IInv, Phases, Budget, CallsCarryFailures, FlushAwaits,
     NothingForgotten, ErrorVisible, UsersApart, Running, RunningKeys
<1>3. FlushReturns \/ UNCHANGED vars => UNCHANGED accounts
  BY DEF FlushReturns, vars, accounts, queueVars, retryVars, history
<1> QED BY <1>1, <1>2, <1>3, WriteSound, DispatchSound, RetrySound, SucceedSound,
           FailSound, FinallySound, SwitchSound DEF Next

LEMMA InitSound == Init => Inv
<1> SUFFICES ASSUME Init PROVE Inv
  OBVIOUS
<1>1. TypeOK
  <2>1. 0 \in 0 .. MaxAttempts
    BY OnSourceWriteAssumption
  <2> QED BY <2>1 DEF Init, TypeOK
<1>2. IInv
  BY OnSourceWriteAssumption DEF Init, IInv, Phases, Budget, CallsCarryFailures, FlushAwaits,
     NothingForgotten, ErrorVisible, UsersApart, Running, RunningKeys
<1> QED BY <1>1, <1>2 DEF Inv

-----------------------------------------------------------------------------
(* The inductive invariant of the reaction (runHandler, scheduleRetry,     *)
(* foldFailedKeysIntoNewWrite, ensureSubscribed and flush together).       *)
THEOREM ReactionInvariant == Spec => []Inv
<1>1. Inv /\ [Next]_vars => Inv'
  BY NextType, NextSound DEF Inv
<1> QED BY <1>1, InitSound, PTL DEF Spec

(* Types, and the retry budget: attempt never passes maxAttempts.          *)
THEOREM TypeCorrect == Spec => []TypeOK
BY ReactionInvariant, PTL DEF Inv

(* No written key is lost between the window, the rerun, the failed keys   *)
(* and the call in flight.                                                 *)
THEOREM KeysAreKept == Spec => []NothingForgotten
<1>1. Inv => NothingForgotten
  BY DEF Inv, IInv
<1> QED BY <1>1, ReactionInvariant, PTL

(* getLastError() is set exactly while failed keys are unresolved. *)
THEOREM FailuresAreVisible == Spec => []ErrorVisible
<1>1. Inv => ErrorVisible
  BY DEF Inv, IInv
<1> QED BY <1>1, ReactionInvariant, PTL

(* Nothing queued or in flight mixes the keys of two users. *)
THEOREM UsersStayApart == Spec => []UsersApart
<1>1. Inv => UsersApart
  BY DEF Inv, IInv
<1> QED BY <1>1, ReactionInvariant, PTL

(* flush() returns only when all it found queued has been attempted. *)
THEOREM FlushIsComplete == Spec => FlushAttemptsAll
<1>1. ASSUME Inv, [Next]_vars, flushing, ~flushing'
      PROVE  owed = {}
  <2>1. FlushReturns
    BY <1>1 DEF Next, Write, DebounceFires, RetryFires, Succeed, Fail, Finally, SwitchUser,
       Unsubscribe, Flush, vars
  <2> QED BY <1>1, <2>1 DEF FlushReturns, Idle, Inv, IInv, Phases, FlushAwaits,
          RunningKeys, Running
<1>2. Inv /\ [Next]_vars => [flushing /\ ~flushing' => owed = {}]_vars
  BY <1>1
<1> QED BY <1>2, ReactionInvariant, PTL DEF Spec, FlushAttemptsAll
=============================================================================
