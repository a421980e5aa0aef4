------------------------- MODULE ExecRequestProofs -------------------------
(***************************************************************************)
(* Proofs about one call of execRequest, for every MaxRetry in 1..33, every *)
(* backoff unit, network delay bound and set of server answers.             *)
(*                                                                          *)
(* TypeOK, ExhaustedAfterMaxRetry and ResultDefined are not inductive on    *)
(* their own: a Recv step keeps attempts within MaxRetry only because the   *)
(* timer goroutine offers an index exactly when fewer than MaxRetry were    *)
(* taken.  IInv adds that agreement between the two goroutines (Synced),    *)
(* the fact that doneCh is only filled once the call has returned, and the  *)
(* value of resp and err while the loop waits for the next index.           *)
(***************************************************************************)
EXTENDS ExecRequest, TLAPS

\* The timer goroutine's index and the attempt loop's count agree; a
\* closed attemptCh seen by a live loop means all MaxRetry were taken.
Synced ==
    /\ tpc = "send" => attempts = ti /\ ti < MaxRetry
    /\ tpc = "wait" => attempts = ti + 1 /\ ti < MaxRetry
    /\ tpc = "closed" /\ pc # "done" => attempts = MaxRetry

\* Only the deferred send of a returned call fills doneCh.
DoneAfterReturn == doneCh > 0 => pc = "done"

\* At most one writer and one signature per attempt.
PerAttempt == writers <= attempts

\* Between attempts a nil response always comes with the error that made
\* the attempt fail.
LoopResult == pc = "recv" /\ attempts > 0 /\ resp = NoResp => err # NoErr

\* A returned call's result.
Returned == pc \in {"returning", "done"} /\ resp = NoResp => err # NoErr

IInv ==
    /\ TypeOK
    /\ Synced
    /\ DoneAfterReturn
    /\ PerAttempt
    /\ LoopResult
    /\ Returned
    /\ ExhaustedAfterMaxRetry

USE MaxRetryAssumption, NetDelayAssumption, StatusAssumption

\* The wrapped Client.Do errors are error values distinct from nil.
LEMMA ClientDoErrorNotNil ==
    ASSUME NEW e \in InnerNetErrors
    PROVE  /\ ClientDoError(e) \in Errs
           /\ ClientDoError(e) # NoErr
  BY DEF ClientDoError, Errs, NoErr

LEMMA InitIInv == Init => IInv
  BY DEF Init, IInv, TypeOK, Synced, DoneAfterReturn, PerAttempt, LoopResult,
         Returned, ExhaustedAfterMaxRetry, Errs, DoneChCap, Outcomes

LEMMA NextIInv == IInv /\ [Next]_vars => IInv'
  <1> SUFFICES ASSUME IInv, [Next]_vars PROVE IInv'
    OBVIOUS
  <1> USE DEF IInv, TypeOK, Synced, DoneAfterReturn, PerAttempt, LoopResult,
              Returned, ExhaustedAfterMaxRetry
  <1>1. CASE Recv
    <2>1. CASE urlOK
      <3>1. /\ pc = "recv" /\ tpc = "send"
            /\ pc' = "inflight" /\ tpc' = "wait" /\ err' = NoErr
            /\ attempts' = attempts + 1 /\ attempts < MaxRetry
            /\ writers' \in {writers, writers + 1}
            /\ signedAt' = Append(signedAt, now) /\ elapsed' = 0
            /\ started' = now /\ bodyPos' = "start"
            /\ UNCHANGED <<resp, outcome, hasBody, urlOK, ti, doneCh, now>>
        BY <1>1, <2>1 DEF Recv
      <3>2. TypeOK'
        BY <3>1 DEF Errs
      <3>3. Synced' /\ DoneAfterReturn'
        BY <3>1
      <3>4. PerAttempt' /\ LoopResult' /\ Returned' /\ ExhaustedAfterMaxRetry'
        BY <3>1
      <3>5. QED BY <3>2, <3>3, <3>4, Zenon
    <2>2. CASE ~urlOK
      <3>1. /\ pc = "recv" /\ tpc = "send"
            /\ pc' = "returning" /\ tpc' = "wait"
            /\ resp' = NoResp /\ err' = URLErr /\ outcome' = "aborted"
            /\ attempts' = attempts + 1 /\ attempts < MaxRetry
            /\ started' = now /\ bodyPos' = "start"
            /\ UNCHANGED <<signedAt, elapsed, writers, hasBody, urlOK, ti, doneCh, now>>
        BY <1>1, <2>2 DEF Recv, Return
      <3>2. URLErr \in Errs /\ URLErr # NoErr
        BY DEF Errs, URLErr, NoErr
      <3>3. TypeOK'
        BY <3>1, <3>2 DEF Outcomes
      <3>4. Synced' /\ DoneAfterReturn' /\ PerAttempt'
        BY <3>1
      <3>5. LoopResult' /\ Returned' /\ ExhaustedAfterMaxRetry'
        BY <3>1, <3>2
      <3>6. QED BY <3>3, <3>4, <3>5, Zenon
    <2>3. QED BY <2>1, <2>2
  <1>2. CASE RecvClosed
    BY <1>2 DEF RecvClosed, Return, Outcomes
  <1>3. ASSUME NEW e \in InnerNetErrors, NetFailure(e) PROVE IInv'
    <2>1. ClientDoError(e) \in Errs /\ ClientDoError(e) # NoErr
      BY ClientDoErrorNotNil
    <2>2. QED BY <1>3, <2>1 DEF NetFailure, Return, Outcomes
  <1>4. ASSUME NEW s \in Statuses, NEW c \in Codes, Respond(s, c) PROVE IInv'
    <2>1. /\ [status |-> s, body |-> "unread"] \in Responses
          /\ [status |-> s, body |-> "consumed"] \in Responses
          /\ [status |-> s, body |-> "unread"] # NoResp
          /\ [status |-> s, body |-> "consumed"] # NoResp
      BY DEF Responses, NoResp
    <2>2. NoErr \in Errs
      BY DEF Errs
    <2>3. QED BY <1>4, <2>1, <2>2 DEF Respond, Return, Outcomes
  <1>5. ASSUME NEW s \in Statuses, ReadFailure(s) PROVE IInv'
    <2>1. /\ [status |-> s, body |-> "consumed"] \in Responses
          /\ [status |-> s, body |-> "consumed"] # NoResp
      BY DEF Responses, NoResp
    <2>2. ReadErr \in Errs
      BY DEF Errs
    <2>3. QED BY <1>5, <2>1, <2>2 DEF ReadFailure, Return, Outcomes
  <1>6. CASE DeferDone
    BY <1>6 DEF DeferDone, DoneChCap
  <1>7. CASE TimerFires
    BY <1>7 DEF TimerFires
  <1>8. CASE DoneFires
    BY <1>8 DEF DoneFires, DoneChCap
  <1>9. CASE WriterRead
    BY <1>9 DEF WriterRead
  <1>10. CASE Tick
    BY <1>10 DEF Tick
  <1>11. CASE UNCHANGED vars
    BY <1>11 DEF vars
  <1>12. QED
    BY <1>1, <1>2, <1>3, <1>4, <1>5, <1>6, <1>7, <1>8, <1>9, <1>10, <1>11
       DEF Next

LEMMA IInvInvariant == Spec => []IInv
  BY InitIInv, NextIInv, PTL DEF Spec

\* Every variable of a call stays within its type, for every MaxRetry in
\* 1..33: in particular the attempt loop never takes more than MaxRetry
\* indices from the timer goroutine.
THEOREM TypeCorrect == Spec => []TypeOK
  BY IInvInvariant, PTL DEF IInv

\* A call that runs out of attempts has made exactly MaxRetry of them.
THEOREM ExhaustedAfterMaxRetryHolds == Spec => []ExhaustedAfterMaxRetry
  BY IInvInvariant, PTL DEF IInv

\* A returned call never has both a nil response and a nil error.
THEOREM ResultDefinedHolds == Spec => []ResultDefined
  <1>1. IInv => ResultDefined
    BY DEF IInv, Returned, ResultDefined
  <1>2. QED BY IInvInvariant, <1>1, PTL

-----------------------------------------------------------------------------
(* Refinement of the spec's retry state machine (RetryPolicy), safety part. *)

LEMMA InitRefines == Init => Policy!Init
  BY DEF Init, Policy!Init, PhaseOf

\* Every step of the loop, the timer goroutine, the transport or the clock
\* is a step of RetryPolicy or leaves its phase and count unchanged.
LEMMA NextRefines == IInv /\ [Next]_vars => [Policy!Next]_Policy!avars
  <1> SUFFICES ASSUME IInv, [Next]_vars PROVE [Policy!Next]_Policy!avars
    OBVIOUS
  <1> USE DEF IInv, TypeOK, Synced
  <1>1. CASE Recv
    <2>1. attempts < MaxRetry /\ attempts' = attempts + 1 /\ PhaseOf = "waiting"
      BY <1>1 DEF Recv, PhaseOf
    <2>2. CASE urlOK
      <3>1. PhaseOf' = "attempting"
        BY <1>1, <2>2 DEF Recv, PhaseOf
      <3>2. QED BY <2>1, <3>1 DEF Policy!Next, Policy!StartAttempt
    <2>3. CASE ~urlOK
      <3>1. PhaseOf' = "aborted"
        BY <1>1, <2>3 DEF Recv, Return, PhaseOf
      <3>2. QED BY <2>1, <3>1 DEF Policy!Next, Policy!ConstructionFails
    <2>4. QED BY <2>2, <2>3
  <1>2. CASE RecvClosed
    <2>1. attempts = MaxRetry /\ attempts' = attempts
      BY <1>2 DEF RecvClosed
    <2>2. PhaseOf = "waiting" /\ PhaseOf' = "exhausted"
      BY <1>2 DEF RecvClosed, Return, PhaseOf
    <2>3. QED BY <2>1, <2>2 DEF Policy!Next, Policy!Exhaust
  <1>3. ASSUME NEW e \in InnerNetErrors, NetFailure(e)
        PROVE  [Policy!Next]_Policy!avars
    <2>1. PhaseOf = "attempting" /\ attempts' = attempts
      BY <1>3 DEF NetFailure, PhaseOf
    <2>2. PhaseOf' \in {"waiting", "aborted"}
      BY <1>3 DEF NetFailure, Return, PhaseOf
    <2>3. QED BY <2>1, <2>2 DEF Policy!Next, Policy!Retry, Policy!Abort
  <1>4. ASSUME NEW st \in Statuses, NEW c \in Codes, Respond(st, c)
        PROVE  [Policy!Next]_Policy!avars
    <2>1. PhaseOf = "attempting" /\ attempts' = attempts
      BY <1>4 DEF Respond, PhaseOf
    <2>2. PhaseOf' \in {"success", "waiting", "aborted"}
      BY <1>4 DEF Respond, Return, PhaseOf
    <2>3. QED BY <2>1, <2>2 DEF Policy!Next, Policy!Succeed, Policy!Retry, Policy!Abort
  <1>5. ASSUME NEW st \in Statuses, ReadFailure(st)
        PROVE  [Policy!Next]_Policy!avars
    <2>1. PhaseOf = "attempting" /\ attempts' = attempts /\ PhaseOf' = "aborted"
      BY <1>5 DEF ReadFailure, Return, PhaseOf
    <2>2. QED BY <2>1 DEF Policy!Next, Policy!Abort
  <1>6. CASE DeferDone
    BY <1>6 DEF DeferDone, PhaseOf, Policy!avars
  <1>7. CASE TimerFires \/ DoneFires \/ WriterRead \/ Tick
    BY <1>7 DEF TimerFires, DoneFires, WriterRead, Tick, PhaseOf, Policy!avars
  <1>8. CASE UNCHANGED vars
    BY <1>8 DEF vars, PhaseOf, Policy!avars
  <1>9. QED
    BY <1>1, <1>2, <1>3, <1>4, <1>5, <1>6, <1>7, <1>8 DEF Next

\* The attempt loop and its timer goroutine, for every MaxRetry in 1..33,
\* implement the safety part of the spec's retry state machine: indices
\* 1..MaxRetry are used one at a time, every attempt ends in success, a
\* retry or an abort, a request that cannot be built aborts at once, and
\* exhaustion comes exactly after MaxRetry attempts.
THEOREM RefinesRetryPolicy == Spec => Policy!SafeSpec
  <1>1. Init => Policy!Init
    BY InitRefines
  <1>2. IInv /\ [Next]_vars => [Policy!Next]_Policy!avars
    BY NextRefines
  <1>3. QED BY <1>1, <1>2, IInvInvariant, PTL DEF Spec, Policy!SafeSpec

-----------------------------------------------------------------------------
(* Pacing of the attempts by the timer goroutine.                          *)

\* Every backoff is a whole number of ticks: Unit * 2^k or 0.  (The
\* provers do not evaluate 2^k; TLC checks this on every instance.)
BackoffsNat == \A i \in 0..MaxRetry : BinomialWait(i) \in Nat

\* One signature per attempt of a buildable request; while its timer runs
\* the timer goroutine measures from the last signature, and once it
\* offers the next index, that attempt's backoff has run out.
Paced ==
    /\ urlOK => Len(signedAt) = attempts
    /\ ~urlOK => signedAt = <<>>
    /\ urlOK /\ tpc = "wait" => started = signedAt[attempts]
    /\ urlOK /\ tpc = "send" /\ attempts > 0 =>
         now - signedAt[attempts] >= BinomialWait(attempts - 1)

LEMMA InitPaced == Init => Paced
  BY DEF Init, Paced

\* Only the loop's Recv signs and only the timer goroutine's TimerFires
\* offers an index; every other step leaves the pacing alone or only lets
\* time pass.
LEMMA NextPaced ==
    ASSUME BackoffsNat
    PROVE  IInv /\ Paced /\ [Next]_vars => Paced'
  <1> SUFFICES ASSUME IInv, Paced, [Next]_vars PROVE Paced'
    OBVIOUS
  <1> USE DEF IInv, TypeOK, Synced
  <1>1. CASE Recv
    <2>1. CASE urlOK
      <3>1. /\ attempts' = attempts + 1 /\ tpc' = "wait" /\ started' = now
            /\ signedAt' = Append(signedAt, now) /\ UNCHANGED urlOK
        BY <1>1, <2>1 DEF Recv
      <3>2. Len(signedAt') = attempts' /\ signedAt'[attempts'] = now
        BY <2>1, <3>1 DEF Paced
      <3>3. QED BY <2>1, <3>1, <3>2 DEF Paced
    <2>2. CASE ~urlOK
      BY <1>1, <2>2 DEF Recv, Return, Paced
    <2>3. QED BY <2>1, <2>2
  <1>2. CASE TimerFires
    <2>1. CASE tpc' = "send" /\ urlOK
      <3>1. /\ tpc = "wait" /\ attempts = ti + 1
            /\ now - started >= BinomialWait(ti)
            /\ UNCHANGED <<attempts, signedAt, started, now, urlOK>>
        BY <1>2 DEF TimerFires
      <3>2. started = signedAt[attempts] /\ attempts - 1 = ti
        BY <2>1, <3>1 DEF Paced
      <3>3. QED BY <2>1, <3>1, <3>2 DEF Paced
    <2>2. CASE ~(tpc' = "send" /\ urlOK)
      BY <1>2, <2>2 DEF TimerFires, Paced
    <2>3. QED BY <2>1, <2>2
  <1>3. CASE Tick
    <2>1. /\ now' = now + 1
          /\ UNCHANGED <<attempts, signedAt, started, tpc, urlOK>>
      BY <1>3 DEF Tick
    <2>2. CASE urlOK /\ tpc = "send" /\ attempts > 0
      <3>1. BinomialWait(attempts - 1) \in Nat
        BY <2>2 DEF BackoffsNat
      <3>2. signedAt[attempts] \in Nat
        BY <2>2 DEF Paced
      <3>3. QED BY <2>1, <2>2, <3>1, <3>2 DEF Paced
    <2>3. CASE ~(urlOK /\ tpc = "send" /\ attempts > 0)
      BY <2>1, <2>3 DEF Paced
    <2>4. QED BY <2>2, <2>3
  <1>4. CASE DoneFires
    BY <1>4 DEF DoneFires, Paced
  <1>5. CASE RecvClosed \/ DeferDone \/ WriterRead
    BY <1>5 DEF RecvClosed, DeferDone, WriterRead, Return, Paced
  <1>6. ASSUME NEW e \in InnerNetErrors, NetFailure(e) PROVE Paced'
    BY <1>6 DEF NetFailure, Return, Paced
  <1>7. ASSUME NEW st \in Statuses, NEW c \in Codes, Respond(st, c) PROVE Paced'
    BY <1>7 DEF Respond, Return, Paced
  <1>8. ASSUME NEW st \in Statuses, ReadFailure(st) PROVE Paced'
    BY <1>8 DEF ReadFailure, Return, Paced
  <1>9. CASE UNCHANGED vars
    BY <1>9 DEF vars, Paced
  <1>10. QED
    BY <1>1, <1>2, <1>3, <1>4, <1>5, <1>6, <1>7, <1>8, <1>9 DEF Next

\* A step that signs a request is a Recv of a buildable request, taken
\* when the timer goroutine offered the index.
LEMMA SignOnlyOnRecv ==
    ASSUME IInv, [Next]_vars, Len(signedAt') > Len(signedAt)
    PROVE  Recv /\ urlOK
  <1> USE DEF IInv, TypeOK
  <1>1. ~(RecvClosed \/ DeferDone \/ WriterRead \/ TimerFires \/ DoneFires \/ Tick)
    BY DEF RecvClosed, DeferDone, WriterRead, TimerFires, DoneFires, Tick
  <1>2. \A e \in InnerNetErrors : ~NetFailure(e)
    BY DEF NetFailure
  <1>3. \A st \in Statuses, c \in Codes : ~Respond(st, c)
    BY DEF Respond
  <1>4. \A st \in Statuses : ~ReadFailure(st)
    BY DEF ReadFailure
  <1>5. ~UNCHANGED vars
    BY DEF vars
  <1>6. Recv
    BY <1>1, <1>2, <1>3, <1>4, <1>5 DEF Next
  <1>7. urlOK
    BY <1>6 DEF Recv, Return
  <1>8. QED BY <1>6, <1>7

\* For every MaxRetry in 1..33 and every backoff unit: the attempt loop
\* signs a retry only once newRetryTimer's wait for its index has run out
\* since the previous attempt was signed, however the exchanges, the
\* server's answers and the clock interleave.
THEOREM RetryAfterBackoffHolds ==
    ASSUME BackoffsNat
    PROVE  Spec => RetryAfterBackoff
  <1>1. Init => IInv /\ Paced
    BY InitIInv, InitPaced
  <1>2. IInv /\ Paced /\ [Next]_vars => (IInv /\ Paced)'
    BY NextIInv, NextPaced
  <1>3. IInv /\ Paced /\ [Next]_vars =>
          [ Len(signedAt') > Len(signedAt) /\ Len(signedAt) > 0
            => now' - signedAt[Len(signedAt)] >= BinomialWait(Len(signedAt) - 1) ]_vars
    <2> SUFFICES ASSUME IInv, Paced, [Next]_vars,
                        Len(signedAt') > Len(signedAt), Len(signedAt) > 0
                 PROVE  now' - signedAt[Len(signedAt)] >= BinomialWait(Len(signedAt) - 1)
      OBVIOUS
    <2>1. Recv /\ urlOK
      BY SignOnlyOnRecv
    <2>2. tpc = "send" /\ now' = now
      BY <2>1 DEF Recv
    <2>3. Len(signedAt) = attempts
      BY <2>1 DEF Paced
    <2>4. QED BY <2>1, <2>2, <2>3 DEF Paced
  <1>4. QED BY <1>1, <1>2, <1>3, PTL DEF Spec, RetryAfterBackoff

=============================================================================
