---------------------------- MODULE ExecRequest ----------------------------
(***************************************************************************)
(* One call of ServerConfig.execRequest (s3verify/cmd/requests.go) and the *)
(* retry-timer goroutine it starts (newRetryTimer, s3verify/cmd/retry.go).  *)
(*                                                                          *)
(* Actors:                                                                  *)
(*   - the caller's goroutine running the attempt loop (pc);               *)
(*   - the timer goroutine (tpc), talking to it over the unbuffered        *)
(*     attemptCh (a rendezvous) and the 1-buffered doneCh;                 *)
(*   - net/http transport goroutines that write the request body (writers);*)
(*   - the server and the network, whose answer to each exchange is chosen *)
(*     nondeterministically;                                                *)
(*   - a clock of whole seconds (now), the resolution of X-Amz-Date.       *)
(***************************************************************************)
EXTENDS Naturals, Sequences, RetryClassify

CONSTANTS
    MaxRetry,        \* MaxRetry, the length of the attempt sequence
    Unit,            \* the backoff unit (time.Second) in clock ticks
    MaxNetDelay,     \* bound on the ticks one exchange may take
    Statuses,        \* HTTP statuses the server may answer with
    Codes,           \* S3 error codes the server may put in an error body
    InnerNetErrors   \* transport failures Client.Do may wrap

\* Beyond 33 retries unit * 2^(i-1) nanoseconds overflows int64; the code
\* fixes MaxRetry at 5.
ASSUME MaxRetryAssumption == MaxRetry \in 1..33
ASSUME UnitAssumption == Unit \in Nat
ASSUME NetDelayAssumption == MaxNetDelay \in Nat
ASSUME StatusAssumption == Statuses \subseteq Nat

VARIABLES
    pc,        \* attempt loop: "recv" | "inflight" | "returning" | "done"
    attempts,  \* attempt indices taken from attemptCh
    hasBody,   \* customReq.contentBody != nil (a bytes.Reader)
    urlOK,     \* makeTargetURL succeeds for the configured endpoint
    bodyPos,   \* offset of the shared body reader: "start" | "end"
    writers,   \* transport goroutines still reading the request body
    resp,      \* the resp variable: NoResp or [status, body]
    err,       \* the err variable
    outcome,   \* how the call left the loop
    signedAt,  \* X-Amz-Date of every request signed, in order
    elapsed,   \* ticks spent in the current exchange
    tpc,       \* timer goroutine: "send" | "wait" | "closed"
    ti,        \* its loop index i
    started,   \* when its current time.NewTimer was started
    doneCh,    \* values buffered in doneCh
    now        \* the clock

vars == <<pc, attempts, hasBody, urlOK, bodyPos, writers, resp, err, outcome,
          signedAt, elapsed, tpc, ti, started, doneCh, now>>

\* A nil *http.Response, and error values in RetryClassify's form.
NoResp == [status |-> 0, body |-> "none"]
NoErr == [type |-> "nil", isNetError |-> FALSE, msg |-> {}]
\* url.Parse of a bad endpoint fails with a *url.Error.
URLErr == [type |-> "*url.Error", isNetError |-> TRUE, msg |-> {"parse"}]
\* ioutil.ReadAll of an error body cut short.
ReadErr == [type |-> "*errors.errorString", isNetError |-> FALSE,
            msg |-> {"unexpected EOF"}]
Errs == {NoErr, URLErr, ReadErr} \cup {ClientDoError(e) : e \in InnerNetErrors}
Outcomes == {"none", "success", "aborted", "exhausted"}
Responses == [status : Statuses, body : {"unread", "consumed"}]

-----------------------------------------------------------------------------
(* The timer goroutine of newRetryTimer.                                   *)

\* time.Duration(1<<uint(n)) for an int n: a negative n converts to a uint
\* of at least 2^63, and a shift of an int64 by 64 or more yields 0.
Shl1(n) == IF n < 0 \/ n >= 64 THEN 0 ELSE 2^n

\* binomialWait, called with the loop index i (0 for the first wait).
BinomialWait(i) == Unit * Shl1(i - 1)

\* Mutant: doneCh made unbuffered.
DoneChCapUnbuffered == 0

\* make(chan struct{}, 1) for doneCh.
DoneChCap == 1

\* Mutant: the loop runs while i <= maxRetry.
TimerFiresLoopLE ==
    /\ tpc = "wait"
    /\ now - started >= BinomialWait(ti)
    /\ ti' = ti + 1
    /\ tpc' = IF ti + 1 <= MaxRetry THEN "send" ELSE "closed"
    /\ UNCHANGED <<pc, attempts, hasBody, urlOK, bodyPos, writers, resp, err,
                   outcome, signedAt, elapsed, started, doneCh, now>>

\* Mutant: the loop stops one index early (i < maxRetry-1).
TimerFiresShort ==
    /\ tpc = "wait"
    /\ now - started >= BinomialWait(ti)
    /\ ti' = ti + 1
    /\ tpc' = IF ti + 2 < MaxRetry THEN "send" ELSE "closed"
    /\ UNCHANGED <<pc, attempts, hasBody, urlOK, bodyPos, writers, resp, err,
                   outcome, signedAt, elapsed, started, doneCh, now>>

\* select: the timer fired; the for loop goes on or ends and closes attemptCh.
TimerFires ==
    /\ tpc = "wait"
    /\ now - started >= BinomialWait(ti)
    /\ ti' = ti + 1
    /\ tpc' = IF ti + 1 < MaxRetry THEN "send" ELSE "closed"
    /\ UNCHANGED <<pc, attempts, hasBody, urlOK, bodyPos, writers, resp, err,
                   outcome, signedAt, elapsed, started, doneCh, now>>

\* select: doneCh delivered; the goroutine returns and closes attemptCh.
DoneFires ==
    /\ tpc = "wait"
    /\ doneCh > 0
    /\ doneCh' = doneCh - 1
    /\ tpc' = "closed"
    /\ UNCHANGED <<pc, attempts, hasBody, urlOK, bodyPos, writers, resp, err,
                   outcome, signedAt, elapsed, ti, started, now>>

-----------------------------------------------------------------------------
(* The attempt loop of execRequest.                                        *)

\* A loop step that leaves execRequest: "return" fixes resp and err, then
\* the deferred send on doneCh runs (DeferDone).
Return(r, e, how) ==
    /\ pc' = "returning"
    /\ resp' = r
    /\ err' = e
    /\ outcome' = how

\* Mutant: a request that cannot be built is retried.
RecvRetryBadURL ==
    /\ pc = "recv"
    /\ tpc = "send"
    /\ attempts' = attempts + 1
    /\ tpc' = "wait"
    /\ started' = now
    /\ bodyPos' = "start"
    /\ IF urlOK
         THEN /\ pc' = "inflight"
              /\ signedAt' = Append(signedAt, now)
              /\ elapsed' = 0
              /\ writers' = IF hasBody THEN writers + 1 ELSE writers
              /\ err' = NoErr
              /\ UNCHANGED <<resp, outcome>>
         ELSE /\ err' = URLErr
              /\ UNCHANGED <<pc, resp, outcome, signedAt, elapsed, writers>>
    /\ UNCHANGED <<hasBody, urlOK, ti, doneCh, now>>

\* Mutant: the timer goroutine does not restart its timer when the loop
\* takes an index (time.NewTimer hoisted out of the for loop).
RecvKeepTimer ==
    /\ pc = "recv"
    /\ tpc = "send"
    /\ attempts' = attempts + 1
    /\ tpc' = "wait"
    /\ bodyPos' = "start"
    /\ IF urlOK
         THEN /\ pc' = "inflight"
              /\ signedAt' = Append(signedAt, now)
              /\ elapsed' = 0
              /\ writers' = IF hasBody THEN writers + 1 ELSE writers
              /\ err' = NoErr
              /\ UNCHANGED <<resp, outcome>>
         ELSE /\ Return(NoResp, URLErr, "aborted")
              /\ UNCHANGED <<signedAt, elapsed, writers>>
    /\ UNCHANGED <<hasBody, urlOK, ti, doneCh, now, started>>

\* for range attemptCh receives the next index (rendezvous with the timer
\* goroutine, which then starts its timer); the body is seeked back to 0;
\* newRequest builds the URL and signs with the current time; Client.Do
\* starts, a transport goroutine begins writing the body.
Recv ==
    /\ pc = "recv"
    /\ tpc = "send"
    /\ attempts' = attempts + 1
    /\ tpc' = "wait"
    /\ started' = now
    /\ bodyPos' = "start"
    /\ IF urlOK
         THEN /\ pc' = "inflight"
              /\ signedAt' = Append(signedAt, now)
              /\ elapsed' = 0
              /\ writers' = IF hasBody THEN writers + 1 ELSE writers
              /\ err' = NoErr
              /\ UNCHANGED <<resp, outcome>>
         ELSE /\ Return(NoResp, URLErr, "aborted")
              /\ UNCHANGED <<signedAt, elapsed, writers>>
    /\ UNCHANGED <<hasBody, urlOK, ti, doneCh, now>>

\* attemptCh was closed: the range loop ends and resp, err are returned.
RecvClosed ==
    /\ pc = "recv"
    /\ tpc = "closed"
    /\ Return(resp, err, "exhausted")
    /\ UNCHANGED <<attempts, hasBody, urlOK, bodyPos, writers, signedAt,
                   elapsed, tpc, ti, started, doneCh, now>>

\* Mutant: a permanent transport failure returns resp, nil.
NetFailureNilErr(e) ==
    /\ pc = "inflight"
    /\ IF IsNetErrorRetryable(ClientDoError(e))
         THEN /\ pc' = "recv"
              /\ resp' = NoResp
              /\ err' = ClientDoError(e)
              /\ UNCHANGED outcome
         ELSE Return(NoResp, NoErr, "aborted")
    /\ UNCHANGED <<attempts, hasBody, urlOK, bodyPos, writers, signedAt,
                   elapsed, tpc, ti, started, doneCh, now>>

\* Client.Do failed with the wrapped transport error e.
NetFailure(e) ==
    /\ pc = "inflight"
    /\ IF IsNetErrorRetryable(ClientDoError(e))
         THEN /\ pc' = "recv"
              /\ resp' = NoResp
              /\ err' = ClientDoError(e)
              /\ UNCHANGED outcome
         ELSE Return(NoResp, ClientDoError(e), "aborted")
    /\ UNCHANGED <<attempts, hasBody, urlOK, bodyPos, writers, signedAt,
                   elapsed, tpc, ti, started, doneCh, now>>

\* A response with status s and, when it is an error, S3 code c arrived.
\* Success returns at once.  Otherwise the body is read into a buffer and
\* decoded (httpRespToErrorResponse reads it to the end); a retryable code
\* or status loops with that consumed body in resp and the outer err still
\* nil; anything else rewinds the buffer and breaks.
Respond(s, c) ==
    /\ pc = "inflight"
    /\ IF s \in SuccessStatus
         THEN Return([status |-> s, body |-> "unread"], NoErr, "success")
         ELSE IF IsS3CodeRetryable(c) \/ IsHTTPStatusRetryable(s)
                THEN /\ pc' = "recv"
                     /\ resp' = [status |-> s, body |-> "consumed"]
                     /\ err' = NoErr
                     /\ UNCHANGED outcome
                ELSE Return([status |-> s, body |-> "unread"], NoErr, "aborted")
    /\ UNCHANGED <<attempts, hasBody, urlOK, bodyPos, writers, signedAt,
                   elapsed, tpc, ti, started, doneCh, now>>

\* An error response arrived but ioutil.ReadAll of its body failed.
ReadFailure(s) ==
    /\ pc = "inflight"
    /\ s \notin SuccessStatus
    /\ Return([status |-> s, body |-> "consumed"], ReadErr, "aborted")
    /\ UNCHANGED <<attempts, hasBody, urlOK, bodyPos, writers, signedAt,
                   elapsed, tpc, ti, started, doneCh, now>>

\* The deferred doneCh <- struct{}{} of execRequest.
DeferDone ==
    /\ pc = "returning"
    /\ doneCh < DoneChCap
    /\ doneCh' = doneCh + 1
    /\ pc' = "done"
    /\ UNCHANGED <<attempts, hasBody, urlOK, bodyPos, writers, resp, err,
                   outcome, signedAt, elapsed, tpc, ti, started, now>>

-----------------------------------------------------------------------------
(* The transport and the clock.                                            *)

\* A transport goroutine reads the shared body reader to its end.  Client.Do
\* may return before it has done so (the Body "may be closed asynchronously
\* after Do returns").
WriterRead ==
    /\ writers > 0
    /\ writers' = writers - 1
    /\ bodyPos' = "end"
    /\ UNCHANGED <<pc, attempts, hasBody, urlOK, resp, err, outcome, signedAt,
                   elapsed, tpc, ti, started, doneCh, now>>

\* One second passes while an exchange is in flight or a timer is running.
Tick ==
    /\ pc = "inflight" => elapsed < MaxNetDelay
    /\ \/ pc = "inflight"
       \/ tpc = "wait" /\ now - started < BinomialWait(ti)
    /\ now' = now + 1
    /\ elapsed' = IF pc = "inflight" THEN elapsed + 1 ELSE elapsed
    /\ UNCHANGED <<pc, attempts, hasBody, urlOK, bodyPos, writers, resp, err,
                   outcome, signedAt, tpc, ti, started, doneCh>>

-----------------------------------------------------------------------------

Init ==
    /\ pc = "recv"
    /\ attempts = 0
    /\ hasBody \in BOOLEAN
    /\ urlOK \in BOOLEAN
    /\ bodyPos = "start"
    /\ writers = 0
    /\ resp = NoResp
    /\ err = NoErr
    /\ outcome = "none"
    /\ signedAt = <<>>
    /\ elapsed = 0
    /\ tpc = IF 0 < MaxRetry THEN "send" ELSE "closed"
    /\ ti = 0
    /\ started = 0
    /\ doneCh = 0
    /\ now = 0

Next ==
    \/ Recv
    \/ RecvClosed
    \/ \E e \in InnerNetErrors : NetFailure(e)
    \/ \E s \in Statuses, c \in Codes : Respond(s, c)
    \/ \E s \in Statuses : ReadFailure(s)
    \/ DeferDone
    \/ TimerFires
    \/ DoneFires
    \/ WriterRead
    \/ Tick

\* Every goroutine that can run eventually runs, a network exchange ends
\* (Client.Do returns), a started timer fires, and time advances.
Fairness ==
    /\ WF_vars(Recv)
    /\ WF_vars(RecvClosed)
    /\ WF_vars(\E e \in InnerNetErrors : NetFailure(e))
    /\ WF_vars(\E s \in Statuses, c \in Codes : Respond(s, c))
    /\ WF_vars(DeferDone)
    /\ WF_vars(TimerFires)
    /\ WF_vars(DoneFires)
    /\ WF_vars(WriterRead)
    /\ WF_vars(Tick)

Spec == Init /\ [][Next]_vars /\ Fairness

-----------------------------------------------------------------------------
(* Refinement: the attempt loop seen as the spec's retry state machine.    *)
(* Waiting for an index is "waiting", an exchange in flight "attempting",  *)
(* and a call that left the loop (returning or returned) its outcome.      *)

PhaseOf ==
    CASE pc = "recv" -> "waiting"
      [] pc = "inflight" -> "attempting"
      [] pc \in {"returning", "done"} -> outcome

Policy == INSTANCE RetryPolicy WITH MaxAttempts <- MaxRetry, phase <- PhaseOf,
                                    n <- attempts

-----------------------------------------------------------------------------
(* Properties.                                                             *)

TypeOK ==
    /\ pc \in {"recv", "inflight", "returning", "done"}
    /\ attempts \in 0..MaxRetry
    /\ hasBody \in BOOLEAN
    /\ urlOK \in BOOLEAN
    /\ bodyPos \in {"start", "end"}
    /\ writers \in 0..MaxRetry
    /\ resp \in {NoResp} \cup Responses
    /\ err \in Errs
    /\ outcome \in Outcomes
    /\ signedAt \in Seq(Nat)
    /\ elapsed \in 0..MaxNetDelay
    /\ tpc \in {"send", "wait", "closed"}
    /\ ti \in 0..MaxRetry
    /\ started \in Nat
    /\ doneCh \in 0..DoneChCap
    /\ now \in Nat

\* When execRequest gives up because attemptCh was closed, it has made
\* exactly MaxRetry attempts: the timer goroutine's loop count and the
\* attempt loop agree, and no index was lost or added between them.
ExhaustedAfterMaxRetry == outcome = "exhausted" => attempts = MaxRetry

\* execRequest never returns a nil response together with a nil error:
\* every caller dereferences res as soon as err == nil.
ResultDefined == pc = "done" /\ resp = NoResp => err # NoErr

\* Every call of execRequest returns: the timer goroutine closes attemptCh
\* after the last index, and the deferred send on doneCh never blocks.
CallReturns == <>(pc = "done")

\* Once execRequest has returned, its timer goroutine exits
\* (the spec: the done signal stops the backoff generator).
GoroutineExits == <>(tpc = "closed")

\* A Client.Do failure caused by one of the transient TCP conditions listed
\* in TCPretry is retried while attempts remain.
TransientNetErrorRetried ==
    [][ /\ pc = "inflight"
        /\ err'.type = "*url.Error"
        /\ TCPretry \cap err'.msg # {}
        => pc' = "recv" ]_vars

\* When execRequest returns because its attempts ran out (attemptCh
\* closed after retries on a retryable code or status), the response it
\* returns has a body the caller can read from the start: the spec says a
\* retried error body is rewound so that it is still readable then. Calls
\* that end otherwise (a failed ioutil.ReadAll among them) are not claimed.
ReturnedBodyReadable ==
    outcome = "exhausted" /\ resp # NoResp => resp.body = "unread"

\* Every attempt is signed with a later X-Amz-Date than the one before it.
DistinctSigningTimes ==
    \A i, j \in DOMAIN signedAt : i < j => signedAt[i] < signedAt[j]

\* At most one transport goroutine reads the shared body reader at a time:
\* the Seek of a retry never races the write of the previous attempt.
NoConcurrentBodyReaders == writers <= 1

\* A retry is signed only once the backoff for its index has run out since
\* the previous attempt was signed: the timer goroutine, not the loop,
\* paces the attempts, whatever the exchanges and the clock do in between.
RetryAfterBackoff ==
    [][ Len(signedAt') > Len(signedAt) /\ Len(signedAt) > 0
        => now' - signedAt[Len(signedAt)] >= BinomialWait(Len(signedAt) - 1) ]_vars

\* execRequest implements the spec's retry state machine: attempts are
\* started one at a time with indices 1..MaxRetry, each ends in success,
\* a retry or an abort, a request that cannot be built aborts at once,
\* exhaustion comes exactly after MaxRetry attempts, and the call ends.
ImplementsRetryPolicy == Policy!Spec

=============================================================================
