----------------------------- MODULE RetryPolicy -----------------------------
(***************************************************************************)
(* What the RetryExecutor promises, as the spec's state machine (its       *)
(* section 4.5): Attempting(n) -> Success | Retry | Exhausted | Aborted.   *)
(* Attempts are numbered 1..MaxAttempts; a retry waits for the next index; *)
(* a request that cannot be built aborts the loop at once; running out of  *)
(* indices after MaxAttempts attempts is Exhausted.  No timer, channel,    *)
(* goroutine or body appears here: ExecRequest implements this module      *)
(* under a refinement mapping (ExecRequest's PolicySpec).                  *)
(***************************************************************************)
EXTENDS Naturals

CONSTANT MaxAttempts

VARIABLES
    phase,  \* "waiting" (for the next index) | "attempting" | a final outcome
    n       \* attempts started

avars == <<phase, n>>

Final == {"success", "aborted", "exhausted"}

Init ==
    /\ phase = "waiting"
    /\ n = 0

\* The backoff sequence yields the next index: attempt n + 1 is made.
StartAttempt ==
    /\ phase = "waiting"
    /\ n < MaxAttempts
    /\ phase' = "attempting"
    /\ n' = n + 1

\* The next index came but the request could not be built: abort at once.
ConstructionFails ==
    /\ phase = "waiting"
    /\ n < MaxAttempts
    /\ phase' = "aborted"
    /\ n' = n + 1

\* The attempt ends: a success status, a retryable failure, or anything else.
Succeed == phase = "attempting" /\ phase' = "success" /\ UNCHANGED n
Retry == phase = "attempting" /\ phase' = "waiting" /\ UNCHANGED n
Abort == phase = "attempting" /\ phase' = "aborted" /\ UNCHANGED n

\* The sequence yields no further index after MaxAttempts.
Exhaust ==
    /\ phase = "waiting"
    /\ n = MaxAttempts
    /\ phase' = "exhausted"
    /\ UNCHANGED n

Next ==
    \/ StartAttempt
    \/ ConstructionFails
    \/ Succeed
    \/ Retry
    \/ Abort
    \/ Exhaust

\* The safety part: what a step of the executor may do.
SafeSpec == Init /\ [][Next]_avars

\* A call is a single blocking operation that ends (the spec, section 5).
Spec == SafeSpec /\ WF_avars(Next)

=============================================================================
