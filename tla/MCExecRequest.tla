--------------------------- MODULE MCExecRequest ---------------------------
(* Model-checking instance of ExecRequest: three attempts instead of the   *)
(* code's five (the schedule 0, 1, 2 seconds already has the zero first    *)
(* wait and a wait longer than an exchange), exchanges of up to two       *)
(* seconds, one success, one plain error and one retryable status, one     *)
(* retryable and one permanent S3 code, and three transport failures.     *)
EXTENDS ExecRequestProofs

MCMaxRetry == 3
MCUnit == 1
MCMaxNetDelay == 2
MCStatuses == {200, 404, 503}
MCCodes == {"NoSuchKey", "InternalError"}
MCInnerNetErrors ==
    { [type |-> "*net.OpError", isNetError |-> TRUE,
       msg |-> {"connection reset by peer"}],
      [type |-> "*net.OpError", isNetError |-> TRUE,
       msg |-> {"Connection closed by foreign host"}],
      [type |-> "*net.DNSError", isNetError |-> TRUE,
       msg |-> {"no such host"}] }


\* The hypothesis of RetryAfterBackoffHolds, evaluated on this instance.
ASSUME BackoffsChecked == BackoffsNat
=============================================================================
