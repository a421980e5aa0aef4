--------------------------- MODULE RetryClassify ---------------------------
(***************************************************************************)
(* The classification tables of s3verify's retry layer (retry.go, utils.go) *)
(* and the one conversion they are applied to: the error that net/http's    *)
(* Client.Do returns.                                                       *)
(*                                                                          *)
(* An error value is a record: its dynamic Go type, whether that type       *)
(* implements net.Error, and the set of phrases its Error() text contains  *)
(* (strings.Contains is membership of a phrase in that set).                *)
(***************************************************************************)
EXTENDS Naturals

\* TCPretry: the error texts that are retried when no type case matches.
TCPretry == {"i/o timeout", "net/http: TLS handshake timeout",
             "connection reset by peer", "read: operation timed out"}

\* retryableS3Codes: S3 error codes that are retried.
RetryableS3Codes == {"RequestError", "RequestTimeout", "Throttling",
                     "ThrottlingException", "RequestLimitExceeded",
                     "RequestThrottled", "InternalError", "ExpiredToken",
                     "ExpiredTokenException"}

\* retryableHTTPStatusCodes: HTTP statuses that are retried.
RetryableHTTPStatusCodes == {429, 500, 502, 503}

\* successStatus: statuses execRequest returns at once.
SuccessStatus == {200, 204, 206}

\* The concrete net error types listed in the inner type switch.
NetOpTypes == {"*net.DNSError", "*net.OpError", "net.UnknownNetworkError"}

\* isNetErrorRetryable: the outer switch admits only net.Error values; the
\* inner switch retries the three net types, a *url.Error only when its text
\* says the connection was closed, and any other net.Error whose text holds
\* one of TCPretry.  A *url.Error never reaches the TCPretry list.
IsNetErrorRetryable(e) ==
    /\ e.isNetError
    /\ \/ e.type \in NetOpTypes
       \/ /\ e.type = "*url.Error"
          /\ "Connection closed by foreign host" \in e.msg
       \/ /\ e.type \notin NetOpTypes \cup {"*url.Error"}
          /\ TCPretry \cap e.msg # {}

\* isS3CodeRetryable.
IsS3CodeRetryable(code) == code \in RetryableS3Codes

\* isHTTPStatusRetryable.
IsHTTPStatusRetryable(status) == status \in RetryableHTTPStatusCodes

\* Client.Do wraps every transport failure in a *url.Error whose text is
\* "<op> <url>: " followed by the inner error's text; since Go 1.6 *url.Error
\* implements net.Error.
ClientDoError(inner) ==
    [type |-> "*url.Error", isNetError |-> TRUE, msg |-> inner.msg]

=============================================================================
