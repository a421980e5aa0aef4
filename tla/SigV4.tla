-------------------------------- MODULE SigV4 --------------------------------
(***************************************************************************)
(* Header-based AWS Signature V4 of minio-service-broker/auth/v4.go: the   *)
(* canonical request, the signing-key chain, CredentialsV4.Sign on the     *)
(* client and CredentialsV4.IsSigned in the agent's handler, with the      *)
(* network between them controlled by an attacker who replays and edits    *)
(* requests but holds no secret key.                                       *)
(*                                                                          *)
(* Data abstractions:                                                       *)
(*   - SHA-256, HMAC-SHA256 and hex encoding are injective constructors    *)
(*     (no collisions), so equal signatures mean equal inputs;             *)
(*   - a header value is <<word, padded>>: padded means it carries leading  *)
(*     or trailing blanks, which the server's header parser trims;         *)
(*   - a comma-joined value list is kept as the list (no word holds a       *)
(*     comma), a sorted ';'-joined name list as the set of names;          *)
(*   - a path is a sequence of characters and its encoding the sequence of *)
(*     per-rune encodings (UTF-8 is prefix-free, so nothing is lost);      *)
(*   - an X-Amz-Date value is a formatted clock second, an Authorization    *)
(*     value a record, or one of two malformed texts.                      *)
(***************************************************************************)
EXTENDS Integers, Sequences

CONSTANTS
    AgentCreds,   \* the CredentialsV4 the agent verifies with
    Creds,        \* the credentials clients sign with (AgentCreds among them)
    Requests,     \* unsigned client requests [method, path, query, host, hdr]
    Methods,      \* methods the attacker may put on a request
    Paths,        \* paths the attacker may put on a request
    Queries,      \* queries the attacker may put on a request
    Hosts,        \* hosts the attacker may put on a request
    ForgedValues, \* header value lists the attacker may set
    MaxTime,      \* last clock second explored
    DayLength,    \* seconds per day of the scope date
    MaxSigned     \* bound on the requests clients sign

ASSUME CredsAssumption ==
    /\ Creds \subseteq [access : STRING, secret : STRING, region : STRING]
    /\ AgentCreds \in Creds
\* A query is a url.Values as URL.Query() parses it: no key without a value.
ASSUME QueryAssumption ==
    \A q \in Queries \cup {r.query : r \in Requests} :
        /\ q = [k \in DOMAIN q |-> q[k]]
        /\ \A k \in DOMAIN q : q[k] # <<>>
ASSUME TimeAssumption == MaxTime \in Nat /\ DayLength \in Nat \ {0}
ASSUME SignedAssumption == MaxSigned \in Nat

VARIABLES
    now,       \* the clock, in seconds
    signed,    \* every request a client signed: its creds and signed form
    nsigned,   \* how many Sign calls were made
    inflight,  \* the request the agent is about to serve (or has served)
    verdict    \* the agent's answer to it: "none" | "accepted" | "forbidden" | "panic"

vars == <<now, signed, nsigned, inflight, verdict>>

-----------------------------------------------------------------------------
(* Constants of v4.go and of the encodings it relies on.                   *)

SignV4Algorithm == "AWS4-HMAC-SHA256"
UnsignedPayload == "UNSIGNED-PAYLOAD"
EmptySHA256 == "e3b0c44298fc1c149afbf4c8996fb92427ae41e4649b934ca495991b7852b855"
\* The texts Sign writes into a request are strings.
ASSUME LiteralsAssumption == {SignV4Algorithm, UnsignedPayload, ""} \subseteq STRING

\* The header names the model uses, in Go's canonical MIME form, and the
\* lower-case forms signedHeaders produces.
HdrNames == {"Host", "X-Amz-Date", "X-Amz-Content-Sha256", "Content-Type",
             "X-Amz-Meta-Key"}
LowerName == [n \in HdrNames |->
                CASE n = "Host" -> "host"
                  [] n = "X-Amz-Date" -> "x-amz-date"
                  [] n = "X-Amz-Content-Sha256" -> "x-amz-content-sha256"
                  [] n = "Content-Type" -> "content-type"
                  [] n = "X-Amz-Meta-Key" -> "x-amz-meta-key"]
\* textproto.CanonicalMIMEHeaderKey on a lower-case name.
CanonicalKey == [ln \in {LowerName[n] : n \in HdrNames} |->
                   CASE ln = "host" -> "Host"
                     [] ln = "x-amz-date" -> "X-Amz-Date"
                     [] ln = "x-amz-content-sha256" -> "X-Amz-Content-Sha256"
                     [] ln = "content-type" -> "Content-Type"
                     [] ln = "x-amz-meta-key" -> "X-Amz-Meta-Key"]

\* ignoredHeaders.
IgnoredHeaders == {"authorization", "content-type", "content-length", "user-agent"}

\* Header values: a text or a formatted date, and whether blanks surround it.
HValues == ([text : STRING] \cup [date : Int]) \X BOOLEAN
\* Header maps are http.Header values over the model's names.
ASSUME RequestsAssumption ==
    \A r \in Requests : /\ r.host \in STRING
                        /\ DOMAIN r.hdr \subseteq HdrNames
                        /\ \A n \in DOMAIN r.hdr : r.hdr[n] \in Seq(HValues)
ASSUME ForgedAssumption == ForgedValues \subseteq Seq(HValues)

\* A header value whose text is word; "" is what Header.Get returns for a
\* missing header.
Value(word) == <<[text |-> word], FALSE>>
EmptyValue == Value("")
\* The server's header parser drops leading and trailing blanks.
TrimValue(v) == <<v[1], FALSE>>
TrimAll(vs) == [i \in DOMAIN vs |-> TrimValue(vs[i])]

\* time.Time.Format(DateFormat) and time.Parse(DateFormat, ...): a clock
\* second formats to its text; text that is not one parses to the zero time,
\* year 1, which lies before every second of the clock.
ZeroTime == -1
FormatDate(t) == <<[date |-> t], FALSE>>
ParseDate(v) == IF "date" \in DOMAIN v[1] /\ ~v[2] THEN v[1].date ELSE ZeroTime
\* date.Format(yyyymmdd).
Day(t) == t \div DayLength

\* crypto/sha256, crypto/hmac and encoding/hex as injective constructors.
Sum256(data) == [sha256 |-> data]
SumHMAC(key, data) == [hmacKey |-> key, hmacData |-> data]
Hex(bytes) == [hex |-> bytes]

-----------------------------------------------------------------------------
(* encodePath: unreserved characters are kept, every other rune becomes    *)
(* %XX per byte of its UTF-8 form; range over a string decodes an invalid  *)
(* byte as utf8.RuneError (U+FFFD), so the len < 0 branch is never taken.  *)

UnreservedChars == {"a", "b", "Z", "0", "-", "_", ".", "~", "/"}
EncodedRunes == {"U+0020", "U+00E9", "U+FFFD"}
UTF8Bytes == [r \in EncodedRunes |->
                CASE r = "U+0020" -> <<"20">>
                  [] r = "U+00E9" -> <<"C3", "A9">>
                  [] r = "U+FFFD" -> <<"EF", "BF", "BD">>]
InvalidBytes == {"0xFF", "0xC3"}
Rune(ch) == IF ch \in InvalidBytes THEN "U+FFFD" ELSE ch
EncodeRune(r) ==
    IF r \in UnreservedChars THEN <<[char |-> r]>>
    ELSE [i \in DOMAIN UTF8Bytes[r] |-> [pct |-> UTF8Bytes[r][i]]]
EncodePath(path) == [i \in DOMAIN path |-> EncodeRune(Rune(path[i]))]

\* sortQuery(r.URL.Query().Encode()): url.Values re-encoded with sorted
\* keys; a key with no values is not written, so it is not parsed back.
SortQuery(q) == [k \in {k \in DOMAIN q : q[k] # <<>>} |-> q[k]]

-----------------------------------------------------------------------------
(* http.Header operations.                                                  *)

\* Header.Get: the first value, or "".
Get(h, n) == IF n \in DOMAIN h /\ h[n] # <<>> THEN h[n][1] ELSE EmptyValue
\* Header.Set: replaces every value of n with v.
SetHeader(h, n, v) == [x \in DOMAIN h \cup {n} |-> IF x = n THEN <<v>> ELSE h[x]]
NoHeader == [x \in {} |-> <<>>]

\* Mutant: signedHeaders keeps the ignored headers.
SignedHeaderNamesAll(h) == {LowerName[n] : n \in DOMAIN h}

\* signedHeaders: the lower-cased keys of the map not in ignoredHeaders,
\* sorted (kept as a set; the order is then fixed).
SignedHeaderNames(h) ==
    {LowerName[n] : n \in {n \in DOMAIN h : LowerName[n] \notin IgnoredHeaders}}

\* getCanonicalHeaders: each signed name with all its values.
CanonicalHeaders(h) ==
    [ln \in SignedHeaderNames(h) |-> h[CanonicalKey[ln]]]

\* getHashedPayload.
HashedPayload(h) ==
    IF Get(h, "X-Amz-Content-Sha256") = EmptyValue
      THEN Value(EmptySHA256) ELSE Get(h, "X-Amz-Content-Sha256")

\* getCanonicalRequest.
CanonicalRequest(method, uri, query, h) ==
    [method |-> method, uri |-> uri, query |-> SortQuery(query),
     headers |-> CanonicalHeaders(h), signedHeaders |-> SignedHeaderNames(h),
     payload |-> HashedPayload(h)]

\* getScope, getCredential, getSigningKey, getSignature.
Scope(region, date) == <<Day(date), region, "s3", "aws4_request">>
Credential(access, region, date) == <<access, Scope(region, date)>>
SigningKey(secret, region, date) ==
    LET dateKey == SumHMAC(<<"AWS4", secret>>, Day(date))
        dateRegionKey == SumHMAC(dateKey, region)
        dateRegionServiceKey == SumHMAC(dateRegionKey, "s3")
    IN  SumHMAC(dateRegionServiceKey, "aws4_request")
Signature(key, stringToSign) == Hex(SumHMAC(key, stringToSign))

\* Mutant: getCanonicalHeaders writes the names without their values.
AuthzNoHeaderValues(c, method, uri, query, h) ==
    LET date == ParseDate(Get(h, "X-Amz-Date"))
        creq == [CanonicalRequest(method, uri, query, h) EXCEPT
                   !.headers = SignedHeaderNames(h)]
        stringToSign == <<SignV4Algorithm, FormatDate(date),
                          Scope(c.region, date), Hex(Sum256(creq))>>
    IN  [credential |-> Credential(c.access, c.region, date),
         signedHeaders |-> SignedHeaderNames(h),
         signature |-> Signature(SigningKey(c.secret, c.region, date), stringToSign)]

\* CredentialsV4.authz: the Authorization value for the request, dated by
\* its own X-Amz-Date header.
Authz(c, method, uri, query, h) ==
    LET date == ParseDate(Get(h, "X-Amz-Date"))
        creq == CanonicalRequest(method, uri, query, h)
        stringToSign == <<SignV4Algorithm, FormatDate(date),
                          Scope(c.region, date), Hex(Sum256(creq))>>
    IN  [credential |-> Credential(c.access, c.region, date),
         signedHeaders |-> SignedHeaderNames(h),
         signature |-> Signature(SigningKey(c.secret, c.region, date), stringToSign)]

-----------------------------------------------------------------------------
(* Sign on the client, the wire, and IsSigned in the agent.                *)

\* CredentialsV4.Sign at time t: sets X-Amz-Date, Host and
\* X-Amz-Content-Sha256, then the Authorization header.
Sign(c, r, t) ==
    LET h == SetHeader(SetHeader(SetHeader(r.hdr, "X-Amz-Date", FormatDate(t)),
                                 "Host", Value(r.host)),
                       "X-Amz-Content-Sha256", Value(UnsignedPayload))
    IN  [method |-> r.method, path |-> r.path, query |-> r.query,
         host |-> r.host, hdr |-> h,
         authz |-> Authz(c, r.method, EncodePath(r.path), r.query, h)]

\* What the agent's net/http server sees of a client request: r.Host comes
\* from the request line, the Host header is not kept in r.Header, each
\* value line is trimmed and a header set to several values arrives as
\* several lines.
Wire(r) ==
    [method |-> r.method, path |-> r.path, query |-> r.query, host |-> r.host,
     hdr |-> [n \in DOMAIN r.hdr \ {"Host"} |-> TrimAll(r.hdr[n])],
     authz |-> r.authz]

\* Authorization texts that are not of Sign's form: fewer than three
\* space-separated fields (or no header), and a third field without "=".
ShortAuthz == [malformed |-> "AWS4-HMAC-SHA256"]
NoEqualsAuthz == [malformed |-> "AWS4-HMAC-SHA256 Credential=x, SignedHeaders"]

\* Mutant: the Host of the request is not added to the verified headers.
RequestSignedHeadersNoHost(r) ==
    IF r.authz = ShortAuthz THEN NoHeader
    ELSE [n \in {CanonicalKey[ln] : ln \in r.authz.signedHeaders} |->
            <<Get(r.hdr, n)>>]

\* getRequestSignedHeaders: a short Authorization gives an empty header;
\* otherwise each declared name is set to the request's first value of it,
\* and Host to r.Host.  (A third field without "=" panics: ParsePanics.)
RequestSignedHeaders(r) ==
    IF r.authz = ShortAuthz THEN NoHeader
    ELSE SetHeader([n \in {CanonicalKey[ln] : ln \in r.authz.signedHeaders} |->
                      <<Get(r.hdr, n)>>],
                   "Host", Value(r.host))

\* signedHeadersList[1] on a list of one element: index out of range.
ParsePanics(r) == r.authz = NoEqualsAuthz

\* CredentialsV4.IsSigned.
IsSigned(c, r) ==
    r.authz = Authz(c, r.method, EncodePath(r.path), r.query,
                    RequestSignedHeaders(r))

\* The agent's handler: 403 unless IsSigned; a panic in IsSigned is
\* recovered by net/http, which closes the connection.
Outcome(r) ==
    IF ParsePanics(r) THEN "panic"
    ELSE IF IsSigned(AgentCreds, r) THEN "accepted" ELSE "forbidden"

-----------------------------------------------------------------------------
(* The client, the attacker on the network, and the agent.                 *)

NoRequest == [method |-> "none"]

\* The broker signs request r with credentials c and sends it.
ClientSign(c, r) ==
    /\ nsigned < MaxSigned
    /\ LET s == Sign(c, r, now)
       IN  /\ signed' = signed \cup {[creds |-> c, req |-> s]}
           /\ inflight' = Wire(s)
    /\ nsigned' = nsigned + 1
    /\ verdict' = "none"
    /\ UNCHANGED now

\* The attacker sends again a request it has seen.
Replay(s) ==
    /\ inflight' = Wire(s.req)
    /\ verdict' = "none"
    /\ UNCHANGED <<now, signed, nsigned>>

\* The values the attacker may give to a header it edits; a value it sends
\* reaches the agent trimmed like any other.
AttackValues(n) ==
    CASE n = "X-Amz-Date" -> {<<FormatDate(t)>> : t \in 0..MaxTime}
      [] n = "X-Amz-Content-Sha256" -> {<<Value(UnsignedPayload)>>}
      [] n = "X-Amz-Meta-Key" -> ForgedValues
AttackHeaders == {"X-Amz-Date", "X-Amz-Content-Sha256", "X-Amz-Meta-Key"}

\* The attacker edits one part of the request in flight.
Tamper ==
    /\ inflight # NoRequest
    /\ \/ \E m \in Methods : inflight' = [inflight EXCEPT !.method = m]
       \/ \E p \in Paths : inflight' = [inflight EXCEPT !.path = p]
       \/ \E q \in Queries : inflight' = [inflight EXCEPT !.query = q]
       \/ \E x \in Hosts : inflight' = [inflight EXCEPT !.host = x]
       \/ \E n \in AttackHeaders :
            \/ \E v \in AttackValues(n) :
                 inflight' = [inflight EXCEPT !.hdr =
                                [x \in DOMAIN @ \cup {n} |->
                                   IF x = n THEN TrimAll(v) ELSE @[x]]]
            \/ inflight' = [inflight EXCEPT !.hdr =
                              [x \in DOMAIN @ \ {n} |-> @[x]]]
       \/ \E a \in {s.req.authz : s \in signed} \cup {ShortAuthz, NoEqualsAuthz} :
            inflight' = [inflight EXCEPT !.authz = a]
    /\ verdict' = "none"
    /\ UNCHANGED <<now, signed, nsigned>>

\* The agent's handler serves the request.
Serve ==
    /\ inflight # NoRequest
    /\ verdict = "none"
    /\ verdict' = Outcome(inflight)
    /\ UNCHANGED <<now, signed, nsigned, inflight>>

\* A second passes.
Tick ==
    /\ now < MaxTime
    /\ now' = now + 1
    /\ UNCHANGED <<signed, nsigned, inflight, verdict>>

Init ==
    /\ now = 0
    /\ signed = {}
    /\ nsigned = 0
    /\ inflight = NoRequest
    /\ verdict = "none"

Next ==
    \/ \E c \in Creds, r \in Requests : ClientSign(c, r)
    \/ \E s \in signed : Replay(s)
    \/ Tamper
    \/ Serve
    \/ Tick

Spec == Init /\ [][Next]_vars

-----------------------------------------------------------------------------
(* Properties.                                                             *)

\* The header names a client's signature covers: every header it set,
\* except the ignored ones and Host (carried by the request line).
CoveredHeaders(s) ==
    {n \in DOMAIN s.req.hdr : LowerName[n] \notin IgnoredHeaders} \ {"Host"}

TypeOK ==
    /\ now \in 0..MaxTime
    /\ nsigned \in 0..MaxSigned
    /\ \A s \in signed :
         /\ s.creds \in Creds
         /\ s.req.authz.signedHeaders \subseteq
              {LowerName[n] : n \in HdrNames} \ IgnoredHeaders
    /\ inflight = NoRequest \/ DOMAIN inflight.hdr \subseteq HdrNames \ {"Host"}
    /\ verdict \in {"none", "accepted", "forbidden", "panic"}

\* A request the agent accepts was signed by a client holding the agent's
\* secret, and the handler sees that request's method, path, query, host
\* and (through Header.Get) the value of every header the client signed:
\* replaying, editing or re-combining captured requests never gets an
\* altered request past IsSigned.
NoForgery ==
    verdict = "accepted" =>
      \E s \in signed :
        /\ s.creds = AgentCreds
        /\ inflight.method = s.req.method
        /\ inflight.path = s.req.path
        /\ inflight.query = s.req.query
        /\ inflight.host = s.req.host
        /\ \A n \in CoveredHeaders(s) : Get(inflight.hdr, n) = Get(Wire(s.req).hdr, n)

\* The same, for every value of a signed header: the spec's canonical
\* headers join all values, so adding a value to a signed header after
\* signing must make verification fail.
SignedValuesBound ==
    verdict = "accepted" =>
      \E s \in signed :
        /\ s.creds = AgentCreds
        /\ inflight.method = s.req.method
        /\ inflight.path = s.req.path
        /\ inflight.query = s.req.query
        /\ inflight.host = s.req.host
        /\ \A n \in CoveredHeaders(s) :
             n \in DOMAIN inflight.hdr /\ inflight.hdr[n] = Wire(s.req).hdr[n]

\* verify(sign(r, creds), creds) is true: a request signed with the agent's
\* credentials and delivered as sent is accepted.
SignedRequestAccepted ==
    verdict # "none" =>
      \A s \in signed : s.creds = AgentCreds /\ inflight = Wire(s.req)
                          => verdict = "accepted"

\* A malformed Authorization header fails the comparison; it never makes
\* IsSigned crash (the spec: "not a crash").
MalformedAuthzRejected == verdict # "panic"

=============================================================================
