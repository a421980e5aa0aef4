------------------------------ MODULE SigV4Proofs ------------------------------
(***************************************************************************)
(* Proofs about the header-based signer and verifier of auth/v4.go, for    *)
(* all credentials, requests, attacker choices and clock bounds.           *)
(***************************************************************************)
EXTENDS SigV4, TLAPS

\* Paths encodePath can tell apart: every character is an unreserved one or
\* a valid rune (no byte outside UTF-8).
ValidPath(p) == p \in Seq(UnreservedChars \cup EncodedRunes)

USE CredsAssumption, QueryAssumption, TimeAssumption, SignedAssumption,
    RequestsAssumption, ForgedAssumption

\* textproto.CanonicalMIMEHeaderKey undoes strings.ToLower on every header
\* name the code signs.
LEMMA CanonicalKeyLower == \A n \in HdrNames : CanonicalKey[LowerName[n]] = n
  BY DEF CanonicalKey, LowerName, HdrNames

\* Two different runes never encode to the same escape sequence.
LEMMA EncodeRuneInjective ==
    ASSUME NEW a \in UnreservedChars \cup EncodedRunes,
           NEW b \in UnreservedChars \cup EncodedRunes,
           EncodeRune(a) = EncodeRune(b)
    PROVE  a = b
  <1>1. CASE a \in UnreservedChars /\ b \in UnreservedChars
    BY <1>1 DEF EncodeRune
  <1>2. CASE a \in UnreservedChars /\ b \in EncodedRunes
    <2>1. b \notin UnreservedChars
      BY <1>2 DEF UnreservedChars, EncodedRunes
    <2>2. EncodeRune(b)[1] = [pct |-> UTF8Bytes[b][1]]
      BY <1>2, <2>1 DEF EncodeRune, UTF8Bytes, EncodedRunes
    <2>3. EncodeRune(a)[1] = [char |-> a]
      BY <1>2 DEF EncodeRune
    <2>4. [char |-> a] # [pct |-> UTF8Bytes[b][1]]
      OBVIOUS
    <2>5. QED BY <2>2, <2>3, <2>4
  <1>3. CASE a \in EncodedRunes /\ b \in UnreservedChars
    <2>1. a \notin UnreservedChars
      BY <1>3 DEF UnreservedChars, EncodedRunes
    <2>2. EncodeRune(a)[1] = [pct |-> UTF8Bytes[a][1]]
      BY <1>3, <2>1 DEF EncodeRune, UTF8Bytes, EncodedRunes
    <2>3. EncodeRune(b)[1] = [char |-> b]
      BY <1>3 DEF EncodeRune
    <2>4. [char |-> b] # [pct |-> UTF8Bytes[a][1]]
      OBVIOUS
    <2>5. QED BY <2>2, <2>3, <2>4
  <1>4. CASE a \in EncodedRunes /\ b \in EncodedRunes
    <2>1. a \notin UnreservedChars /\ b \notin UnreservedChars
      BY <1>4 DEF UnreservedChars, EncodedRunes
    <2>2. /\ EncodeRune(a)[1] = [pct |-> UTF8Bytes[a][1]]
          /\ EncodeRune(b)[1] = [pct |-> UTF8Bytes[b][1]]
      BY <1>4, <2>1 DEF EncodeRune, UTF8Bytes, EncodedRunes
    <2>3. UTF8Bytes[a][1] = UTF8Bytes[b][1]
      BY <2>2
    <2>4. QED BY <1>4, <2>3 DEF UTF8Bytes, EncodedRunes
  <1>5. QED BY <1>1, <1>2, <1>3, <1>4

\* On valid paths encodePath is injective.
LEMMA EncodePathInjective ==
    ASSUME NEW p, NEW q, ValidPath(p), ValidPath(q), EncodePath(p) = EncodePath(q)
    PROVE  p = q
  <1>1. DOMAIN p = DOMAIN q
    BY DEF EncodePath, ValidPath
  <1>2. \A i \in DOMAIN p : /\ p[i] \in UnreservedChars \cup EncodedRunes
                            /\ q[i] \in UnreservedChars \cup EncodedRunes
    BY <1>1 DEF ValidPath
  <1>6. \A i \in DOMAIN p : Rune(p[i]) = p[i] /\ Rune(q[i]) = q[i]
    BY <1>2 DEF Rune, InvalidBytes, UnreservedChars, EncodedRunes
  <1>3. \A i \in DOMAIN p : EncodeRune(p[i]) = EncodeRune(q[i])
    BY <1>1, <1>6 DEF EncodePath
  <1>4. \A i \in DOMAIN p : p[i] = q[i]
    BY <1>2, <1>3, EncodeRuneInjective
  <1>5. QED BY <1>1, <1>4 DEF ValidPath

\* A header map whose values all came through the server's header parser.
Trimmed(h) ==
    \A n \in DOMAIN h : /\ h[n] \in Seq(HValues)
                      /\ \A i \in DOMAIN h[n] : h[n][i] = TrimValue(h[n][i])

\* What Sign leaves in a signed request: a Host header holding r.Host and
\* the Authorization value computed over the request's own headers.
WellSigned(s) ==
    /\ s.creds \in Creds
    /\ DOMAIN s.req.hdr \subseteq HdrNames
    /\ "Host" \in DOMAIN s.req.hdr
    /\ s.req.hdr["Host"] = <<Value(s.req.host)>>
    /\ s.req.authz = Authz(s.creds, s.req.method, EncodePath(s.req.path),
                           s.req.query, s.req.hdr)

\* The heart of unforgeability: a request that presents the Authorization
\* value of a signed request s and passes IsSigned carries s's method,
\* path, query, host and first value of every header s signed, and s was
\* signed with the agent's credentials.
LEMMA Unforgeable ==
    ASSUME NEW r, NEW s, WellSigned(s),
           r.authz = s.req.authz,
           Trimmed(r.hdr),
           EncodePath(r.path) = EncodePath(s.req.path) => r.path = s.req.path,
           SortQuery(r.query) = SortQuery(s.req.query) => r.query = s.req.query,
           IsSigned(AgentCreds, r)
    PROVE  /\ s.creds = AgentCreds
           /\ r.method = s.req.method
           /\ r.path = s.req.path
           /\ r.query = s.req.query
           /\ r.host = s.req.host
           /\ \A n \in CoveredHeaders(s) : Get(r.hdr, n) = Get(Wire(s.req).hdr, n)
  <1> DEFINE c == s.creds
             h == s.req.hdr
             H == RequestSignedHeaders(r)
             dR == ParseDate(Get(H, "X-Amz-Date"))
             dS == ParseDate(Get(h, "X-Amz-Date"))
             creqR == CanonicalRequest(r.method, EncodePath(r.path), r.query, H)
             creqS == CanonicalRequest(s.req.method, EncodePath(s.req.path),
                                       s.req.query, h)
             stsR == <<SignV4Algorithm, FormatDate(dR), Scope(AgentCreds.region, dR),
                       Hex(Sum256(creqR))>>
             stsS == <<SignV4Algorithm, FormatDate(dS), Scope(c.region, dS),
                       Hex(Sum256(creqS))>>
  <1>1. r.authz # ShortAuthz
    BY DEF WellSigned, Authz, ShortAuthz
  <1>2. H = SetHeader([n \in {CanonicalKey[ln] : ln \in r.authz.signedHeaders} |->
                         <<Get(r.hdr, n)>>], "Host", Value(r.host))
    BY <1>1 DEF RequestSignedHeaders
  <1>3. Authz(AgentCreds, r.method, EncodePath(r.path), r.query, H)
          = Authz(c, s.req.method, EncodePath(s.req.path), s.req.query, h)
    BY DEF IsSigned, WellSigned
  <1>4. /\ Credential(AgentCreds.access, AgentCreds.region, dR)
             = Credential(c.access, c.region, dS)
        /\ SignedHeaderNames(H) = SignedHeaderNames(h)
        /\ Signature(SigningKey(AgentCreds.secret, AgentCreds.region, dR), stsR)
             = Signature(SigningKey(c.secret, c.region, dS), stsS)
    BY <1>3 DEF Authz
  <1>5. AgentCreds.access = c.access /\ AgentCreds.region = c.region
    BY <1>4 DEF Credential, Scope
  <1>6. /\ SigningKey(AgentCreds.secret, AgentCreds.region, dR)
             = SigningKey(c.secret, c.region, dS)
        /\ stsR = stsS
    BY <1>4 DEF Signature, Hex, SumHMAC
  <1>7. AgentCreds.secret = c.secret
    BY <1>6 DEF SigningKey, SumHMAC
  <1>8. c = AgentCreds
    BY <1>5, <1>7 DEF WellSigned
  <1>9. creqR = creqS
    BY <1>6 DEF Hex, Sum256
  <1>10. /\ r.method = s.req.method
         /\ EncodePath(r.path) = EncodePath(s.req.path)
         /\ SortQuery(r.query) = SortQuery(s.req.query)
         /\ CanonicalHeaders(H) = CanonicalHeaders(h)
    BY <1>9 DEF CanonicalRequest
  <1>11. r.authz.signedHeaders = SignedHeaderNames(h)
    BY DEF WellSigned, Authz
  <1>12. ASSUME NEW n \in DOMAIN h, LowerName[n] \notin IgnoredHeaders
         PROVE  H[n] = h[n]
    <2>1. LowerName[n] \in SignedHeaderNames(h)
      BY <1>12 DEF SignedHeaderNames
    <2>2. CanonicalKey[LowerName[n]] = n
      BY <1>12, CanonicalKeyLower DEF WellSigned
    <2>3. CanonicalHeaders(H)[LowerName[n]] = H[n]
      BY <1>4, <2>1, <2>2 DEF CanonicalHeaders
    <2>4. CanonicalHeaders(h)[LowerName[n]] = h[n]
      BY <2>1, <2>2 DEF CanonicalHeaders
    <2>5. QED BY <1>10, <2>3, <2>4
  <1>13. r.host = s.req.host
    <2>1. H["Host"] = <<Value(r.host)>>
      BY <1>2 DEF SetHeader
    <2>2. LowerName["Host"] \notin IgnoredHeaders
      BY DEF LowerName, HdrNames, IgnoredHeaders
    <2>3. H["Host"] = <<Value(s.req.host)>>
      BY <1>12, <2>2 DEF WellSigned
    <2>4. QED BY <2>1, <2>3 DEF Value
  <1>14. ASSUME NEW n \in CoveredHeaders(s)
         PROVE  Get(r.hdr, n) = Get(Wire(s.req).hdr, n)
    <2>1. n \in DOMAIN h /\ LowerName[n] \notin IgnoredHeaders /\ n # "Host"
      BY <1>14 DEF CoveredHeaders
    <2>2. n \in {CanonicalKey[ln] : ln \in r.authz.signedHeaders}
      BY <1>11, <2>1, CanonicalKeyLower DEF SignedHeaderNames, WellSigned
    <2>3. H[n] = <<Get(r.hdr, n)>>
      BY <1>2, <2>1, <2>2 DEF SetHeader
    <2>4. h[n] = <<Get(r.hdr, n)>>
      BY <1>12, <2>1, <2>3
    <2>5. Get(r.hdr, n) = TrimValue(Get(r.hdr, n))
      <3>1. CASE n \in DOMAIN r.hdr /\ r.hdr[n] # <<>>
        <4>1. 1 \in DOMAIN r.hdr[n]
          BY <3>1 DEF Trimmed
        <4>2. QED BY <3>1, <4>1 DEF Get, Trimmed
      <3>2. CASE ~(n \in DOMAIN r.hdr /\ r.hdr[n] # <<>>)
        BY <3>2 DEF Get, EmptyValue, Value, TrimValue
      <3>3. QED BY <3>1, <3>2
    <2>6. Wire(s.req).hdr[n] = <<TrimValue(Get(r.hdr, n))>>
      BY <2>1, <2>4 DEF Wire, TrimAll
    <2>7. n \in DOMAIN Wire(s.req).hdr
      BY <2>1 DEF Wire
    <2>8. QED BY <2>5, <2>6, <2>7 DEF Get
  <1>15. QED BY <1>8, <1>10, <1>13, <1>14

-----------------------------------------------------------------------------
(* The attacker can only re-use Authorization values it has seen, and every *)
(* request that reaches the agent went through its header parser.          *)

\* The paths of the instance are ones encodePath tells apart.
PathsValid ==
    /\ \A p \in Paths : ValidPath(p)
    /\ \A r \in Requests : ValidPath(r.path)

RequestFields == {"method", "path", "query", "host", "hdr", "authz"}

SignedOK ==
    \A s \in signed :
        /\ WellSigned(s)
        /\ \A n \in DOMAIN s.req.hdr : s.req.hdr[n] \in Seq(HValues)
        /\ s.req.path \in {r.path : r \in Requests}
        /\ s.req.query \in {r.query : r \in Requests}

InflightOK ==
    inflight # NoRequest =>
        /\ DOMAIN inflight = RequestFields
        /\ inflight.authz \in {s.req.authz : s \in signed} \cup {ShortAuthz, NoEqualsAuthz}
        /\ Trimmed(inflight.hdr)
        /\ inflight.path \in Paths \cup {r.path : r \in Requests}
        /\ inflight.query \in Queries \cup {r.query : r \in Requests}

IInv == TypeOK /\ SignedOK /\ InflightOK /\ NoForgery

\* Trimming keeps a value list well typed and makes it trimmed.
LEMMA TrimAllTrimmed ==
    ASSUME NEW vs \in Seq(HValues)
    PROVE  /\ TrimAll(vs) \in Seq(HValues)
           /\ \A i \in DOMAIN TrimAll(vs) : TrimAll(vs)[i] = TrimValue(TrimAll(vs)[i])
  <1>1. \A v \in HValues : TrimValue(v) \in HValues /\ TrimValue(TrimValue(v)) = TrimValue(v)
    BY DEF HValues, TrimValue
  <1>2. QED BY <1>1 DEF TrimAll

\* A url.Values as URL.Query() parses it is its own sorted form.
LEMMA SortQueryIdentity ==
    ASSUME NEW q \in Queries \cup {r.query : r \in Requests}
    PROVE  SortQuery(q) = q
  <1>1. q = [k \in DOMAIN q |-> q[k]] /\ \A k \in DOMAIN q : q[k] # <<>>
    BY QueryAssumption
  <1>2. {k \in DOMAIN q : q[k] # <<>>} = DOMAIN q
    BY <1>1
  <1>3. QED BY <1>1, <1>2, Zenon DEF SortQuery

\* What Sign returns is well signed.
LEMMA SignWellSigned ==
    ASSUME NEW c \in Creds, NEW r \in Requests, NEW t \in Nat
    PROVE  LET s == [creds |-> c, req |-> Sign(c, r, t)]
           IN  /\ WellSigned(s)
               /\ \A n \in DOMAIN s.req.hdr : s.req.hdr[n] \in Seq(HValues)
               /\ DOMAIN Wire(s.req) = RequestFields
  <1> DEFINE h == SetHeader(SetHeader(SetHeader(r.hdr, "X-Amz-Date", FormatDate(t)),
                                      "Host", Value(r.host)),
                            "X-Amz-Content-Sha256", Value(UnsignedPayload))
  <1>1. Sign(c, r, t).hdr = h /\ Sign(c, r, t).host = r.host
    BY DEF Sign
  <1>2. DOMAIN h \subseteq HdrNames /\ "Host" \in DOMAIN h /\ h["Host"] = <<Value(r.host)>>
    BY DEF SetHeader, HdrNames
  <1>3. \A n \in DOMAIN h : h[n] \in Seq(HValues)
    <2>1. /\ FormatDate(t) \in HValues
          /\ Value(r.host) \in HValues
          /\ Value(UnsignedPayload) \in HValues
      <3>1. [date |-> t] \in [date : Int] /\ r.host \in STRING
        OBVIOUS
      <3>2. [text |-> r.host] \in [text : STRING]
        BY <3>1
      <3>3. [text |-> UnsignedPayload] \in [text : STRING]
        BY LiteralsAssumption
      <3>4. QED BY <3>1, <3>2, <3>3 DEF FormatDate, Value, HValues
    <2>2. /\ <<FormatDate(t)>> \in Seq(HValues)
          /\ <<Value(r.host)>> \in Seq(HValues)
          /\ <<Value(UnsignedPayload)>> \in Seq(HValues)
      BY <2>1
    <2>3. \A n \in DOMAIN r.hdr : r.hdr[n] \in Seq(HValues)
      OBVIOUS
    <2>4. QED BY <2>2, <2>3 DEF SetHeader
  <1>4. QED BY <1>1, <1>2, <1>3 DEF Sign, WellSigned, Wire, RequestFields

\* What the server's parser makes of a request whose header values are well
\* typed: a request of the six fields with trimmed values, no Host header
\* and the same Authorization, method, path, query and host.
LEMMA WireOK ==
    ASSUME NEW r, \A n \in DOMAIN r.hdr : r.hdr[n] \in Seq(HValues)
    PROVE  /\ DOMAIN Wire(r) = RequestFields
           /\ Trimmed(Wire(r).hdr)
           /\ DOMAIN Wire(r).hdr = DOMAIN r.hdr \ {"Host"}
           /\ Wire(r).authz = r.authz
           /\ Wire(r).path = r.path
           /\ Wire(r).query = r.query
           /\ Wire(r) # NoRequest
  <1>1. \A n \in DOMAIN r.hdr \ {"Host"} :
           /\ TrimAll(r.hdr[n]) \in Seq(HValues)
           /\ \A i \in DOMAIN TrimAll(r.hdr[n]) :
                TrimAll(r.hdr[n])[i] = TrimValue(TrimAll(r.hdr[n])[i])
    BY TrimAllTrimmed
  <1>2. Trimmed(Wire(r).hdr)
    BY <1>1 DEF Wire, Trimmed
  <1>3. QED BY <1>2 DEF Wire, RequestFields, NoRequest

\* Every value list the attacker may set is a list of header values.
LEMMA AttackValuesTyped ==
    ASSUME NEW n \in AttackHeaders
    PROVE  AttackValues(n) \subseteq Seq(HValues)
  <1>1. CASE n = "X-Amz-Date"
    <2>1. ASSUME NEW t \in 0..MaxTime PROVE <<FormatDate(t)>> \in Seq(HValues)
      <3>1. [date |-> t] \in [date : Int]
        BY TimeAssumption
      <3>2. FormatDate(t) \in HValues
        BY <3>1 DEF FormatDate, HValues
      <3>3. QED BY <3>2
    <2>2. QED BY <1>1, <2>1 DEF AttackValues
  <1>2. CASE n = "X-Amz-Content-Sha256"
    <2>1. [text |-> UnsignedPayload] \in [text : STRING]
      BY LiteralsAssumption
    <2>2. Value(UnsignedPayload) \in HValues
      BY <2>1 DEF Value, HValues
    <2>3. QED BY <1>2, <2>2 DEF AttackValues
  <1>3. CASE n = "X-Amz-Meta-Key"
    BY <1>3 DEF AttackValues
  <1>4. QED BY <1>1, <1>2, <1>3 DEF AttackHeaders

LEMMA InitIInv == Init => IInv
  BY DEF Init, IInv, TypeOK, SignedOK, InflightOK, NoForgery

\* An accepted request, served under the invariant, satisfies NoForgery.
LEMMA ServeNoForgery ==
    ASSUME PathsValid, IInv, Serve
    PROVE  NoForgery'
  <1> SUFFICES ASSUME Outcome(inflight) = "accepted"
               PROVE  NoForgery'
    BY DEF Serve, NoForgery
  <1>1. inflight # NoRequest
    BY DEF Serve
  <1>2. ~ParsePanics(inflight) /\ IsSigned(AgentCreds, inflight)
    BY DEF Outcome
  <1>3. inflight.authz # ShortAuthz
    <2> DEFINE A == Authz(AgentCreds, inflight.method, EncodePath(inflight.path),
                          inflight.query, RequestSignedHeaders(inflight))
    <2>1. inflight.authz = A
      BY <1>2 DEF IsSigned
    <2>2. DOMAIN A = {"credential", "signedHeaders", "signature"}
      BY DEF Authz
    <2>3. DOMAIN ShortAuthz = {"malformed"}
      BY DEF ShortAuthz
    <2>4. QED BY <2>1, <2>2, <2>3
  <1>4. PICK s \in signed : inflight.authz = s.req.authz
    BY <1>1, <1>2, <1>3 DEF IInv, InflightOK, ParsePanics
  <1>5. WellSigned(s) /\ s.req.path \in {r.path : r \in Requests}
                     /\ s.req.query \in {r.query : r \in Requests}
    BY DEF IInv, SignedOK
  <1>6. /\ Trimmed(inflight.hdr)
        /\ inflight.path \in Paths \cup {r.path : r \in Requests}
        /\ inflight.query \in Queries \cup {r.query : r \in Requests}
    BY <1>1 DEF IInv, InflightOK
  <1>7. EncodePath(inflight.path) = EncodePath(s.req.path) => inflight.path = s.req.path
    <2>1. ValidPath(inflight.path) /\ ValidPath(s.req.path)
      BY <1>5, <1>6 DEF PathsValid
    <2>2. QED BY <2>1, EncodePathInjective
  <1>8. SortQuery(inflight.query) = SortQuery(s.req.query) => inflight.query = s.req.query
    BY <1>5, <1>6, SortQueryIdentity
  <1>9. /\ s.creds = AgentCreds
        /\ inflight.method = s.req.method
        /\ inflight.path = s.req.path
        /\ inflight.query = s.req.query
        /\ inflight.host = s.req.host
        /\ \A n \in CoveredHeaders(s) : Get(inflight.hdr, n) = Get(Wire(s.req).hdr, n)
    BY <1>2, <1>4, <1>5, <1>6, <1>7, <1>8, Unforgeable
  <1>10. QED BY <1>9 DEF Serve, NoForgery

\* A Sign call keeps the invariant.
LEMMA ClientSignIInv ==
    ASSUME IInv, NEW c \in Creds, NEW r \in Requests, ClientSign(c, r)
    PROVE  IInv'
  <1> DEFINE s == [creds |-> c, req |-> Sign(c, r, now)]
  <1>1. now \in Nat
    BY TimeAssumption DEF IInv, TypeOK
  <1>2. /\ WellSigned(s)
        /\ \A n \in DOMAIN s.req.hdr : s.req.hdr[n] \in Seq(HValues)
    BY <1>1, SignWellSigned
  <1>3. /\ DOMAIN Wire(s.req) = RequestFields
        /\ Trimmed(Wire(s.req).hdr)
        /\ DOMAIN Wire(s.req).hdr = DOMAIN s.req.hdr \ {"Host"}
        /\ Wire(s.req).authz = s.req.authz
        /\ Wire(s.req).path = r.path
        /\ Wire(s.req).query = r.query
        /\ Wire(s.req) # NoRequest
    BY <1>2, WireOK DEF Sign
  <1>4. /\ signed' = signed \cup {s}
        /\ inflight' = Wire(s.req)
        /\ verdict' = "none"
    BY DEF ClientSign
  <1>5. s.req.authz.signedHeaders \subseteq
          {LowerName[n] : n \in HdrNames} \ IgnoredHeaders
    <2>1. s.req.authz.signedHeaders = SignedHeaderNames(s.req.hdr)
      BY <1>2 DEF WellSigned, Authz
    <2>2. QED BY <1>2, <2>1 DEF WellSigned, SignedHeaderNames
  <1>6. TypeOK'
    BY <1>2, <1>3, <1>4, <1>5 DEF IInv, TypeOK, ClientSign, WellSigned
  <1>7. SignedOK'
    BY <1>2, <1>4 DEF IInv, SignedOK, Sign
  <1>8. InflightOK'
    BY <1>3, <1>4 DEF InflightOK
  <1>9. NoForgery'
    BY <1>4 DEF NoForgery
  <1>10. QED BY <1>6, <1>7, <1>8, <1>9 DEF IInv

\* A replay keeps the invariant.
LEMMA ReplayIInv ==
    ASSUME IInv, NEW s \in signed, Replay(s)
    PROVE  IInv'
  <1>1. /\ WellSigned(s)
        /\ \A n \in DOMAIN s.req.hdr : s.req.hdr[n] \in Seq(HValues)
        /\ s.req.path \in {r.path : r \in Requests}
        /\ s.req.query \in {r.query : r \in Requests}
    BY DEF IInv, SignedOK
  <1>2. /\ DOMAIN Wire(s.req) = RequestFields
        /\ Trimmed(Wire(s.req).hdr)
        /\ DOMAIN Wire(s.req).hdr = DOMAIN s.req.hdr \ {"Host"}
        /\ Wire(s.req).authz = s.req.authz
        /\ Wire(s.req).path = s.req.path
        /\ Wire(s.req).query = s.req.query
    BY <1>1, WireOK
  <1>3. TypeOK'
    BY <1>1, <1>2 DEF IInv, TypeOK, Replay, WellSigned
  <1>4. SignedOK'
    BY DEF IInv, SignedOK, Replay
  <1>5. InflightOK'
    BY <1>1, <1>2 DEF InflightOK, Replay
  <1>6. NoForgery'
    BY DEF NoForgery, Replay
  <1>7. QED BY <1>3, <1>4, <1>5, <1>6 DEF IInv

\* An edit that leaves the header map alone and keeps the other parts of
\* the request within what InflightOK allows keeps the invariant.
LEMMA TamperIInv ==
    ASSUME IInv, Tamper
    PROVE  IInv'
  <1> USE DEF Tamper
  <1>1. /\ inflight # NoRequest
        /\ DOMAIN inflight = RequestFields
        /\ inflight.authz \in {s.req.authz : s \in signed} \cup {ShortAuthz, NoEqualsAuthz}
        /\ Trimmed(inflight.hdr)
        /\ inflight.path \in Paths \cup {r.path : r \in Requests}
        /\ inflight.query \in Queries \cup {r.query : r \in Requests}
        /\ DOMAIN inflight.hdr \subseteq HdrNames \ {"Host"}
    BY DEF IInv, InflightOK, TypeOK
  <1>2. /\ (DOMAIN inflight'.hdr \subseteq HdrNames \ {"Host"}) => TypeOK'
        /\ SignedOK'
        /\ NoForgery'
    <2>1. (DOMAIN inflight'.hdr \subseteq HdrNames \ {"Host"}) => TypeOK'
      BY DEF IInv, TypeOK
    <2>2. SignedOK'
      BY DEF IInv, SignedOK
    <2>3. NoForgery'
      BY DEF NoForgery
    <2>4. QED BY <2>1, <2>2, <2>3
  <1>3. SUFFICES /\ DOMAIN inflight' = RequestFields
                 /\ inflight'.authz \in {s.req.authz : s \in signed} \cup {ShortAuthz, NoEqualsAuthz}
                 /\ Trimmed(inflight'.hdr)
                 /\ inflight'.path \in Paths \cup {r.path : r \in Requests}
                 /\ inflight'.query \in Queries \cup {r.query : r \in Requests}
                 /\ DOMAIN inflight'.hdr \subseteq HdrNames \ {"Host"}
    BY <1>2 DEF IInv, InflightOK
  <1>4. CASE \E m \in Methods : inflight' = [inflight EXCEPT !.method = m]
    BY <1>1, <1>4 DEF RequestFields
  <1>5. CASE \E p \in Paths : inflight' = [inflight EXCEPT !.path = p]
    BY <1>1, <1>5 DEF RequestFields
  <1>6. CASE \E q \in Queries : inflight' = [inflight EXCEPT !.query = q]
    BY <1>1, <1>6 DEF RequestFields
  <1>7. CASE \E x \in Hosts : inflight' = [inflight EXCEPT !.host = x]
    BY <1>1, <1>7 DEF RequestFields
  <1>8. ASSUME NEW n \in AttackHeaders, NEW v \in AttackValues(n),
               inflight' = [inflight EXCEPT !.hdr =
                              [x \in DOMAIN @ \cup {n} |->
                                 IF x = n THEN TrimAll(v) ELSE @[x]]]
        PROVE  <1>3!1
    <2>1. v \in Seq(HValues)
      BY AttackValuesTyped
    <2>2. /\ TrimAll(v) \in Seq(HValues)
          /\ \A i \in DOMAIN TrimAll(v) : TrimAll(v)[i] = TrimValue(TrimAll(v)[i])
      BY <2>1, TrimAllTrimmed
    <2>3. n \in HdrNames \ {"Host"}
      BY DEF AttackHeaders, HdrNames
    <2>4. Trimmed(inflight'.hdr)
      BY <1>1, <1>8, <2>2 DEF RequestFields, Trimmed
    <2>5. QED BY <1>1, <1>8, <2>3, <2>4 DEF RequestFields
  <1>9. ASSUME NEW n \in AttackHeaders,
               inflight' = [inflight EXCEPT !.hdr = [x \in DOMAIN @ \ {n} |-> @[x]]]
        PROVE  <1>3!1
    <2>1. Trimmed(inflight'.hdr)
      BY <1>1, <1>9 DEF RequestFields, Trimmed
    <2>2. QED BY <1>1, <1>9, <2>1 DEF RequestFields
  <1>10. CASE \E a \in {s.req.authz : s \in signed} \cup {ShortAuthz, NoEqualsAuthz} :
                inflight' = [inflight EXCEPT !.authz = a]
    BY <1>1, <1>10 DEF RequestFields
  <1>11. QED BY <1>4, <1>5, <1>6, <1>7, <1>8, <1>9, <1>10

LEMMA NextIInv ==
    ASSUME PathsValid
    PROVE  IInv /\ [Next]_vars => IInv'
  <1> SUFFICES ASSUME IInv, [Next]_vars PROVE IInv'
    OBVIOUS
  <1>1. ASSUME NEW c \in Creds, NEW r \in Requests, ClientSign(c, r) PROVE IInv'
    BY <1>1, ClientSignIInv
  <1>2. ASSUME NEW s \in signed, Replay(s) PROVE IInv'
    BY <1>2, ReplayIInv
  <1>3. CASE Tamper
    BY <1>3, TamperIInv
  <1>4. CASE Serve
    <2>1. NoForgery'
      BY <1>4, ServeNoForgery
    <2>2. Outcome(inflight) \in {"none", "accepted", "forbidden", "panic"}
      BY DEF Outcome
    <2>3. QED BY <1>4, <2>1, <2>2 DEF Serve, IInv, TypeOK, SignedOK, InflightOK
  <1>5. CASE Tick
    BY <1>5 DEF Tick, IInv, TypeOK, SignedOK, InflightOK, NoForgery
  <1>6. CASE UNCHANGED vars
    BY <1>6 DEF vars, IInv, TypeOK, SignedOK, InflightOK, NoForgery
  <1>7. QED BY <1>1, <1>2, <1>3, <1>4, <1>5, <1>6 DEF Next

\* On every instance whose paths are valid UTF-8 (see the run with an
\* invalid byte for the other case), the agent's IsSigned accepts only a
\* request a client signed with the agent's credentials, with the method,
\* path, query, host and first value of every signed header the client
\* sent: no replay, edit or recombination by the network forges one.
THEOREM NoForgeryHolds ==
    ASSUME PathsValid
    PROVE  Spec => []NoForgery
  <1>1. Init => IInv
    BY InitIInv
  <1>2. IInv /\ [Next]_vars => IInv'
    BY NextIInv
  <1>3. IInv => NoForgery
    BY DEF IInv
  <1>4. QED BY <1>1, <1>2, <1>3, PTL DEF Spec

\* A signed request always declares only header names of the model that
\* are not ignored, and the network only delivers requests without a Host
\* header line: the type of every state Sign, the attacker and the agent
\* reach.
THEOREM SigV4TypeCorrect ==
    ASSUME PathsValid
    PROVE  Spec => []TypeOK
  <1>1. Init => IInv
    BY InitIInv
  <1>2. IInv /\ [Next]_vars => IInv'
    BY NextIInv
  <1>3. IInv => TypeOK
    BY DEF IInv
  <1>4. QED BY <1>1, <1>2, <1>3, PTL DEF Spec

-----------------------------------------------------------------------------
(* The round trip: what Sign produces, delivered as sent, passes IsSigned   *)
(* under the credentials it was signed with.  This needs every header the  *)
(* caller set to carry one value without surrounding blanks, as             *)
(* Header.Set gives it; a multi-valued or padded header is the finding of  *)
(* the run MCSigV4_SignedRequestAccepted.                                   *)

\* Every header of every client request holds one unpadded value.
PlainHeaders(hd) ==
    \A n \in DOMAIN hd : hd[n] = <<hd[n][1]>> /\ hd[n][1] = TrimValue(hd[n][1])
PlainRequests == \A r \in Requests : PlainHeaders(r.hdr)

\* The agent's last answer is the one its handler gives the request in flight.
VerdictOK == verdict # "none" => verdict = Outcome(inflight)

\* Every signed request is what Sign returned for a client request.
SignedBySign ==
    \A s \in signed : /\ s.creds \in Creds
                      /\ \E r \in Requests, t \in Nat : s.req = Sign(s.creds, r, t)

RInv == now \in Nat /\ VerdictOK /\ SignedBySign

\* An Authorization value Sign computes is a record of three fields, never
\* one of the two malformed texts.
LEMMA AuthzShape ==
    ASSUME NEW c, NEW m, NEW u, NEW q, NEW h
    PROVE  /\ Authz(c, m, u, q, h).signedHeaders = SignedHeaderNames(h)
           /\ Authz(c, m, u, q, h) # ShortAuthz
           /\ Authz(c, m, u, q, h) # NoEqualsAuthz
  <1>1. DOMAIN Authz(c, m, u, q, h) = {"credential", "signedHeaders", "signature"}
    BY DEF Authz
  <1>2. DOMAIN ShortAuthz = {"malformed"} /\ DOMAIN NoEqualsAuthz = {"malformed"}
    BY DEF ShortAuthz, NoEqualsAuthz
  <1>3. QED BY <1>1, <1>2 DEF Authz

\* The verifier's header map agrees with the signer's on every signed name:
\* then both compute the same Authorization value.
LEMMA AuthzAgree ==
    ASSUME NEW c, NEW m, NEW u, NEW q, NEW h, NEW H,
           DOMAIN h \subseteq HdrNames,
           DOMAIN H = {n \in DOMAIN h : LowerName[n] \notin IgnoredHeaders},
           \A n \in DOMAIN H : H[n] = h[n],
           "X-Amz-Date" \in DOMAIN H, "X-Amz-Content-Sha256" \in DOMAIN H
    PROVE  Authz(c, m, u, q, H) = Authz(c, m, u, q, h)
  <1>1. SignedHeaderNames(H) = SignedHeaderNames(h)
    BY DEF SignedHeaderNames
  <1>2. CanonicalHeaders(H) = CanonicalHeaders(h)
    <2>1. ASSUME NEW ln \in SignedHeaderNames(h)
          PROVE  CanonicalKey[ln] \in DOMAIN H
      BY CanonicalKeyLower DEF SignedHeaderNames
    <2>2. QED BY <1>1, <2>1 DEF CanonicalHeaders
  <1>3. /\ Get(H, "X-Amz-Date") = Get(h, "X-Amz-Date")
        /\ Get(H, "X-Amz-Content-Sha256") = Get(h, "X-Amz-Content-Sha256")
    BY DEF Get
  <1>4. HashedPayload(H) = HashedPayload(h)
    BY <1>3 DEF HashedPayload
  <1>5. QED BY <1>1, <1>2, <1>3, <1>4 DEF Authz, CanonicalRequest

\* The header map Sign writes: the caller's headers and the three it sets,
\* each with one unpadded value.
LEMMA SignPlain ==
    ASSUME NEW c \in Creds, NEW r \in Requests, NEW t \in Nat, PlainHeaders(r.hdr)
    PROVE  LET h == Sign(c, r, t).hdr
           IN  /\ DOMAIN h \subseteq HdrNames
               /\ {"Host", "X-Amz-Date", "X-Amz-Content-Sha256"} \subseteq DOMAIN h
               /\ h["Host"] = <<Value(r.host)>>
               /\ PlainHeaders(h)
  BY DEF Sign, SetHeader, HdrNames, PlainHeaders, FormatDate, Value, TrimValue

\* What IsSigned rebuilds from the delivered request is the signer's map
\* restricted to the names it signed.
LEMMA WireHeaders ==
    ASSUME NEW c \in Creds, NEW r \in Requests, NEW t \in Nat, PlainHeaders(r.hdr)
    PROVE  LET S == Sign(c, r, t)
               H == RequestSignedHeaders(Wire(S))
           IN  /\ DOMAIN H = {n \in DOMAIN S.hdr : LowerName[n] \notin IgnoredHeaders}
               /\ \A n \in DOMAIN H : H[n] = S.hdr[n]
  <1> DEFINE S == Sign(c, r, t)
             h == S.hdr
             W == Wire(S)
             D == {n \in DOMAIN h : LowerName[n] \notin IgnoredHeaders}
  <1>1. /\ DOMAIN h \subseteq HdrNames
        /\ "Host" \in DOMAIN h
        /\ h["Host"] = <<Value(r.host)>>
        /\ PlainHeaders(h)
    BY SignPlain
  <1>2. /\ S.authz = Authz(c, r.method, EncodePath(r.path), r.query, h)
        /\ S.host = r.host
    BY DEF Sign
  <1>3. /\ W.authz = S.authz
        /\ W.host = r.host
        /\ W.hdr = [n \in DOMAIN h \ {"Host"} |-> TrimAll(h[n])]
    BY <1>2 DEF Wire
  <1>4. W.authz # ShortAuthz /\ W.authz.signedHeaders = SignedHeaderNames(h)
    BY <1>2, <1>3, AuthzShape
  <1>5. {CanonicalKey[ln] : ln \in SignedHeaderNames(h)} = D
    BY <1>1, CanonicalKeyLower DEF SignedHeaderNames
  <1>6. RequestSignedHeaders(W)
          = SetHeader([n \in D |-> <<Get(W.hdr, n)>>], "Host", Value(r.host))
    BY <1>3, <1>4, <1>5 DEF RequestSignedHeaders
  <1>7. "Host" \in D
    BY <1>1 DEF LowerName, HdrNames, IgnoredHeaders
  <1>8. ASSUME NEW n \in D \ {"Host"} PROVE <<Get(W.hdr, n)>> = h[n]
    <2>1. h[n] = <<h[n][1]>> /\ h[n][1] = TrimValue(h[n][1])
      BY <1>1 DEF PlainHeaders
    <2>2. W.hdr[n] = <<h[n][1]>>
      BY <1>3, <2>1 DEF TrimAll
    <2>3. QED BY <2>1, <2>2, <1>3 DEF Get
  <1>9. QED BY <1>1, <1>6, <1>7, <1>8 DEF SetHeader

\* A request Sign produced with the agent's credentials and delivered as
\* sent is accepted by the agent's handler.
LEMMA RoundTrip ==
    ASSUME NEW r \in Requests, NEW t \in Nat, PlainHeaders(r.hdr)
    PROVE  Outcome(Wire(Sign(AgentCreds, r, t))) = "accepted"
  <1> DEFINE S == Sign(AgentCreds, r, t)
             W == Wire(S)
             H == RequestSignedHeaders(W)
             u == EncodePath(r.path)
  <1>1. /\ DOMAIN S.hdr \subseteq HdrNames
        /\ {"Host", "X-Amz-Date", "X-Amz-Content-Sha256"} \subseteq DOMAIN S.hdr
    BY SignPlain
  <1>2. /\ DOMAIN H = {n \in DOMAIN S.hdr : LowerName[n] \notin IgnoredHeaders}
        /\ \A n \in DOMAIN H : H[n] = S.hdr[n]
    BY WireHeaders
  <1>3. "X-Amz-Date" \in DOMAIN H /\ "X-Amz-Content-Sha256" \in DOMAIN H
    BY <1>1, <1>2 DEF LowerName, HdrNames, IgnoredHeaders
  <1>4. Authz(AgentCreds, r.method, u, r.query, H)
          = Authz(AgentCreds, r.method, u, r.query, S.hdr)
    BY <1>1, <1>2, <1>3, AuthzAgree
  <1>5. /\ W.authz = Authz(AgentCreds, r.method, u, r.query, S.hdr)
        /\ W.method = r.method /\ W.path = r.path /\ W.query = r.query
    BY DEF Wire, Sign
  <1>6. IsSigned(AgentCreds, W)
    BY <1>4, <1>5 DEF IsSigned
  <1>7. ~ParsePanics(W)
    BY <1>5, AuthzShape DEF ParsePanics
  <1>8. QED BY <1>6, <1>7 DEF Outcome

LEMMA InitRInv == Init => RInv
  BY DEF Init, RInv, VerdictOK, SignedBySign

LEMMA NextRInv == RInv /\ [Next]_vars => RInv'
  <1> SUFFICES ASSUME RInv, [Next]_vars PROVE RInv'
    OBVIOUS
  <1>1. ASSUME NEW c \in Creds, NEW r \in Requests, ClientSign(c, r) PROVE RInv'
    BY <1>1 DEF ClientSign, RInv, VerdictOK, SignedBySign
  <1>2. ASSUME NEW s \in signed, Replay(s) PROVE RInv'
    BY <1>2 DEF Replay, RInv, VerdictOK, SignedBySign
  <1>3. CASE Tamper
    BY <1>3 DEF Tamper, RInv, VerdictOK, SignedBySign
  <1>4. CASE Serve
    BY <1>4 DEF Serve, RInv, VerdictOK, SignedBySign
  <1>5. CASE Tick
    BY <1>5 DEF Tick, RInv, VerdictOK, SignedBySign
  <1>6. CASE UNCHANGED vars
    BY <1>6 DEF vars, RInv, VerdictOK, SignedBySign
  <1>7. QED BY <1>1, <1>2, <1>3, <1>4, <1>5, <1>6 DEF Next

\* verify(sign(r, creds), creds): for every instance whose client requests
\* set each header to one unpadded value (as Header.Set does), a request a
\* client signed with the agent's credentials and that reaches the agent
\* unaltered is accepted, whatever was replayed or edited before.
THEOREM SignedRequestAcceptedHolds ==
    ASSUME PlainRequests
    PROVE  Spec => []SignedRequestAccepted
  <1>1. Init => RInv
    BY InitRInv
  <1>2. RInv /\ [Next]_vars => RInv'
    BY NextRInv
  <1>3. RInv => SignedRequestAccepted
    <2> SUFFICES ASSUME RInv, verdict # "none", NEW s \in signed,
                        s.creds = AgentCreds, inflight = Wire(s.req)
                 PROVE  verdict = "accepted"
      BY DEF SignedRequestAccepted
    <2>1. PICK r \in Requests, t \in Nat : s.req = Sign(AgentCreds, r, t)
      BY DEF RInv, SignedBySign
    <2>2. Outcome(inflight) = "accepted"
      BY <2>1, RoundTrip DEF PlainRequests
    <2>3. QED BY <2>2 DEF RInv, VerdictOK
  <1>4. QED BY <1>1, <1>2, <1>3, PTL DEF Spec

=============================================================================
