# Formal models of s3verify and the service broker's Signature V4

This directory holds TLA+ models of the parts of the repository where state
changes and concurrency meet. They cover:

- the retry engine of `s3verify` (`src/s3verify/cmd/retry.go`, `requests.go`);
- the spec's retry state machine, and the proof that the engine implements it;
- the AWS Signature V4 signer and verifier of the service broker
  (`src/minio-service-broker/auth/v4.go`);
- the Content-Length of s3verify's streaming upload (`put-object.go`);
- the s3verify test runner and its scenarios, which share package-level
  fixture lists (`main.go`, `tests.go`, the scenario files).

There are TLC configurations that check each model on small instances, and
TLAPS proofs that hold for every value of the constants. `PROJECT.json` lists
the components, the runs, the mutants, the line map, the findings, the hazards
and the theorems.

## 1. The system

| Component | Source | Module |
|---|---|---|
| RetryTimer (`newRetryTimer`) | `retry.go` | `ExecRequest` |
| RetryClassification (`isNetErrorRetryable`, `isS3CodeRetryable`, `isHTTPStatusRetryable`, `successStatus`) | `retry.go`, `utils.go` | `RetryClassify` |
| RetryExecutor (`execRequest`) | `requests.go` | `ExecRequest`, `RetryPolicy`, `ExecRequestProofs` |
| Request construction (`newRequest`, `makeTargetURL`) | `requests.go`, `utils.go` | `ExecRequest` (partly: its failure, and the time it signs at) |
| Canonical request, signing key, `Sign`, `IsSigned` | `auth/v4.go` | `SigV4`, `SigV4Proofs` |
| Broker and agent mains | `cmd/broker/main.go`, `cmd/agent/main.go` | `SigV4` (sign and send; serve with 403 unless `IsSigned`) |
| Streaming content length | `put-object.go` | `StreamLength` |
| Test runner and scenarios | `main.go`, `tests.go`, `reuse-s3verify.go`, `clean-s3verify.go`, the `main*` scenario files | `Suite`, `SuiteProofs` |

This is how the parts interact:

1. `callAllAPIs` prepares the server according to the flags. It either:
   - reuses the prepared buckets (`--reuse`);
   - cleans up old s3verify buckets; or
   - does nothing.
   It then runs the prepared or the unprepared test list.
2. Each scenario sends requests through `execRequest`. It appends what it
   created to package-level lists (`s3verifyBuckets`, `s3verifyObjects`, …).
   Later scenarios index those lists.
3. `execRequest` starts a timer goroutine and ranges over its `attemptCh`. Each
   index it receives is one attempt:
   - rewind the body;
   - build the request, which signs it with the current time;
   - call `Client.Do` and classify the result;
   - retry or return.
4. The service broker signs its requests to the agent with `auth/v4.go`'s
   `Sign`. The agent verifies them with `IsSigned`.

## 2. Modules

### `RetryClassify`

The classification tables, and `isNetErrorRetryable` as set membership.

- An error value is a record with three fields:
  - its dynamic Go type;
  - whether it implements `net.Error`;
  - the phrases its text contains.
- `strings.Contains` becomes membership in that set of phrases.
- `ClientDoError` is what `Client.Do` returns: a `*url.Error` that carries
  the inner error's text.

### `ExecRequest`

One call of `execRequest` together with its timer goroutine.

| Variable | Code |
|---|---|
| `pc` | the loop: `recv` (in `range attemptCh`), `inflight` (in `Client.Do`), `returning` (the deferred send), `done` |
| `attempts` | indices received from `attemptCh` |
| `hasBody`, `bodyPos`, `writers` | `contentBody`, its offset, the transport goroutines still reading it |
| `urlOK` | whether `makeTargetURL` succeeds for the endpoint |
| `resp`, `err`, `outcome` | the named results, and the exit the loop took |
| `signedAt` | the `X-Amz-Date` of each signed attempt |
| `tpc`, `ti`, `started` | the goroutine's position (`send`, `wait`, `closed`), its `i`, and when its timer started |
| `doneCh` | values buffered in `doneCh` (capacity 1) |
| `now`, `elapsed` | the clock in whole seconds, and the age of the exchange |

The actions are:

- `Recv`: an attempt up to `Client.Do`, or the early return on a bad URL.
- `RecvClosed`: the range loop ends.
- `NetFailure`, `Respond`, `ReadFailure`: the ways an exchange ends, each with
  every branch of the classification.
- `DeferDone`: the deferred send on `doneCh`.
- `TimerFires` and `DoneFires`: the two cases of the goroutine's `select`.
- `WriterRead`: a transport goroutine reads the body.
- `Tick`: the clock advances.

`Shl1` keeps Go's shift semantics. A negative count converted to `uint` is at
least 2^63, and an `int64` shifted by 64 or more is 0.

### `RetryPolicy` and the refinement

`RetryPolicy` is the spec's abstract retry machine (section 4.5):

- `waiting` → `attempting` (`StartAttempt`);
- `attempting` → `success`, `waiting` (retry) or `aborted`;
- `waiting` → `aborted` when the request cannot be built;
- `waiting` → `exhausted` after `MaxAttempts` attempts.

`ExecRequest` instantiates it as
`Policy == INSTANCE RetryPolicy WITH MaxAttempts <- MaxRetry, phase <- PhaseOf, n <- attempts`.
`PhaseOf` maps `pc` and `outcome` to a phase. The timer goroutine, the clock,
the body and the channels are hidden by this mapping.

`ImplementsRetryPolicy == Policy!Spec` is a property of `exec_safety`, so TLC
checks the refinement, fairness included. `RefinesRetryPolicy` proves the
safety part for every `MaxRetry`.

### `SigV4`

`SigV4` models header-based Signature V4.

The operators translate `v4.go`:

- `encodePath`, `sortQuery`, `getHashedPayload`;
- the signed-header selection with its ignored set;
- `getCanonicalHeaders`, `getCanonicalRequest`;
- `getScope`, `getCredential`, `getSigningKey`, `getSignature`;
- `getRequestSignedHeaders` and the `Authorization` parser of `IsSigned`,
  including its unchecked index.

The state is:

- `now`: the clock;
- `signed`: every request a client signed, with its credentials;
- `nsigned`: how many `Sign` calls were made;
- `inflight`: the request the agent is about to serve;
- `verdict`: `none`, `accepted`, `forbidden` or `panic`.

The actions are:

- `ClientSign(c, r)`: `Sign`, with any credentials. Only one set of credentials
  is the agent's.
- `Replay(s)`: the network delivers a signed request again.
- `Tamper`: the attacker changes any of these:
  - the method, path, query or host;
  - the value of an attacked header, or deletes the header;
  - the `Authorization` header, replacing it with one taken from another signed
    request or with a malformed one.
- `Serve`: the agent's handler, with `verdict' = Outcome(inflight)`.
- `Tick`: the clock advances.

These are the data abstractions:

- Hashes, HMACs and hex encoding are injective constructors.
- A header value is `<<word, padded>>`, where `padded` records the blanks that
  the server trims.
- A path is a sequence of characters. Its encoding is the sequence of per-rune
  encodings.
- A byte that is not UTF-8 is encoded as U+FFFD, as Go's `range` decodes it.

### `StreamLength`

This module covers `calculateSignedChunkLength`, `calculateStreamContentLength`
and `newPutObjectStreamingReq`. It checks them against the aws-chunked body that
the streaming signer writes.

The signer itself (`signv4.StreamingSignV4`) is not under `src/`. Its writer is
modelled from the spec's framing, and is marked `spec_modelled`. Each frame is
built as a sequence, so its length is counted rather than computed:
hex size, `;chunk-signature=`, 64 signature characters, CRLF, the data, CRLF.

`fmt.Sprintf("%x")` is a recursive function (`HexDigits`). This module is used
only by TLC.

### `Suite`

`Suite` models the runner and every scenario of both test lists.

- `setup`: the flags, as one of the `Setups`:
  - the mode: `reuse`, `clean` or `none`;
  - `--extended`;
  - the server faults allowed;
  - the `--exclude` list.
- `status`, `pc`, `failed`: the runner's position in the list, the failure
  count and the exit status.
- `fx`: the package-level fixtures, as list lengths:
  - `s3verifyBuckets`, `s3verifyPolicies`, `serverPolicies`;
  - `s3verifyObjects`, `objectParts0`, `preparedBuckets`;
  - `headed`, the prefix of `s3verifyObjects` whose Size, ETag and LastModified
    HeadObject has filled in.

`preparedTests` and `unpreparedTests` are the two 42-entry lists of `tests.go`.
Each entry has its Extended and Critical flags.

`Run(t, r)` gives one scenario's possible results:

- `pass`, `fail`, or `panic` (a Go index out of range, or `Int63n(0)`);
- the fixtures that the scenario appends to.

The actions are:

- `callAllAPIs`, with `mainReuseS3Verify` and `cleanS3verify`;
- `Exclude` and `SkipExtended`;
- `RunTest`: a critical, non-extended failure ends the run with exit 1;
- `Finish`.

The server is abstracted to whether each request verifies. A fault is one of:

- `reject`: the request fails and has no effect;
- `lost`: the request takes effect, but its reply is lost.

`serverPolicies` is the only server-side state that is kept.

## 3. Runs

| Run | Module / cfg | Expect | What it shows |
|---|---|---|---|
| `exec_safety` | `MCExecRequest.cfg` | pass | `TypeOK`. `ExhaustedAfterMaxRetry`: exhaustion means exactly `MaxRetry` attempts. `ResultDefined`: never `(nil, nil)`. `RetryAfterBackoff` (action property): a retry is signed only once its backoff has run out since the previous signature. `CallReturns`: every call returns. `ImplementsRetryPolicy`: the refinement. |
| `timer_goroutine_leak` | `MCExecRequest_GoroutineExits.cfg` | violation | The goroutine blocks on `attemptCh <- i+1` after the call has returned. |
| `tcp_errors_not_retried` | `MCExecRequest_TransientNetErrorRetried.cfg` | violation | A connection reset arrives as a `*url.Error` and is not retried. |
| `exhausted_body_consumed` | `MCExecRequest_ReturnedBodyReadable.cfg` | violation | `ReturnedBodyReadable`, checked only for calls that end because `attemptCh` closed: after three retryable-status attempts the returned body has already been read. |
| `zero_first_backoff` | `MCExecRequest_DistinctSigningTimes.cfg` | violation | Attempts 1 and 2 are signed in the same second. |
| `sigv4_safety` | `MCSigV4.cfg` | pass | `NoForgery`: an accepted request carries what a holder of the agent's key signed. `SignedRequestAccepted`: a request delivered as signed is accepted. |
| `signed_values_unbound` | `MCSigV4_SignedValuesBound.cfg` | violation | A second value appended to a signed header still verifies. |
| `malformed_authz_panics` | `MCSigV4_MalformedAuthzRejected.cfg` | violation | A `SignedHeaders` field without `=` panics in `IsSigned`. |
| `invalid_utf8_path_forgery` | `MCSigV4_NoForgery.cfg` | violation | Two paths that differ in a byte that is not UTF-8 share a signature. |
| `stream_length` | `MCStreamLength.cfg` | pass | Once closed, the written stream has exactly the declared length. |
| `suite_no_panic` | `MCSuite.cfg` | pass | These setups never index a fixture list past its end: no `--reuse` with a failing server (with and without `--extended` and with an `--exclude`), and `--reuse` with a conforming server. |
| `reuse_extended_panics` | `MCSuite_NoIndexPanic.cfg` | violation | `--reuse --extended` against a conforming server panics in GetObjectRange. |

There are two more configurations, outside the run list, that reproduce
divergences recorded as hazards:

- `MCExecRequest_NoConcurrentBodyReaders.cfg`: a retry reuses the body reader
  while the previous transport goroutine still reads it.
- `MCSigV4_SignedRequestAccepted.cfg`: with `MCRequestsMultiValued`, a request
  signed with two values on one header, or with a padded value, is refused.

### Bounds

**ExecRequest**

- `MaxRetry = 3` (the code uses 5). Three attempts already exercise three
  waits:
  - the zero first wait;
  - a one-second wait, shorter than an exchange;
  - a two-second wait, as long as one.
- Exchanges take up to `MaxNetDelay = 2` seconds.
- Statuses `{200, 404, 503}`: a success, a permanent error and a retryable
  status.
- One permanent code and one retryable code.
- Three transport failures.

**SigV4**

- Two credentials: the agent's key, and one with the same access key and a
  wrong secret.
- A PUT with a metadata header and a `Content-Type`, and a GET with a query.
- Two hosts.
- The forged values: one value, another value, and both together.
- `MaxTime = 1`, `DayLength = 2`, `MaxSigned = 2`.

These bounds are enough for an attacker to move a signature between:

- requests;
- methods, paths, queries and hosts;
- the two keys;
- two dates.

**StreamLength**

- Every body of 1 to 40 bytes, and the spec's 70000-byte vector.
- Chunk sizes 1, 15, 16, 17 and 65536. They lie on both sides of the
  one-to-two hex digit boundary and of 64 KiB.

**Suite**

- `NumTestObjects = 2`.
- Four setups:
  - `none`, `--extended`, `reject`;
  - `none` with an exclude, `reject`;
  - `clean`, `reject`;
  - `reuse` against a conforming server.
- These setups make every scenario and every runner branch fire.

### Mutants

Each property of a passing run has a mutant in `PROJECT.json` that breaks it,
for example:

- the goroutine's loop running one index too far;
- an unbuffered `doneCh`;
- a retry on a bad URL (which breaks the refinement);
- a timer that is not restarted when the loop takes an index (which breaks `RetryAfterBackoff`);
- a verifier that omits the header values, or does not add `Host`;
- a hex length that is one digit short at 16;
- an extra remainder frame;
- `mainPutBucket` made optional in the unprepared list;
- UploadPart assigning every part to the first object.

### Fairness

`ExecRequest` has weak fairness on each action of the loop, the goroutine and
the transport, and on `Tick`. The reasons:

- The Go scheduler runs a runnable goroutine.
- A started timer fires.
- An exchange ends. This is an assumption: the client has no overall timeout
  (hazard at `server-config.go:47`).

The server's choice of answer is not fair.

`RetryPolicy!Spec` asks only `WF(Next)`: a call is one blocking operation that
ends.

The other modules check only safety.

## 4. Proofs

### `ExecRequestProofs`

The theorems hold for every `MaxRetry` in `1..33`. Beyond that, the nanosecond
backoff overflows `int64`.

- `TypeCorrect`: `Spec => []TypeOK`.
- `ExhaustedAfterMaxRetryHolds`.
- `ResultDefinedHolds`.
- `RefinesRetryPolicy`: `Spec => Policy!SafeSpec`.
- `RetryAfterBackoffHolds`: `Spec => RetryAfterBackoff`.

The inductive invariant `IInv` adds four facts to `TypeOK`:

- `Synced`: the goroutine's `i` and `attempts` stay in step. If `attemptCh` is
  closed while the call is still live, all the indices were taken.
- `DoneAfterReturn`: `doneCh` fills only after the return.
- `PerAttempt`: there is at most one body writer per attempt.
- `LoopResult` / `Returned`: a nil response always comes with an error.

`InitIInv` and `NextIInv` have one step per action. The refinement is proved by:

- `InitRefines`;
- `NextRefines`: each step maps to a `RetryPolicy` step or a stutter, under
  `IInv`.

`RetryAfterBackoffHolds` proves the action property `RetryAfterBackoff`.
It assumes `BackoffsNat`: every `BinomialWait(i)`, for `i` in `0..MaxRetry`, is a natural number.
This is plain arithmetic (`Unit` times 0 or `2^k`), but tlapm cannot evaluate `2^k`, even for constant `k`.
`MCExecRequest` states it as `ASSUME BackoffsChecked`, so every run evaluates it.
The proof rests on a second invariant, `Paced`, which TLC checks together with `IInv`:

- a buildable request has one signature per attempt;
- while the timer runs, `started` is the time of the last signature;
- once the goroutine offers the next index, that index's backoff has run out since the last signature.

`NextPaced` needs `IInv`'s `Synced` to relate the goroutine's `i` to `attempts`.
`SignOnlyOnRecv` shows that only a `Recv` of a buildable request appends to `signedAt`.

### `SigV4Proofs`

The theorems hold for every instance whose paths are valid UTF-8
(`PathsValid`, a hypothesis of each theorem):

- `NoForgeryHolds`: `Spec => []NoForgery`.
- `SigV4TypeCorrect`.

The theorem `SignedRequestAcceptedHolds` (below) needs a different hypothesis.

`IInv == TypeOK /\ SignedOK /\ InflightOK /\ NoForgery`, where:

- `SignedOK`: every signed entry is `WellSigned`. It has a `Host` header holding
  its host, trimmed values, and only non-ignored names.
- `InflightOK`: the request in flight has trimmed headers, a path and query from the model's sets, and an `Authorization` taken from a signed request or one of the two malformed ones.

The core lemma is `Unforgeable`. An accepted `Authorization` equal to the
agent's recomputed one forces the same key, scope and canonical request. Its
argument uses the injective constructors, with these helper lemmas:

- `EncodeRuneInjective` and `EncodePathInjective`, which need `PathsValid`;
- `CanonicalKeyLower`.

`SignedRequestAcceptedHolds` is the round trip `verify(sign(r, creds), creds)`.
It assumes `PlainRequests`: every header of every client request holds one value without surrounding blanks, as `Header.Set` leaves it.
That is how every caller in `src/` builds its headers.
The run `MCSigV4_SignedRequestAccepted.cfg` shows that a multi-valued or padded header breaks the round trip.
`PathsValid` is not needed. The invariant `RInv` has three parts:

- `VerdictOK`: the verdict is the handler's answer to the request in flight;
- `SignedBySign`: every signed request is a `Sign` result;
- `now \in Nat`.

Each part is inductive on its own. The argument is in the lemmas:

- `SignPlain` and `WireHeaders`: `RequestSignedHeaders` of the delivered request is exactly the signer's header map restricted to the names it signed;
- `AuthzAgree`: such a map gives the same `Authorization` value;
- `AuthzShape`: that value is never one of the malformed texts, so `IsSigned` holds and nothing panics (`RoundTrip`).

### `StreamLengthProofs`

The theorems hold for every chunk size and data length:

- `ContentLengthExactHolds`;
- `StreamLengthTypeCorrect`.

They rest on two hypotheses:

- `HexDigitsWellFormed`: the recursive function `HexDigits[n]` is a sequence of `HexDigitCount[n]` digits. This is induction over data, which the provers cannot do. `MCStreamLength` checks it for every `n` up to 70000 (`ASSUME HexDigitsChecked`).
- `NonEmptyBodies`: no data length is 0. The one caller, `mainPutObjectStream`, uploads 60 random bytes; the empty body stays a hazard.

The inductive invariant is "written plus owed is declared".
The bytes written, plus `Owed(rem, chunkSize)` (the frames still to come for the remaining data), plus the final empty frame while not yet closed, equal the declared `Content-Length`.
The lemmas that support it:

- `FrameLength` gives the length of one signed frame, from the 81-character signature field (`ChunkSignatureFieldLength`).
- `DivMod` and `DivUnique` give the division facts.
- `OwedFullChunk`, `OwedRemainder` and `DeclaredOwed` tie `Owed` to `CalculateStreamContentLength`.

### `SuiteProofs`

Two theorems hold for every set of setups:

- `SuiteTypeCorrect`: `Spec => []TypeOK`.
- `NoIndexPanicHolds`: `Spec => []NoIndexPanic`, under the hypothesis `SafeSetups`.

`SafeSetups` says that every setup is one of these:

- `--clean`;
- no `--reuse`, against a server that may refuse requests but never loses a reply;
- `--reuse` without `--extended`, against a server that answers as S3 does.

In the last two, no `--exclude` names a scenario that fills a fixture list (`FixtureScenarios`).

The theorems quantify over `NumTestObjects`, but the model does not track the slices of the object list in the ListObjects scenarios (`objectInfo[:1000]`, `[:30]`, `[30]` and `[31:]` in `list-objects-v1.go` and `list-objects-v2.go`).
Those slices are in range only because `globals.go:39` sets `globalNumTestObjects` to 1001.
So `NoIndexPanicHolds` covers the program as built, with 1001 objects.
For other object counts it covers only the fixture indexes the model tracks.
This is the exact boundary TLC finds. A setup outside it can panic: `MCSuite` asserts that the passing run's setups are safe and that the violation run's `--reuse --extended` is not (`ASSUME MCSetupsSafe`).

The argument rests on where the two lists put their scenarios:

- `PreparedPlaced` and `UnpreparedPlaced` (through `UnpreparedNameInverse`, the renaming undone) state `Placed(L)`.
  - PutBucket sits at 1, PutBucketPolicy at 3, PutObject at 5, HeadObject at 7 and UploadPart at 19.
  - Every scenario that indexes their lists comes later.
  - GetObjectRange is Extended.
- `UnpreparedGates`: the entries at 1, 5, 7 and 19 are Critical in the unprepared list.

There are two inductive invariants, which TLC checked first on the setups of `MCSuite` and on unsafe ones:

- `TInv` bounds the fixtures from above by the position `pc` (`Bounded`). Each scenario runs once, at its own place, so no list outgrows what the entries before `pc` append. It gives `TypeOK` and needs no hypothesis.
- `PInv` bounds them from below while the run goes on (`Filled`). The entry that fills a list has either filled it or ended the run, because it is Critical. Under `--reuse` the server cannot fail it. PutBucketPolicy saves a policy before it sends it, so a refused PUT leaves the server with fewer policies than are saved, and GetBucketPolicy never indexes past the end.

The step lemmas:

- `RunReadOnly`: the 37 scenarios that fill no list leave the fixtures unchanged, and panic only under `PanicGuard`.
- `RunBounds` and `RunFilled` take one case per writing scenario.
- `NextTInv` and `NextPInv` take one case per action.

### What stays with TLC

These properties are checked by TLC only:

- Liveness: `CallReturns`, `GoroutineExits`, and the fairness part of `ImplementsRetryPolicy`. The provers do not reason about `ENABLED` and fairness.
- The value of the recursive hex functions of `StreamLength` for every input. Proving it needs induction over data; TLC checks it up to 70000, and the theorems take it as a hypothesis.
- `BackoffsNat`, an arithmetic fact about `2^k` that tlapm cannot evaluate.
- `NoIndexPanic` for the setups outside `SafeSetups`. Where it fails, TLC finds the violation: `--reuse --extended` in the run `reuse_extended_panics`. For a lost reply under `none`, `--reuse` against a failing server, and an `--exclude` of a scenario that fills a fixture list, single-setup runs of `MCSuite` find the violation too.

## 5. Findings

Each finding is in `PROJECT.json`, with its source line:

- **`timer_goroutine_leak`** (code bug): one goroutine leaks per call.
- **`tcp_errors_not_retried`**: the TCP retry list is unreachable.
- **`exhausted_body_consumed`**: after retries run out, the returned body has
  already been read.
- **`zero_first_backoff`**: the first backoff is `1 << uint(-1)`, which is 0.
- **`signed_values_unbound`**: the verifier reads only the first value of a
  header.
- **`malformed_authz_panics`** (code bug): `len(signedHeadersField)` is checked
  where `len(signedHeadersList)` is meant.
- **`invalid_utf8_path_forgery`**: the `len < 0` branch of `encodePath` is dead.
- **`reuse_extended_panics`** (code bug): under `--reuse`, nothing heads
  `s3verifyObjects`. `mainGetObjectRange` then calls `rand.Int63n(0)`, and
  `--extended` reaches it.

## 6. Not modelled

- **`signv4` presigned and streaming signers:** this package is not under
  `src/`. Only the stream's framing is modelled, in `StreamLength`.
- **Request contents and response verification in the scenarios:** these are
  abstracted to whether each request verifies.
- **CLI plumbing:** flags, server configuration, the scan bar, the post-policy
  document and the XML types. These only build the setup.
- **`aminer`:** log mining, which is pure I/O.
- **`xray`:** an unrelated video service.
- **`minio-xl` RPC stubs:** they return constant replies.
- **`ioclone`:** it does not compile.
