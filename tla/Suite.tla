-------------------------------- MODULE Suite --------------------------------
(***************************************************************************)
(* The s3verify test runner (callAllAPIs and runTests, cmd/main.go) and    *)
(* the scenarios it runs (the main* functions of cmd/*.go, listed in       *)
(* preparedTests and unpreparedTests, cmd/tests.go).                        *)
(*                                                                          *)
(* The scenarios share package-level fixture lists: a scenario appends     *)
(* the buckets, policies, objects and parts it created, and a later one    *)
(* indexes them (s3verifyBuckets[0], s3verifyPolicies[1], ...).  A list is *)
(* abstracted to its length, so an index past its end, which panics in Go *)
(* and ends the process, is visible.  Of an object, only whether HeadObject *)
(* has filled in its Size, ETag and LastModified is kept (headed).         *)
(*                                                                          *)
(* The server is abstracted to the outcome of each request: it is           *)
(* answered as S3 specifies, or (fault "reject") fails without taking       *)
(* effect, or (fault "lost") takes effect but its reply is lost or does    *)
(* not verify.  Only the bucket policies are kept on the server side: a     *)
(* later scenario's answers depend on them.  Messages, scan bar and timing *)
(* are left out.                                                           *)
(***************************************************************************)
EXTENDS Naturals, Sequences

CONSTANTS
    NumTestObjects,  \* globalNumTestObjects
    Setups           \* the command lines and servers a run starts from

\* A setup: --reuse / --clean / neither, --extended, the server's faults,
\* and the --exclude list.
SetupAssumption ==
    Setups \subseteq [mode : {"reuse", "clean", "none"}, extended : BOOLEAN,
                      faults : SUBSET {"reject", "lost"}, excludes : SUBSET STRING]

ASSUME SuiteAssumption ==
    /\ NumTestObjects \in Nat \ {0}
    /\ SetupAssumption

VARIABLES
    setup,   \* the setup this process started with
    status,  \* "start" | "running" | "exit0" | "exit1" | "panic"
    pc,      \* index of the next entry of the test list
    failed,  \* runTests' failed
    fx       \* the fixtures, below

\* The package-level fixtures, as lengths: len(s3verifyBuckets),
\* len(s3verifyPolicies), len(s3verifyObjects), len(objectParts[0]),
\* len(preparedBuckets); s3verifyObjects[0 .. headed-1] have their Size,
\* ETag and LastModified; buckets 0 .. serverPolicies-1 carry a policy on
\* the server.
Fixtures == [s3verifyBuckets : Nat, s3verifyPolicies : Nat, serverPolicies : Nat,
             s3verifyObjects : Nat, headed : Nat, objectParts0 : Nat,
             preparedBuckets : Nat]

NoFixtures == [s3verifyBuckets |-> 0, s3verifyPolicies |-> 0, serverPolicies |-> 0,
               s3verifyObjects |-> 0, headed |-> 0, objectParts0 |-> 0,
               preparedBuckets |-> 0]

vars == <<setup, status, pc, failed, fx>>

-----------------------------------------------------------------------------
(* The test lists (cmd/tests.go).                                         *)

APItest(test, extended, critical) ==
    [test |-> test, extended |-> extended, critical |-> critical]

preparedTests == <<
    APItest("mainPutBucket", FALSE, FALSE),
    APItest("mainPutBucketInvalid", FALSE, FALSE),
    APItest("mainPutBucketPolicy", FALSE, FALSE),
    APItest("mainGetBucketPolicy", FALSE, FALSE),
    APItest("mainPutObjectPrepared", FALSE, FALSE),
    APItest("mainHeadBucket", FALSE, FALSE),
    APItest("mainHeadObjectPrepared", FALSE, TRUE),
    APItest("mainHeadObjectIfModifiedSince", TRUE, FALSE),
    APItest("mainHeadObjectIfUnModifiedSince", TRUE, FALSE),
    APItest("mainHeadObjectIfMatch", TRUE, FALSE),
    APItest("mainHeadObjectIfNoneMatch", TRUE, FALSE),
    APItest("mainListBuckets", FALSE, FALSE),
    APItest("mainListObjectsV1Prepared", FALSE, FALSE),
    APItest("mainListObjectsV2Prepared", FALSE, FALSE),
    APItest("mainPutObjectStream", FALSE, FALSE),
    APItest("mainPresignedPutObject", FALSE, FALSE),
    APItest("mainPostObject", FALSE, TRUE),
    APItest("mainInitiateMultipartUpload", FALSE, TRUE),
    APItest("mainUploadPart", FALSE, TRUE),
    APItest("mainReuploadPart", FALSE, TRUE),
    APItest("mainListParts", FALSE, FALSE),
    APItest("mainListMultipartUploads", FALSE, FALSE),
    APItest("mainCompleteMultipartUpload", FALSE, TRUE),
    APItest("mainAbortMultipartUpload", FALSE, FALSE),
    APItest("mainCopyObject", FALSE, FALSE),
    APItest("mainCopyObjectIfModifiedSince", TRUE, FALSE),
    APItest("mainCopyObjectIfUnModifiedSince", TRUE, FALSE),
    APItest("mainCopyObjectIfMatch", TRUE, FALSE),
    APItest("mainCopyObjectIfNoneMatch", TRUE, FALSE),
    APItest("mainGetObject", FALSE, FALSE),
    APItest("mainGetObjectMultipart", FALSE, FALSE),
    APItest("mainGetObjectPresigned", FALSE, FALSE),
    APItest("mainGetObjectIfModifiedSince", TRUE, FALSE),
    APItest("mainGetObjectIfUnModifiedSince", TRUE, FALSE),
    APItest("mainGetObjectIfMatch", TRUE, FALSE),
    APItest("mainGetObjectIfNoneMatch", TRUE, FALSE),
    APItest("mainGetObjectRange", TRUE, FALSE),
    APItest("mainRemoveBucketNotEmpty", FALSE, FALSE),
    APItest("mainRemoveObjectExists", FALSE, TRUE),
    APItest("mainRemoveObjectDNE", FALSE, FALSE),
    APItest("mainRemoveBucketExists", FALSE, TRUE),
    APItest("mainRemoveBucketDNE", FALSE, FALSE) >>

\* The unprepared list differs in its names for PutObject, HeadObject and
\* ListObjects and in the Critical flags of five entries.
UnpreparedName(t) ==
    CASE t = "mainPutObjectPrepared" -> "mainPutObjectUnPrepared"
      [] t = "mainHeadObjectPrepared" -> "mainHeadObjectUnPrepared"
      [] t = "mainListObjectsV1Prepared" -> "mainListObjectsV1UnPrepared"
      [] t = "mainListObjectsV2Prepared" -> "mainListObjectsV2UnPrepared"
      [] OTHER -> t

UnpreparedCritical ==
    {"mainPutBucket", "mainPutObjectUnPrepared", "mainHeadObjectUnPrepared",
     "mainPutObjectStream", "mainPresignedPutObject", "mainPostObject",
     "mainInitiateMultipartUpload", "mainUploadPart", "mainReuploadPart",
     "mainCompleteMultipartUpload", "mainRemoveObjectExists"}

UnpreparedList(critical) ==
    [i \in 1..Len(preparedTests) |->
       LET t == UnpreparedName(preparedTests[i].test)
       IN  APItest(t, preparedTests[i].extended, t \in critical)]

\* Mutant: PutBucket is not Critical in the unprepared list either.
unpreparedTestsPutBucketOptional == UnpreparedList(UnpreparedCritical \ {"mainPutBucket"})

unpreparedTests == UnpreparedList(UnpreparedCritical)

-----------------------------------------------------------------------------
(* Outcomes of a scenario: r is what it ends with, "pass" (true), "fail"    *)
(* (false) or "panic" (an index out of range or a bad argument, which ends  *)
(* the process), and fx' the fixtures it leaves.                            *)

CanFail == setup.faults # {}
Lost == "lost" \in setup.faults

Same == fx' = fx

\* Every request of the scenario verifies, or one of them fails.
Requests(r) == Same /\ (r = "pass" \/ (CanFail /\ r = "fail"))

\* k of the n iterations of a loop whose every iteration must verify.
Loop(k, n, r) ==
    /\ r = IF k = n THEN "pass" ELSE "fail"
    /\ k < n => CanFail

\* A request that carries an object's ETag or dates: when HeadObject never
\* filled them in, the zero value is sent and the answer is anyone's guess.
Conditional(known, r) ==
    IF known THEN Requests(r) ELSE Same /\ r \in {"pass", "fail"}

\* A scenario whose first statements index fixture lists.
Indexing(inRange, r, body) == IF inRange THEN body ELSE Same /\ r = "panic"

Buckets(n) == fx.s3verifyBuckets >= n
Object0 == fx.s3verifyObjects >= 1
Headed0 == fx.headed >= 1

-----------------------------------------------------------------------------
(* The scenarios that change fixtures.                                      *)

\* Four buckets, each saved once created.
mainPutBucket(r) ==
    \E k \in 0..4 :
        fx' = [fx EXCEPT !.s3verifyBuckets = @ + k] /\ Loop(k, 4, r)

\* range s3verifyBuckets[:3]; each policy is saved before it is sent.
mainPutBucketPolicy(r) ==
    Indexing(Buckets(3), r,
      \E j \in 0..3, applied \in 0..3 :
        /\ fx' = [fx EXCEPT !.s3verifyPolicies = @ + (IF j = 3 THEN 3 ELSE j + 1),
                            !.serverPolicies = @ + applied]
        /\ \/ j = 3 /\ applied = 3 /\ r = "pass"
           \/ j < 3 /\ CanFail /\ applied = j /\ r = "fail"
           \/ j < 3 /\ Lost /\ applied = j + 1 /\ r = "fail")

\* Bucket 3 has no policy; buckets 0, 1, 2 have s3verifyPolicies[0..2],
\* each indexed once the bucket's GET has been answered.
mainGetBucketPolicy(r) ==
    Indexing(Buckets(4), r,
      /\ Same
      /\ \/ CanFail /\ r = "fail"
         \/ \E j \in 0..2 :
              fx.serverPolicies >= j /\ fx.s3verifyPolicies <= j /\ r = "panic"
         \/ \E j \in 0..2 :
              fx.serverPolicies = j /\ fx.s3verifyPolicies > j /\ r = "fail"
         \/ fx.serverPolicies >= 3 /\ fx.s3verifyPolicies >= 3 /\ r = "pass")

\* One object into s3verifyBuckets[0], saved once stored.
PutOne(r) ==
    Indexing(Buckets(1), r,
      \/ r = "pass" /\ fx' = [fx EXCEPT !.s3verifyObjects = @ + 1]
      \/ CanFail /\ r = "fail" /\ Same)
mainPutObjectPrepared(r) == PutOne(r)
mainPutObjectStream(r) == PutOne(r)
mainPresignedPutObject(r) == PutOne(r)

mainPutObjectUnPrepared(r) ==
    Indexing(Buckets(1), r,
      \E k \in 0..NumTestObjects :
        /\ fx' = [fx EXCEPT !.s3verifyObjects = @ + k]
        /\ Loop(k, NumTestObjects, r))

\* The object is saved after the first POST; a second POST, to a bucket
\* that does not exist, must be refused.
mainPostObject(r) ==
    Indexing(Buckets(1), r,
      \/ CanFail /\ r = "fail" /\ Same
      \/ /\ fx' = [fx EXCEPT !.s3verifyObjects = @ + 1]
         /\ r = "pass" \/ (CanFail /\ r = "fail"))

\* HEAD each of n objects in turn; k of them are answered and recorded.
mainHeadObject(k, n, r) == Loop(k, n, r)

mainHeadObjectUnPrepared(r) ==
    Indexing(Buckets(1), r,
      \E k \in 0..fx.s3verifyObjects :
        /\ mainHeadObject(k, fx.s3verifyObjects, r)
        /\ fx' = [fx EXCEPT !.headed = IF k > @ THEN k ELSE @])

mainHeadObjectPrepared(r) ==
    Indexing(fx.preparedBuckets >= 1, r,
      \E k \in 0..NumTestObjects : mainHeadObject(k, NumTestObjects, r) /\ Same)

\* Mutant: every uploaded part is saved in objectParts[0].
mainUploadPartAllToFirst(r) ==
    Indexing(Buckets(1), r,
      \E k \in 0..2 :
        /\ fx' = [fx EXCEPT !.objectParts0 = @ + k]
        /\ Loop(k, 2, r))

\* One part per multipart object, saved in objectParts[i] once uploaded.
mainUploadPart(r) ==
    Indexing(Buckets(1), r,
      \E k \in 0..2 :
        /\ fx' = [fx EXCEPT !.objectParts0 = @ + (IF k >= 1 THEN 1 ELSE 0)]
        /\ Loop(k, 2, r))

\* Overwrites objectParts[0][0] once the new part is uploaded.
mainReuploadPart(r) ==
    Indexing(Buckets(1), r,
      /\ Same
      /\ \/ CanFail /\ r = "fail"
         \/ r = IF fx.objectParts0 >= 1 THEN "pass" ELSE "panic")

\* rand.Int63n(s3verifyObjects[0].Size), before any request, panics when
\* the Size was never filled in.
mainGetObjectRange(r) ==
    Indexing(Buckets(1) /\ Object0, r,
      IF Headed0 THEN Requests(r) ELSE Same /\ r = "panic")

\* Objects of s3verifyBuckets[0], multipart objects, then copyObjects of
\* s3verifyBuckets[1].
mainRemoveObjectExists(r) ==
    Indexing(Buckets(1), r,
      \/ CanFail /\ r = "fail" /\ Same
      \/ IF Buckets(2) THEN Requests(r) ELSE Same /\ r = "panic")

-----------------------------------------------------------------------------
(* The scenarios that only read fixtures.                                  *)

mainPutBucketInvalid(r) == Requests(r)
mainListBuckets(r) == Requests(r)
mainRemoveBucketExists(r) == Requests(r)
mainRemoveBucketDNE(r) == Requests(r)
mainHeadBucket(r) == Indexing(Buckets(1), r, Requests(r))
mainInitiateMultipartUpload(r) == Indexing(Buckets(1), r, Requests(r))
mainListParts(r) == Indexing(Buckets(1), r, Requests(r))
mainListMultipartUploads(r) == Indexing(Buckets(1), r, Requests(r))
mainCompleteMultipartUpload(r) == Indexing(Buckets(1), r, Requests(r))
mainAbortMultipartUpload(r) == Indexing(Buckets(1), r, Requests(r))
mainGetObjectMultipart(r) == Indexing(Buckets(1), r, Requests(r))
mainRemoveBucketNotEmpty(r) == Indexing(Buckets(1), r, Requests(r))
mainRemoveObjectDNE(r) == Indexing(Buckets(1), r, Requests(r))
mainGetObject(r) == Indexing(Buckets(1) /\ Object0, r, Requests(r))
mainGetObjectPresigned(r) == Indexing(Buckets(1) /\ Object0, r, Requests(r))

\* ListObjects over the given bucket and objects. The expected listings
\* slice the object list (objectInfo[:1000], [:30], [30], [31:]); they are
\* in range because globalNumTestObjects is 1001 and are not modelled.
mainListObjectsV1(r) == Requests(r)
mainListObjectsV2(r) == Requests(r)
mainListObjectsV1UnPrepared(r) == Indexing(Buckets(1), r, mainListObjectsV1(r))
mainListObjectsV2UnPrepared(r) == Indexing(Buckets(1), r, mainListObjectsV2(r))
mainListObjectsV1Prepared(r) ==
    Indexing(fx.preparedBuckets >= 1, r, mainListObjectsV1(r))
mainListObjectsV2Prepared(r) ==
    Indexing(fx.preparedBuckets >= 1, r, mainListObjectsV2(r))

\* Conditional HEADs of s3verifyObjects[0].
mainHeadObjectIfModifiedSince(r) == Indexing(Buckets(1) /\ Object0, r, Conditional(Headed0, r))
mainHeadObjectIfUnModifiedSince(r) == Indexing(Buckets(1) /\ Object0, r, Conditional(Headed0, r))
mainHeadObjectIfMatch(r) == Indexing(Buckets(1) /\ Object0, r, Conditional(Headed0, r))
mainHeadObjectIfNoneMatch(r) == Indexing(Buckets(1) /\ Object0, r, Conditional(Headed0, r))

\* Copies of s3verifyObjects[0] from s3verifyBuckets[0] to s3verifyBuckets[1].
mainCopyObject(r) == Indexing(Buckets(2) /\ Object0, r, Requests(r))
mainCopyObjectIfModifiedSince(r) == Indexing(Buckets(2) /\ Object0, r, Requests(r))
mainCopyObjectIfUnModifiedSince(r) == Indexing(Buckets(2) /\ Object0, r, Conditional(Headed0, r))
mainCopyObjectIfMatch(r) == Indexing(Buckets(2) /\ Object0, r, Conditional(Headed0, r))
mainCopyObjectIfNoneMatch(r) == Indexing(Buckets(2) /\ Object0, r, Conditional(Headed0, r))

\* Conditional GETs of every object of s3verifyObjects.
AllHeaded == fx.headed >= fx.s3verifyObjects
mainGetObjectIfModifiedSince(r) == Indexing(Buckets(1), r, Conditional(AllHeaded, r))
mainGetObjectIfUnModifiedSince(r) == Indexing(Buckets(1), r, Conditional(AllHeaded, r))
mainGetObjectIfMatch(r) == Indexing(Buckets(1), r, Conditional(AllHeaded, r))
mainGetObjectIfNoneMatch(r) == Indexing(Buckets(1), r, Conditional(AllHeaded, r))

-----------------------------------------------------------------------------
(* test.Test(config, count): the scenario an entry of the list names.      *)

Run(t, r) ==
    CASE t = "mainPutBucket" -> mainPutBucket(r)
      [] t = "mainPutBucketPolicy" -> mainPutBucketPolicy(r)
      [] t = "mainGetBucketPolicy" -> mainGetBucketPolicy(r)
      [] t = "mainPutObjectPrepared" -> mainPutObjectPrepared(r)
      [] t = "mainPutObjectStream" -> mainPutObjectStream(r)
      [] t = "mainPresignedPutObject" -> mainPresignedPutObject(r)
      [] t = "mainPutObjectUnPrepared" -> mainPutObjectUnPrepared(r)
      [] t = "mainPostObject" -> mainPostObject(r)
      [] t = "mainHeadObjectUnPrepared" -> mainHeadObjectUnPrepared(r)
      [] t = "mainHeadObjectPrepared" -> mainHeadObjectPrepared(r)
      [] t = "mainUploadPart" -> mainUploadPart(r)
      [] t = "mainReuploadPart" -> mainReuploadPart(r)
      [] t = "mainGetObjectRange" -> mainGetObjectRange(r)
      [] t = "mainRemoveObjectExists" -> mainRemoveObjectExists(r)
      [] t = "mainPutBucketInvalid" -> mainPutBucketInvalid(r)
      [] t = "mainListBuckets" -> mainListBuckets(r)
      [] t = "mainRemoveBucketExists" -> mainRemoveBucketExists(r)
      [] t = "mainRemoveBucketDNE" -> mainRemoveBucketDNE(r)
      [] t = "mainHeadBucket" -> mainHeadBucket(r)
      [] t = "mainInitiateMultipartUpload" -> mainInitiateMultipartUpload(r)
      [] t = "mainListParts" -> mainListParts(r)
      [] t = "mainListMultipartUploads" -> mainListMultipartUploads(r)
      [] t = "mainCompleteMultipartUpload" -> mainCompleteMultipartUpload(r)
      [] t = "mainAbortMultipartUpload" -> mainAbortMultipartUpload(r)
      [] t = "mainGetObjectMultipart" -> mainGetObjectMultipart(r)
      [] t = "mainRemoveBucketNotEmpty" -> mainRemoveBucketNotEmpty(r)
      [] t = "mainRemoveObjectDNE" -> mainRemoveObjectDNE(r)
      [] t = "mainGetObject" -> mainGetObject(r)
      [] t = "mainGetObjectPresigned" -> mainGetObjectPresigned(r)
      [] t = "mainListObjectsV1UnPrepared" -> mainListObjectsV1UnPrepared(r)
      [] t = "mainListObjectsV2UnPrepared" -> mainListObjectsV2UnPrepared(r)
      [] t = "mainListObjectsV1Prepared" -> mainListObjectsV1Prepared(r)
      [] t = "mainListObjectsV2Prepared" -> mainListObjectsV2Prepared(r)
      [] t = "mainHeadObjectIfModifiedSince" -> mainHeadObjectIfModifiedSince(r)
      [] t = "mainHeadObjectIfUnModifiedSince" -> mainHeadObjectIfUnModifiedSince(r)
      [] t = "mainHeadObjectIfMatch" -> mainHeadObjectIfMatch(r)
      [] t = "mainHeadObjectIfNoneMatch" -> mainHeadObjectIfNoneMatch(r)
      [] t = "mainCopyObject" -> mainCopyObject(r)
      [] t = "mainCopyObjectIfModifiedSince" -> mainCopyObjectIfModifiedSince(r)
      [] t = "mainCopyObjectIfUnModifiedSince" -> mainCopyObjectIfUnModifiedSince(r)
      [] t = "mainCopyObjectIfMatch" -> mainCopyObjectIfMatch(r)
      [] t = "mainCopyObjectIfNoneMatch" -> mainCopyObjectIfNoneMatch(r)
      [] t = "mainGetObjectIfModifiedSince" -> mainGetObjectIfModifiedSince(r)
      [] t = "mainGetObjectIfUnModifiedSince" -> mainGetObjectIfUnModifiedSince(r)
      [] t = "mainGetObjectIfMatch" -> mainGetObjectIfMatch(r)
      [] t = "mainGetObjectIfNoneMatch" -> mainGetObjectIfNoneMatch(r)

Tests == IF setup.mode = "reuse" THEN preparedTests ELSE unpreparedTests

Init ==
    /\ setup \in Setups
    /\ status = "start"
    /\ pc = 1
    /\ failed = 0
    /\ fx = NoFixtures

\* mainReuseS3Verify: the bucket s3verify-<suffix> is found or made and
\* saved in preparedBuckets, then the test objects are listed and the
\* missing ones put; an error is fatal.
mainReuseS3Verify ==
    \/ fx' = [fx EXCEPT !.preparedBuckets = 1] /\ status' = "running"
    \/ CanFail /\ Same /\ status' = "exit1"

\* cleanS3verify: remove the objects and the buckets of the prefix; an
\* error is fatal.
cleanS3verify ==
    /\ Same
    /\ status' \in {"exit0"} \cup (IF CanFail THEN {"exit1"} ELSE {})

\* callAllAPIs: the endpoint must answer; then --reuse prepares and runs
\* preparedTests, --clean cleans, and otherwise unpreparedTests run.
callAllAPIs ==
    /\ status = "start"
    /\ \/ CanFail /\ Same /\ status' = "exit1"
       \/ setup.mode = "reuse" /\ mainReuseS3Verify
       \/ setup.mode = "clean" /\ cleanS3verify
       \/ setup.mode = "none" /\ Same /\ status' = "running"
    /\ UNCHANGED <<setup, pc, failed>>

Entry == Tests[pc]
Listed == status = "running" /\ pc <= Len(Tests)

\* runTests: an excluded entry is skipped.
Exclude ==
    /\ Listed
    /\ Entry.test \in setup.excludes
    /\ pc' = pc + 1
    /\ UNCHANGED <<setup, status, failed, fx>>

\* runTests: an Extended entry is skipped unless --extended.
SkipExtended ==
    /\ Listed
    /\ Entry.test \notin setup.excludes
    /\ Entry.extended /\ ~setup.extended
    /\ pc' = pc + 1
    /\ UNCHANGED <<setup, status, failed, fx>>

\* runTests: the entry's scenario runs; a failure is counted, and the
\* failure of a Critical entry that is not Extended exits at once.
RunTest ==
    /\ Listed
    /\ Entry.test \notin setup.excludes
    /\ setup.extended \/ ~Entry.extended
    /\ \E r \in {"pass", "fail", "panic"} :
         /\ Run(Entry.test, r)
         /\ failed' = IF r = "fail" THEN failed + 1 ELSE failed
         /\ status' = CASE r = "panic" -> "panic"
                        [] r = "fail" /\ Entry.critical /\ ~Entry.extended -> "exit1"
                        [] OTHER -> "running"
    /\ pc' = pc + 1
    /\ UNCHANGED setup

\* runTests: after the last entry, exit 1 if any scenario failed.
Finish ==
    /\ status = "running"
    /\ pc > Len(Tests)
    /\ status' = IF failed > 0 THEN "exit1" ELSE "exit0"
    /\ UNCHANGED <<setup, pc, failed, fx>>

Next ==
    \/ callAllAPIs
    \/ Exclude
    \/ SkipExtended
    \/ RunTest
    \/ Finish

Spec == Init /\ [][Next]_vars

-----------------------------------------------------------------------------
(* Properties.                                                             *)

TypeOK ==
    /\ setup \in Setups
    /\ status \in {"start", "running", "exit0", "exit1", "panic"}
    /\ pc \in 1..(Len(Tests) + 1)
    /\ failed \in 0..Len(Tests)
    /\ fx \in Fixtures
    /\ fx.s3verifyBuckets \in 0..4
    /\ fx.s3verifyPolicies \in 0..3
    /\ fx.s3verifyObjects \in 0..(NumTestObjects + 3)
    /\ fx.objectParts0 \in 0..1

\* No scenario indexes a fixture list past its end or hands rand.Int63n a
\* zero Size: whatever the server answers, a run of s3verify ends with an
\* exit status, never with a runtime panic.  The Critical flags of the
\* lists are what stop a scenario from running after the one that should
\* have filled its fixtures failed.
NoIndexPanic == status # "panic"

=============================================================================
