------------------------------ MODULE SuiteProofs ------------------------------
(***************************************************************************)
(* Proofs about the s3verify runner (cmd/main.go, cmd/tests.go) for every  *)
(* number of test objects and every set of setups.                         *)
(*                                                                          *)
(* Both lists put the scenarios that fill the fixture lists at fixed       *)
(* places: PutBucket at 1, PutBucketPolicy at 3, PutObject at 5,           *)
(* HeadObject at 7, UploadPart at 19.  The invariants tie the fixtures to  *)
(* the runner's position pc: TInv bounds them from above (each scenario    *)
(* runs once), PInv from below once the scenario that fills them has run   *)
(* and the run goes on, which is what keeps every later index in range.    *)
(***************************************************************************)
EXTENDS Suite, TLAPS

USE SuiteAssumption DEF SetupAssumption

\* The scenarios a test list can name.
ScenarioNames ==
    {"mainPutBucket", "mainPutBucketInvalid", "mainPutBucketPolicy",
     "mainGetBucketPolicy", "mainPutObjectPrepared", "mainPutObjectUnPrepared",
     "mainHeadBucket", "mainHeadObjectPrepared", "mainHeadObjectUnPrepared",
     "mainHeadObjectIfModifiedSince", "mainHeadObjectIfUnModifiedSince",
     "mainHeadObjectIfMatch", "mainHeadObjectIfNoneMatch", "mainListBuckets",
     "mainListObjectsV1Prepared", "mainListObjectsV2Prepared",
     "mainListObjectsV1UnPrepared", "mainListObjectsV2UnPrepared",
     "mainPutObjectStream", "mainPresignedPutObject", "mainPostObject",
     "mainInitiateMultipartUpload", "mainUploadPart", "mainReuploadPart",
     "mainListParts", "mainListMultipartUploads", "mainCompleteMultipartUpload",
     "mainAbortMultipartUpload", "mainCopyObject", "mainCopyObjectIfModifiedSince",
     "mainCopyObjectIfUnModifiedSince", "mainCopyObjectIfMatch",
     "mainCopyObjectIfNoneMatch", "mainGetObject", "mainGetObjectMultipart",
     "mainGetObjectPresigned", "mainGetObjectIfModifiedSince",
     "mainGetObjectIfUnModifiedSince", "mainGetObjectIfMatch",
     "mainGetObjectIfNoneMatch", "mainGetObjectRange", "mainRemoveBucketNotEmpty",
     "mainRemoveObjectExists", "mainRemoveObjectDNE", "mainRemoveBucketExists",
     "mainRemoveBucketDNE"}

\* The scenarios that append to a fixture list.
FixtureWriters ==
    {"mainPutBucket", "mainPutBucketPolicy", "mainPutObjectPrepared",
     "mainPutObjectUnPrepared", "mainPutObjectStream", "mainPresignedPutObject",
     "mainPostObject", "mainHeadObjectUnPrepared", "mainUploadPart"}

\* The scenarios that never index s3verifyBuckets.
NoBucketNames ==
    {"mainPutBucket", "mainPutBucketInvalid", "mainListBuckets",
     "mainRemoveBucketExists", "mainRemoveBucketDNE", "mainHeadObjectPrepared",
     "mainListObjectsV1Prepared", "mainListObjectsV2Prepared"}

\* The scenarios that index s3verifyObjects[0].
ObjectReaders ==
    {"mainGetObject", "mainGetObjectPresigned", "mainHeadObjectIfModifiedSince",
     "mainHeadObjectIfUnModifiedSince", "mainHeadObjectIfMatch",
     "mainHeadObjectIfNoneMatch", "mainCopyObject", "mainCopyObjectIfModifiedSince",
     "mainCopyObjectIfUnModifiedSince", "mainCopyObjectIfMatch",
     "mainCopyObjectIfNoneMatch", "mainGetObjectRange"}

\* The scenarios that index preparedBuckets.
PreparedReaders ==
    {"mainHeadObjectPrepared", "mainListObjectsV1Prepared", "mainListObjectsV2Prepared"}

\* The scenarios whose fixtures a later entry indexes.
FixtureScenarios ==
    {"mainPutBucket", "mainPutBucketPolicy", "mainPutObjectPrepared",
     "mainPutObjectUnPrepared", "mainHeadObjectUnPrepared", "mainUploadPart"}

\* The command lines and servers for which no index goes out of range:
\* --clean (no scenario runs); no --reuse, against a server that may refuse
\* requests but never loses a reply; --reuse, without --extended, against
\* a server that answers as S3 does; and no --exclude of a scenario that
\* fills a fixture list.
SafeSetup(s) ==
    \/ s.mode = "clean"
    \/ /\ s.mode = "none" /\ "lost" \notin s.faults
       /\ s.excludes \cap FixtureScenarios = {}
    \/ /\ s.mode = "reuse" /\ s.faults = {} /\ ~s.extended
       /\ s.excludes \cap FixtureScenarios = {}

\* Every setup a run may start from is safe.
SafeSetups == \A s \in Setups : SafeSetup(s)

\* When a scenario can panic: an index past the end of a fixture list, or
\* rand.Int63n of a Size HeadObject never filled in.
PanicGuard(t) ==
    \/ t \notin NoBucketNames /\ fx.s3verifyBuckets < 4
    \/ t \in ObjectReaders /\ fx.s3verifyObjects < 1
    \/ t = "mainGetBucketPolicy" /\
         \E j \in 0..2 : fx.serverPolicies >= j /\ fx.s3verifyPolicies <= j
    \/ t \in PreparedReaders /\ fx.preparedBuckets < 1
    \/ t = "mainReuploadPart" /\ fx.objectParts0 < 1
    \/ t = "mainGetObjectRange" /\ fx.headed < 1

\* What the place p of scenario t in a list guarantees: the scenarios that
\* fill a fixture list sit at fixed places, and those that index it after.
Position(t, p) ==
    /\ t \in ScenarioNames
    /\ t \notin NoBucketNames => p > 1
    /\ t \in ObjectReaders => p > 5
    /\ t = "mainGetBucketPolicy" => p > 3
    /\ t = "mainReuploadPart" => p > 19
    /\ t = "mainGetObjectRange" => p > 7
    /\ t = "mainPutBucket" => p = 1
    /\ t = "mainPutBucketPolicy" => p = 3
    /\ t \in {"mainPutObjectPrepared", "mainPutObjectUnPrepared"} => p = 5
    /\ t = "mainHeadObjectUnPrepared" => p = 7
    /\ t = "mainPutObjectStream" => p = 15
    /\ t = "mainPresignedPutObject" => p = 16
    /\ t = "mainPostObject" => p = 17
    /\ t = "mainUploadPart" => p = 19

\* A test list L of 42 entries: where each scenario sits, GetObjectRange
\* Extended, and the entries that fill fixture lists not Extended.
Placed(L) ==
    /\ Len(L) = 42
    /\ \A p \in 1..42 :
         /\ Position(L[p].test, p)
         /\ L[p].test = "mainGetObjectRange" => L[p].extended
    /\ L[1].test = "mainPutBucket" /\ ~L[1].extended
    /\ L[3].test = "mainPutBucketPolicy" /\ ~L[3].extended
    /\ ~L[5].extended /\ ~L[7].extended
    /\ L[19].test = "mainUploadPart" /\ ~L[19].extended

LEMMA PreparedPlaced == Placed(preparedTests)
  <1>1. Len(preparedTests) = 42
    BY DEF preparedTests
  <1>2. \A p \in 1..42 : preparedTests[p].test \in ScenarioNames
    BY DEF preparedTests, APItest, ScenarioNames
  <1>3. \A p \in 1..42 :
          /\ preparedTests[p].test \notin NoBucketNames => p > 1
          /\ preparedTests[p].test \in ObjectReaders => p > 5
    BY DEF preparedTests, APItest, NoBucketNames, ObjectReaders
  <1>4. \A p \in 1..42 :
          /\ preparedTests[p].test = "mainGetBucketPolicy" => p > 3
          /\ preparedTests[p].test = "mainReuploadPart" => p > 19
          /\ preparedTests[p].test = "mainGetObjectRange" => p > 7 /\ preparedTests[p].extended
    BY DEF preparedTests, APItest
  <1>5. \A p \in 1..42 :
          /\ preparedTests[p].test = "mainPutBucket" => p = 1
          /\ preparedTests[p].test = "mainPutBucketPolicy" => p = 3
          /\ preparedTests[p].test \in {"mainPutObjectPrepared", "mainPutObjectUnPrepared"} => p = 5
          /\ preparedTests[p].test = "mainHeadObjectUnPrepared" => p = 7
    BY DEF preparedTests, APItest
  <1>6. \A p \in 1..42 :
          /\ preparedTests[p].test = "mainPutObjectStream" => p = 15
          /\ preparedTests[p].test = "mainPresignedPutObject" => p = 16
          /\ preparedTests[p].test = "mainPostObject" => p = 17
          /\ preparedTests[p].test = "mainUploadPart" => p = 19
    BY DEF preparedTests, APItest
  <1>7. /\ preparedTests[1].test = "mainPutBucket" /\ ~preparedTests[1].extended
        /\ preparedTests[3].test = "mainPutBucketPolicy" /\ ~preparedTests[3].extended
        /\ ~preparedTests[5].extended /\ ~preparedTests[7].extended
        /\ preparedTests[19].test = "mainUploadPart" /\ ~preparedTests[19].extended
    BY DEF preparedTests, APItest
  <1>8. QED BY <1>1, <1>2, <1>3, <1>4, <1>5, <1>6, <1>7 DEF Placed, Position

\* The unprepared list entry by entry: the renamed test, the same Extended
\* flag, and Critical exactly when the new name is in UnpreparedCritical.
LEMMA UnpreparedEntry ==
    \A p \in 1..42 :
        /\ unpreparedTests[p].test = UnpreparedName(preparedTests[p].test)
        /\ unpreparedTests[p].extended = preparedTests[p].extended
        /\ unpreparedTests[p].critical = (unpreparedTests[p].test \in UnpreparedCritical)
  <1>1. Len(preparedTests) = 42
    BY DEF preparedTests
  <1>2. QED BY <1>1 DEF unpreparedTests, UnpreparedList, APItest

\* The renaming undone: a name of the unprepared list comes from itself or
\* from its prepared counterpart, and is never a prepared name.
LEMMA UnpreparedNameInverse ==
    ASSUME NEW t
    PROVE  /\ UnpreparedName(t) \notin PreparedReaders \cup {"mainPutObjectPrepared"}
           /\ UnpreparedName(t) \notin {"mainPutObjectUnPrepared", "mainHeadObjectUnPrepared",
                                       "mainListObjectsV1UnPrepared", "mainListObjectsV2UnPrepared"}
                => UnpreparedName(t) = t
           /\ UnpreparedName(t) = "mainPutObjectUnPrepared" =>
                t \in {"mainPutObjectPrepared", "mainPutObjectUnPrepared"}
           /\ UnpreparedName(t) = "mainHeadObjectUnPrepared" =>
                t \in {"mainHeadObjectPrepared", "mainHeadObjectUnPrepared"}
  BY DEF UnpreparedName, PreparedReaders

\* Where the unprepared list puts its scenarios; it names no prepared one.
LEMMA UnpreparedPlaced ==
    /\ Placed(unpreparedTests)
    /\ \A p \in 1..42 : unpreparedTests[p].test \notin PreparedReaders \cup {"mainPutObjectPrepared"}
  <1>1. Len(unpreparedTests) = 42
    BY DEF preparedTests, unpreparedTests, UnpreparedList
  <1>2. /\ unpreparedTests[1].test = "mainPutBucket" /\ ~unpreparedTests[1].extended
        /\ unpreparedTests[3].test = "mainPutBucketPolicy" /\ ~unpreparedTests[3].extended
        /\ ~unpreparedTests[5].extended /\ ~unpreparedTests[7].extended
        /\ unpreparedTests[19].test = "mainUploadPart" /\ ~unpreparedTests[19].extended
    BY UnpreparedEntry DEF preparedTests, APItest, UnpreparedName
  <1>3. ASSUME NEW p \in 1..42
        PROVE  /\ unpreparedTests[p].test \in ScenarioNames
               /\ unpreparedTests[p].test \notin PreparedReaders \cup {"mainPutObjectPrepared"}
               /\ unpreparedTests[p].test \notin NoBucketNames => p > 1
               /\ unpreparedTests[p].test \in ObjectReaders => p > 5
               /\ unpreparedTests[p].test = "mainGetBucketPolicy" => p > 3
               /\ unpreparedTests[p].test = "mainReuploadPart" => p > 19
               /\ unpreparedTests[p].test = "mainGetObjectRange" => p > 7 /\ unpreparedTests[p].extended
               /\ unpreparedTests[p].test = "mainPutBucket" => p = 1
               /\ unpreparedTests[p].test = "mainPutBucketPolicy" => p = 3
               /\ unpreparedTests[p].test \in {"mainPutObjectPrepared", "mainPutObjectUnPrepared"} => p = 5
               /\ unpreparedTests[p].test = "mainHeadObjectUnPrepared" => p = 7
               /\ unpreparedTests[p].test = "mainPutObjectStream" => p = 15
               /\ unpreparedTests[p].test = "mainPresignedPutObject" => p = 16
               /\ unpreparedTests[p].test = "mainPostObject" => p = 17
               /\ unpreparedTests[p].test = "mainUploadPart" => p = 19
    <2> DEFINE u == unpreparedTests[p].test
               s == preparedTests[p].test
    <2>1. u = UnpreparedName(s) /\ unpreparedTests[p].extended = preparedTests[p].extended
      BY UnpreparedEntry
    <2>2. u \notin PreparedReaders \cup {"mainPutObjectPrepared"}
      BY <2>1, UnpreparedNameInverse
    <2>3. u \in ScenarioNames
      BY <2>1, PreparedPlaced DEF Placed, Position, UnpreparedName, ScenarioNames
    <2>4. u \notin NoBucketNames => p > 1
      BY <1>2 DEF NoBucketNames
    <2>5. u \in {"mainPutObjectPrepared", "mainPutObjectUnPrepared"} => p = 5
      BY <2>1, <2>2, UnpreparedNameInverse, PreparedPlaced DEF Placed, Position
    <2>6. u = "mainHeadObjectUnPrepared" => p = 7
      <3>1. s = "mainHeadObjectPrepared" => p = 7
        BY DEF preparedTests, APItest
      <3>2. u = "mainHeadObjectUnPrepared" =>
              s \in {"mainHeadObjectPrepared", "mainHeadObjectUnPrepared"}
        BY <2>1, UnpreparedNameInverse
      <3>3. s = "mainHeadObjectUnPrepared" => p = 7
        BY PreparedPlaced DEF Placed, Position
      <3>4. QED BY <3>1, <3>2, <3>3, Zenon
    <2>7. u \notin {"mainPutObjectUnPrepared", "mainHeadObjectUnPrepared",
                    "mainListObjectsV1UnPrepared", "mainListObjectsV2UnPrepared"} => u = s
      BY <2>1, UnpreparedNameInverse
    <2>8. /\ u \in ObjectReaders => p > 5
          /\ u = "mainGetBucketPolicy" => p > 3
          /\ u = "mainReuploadPart" => p > 19
          /\ u = "mainGetObjectRange" => p > 7 /\ unpreparedTests[p].extended
          /\ u = "mainPutBucket" => p = 1
          /\ u = "mainPutBucketPolicy" => p = 3
          /\ u = "mainPutObjectStream" => p = 15
          /\ u = "mainPresignedPutObject" => p = 16
          /\ u = "mainPostObject" => p = 17
          /\ u = "mainUploadPart" => p = 19
      BY <2>1, <2>7, PreparedPlaced DEF Placed, Position, ObjectReaders
    <2>9. QED BY <2>2, <2>3, <2>4, <2>5, <2>6, <2>8
  <1>4. QED BY <1>1, <1>2, <1>3 DEF Placed, Position

\* The entries whose fixtures later entries index are Critical in the
\* unprepared list: a failure there ends the run.
LEMMA UnpreparedGates ==
    /\ unpreparedTests[5].test = "mainPutObjectUnPrepared"
    /\ unpreparedTests[7].test = "mainHeadObjectUnPrepared"
    /\ \A p \in {1, 5, 7, 19} : unpreparedTests[p].critical
  <1>1. /\ unpreparedTests[1].test = "mainPutBucket"
        /\ unpreparedTests[5].test = "mainPutObjectUnPrepared"
        /\ unpreparedTests[7].test = "mainHeadObjectUnPrepared"
        /\ unpreparedTests[19].test = "mainUploadPart"
    BY UnpreparedEntry DEF preparedTests, APItest, UnpreparedName
  <1>2. \A p \in {1, 5, 7, 19} : unpreparedTests[p].test \in UnpreparedCritical
    BY <1>1 DEF UnpreparedCritical
  <1>3. ASSUME NEW p \in {1, 5, 7, 19} PROVE unpreparedTests[p].critical
    <2>1. p \in 1..42
      OBVIOUS
    <2>2. unpreparedTests[p].critical = (unpreparedTests[p].test \in UnpreparedCritical)
      BY <2>1, UnpreparedEntry
    <2>3. QED BY <2>2, <1>2, Zenon
  <1>4. QED BY <1>1, <1>3

-----------------------------------------------------------------------------
(* The invariants.                                                          *)

\* How many objects s3verifyObjects can hold before entry p runs: the
\* NumTestObjects of PutObject at 5, then one each for PutObjectStream,
\* PresignedPutObject and PostObject at 15, 16 and 17.
ObjectsBound(p) ==
    (IF p > 5 THEN NumTestObjects ELSE 0) + (IF p > 15 THEN 1 ELSE 0)
      + (IF p > 16 THEN 1 ELSE 0) + (IF p > 17 THEN 1 ELSE 0)

\* Each scenario runs at most once and at its own place in the list, so
\* no fixture list of f is longer than what the entries before p append.
Bounded(f, p) ==
    /\ f.serverPolicies <= f.s3verifyPolicies
    /\ f.s3verifyBuckets <= (IF p > 1 THEN 4 ELSE 0)
    /\ f.s3verifyPolicies <= (IF p > 3 THEN 3 ELSE 0)
    /\ f.s3verifyObjects <= ObjectsBound(p)
    /\ f.objectParts0 <= (IF p > 19 THEN 1 ELSE 0)

\* The fixture lists that entries from p on index, in mode m, have been
\* filled by the entries before p.  PutBucketPolicy saves each policy
\* before it sends it, so once it has run either all three are saved or
\* the server holds fewer than are saved.
Filled(f, p, m) ==
    /\ m = "reuse" => f.preparedBuckets >= 1
    /\ p > 1 => f.s3verifyBuckets >= 4
    /\ p > 3 => f.serverPolicies < f.s3verifyPolicies \/ f.s3verifyPolicies >= 3
    /\ p > 5 => f.s3verifyObjects >= 1
    /\ p > 7 /\ m = "none" => f.headed >= 1
    /\ p > 19 => f.objectParts0 >= 1

\* The type of the runner's state, with the fixtures bounded.
TInv ==
    /\ setup \in Setups
    /\ status \in {"start", "running", "exit0", "exit1", "panic"}
    /\ pc \in 1..43
    /\ failed \in 0..(pc - 1)
    /\ fx \in Fixtures
    /\ status = "start" => pc = 1 /\ fx = NoFixtures
    /\ Bounded(fx, pc)

\* While the run goes on, every fixture list that the entries from pc on
\* index is filled: a failure of the entry that fills it either ended the
\* run (a Critical entry) or cannot happen (a server that answers as S3
\* does).
PInv ==
    /\ status # "panic"
    /\ status = "running" => setup.mode # "clean" /\ Filled(fx, pc, setup.mode)

-----------------------------------------------------------------------------
(* What a scenario does to the fixtures.                                    *)

\* A scenario that appends to no fixture list leaves every fixture as it
\* was, ends with pass, fail or panic, and panics only when it indexes a
\* list too short (PanicGuard).
LEMMA RunReadOnly ==
    ASSUME fx \in Fixtures, NEW t \in ScenarioNames \ FixtureWriters, NEW r, Run(t, r)
    PROVE  /\ fx' = fx
           /\ r \in {"pass", "fail", "panic"}
           /\ r = "panic" => PanicGuard(t)
  <1>1. CASE t = "mainPutBucketInvalid"
    BY <1>1 DEF Fixtures, Run, PanicGuard, NoBucketNames, ObjectReaders, PreparedReaders,
           Indexing, Requests, Conditional, Same, Buckets, Object0, Headed0, AllHeaded, mainPutBucketInvalid
  <1>2. CASE t = "mainGetBucketPolicy"
    BY <1>2 DEF Fixtures, Run, PanicGuard, NoBucketNames, ObjectReaders, PreparedReaders,
           Indexing, Requests, Conditional, Same, Buckets, Object0, Headed0, AllHeaded, mainGetBucketPolicy
  <1>3. CASE t = "mainHeadBucket"
    BY <1>3 DEF Fixtures, Run, PanicGuard, NoBucketNames, ObjectReaders, PreparedReaders,
           Indexing, Requests, Conditional, Same, Buckets, Object0, Headed0, AllHeaded, mainHeadBucket
  <1>4. CASE t = "mainHeadObjectPrepared"
    BY <1>4 DEF Fixtures, Run, PanicGuard, NoBucketNames, ObjectReaders, PreparedReaders,
           Indexing, Requests, Conditional, Same, Buckets, Object0, Headed0, AllHeaded, mainHeadObjectPrepared, mainHeadObject, Loop
  <1>5. CASE t = "mainHeadObjectIfModifiedSince"
    BY <1>5 DEF Fixtures, Run, PanicGuard, NoBucketNames, ObjectReaders, PreparedReaders,
           Indexing, Requests, Conditional, Same, Buckets, Object0, Headed0, AllHeaded, mainHeadObjectIfModifiedSince
  <1>6. CASE t = "mainHeadObjectIfUnModifiedSince"
    BY <1>6 DEF Fixtures, Run, PanicGuard, NoBucketNames, ObjectReaders, PreparedReaders,
           Indexing, Requests, Conditional, Same, Buckets, Object0, Headed0, AllHeaded, mainHeadObjectIfUnModifiedSince
  <1>7. CASE t = "mainHeadObjectIfMatch"
    BY <1>7 DEF Fixtures, Run, PanicGuard, NoBucketNames, ObjectReaders, PreparedReaders,
           Indexing, Requests, Conditional, Same, Buckets, Object0, Headed0, AllHeaded, mainHeadObjectIfMatch
  <1>8. CASE t = "mainHeadObjectIfNoneMatch"
    BY <1>8 DEF Fixtures, Run, PanicGuard, NoBucketNames, ObjectReaders, PreparedReaders,
           Indexing, Requests, Conditional, Same, Buckets, Object0, Headed0, AllHeaded, mainHeadObjectIfNoneMatch
  <1>9. CASE t = "mainListBuckets"
    BY <1>9 DEF Fixtures, Run, PanicGuard, NoBucketNames, ObjectReaders, PreparedReaders,
           Indexing, Requests, Conditional, Same, Buckets, Object0, Headed0, AllHeaded, mainListBuckets
  <1>10. CASE t = "mainListObjectsV1Prepared"
    BY <1>10 DEF Fixtures, Run, PanicGuard, NoBucketNames, ObjectReaders, PreparedReaders,
           Indexing, Requests, Conditional, Same, Buckets, Object0, Headed0, AllHeaded, mainListObjectsV1Prepared, mainListObjectsV1, mainListObjectsV2
  <1>11. CASE t = "mainListObjectsV2Prepared"
    BY <1>11 DEF Fixtures, Run, PanicGuard, NoBucketNames, ObjectReaders, PreparedReaders,
           Indexing, Requests, Conditional, Same, Buckets, Object0, Headed0, AllHeaded, mainListObjectsV2Prepared, mainListObjectsV2
  <1>12. CASE t = "mainListObjectsV1UnPrepared"
    BY <1>12 DEF Fixtures, Run, PanicGuard, NoBucketNames, ObjectReaders, PreparedReaders,
           Indexing, Requests, Conditional, Same, Buckets, Object0, Headed0, AllHeaded, mainListObjectsV1UnPrepared, mainListObjectsV1, mainListObjectsV2
  <1>13. CASE t = "mainListObjectsV2UnPrepared"
    BY <1>13 DEF Fixtures, Run, PanicGuard, NoBucketNames, ObjectReaders, PreparedReaders,
           Indexing, Requests, Conditional, Same, Buckets, Object0, Headed0, AllHeaded, mainListObjectsV2UnPrepared, mainListObjectsV1, mainListObjectsV2
  <1>14. CASE t = "mainInitiateMultipartUpload"
    BY <1>14 DEF Fixtures, Run, PanicGuard, NoBucketNames, ObjectReaders, PreparedReaders,
           Indexing, Requests, Conditional, Same, Buckets, Object0, Headed0, AllHeaded, mainInitiateMultipartUpload
  <1>15. CASE t = "mainReuploadPart"
    BY <1>15 DEF Fixtures, Run, PanicGuard, NoBucketNames, ObjectReaders, PreparedReaders,
           Indexing, Requests, Conditional, Same, Buckets, Object0, Headed0, AllHeaded, mainReuploadPart
  <1>16. CASE t = "mainListParts"
    BY <1>16 DEF Fixtures, Run, PanicGuard, NoBucketNames, ObjectReaders, PreparedReaders,
           Indexing, Requests, Conditional, Same, Buckets, Object0, Headed0, AllHeaded, mainListParts
  <1>17. CASE t = "mainListMultipartUploads"
    BY <1>17 DEF Fixtures, Run, PanicGuard, NoBucketNames, ObjectReaders, PreparedReaders,
           Indexing, Requests, Conditional, Same, Buckets, Object0, Headed0, AllHeaded, mainListMultipartUploads
  <1>18. CASE t = "mainCompleteMultipartUpload"
    BY <1>18 DEF Fixtures, Run, PanicGuard, NoBucketNames, ObjectReaders, PreparedReaders,
           Indexing, Requests, Conditional, Same, Buckets, Object0, Headed0, AllHeaded, mainCompleteMultipartUpload
  <1>19. CASE t = "mainAbortMultipartUpload"
    BY <1>19 DEF Fixtures, Run, PanicGuard, NoBucketNames, ObjectReaders, PreparedReaders,
           Indexing, Requests, Conditional, Same, Buckets, Object0, Headed0, AllHeaded, mainAbortMultipartUpload
  <1>20. CASE t = "mainCopyObject"
    BY <1>20 DEF Fixtures, Run, PanicGuard, NoBucketNames, ObjectReaders, PreparedReaders,
           Indexing, Requests, Conditional, Same, Buckets, Object0, Headed0, AllHeaded, mainCopyObject
  <1>21. CASE t = "mainCopyObjectIfModifiedSince"
    BY <1>21 DEF Fixtures, Run, PanicGuard, NoBucketNames, ObjectReaders, PreparedReaders,
           Indexing, Requests, Conditional, Same, Buckets, Object0, Headed0, AllHeaded, mainCopyObjectIfModifiedSince
  <1>22. CASE t = "mainCopyObjectIfUnModifiedSince"
    BY <1>22 DEF Fixtures, Run, PanicGuard, NoBucketNames, ObjectReaders, PreparedReaders,
           Indexing, Requests, Conditional, Same, Buckets, Object0, Headed0, AllHeaded, mainCopyObjectIfUnModifiedSince
  <1>23. CASE t = "mainCopyObjectIfMatch"
    BY <1>23 DEF Fixtures, Run, PanicGuard, NoBucketNames, ObjectReaders, PreparedReaders,
           Indexing, Requests, Conditional, Same, Buckets, Object0, Headed0, AllHeaded, mainCopyObjectIfMatch
  <1>24. CASE t = "mainCopyObjectIfNoneMatch"
    BY <1>24 DEF Fixtures, Run, PanicGuard, NoBucketNames, ObjectReaders, PreparedReaders,
           Indexing, Requests, Conditional, Same, Buckets, Object0, Headed0, AllHeaded, mainCopyObjectIfNoneMatch
  <1>25. CASE t = "mainGetObject"
    BY <1>25 DEF Fixtures, Run, PanicGuard, NoBucketNames, ObjectReaders, PreparedReaders,
           Indexing, Requests, Conditional, Same, Buckets, Object0, Headed0, AllHeaded, mainGetObject
  <1>26. CASE t = "mainGetObjectMultipart"
    BY <1>26 DEF Fixtures, Run, PanicGuard, NoBucketNames, ObjectReaders, PreparedReaders,
           Indexing, Requests, Conditional, Same, Buckets, Object0, Headed0, AllHeaded, mainGetObjectMultipart
  <1>27. CASE t = "mainGetObjectPresigned"
    BY <1>27 DEF Fixtures, Run, PanicGuard, NoBucketNames, ObjectReaders, PreparedReaders,
           Indexing, Requests, Conditional, Same, Buckets, Object0, Headed0, AllHeaded, mainGetObjectPresigned
  <1>28. CASE t = "mainGetObjectIfModifiedSince"
    BY <1>28 DEF Fixtures, Run, PanicGuard, NoBucketNames, ObjectReaders, PreparedReaders,
           Indexing, Requests, Conditional, Same, Buckets, Object0, Headed0, AllHeaded, mainGetObjectIfModifiedSince
  <1>29. CASE t = "mainGetObjectIfUnModifiedSince"
    BY <1>29 DEF Fixtures, Run, PanicGuard, NoBucketNames, ObjectReaders, PreparedReaders,
           Indexing, Requests, Conditional, Same, Buckets, Object0, Headed0, AllHeaded, mainGetObjectIfUnModifiedSince
  <1>30. CASE t = "mainGetObjectIfMatch"
    BY <1>30 DEF Fixtures, Run, PanicGuard, NoBucketNames, ObjectReaders, PreparedReaders,
           Indexing, Requests, Conditional, Same, Buckets, Object0, Headed0, AllHeaded, mainGetObjectIfMatch
  <1>31. CASE t = "mainGetObjectIfNoneMatch"
    BY <1>31 DEF Fixtures, Run, PanicGuard, NoBucketNames, ObjectReaders, PreparedReaders,
           Indexing, Requests, Conditional, Same, Buckets, Object0, Headed0, AllHeaded, mainGetObjectIfNoneMatch
  <1>32. CASE t = "mainGetObjectRange"
    BY <1>32 DEF Fixtures, Run, PanicGuard, NoBucketNames, ObjectReaders, PreparedReaders,
           Indexing, Requests, Conditional, Same, Buckets, Object0, Headed0, AllHeaded, mainGetObjectRange
  <1>33. CASE t = "mainRemoveBucketNotEmpty"
    BY <1>33 DEF Fixtures, Run, PanicGuard, NoBucketNames, ObjectReaders, PreparedReaders,
           Indexing, Requests, Conditional, Same, Buckets, Object0, Headed0, AllHeaded, mainRemoveBucketNotEmpty
  <1>34. CASE t = "mainRemoveObjectExists"
    BY <1>34 DEF Fixtures, Run, PanicGuard, NoBucketNames, ObjectReaders, PreparedReaders,
           Indexing, Requests, Conditional, Same, Buckets, Object0, Headed0, AllHeaded, mainRemoveObjectExists
  <1>35. CASE t = "mainRemoveObjectDNE"
    BY <1>35 DEF Fixtures, Run, PanicGuard, NoBucketNames, ObjectReaders, PreparedReaders,
           Indexing, Requests, Conditional, Same, Buckets, Object0, Headed0, AllHeaded, mainRemoveObjectDNE
  <1>36. CASE t = "mainRemoveBucketExists"
    BY <1>36 DEF Fixtures, Run, PanicGuard, NoBucketNames, ObjectReaders, PreparedReaders,
           Indexing, Requests, Conditional, Same, Buckets, Object0, Headed0, AllHeaded, mainRemoveBucketExists
  <1>37. CASE t = "mainRemoveBucketDNE"
    BY <1>37 DEF Fixtures, Run, PanicGuard, NoBucketNames, ObjectReaders, PreparedReaders,
           Indexing, Requests, Conditional, Same, Buckets, Object0, Headed0, AllHeaded, mainRemoveBucketDNE
  <1>38. QED BY <1>1, <1>2, <1>3, <1>4, <1>5, <1>6, <1>7, <1>8, <1>9, <1>10, <1>11, <1>12, <1>13, <1>14, <1>15, <1>16, <1>17, <1>18, <1>19, <1>20, <1>21, <1>22, <1>23, <1>24, <1>25, <1>26, <1>27, <1>28, <1>29, <1>30, <1>31, <1>32, <1>33, <1>34, <1>35, <1>36, <1>37 DEF ScenarioNames, FixtureWriters

\* The upper bounds only grow with p.
LEMMA BoundedAdvance ==
    ASSUME NEW f \in Fixtures, NEW p \in Nat, Bounded(f, p)
    PROVE  Bounded(f, p + 1)
  BY DEF Bounded, ObjectsBound, Fixtures

\* The entry at p keeps the fixtures within the bounds for p + 1: a
\* scenario that fills a list runs at the one place where the list is
\* still empty, and appends at most what the bound allows.
LEMMA RunBounds ==
    ASSUME fx \in Fixtures, NEW p \in 1..42, NEW t, NEW r,
           Position(t, p), Bounded(fx, p), Run(t, r)
    PROVE  /\ fx' \in Fixtures
           /\ Bounded(fx', p + 1)
           /\ fx'.preparedBuckets = fx.preparedBuckets
           /\ r \in {"pass", "fail", "panic"}
  <1>1. CASE t \notin FixtureWriters
    <2>1. fx' = fx /\ r \in {"pass", "fail", "panic"}
      BY <1>1, RunReadOnly DEF Position
    <2>2. QED BY <2>1, BoundedAdvance
  <1>2. CASE t = "mainPutBucket"
    BY <1>2 DEF Position, Run, mainPutBucket, Loop, Same,
           Bounded, ObjectsBound, Fixtures
  <1>3. CASE t = "mainPutBucketPolicy"
    <2>1. p = 3 /\ fx.s3verifyPolicies = 0 /\ fx.serverPolicies = 0
      BY <1>3 DEF Position, Bounded, Fixtures
    <2>2. mainPutBucketPolicy(r)
      BY <1>3 DEF Run
    <2>3. CASE ~Buckets(3)
      <3>1. fx' = fx /\ r = "panic"
        BY <2>2, <2>3 DEF mainPutBucketPolicy, Indexing, Same
      <3>2. QED BY <3>1, BoundedAdvance
    <2>4. CASE Buckets(3)
      <3>1. PICK j \in 0..3, applied \in 0..3 :
              /\ fx' = [fx EXCEPT !.s3verifyPolicies = @ + (IF j = 3 THEN 3 ELSE j + 1),
                                  !.serverPolicies = @ + applied]
              /\ \/ j = 3 /\ applied = 3 /\ r = "pass"
                 \/ j < 3 /\ applied = j /\ r = "fail"
                 \/ j < 3 /\ applied = j + 1 /\ r = "fail"
        BY <2>2, <2>4 DEF mainPutBucketPolicy, Indexing
      <3>2. fx' = [s3verifyBuckets |-> fx.s3verifyBuckets,
                   s3verifyPolicies |-> fx.s3verifyPolicies + (IF j = 3 THEN 3 ELSE j + 1),
                   serverPolicies |-> fx.serverPolicies + applied,
                   s3verifyObjects |-> fx.s3verifyObjects, headed |-> fx.headed,
                   objectParts0 |-> fx.objectParts0, preparedBuckets |-> fx.preparedBuckets]
        BY <3>1, Zenon DEF Fixtures
      <3>3. applied <= (IF j = 3 THEN 3 ELSE j + 1) /\ r \in {"pass", "fail"}
        BY <3>1
      <3>4. QED BY <3>2, <3>3, <2>1 DEF Bounded, ObjectsBound, Fixtures
    <2>5. QED BY <2>3, <2>4
  <1>4. CASE t = "mainPutObjectPrepared"
    BY <1>4 DEF Position, Run, mainPutObjectPrepared, PutOne, Indexing, Buckets, Same,
           Bounded, ObjectsBound, Fixtures
  <1>5. CASE t = "mainPutObjectUnPrepared"
    BY <1>5 DEF Position, Run, mainPutObjectUnPrepared, Indexing, Buckets, Loop, Same,
           Bounded, ObjectsBound, Fixtures
  <1>6. CASE t = "mainPutObjectStream"
    BY <1>6 DEF Position, Run, mainPutObjectStream, PutOne, Indexing, Buckets, Same,
           Bounded, ObjectsBound, Fixtures
  <1>7. CASE t = "mainPresignedPutObject"
    BY <1>7 DEF Position, Run, mainPresignedPutObject, PutOne, Indexing, Buckets, Same,
           Bounded, ObjectsBound, Fixtures
  <1>8. CASE t = "mainPostObject"
    BY <1>8 DEF Position, Run, mainPostObject, Indexing, Buckets, Same,
           Bounded, ObjectsBound, Fixtures
  <1>9. CASE t = "mainHeadObjectUnPrepared"
    BY <1>9 DEF Position, Run, mainHeadObjectUnPrepared, mainHeadObject, Loop, Indexing, Buckets, Same,
           Bounded, ObjectsBound, Fixtures
  <1>10. CASE t = "mainUploadPart"
    BY <1>10 DEF Position, Run, mainUploadPart, Indexing, Buckets, Loop, Same,
           Bounded, ObjectsBound, Fixtures
  <1>11. QED BY <1>1, <1>2, <1>3, <1>4, <1>5, <1>6, <1>7, <1>8, <1>9, <1>10 DEF FixtureWriters

\* Both lists are placed; which one runs depends on --reuse alone.
LEMMA TestsPlaced ==
    /\ Placed(Tests)
    /\ setup.mode # "reuse" => Tests = unpreparedTests
    /\ setup.mode = "reuse" => Tests = preparedTests
  BY PreparedPlaced, UnpreparedPlaced DEF Tests

-----------------------------------------------------------------------------
(* TInv is inductive, and gives TypeOK.                                    *)

LEMMA InitTInv == Init => TInv
  BY DEF Init, TInv, NoFixtures, Fixtures, Bounded, ObjectsBound

LEMMA NextTInv == TInv /\ [Next]_vars => TInv'
  <1> SUFFICES ASSUME TInv, [Next]_vars PROVE TInv'
    OBVIOUS
  <1>1. Len(Tests) = 42
    BY TestsPlaced DEF Placed
  <1>2. CASE callAllAPIs
    <2>1. pc = 1 /\ fx = NoFixtures /\ pc' = 1 /\ setup' = setup /\ failed' = 0
      BY <1>2 DEF callAllAPIs, TInv
    <2>2. /\ fx' \in {fx, [fx EXCEPT !.preparedBuckets = 1]}
          /\ status' \in {"exit0", "exit1", "running"}
      BY <1>2 DEF callAllAPIs, mainReuseS3Verify, cleanS3verify, Same
    <2>3. QED BY <2>1, <2>2 DEF TInv, NoFixtures, Fixtures, Bounded, ObjectsBound
  <1>3. CASE Exclude \/ SkipExtended
    <2>1. /\ status = "running" /\ pc <= 42 /\ pc' = pc + 1
          /\ UNCHANGED <<setup, status, failed, fx>>
      BY <1>1, <1>3 DEF Exclude, SkipExtended, Listed
    <2>2. Bounded(fx, pc + 1)
      BY BoundedAdvance DEF TInv
    <2>3. QED BY <2>1, <2>2 DEF TInv
  <1>4. CASE RunTest
    <2>1. /\ status = "running" /\ pc \in 1..42 /\ pc' = pc + 1 /\ setup' = setup
          /\ Position(Entry.test, pc)
      BY <1>1, <1>4, TestsPlaced DEF RunTest, Listed, TInv, Placed, Entry
    <2>2. PICK r \in {"pass", "fail", "panic"} :
            /\ Run(Entry.test, r)
            /\ failed' = IF r = "fail" THEN failed + 1 ELSE failed
            /\ status' = CASE r = "panic" -> "panic"
                           [] r = "fail" /\ Entry.critical /\ ~Entry.extended -> "exit1"
                           [] OTHER -> "running"
      BY <1>4 DEF RunTest
    <2>3. fx' \in Fixtures /\ Bounded(fx', pc + 1)
      BY <2>1, <2>2, RunBounds DEF TInv
    <2>4. status' \in {"panic", "exit1", "running"} /\ failed' \in 0..pc
      BY <2>1, <2>2 DEF TInv
    <2>5. QED BY <2>1, <2>3, <2>4 DEF TInv
  <1>5. CASE Finish
    BY <1>5 DEF Finish, TInv
  <1>6. CASE UNCHANGED vars
    BY <1>6 DEF vars, TInv, Bounded
  <1>7. QED BY <1>2, <1>3, <1>4, <1>5, <1>6 DEF Next

\* Type correctness of the runner: whatever the setups and the server's
\* answers, the position stays within the list, at most every entry has
\* failed, and the fixture lists never outgrow what the scenarios of
\* cmd/tests.go append (4 buckets, 3 policies, NumTestObjects + 3
\* objects, one part of the first multipart object).
THEOREM SuiteTypeCorrect == Spec => []TypeOK
  <1>1. TInv => TypeOK
    <2> SUFFICES ASSUME TInv PROVE TypeOK
      OBVIOUS
    <2>2. Len(Tests) = 42
      BY TestsPlaced DEF Placed
    <2>3. ObjectsBound(pc) <= NumTestObjects + 3
      BY DEF TInv, ObjectsBound
    <2>4. /\ fx.s3verifyBuckets \in 0..4
          /\ fx.s3verifyPolicies \in 0..3
          /\ fx.s3verifyObjects \in 0..(NumTestObjects + 3)
          /\ fx.objectParts0 \in 0..1
      BY <2>3 DEF TInv, Bounded, Fixtures, ObjectsBound
    <2>5. pc \in 1..(Len(Tests) + 1) /\ failed \in 0..Len(Tests)
      BY <2>2 DEF TInv
    <2>6. QED BY <2>4, <2>5 DEF TInv, TypeOK
  <1>2. QED BY <1>1, InitTInv, NextTInv, PTL DEF Spec

-----------------------------------------------------------------------------
(* PInv is inductive under SafeSetups.                                     *)

\* Past an entry that fills no fixture list, the same lists are filled.
LEMMA FilledAdvance ==
    ASSUME NEW f, NEW p \in 1..42, NEW m, Filled(f, p, m),
           p \notin {1, 3, 5, 19}, p = 7 => m # "none"
    PROVE  Filled(f, p + 1, m)
  BY DEF Filled

\* The entry at p, in mode m, never panics; and unless it is a Critical
\* entry that failed, the fixture lists the entries from p + 1 on index
\* are filled after it.  The hypotheses are what the list and the setup
\* give: no reply is lost, --reuse runs against a server that refuses
\* nothing, prepared scenarios appear only in the prepared list,
\* GetObjectRange runs only with --extended (so not with --reuse), and the
\* entries that fill the lists are Critical in the unprepared list.
LEMMA RunFilled ==
    ASSUME fx \in Fixtures, NEW p \in 1..42, NEW m \in {"none", "reuse"},
           NEW t, NEW r, NEW crit,
           Bounded(fx, p), Filled(fx, p, m), Position(t, p), Run(t, r),
           ~Lost, m = "reuse" => ~CanFail,
           t \in PreparedReaders \cup {"mainPutObjectPrepared"} => m = "reuse",
           t = "mainGetObjectRange" => m = "none",
           t \notin FixtureWriters => p \notin {1, 3, 5, 19} /\ (p = 7 => m = "reuse"),
           m = "none" /\ p \in {1, 5, 7, 19} => crit
    PROVE  /\ r # "panic"
           /\ (r = "fail" /\ crit) \/ Filled(fx', p + 1, m)
  <1>1. CASE t \notin FixtureWriters
    <2>1. /\ fx' = fx
          /\ r \in {"pass", "fail", "panic"}
          /\ r = "panic" => PanicGuard(t)
      BY <1>1, RunReadOnly DEF Position
    <2>2. ~PanicGuard(t)
      BY DEF PanicGuard, Position, Filled, Fixtures, NoBucketNames,
             ObjectReaders, PreparedReaders
    <2>3. Filled(fx, p + 1, m)
      BY <1>1, FilledAdvance
    <2>4. QED BY <2>1, <2>2, <2>3
  <1>2. CASE t = "mainPutBucket"
    <2>1. (p = 1 /\ crit) \/ m = "reuse"
      BY <1>2 DEF Position
    <2>2. PICK k \in 0..4 : fx' = [fx EXCEPT !.s3verifyBuckets = @ + k] /\ Loop(k, 4, r)
      BY <1>2 DEF Run, mainPutBucket
    <2>3. (r = "fail" /\ crit) \/ k = 4
      BY <2>1, <2>2 DEF Loop
    <2>4. QED BY <2>2, <2>3, <1>2 DEF Loop, Filled, Fixtures, Position
  <1>3. CASE t = "mainPutBucketPolicy"
    <2>1. p = 3 /\ fx.s3verifyPolicies = 0 /\ fx.serverPolicies = 0 /\ fx.s3verifyBuckets >= 4
      BY <1>3 DEF Position, Bounded, Filled, Fixtures
    <2>2. mainPutBucketPolicy(r) /\ Buckets(3)
      <3>1. mainPutBucketPolicy(r)
        BY <1>3 DEF Run
      <3>2. QED BY <3>1, <2>1 DEF Buckets, Fixtures
    <2>3. PICK j \in 0..3, applied \in 0..3 :
              /\ fx' = [fx EXCEPT !.s3verifyPolicies = @ + (IF j = 3 THEN 3 ELSE j + 1),
                                  !.serverPolicies = @ + applied]
              /\ \/ j = 3 /\ applied = 3 /\ r = "pass"
                 \/ j < 3 /\ applied = j /\ r = "fail"
      BY <2>2, Zenon DEF mainPutBucketPolicy, Indexing
    <2>4. fx' = [s3verifyBuckets |-> fx.s3verifyBuckets,
                 s3verifyPolicies |-> fx.s3verifyPolicies + (IF j = 3 THEN 3 ELSE j + 1),
                 serverPolicies |-> fx.serverPolicies + applied,
                 s3verifyObjects |-> fx.s3verifyObjects, headed |-> fx.headed,
                 objectParts0 |-> fx.objectParts0, preparedBuckets |-> fx.preparedBuckets]
      BY <2>3, Zenon DEF Fixtures
    <2>5. ((j = 3 /\ applied = 3) \/ (j < 3 /\ applied = j)) /\ r # "panic"
      BY <2>3
    <2>6. QED BY <2>1, <2>4, <2>5 DEF Filled, Fixtures
  <1>4. CASE t \in {"mainPutObjectPrepared", "mainPutObjectStream", "mainPresignedPutObject"}
    <2>1. PutOne(r)
      <3>1. CASE t = "mainPutObjectPrepared"
        BY <3>1 DEF Run, mainPutObjectPrepared
      <3>2. CASE t = "mainPutObjectStream"
        BY <3>2 DEF Run, mainPutObjectStream
      <3>3. CASE t = "mainPresignedPutObject"
        BY <3>3 DEF Run, mainPresignedPutObject
      <3>4. QED BY <1>4, <3>1, <3>2, <3>3
    <2>2. p \in {5, 15, 16} /\ Buckets(1)
      BY <1>4 DEF Position, Filled, Buckets, Fixtures, NoBucketNames
    <2>3. \/ r = "pass" /\ fx' = [fx EXCEPT !.s3verifyObjects = @ + 1]
          \/ CanFail /\ r = "fail" /\ fx' = fx
      BY <2>1, <2>2, Zenon DEF PutOne, Indexing, Same
    <2>4. CASE r = "pass" /\ fx' = [fx EXCEPT !.s3verifyObjects = @ + 1]
      <3>1. fx' = [s3verifyBuckets |-> fx.s3verifyBuckets,
                   s3verifyPolicies |-> fx.s3verifyPolicies,
                   serverPolicies |-> fx.serverPolicies,
                   s3verifyObjects |-> fx.s3verifyObjects + 1, headed |-> fx.headed,
                   objectParts0 |-> fx.objectParts0, preparedBuckets |-> fx.preparedBuckets]
        BY <2>4, Zenon DEF Fixtures
      <3>2. QED BY <2>2, <2>4, <3>1 DEF Filled, Fixtures
    <2>5. CASE CanFail /\ r = "fail" /\ fx' = fx
      <3>1. p \in {15, 16}
        BY <1>4, <2>2, <2>5 DEF Position
      <3>2. QED BY <2>5, <3>1, FilledAdvance
    <2>6. QED BY <2>3, <2>4, <2>5
  <1>5. CASE t = "mainPutObjectUnPrepared"
    <2>1. mainPutObjectUnPrepared(r)
      BY <1>5 DEF Run
    <2>2. p = 5 /\ Buckets(1)
      BY <1>5 DEF Position, Filled, Buckets, Fixtures
    <2>3. PICK k \in 0..NumTestObjects :
            fx' = [fx EXCEPT !.s3verifyObjects = @ + k] /\ Loop(k, NumTestObjects, r)
      BY <2>1, <2>2, Zenon DEF mainPutObjectUnPrepared, Indexing
    <2>4. (r = "fail" /\ crit) \/ (k = NumTestObjects /\ r = "pass")
      BY <2>2, <2>3 DEF Loop
    <2>5. fx' = [s3verifyBuckets |-> fx.s3verifyBuckets,
                 s3verifyPolicies |-> fx.s3verifyPolicies,
                 serverPolicies |-> fx.serverPolicies,
                 s3verifyObjects |-> fx.s3verifyObjects + k, headed |-> fx.headed,
                 objectParts0 |-> fx.objectParts0, preparedBuckets |-> fx.preparedBuckets]
      BY <2>3, Zenon DEF Fixtures
    <2>6. QED BY <2>2, <2>4, <2>5 DEF Filled, Fixtures
  <1>6. CASE t = "mainPostObject"
    <2>1. mainPostObject(r)
      BY <1>6 DEF Run
    <2>2. p = 17 /\ Buckets(1)
      BY <1>6 DEF Position, Filled, Buckets, Fixtures
    <2>3. \/ r \in {"pass", "fail"} /\ fx' = [fx EXCEPT !.s3verifyObjects = @ + 1]
          \/ r = "fail" /\ fx' = fx
      BY <2>1, <2>2, Zenon DEF mainPostObject, Indexing, Same
    <2>4. CASE r \in {"pass", "fail"} /\ fx' = [fx EXCEPT !.s3verifyObjects = @ + 1]
      <3>1. fx' = [s3verifyBuckets |-> fx.s3verifyBuckets,
                   s3verifyPolicies |-> fx.s3verifyPolicies,
                   serverPolicies |-> fx.serverPolicies,
                   s3verifyObjects |-> fx.s3verifyObjects + 1, headed |-> fx.headed,
                   objectParts0 |-> fx.objectParts0, preparedBuckets |-> fx.preparedBuckets]
        BY <2>4, Zenon DEF Fixtures
      <3>2. QED BY <2>2, <2>4, <3>1 DEF Filled, Fixtures
    <2>5. CASE r = "fail" /\ fx' = fx
      BY <2>2, <2>5, FilledAdvance
    <2>6. QED BY <2>3, <2>4, <2>5
  <1>7. CASE t = "mainHeadObjectUnPrepared"
    <2>1. mainHeadObjectUnPrepared(r)
      BY <1>7 DEF Run
    <2>2. p = 7 /\ Buckets(1) /\ fx.s3verifyObjects >= 1
      BY <1>7 DEF Position, Filled, Buckets, Fixtures
    <2>3. PICK k \in 0..fx.s3verifyObjects :
            /\ Loop(k, fx.s3verifyObjects, r)
            /\ fx' = [fx EXCEPT !.headed = IF k > @ THEN k ELSE @]
      BY <2>1, <2>2, Zenon DEF mainHeadObjectUnPrepared, mainHeadObject, Indexing
    <2>4. (r = "fail" /\ crit) \/ (k = fx.s3verifyObjects /\ r = "pass")
      <3>1. Loop(k, fx.s3verifyObjects, r)
        BY <2>3
      <3>2. QED BY <2>2, <3>1 DEF Loop, Fixtures
    <2>5. fx' = [s3verifyBuckets |-> fx.s3verifyBuckets,
                 s3verifyPolicies |-> fx.s3verifyPolicies,
                 serverPolicies |-> fx.serverPolicies,
                 s3verifyObjects |-> fx.s3verifyObjects,
                 headed |-> IF k > fx.headed THEN k ELSE fx.headed,
                 objectParts0 |-> fx.objectParts0, preparedBuckets |-> fx.preparedBuckets]
      BY <2>3, Zenon DEF Fixtures
    <2>6. QED BY <2>2, <2>4, <2>5 DEF Filled, Fixtures
  <1>8. CASE t = "mainUploadPart"
    <2>1. mainUploadPart(r)
      BY <1>8 DEF Run
    <2>2. p = 19 /\ Buckets(1)
      BY <1>8 DEF Position, Filled, Buckets, Fixtures
    <2>3. PICK k \in 0..2 :
            /\ fx' = [fx EXCEPT !.objectParts0 = @ + (IF k >= 1 THEN 1 ELSE 0)]
            /\ Loop(k, 2, r)
      BY <2>1, <2>2, Zenon DEF mainUploadPart, Indexing
    <2>4. (r = "fail" /\ crit) \/ (k = 2 /\ r = "pass")
      BY <2>2, <2>3 DEF Loop
    <2>5. fx' = [s3verifyBuckets |-> fx.s3verifyBuckets,
                 s3verifyPolicies |-> fx.s3verifyPolicies,
                 serverPolicies |-> fx.serverPolicies,
                 s3verifyObjects |-> fx.s3verifyObjects, headed |-> fx.headed,
                 objectParts0 |-> fx.objectParts0 + (IF k >= 1 THEN 1 ELSE 0),
                 preparedBuckets |-> fx.preparedBuckets]
      BY <2>3, Zenon DEF Fixtures
    <2>6. QED BY <2>2, <2>4, <2>5 DEF Filled, Fixtures
  <1>9. QED BY <1>1, <1>2, <1>3, <1>4, <1>5, <1>6, <1>7, <1>8 DEF FixtureWriters

\* What the list that runs gives RunFilled: the entries at 1, 3, 5, 19
\* (and 7 in the unprepared list) fill fixture lists, are not Extended
\* and, in the unprepared list, are Critical; only the prepared list
\* names prepared scenarios; GetObjectRange is Extended.
LEMMA TestsGates ==
    ASSUME setup.mode \in {"none", "reuse"}
    PROVE  /\ \A p \in {1, 3, 5, 19} : Tests[p].test \in FixtureScenarios
           /\ setup.mode = "none" => Tests[7].test \in FixtureScenarios
           /\ \A p \in {1, 3, 5, 7, 19} : ~Tests[p].extended
           /\ setup.mode = "none" => \A p \in {1, 5, 7, 19} : Tests[p].critical
           /\ setup.mode = "none" =>
                \A p \in 1..42 : Tests[p].test \notin PreparedReaders \cup {"mainPutObjectPrepared"}
           /\ \A p \in 1..42 : Tests[p].test = "mainGetObjectRange" => Tests[p].extended
  <1>1. preparedTests[5].test = "mainPutObjectPrepared"
    BY DEF preparedTests, APItest
  <1>2. QED BY <1>1, TestsPlaced, PreparedPlaced, UnpreparedPlaced, UnpreparedGates
            DEF Placed, Position, FixtureScenarios

\* What SafeSetups says of the setup of a run that goes on.
LEMMA RunningSetup ==
    ASSUME SafeSetups, TInv, PInv, status = "running"
    PROVE  /\ setup.mode \in {"none", "reuse"}
           /\ ~Lost
           /\ setup.mode = "reuse" => ~CanFail /\ ~setup.extended
           /\ setup.excludes \cap FixtureScenarios = {}
  BY DEF SafeSetups, SafeSetup, TInv, PInv, Lost, CanFail

LEMMA InitPInv == Init => PInv
  BY DEF Init, PInv

LEMMA NextPInv ==
    ASSUME SafeSetups
    PROVE  TInv /\ PInv /\ [Next]_vars => PInv'
  <1> SUFFICES ASSUME TInv, PInv, [Next]_vars PROVE PInv'
    OBVIOUS
  <1>1. CASE callAllAPIs
    <2>1. pc = 1 /\ fx = NoFixtures /\ pc' = pc /\ setup' = setup
      BY <1>1 DEF callAllAPIs, TInv
    <2>2. \/ status' \in {"exit0", "exit1"}
          \/ status' = "running" /\ setup.mode = "none"
          \/ status' = "running" /\ setup.mode = "reuse" /\ fx'.preparedBuckets = 1
      BY <1>1, <2>1, Zenon DEF callAllAPIs, mainReuseS3Verify, cleanS3verify, Same, NoFixtures
    <2>3. QED BY <2>1, <2>2 DEF PInv, Filled
  <1>2. CASE Exclude \/ SkipExtended
    <2>1. /\ status = "running" /\ pc \in 1..42 /\ pc' = pc + 1
          /\ UNCHANGED <<setup, status, fx>>
          /\ \/ Entry.test \in setup.excludes
             \/ Entry.extended
      BY <1>2, TestsPlaced DEF Exclude, SkipExtended, Listed, TInv, Placed
    <2>2. /\ setup.mode \in {"none", "reuse"}
          /\ setup.excludes \cap FixtureScenarios = {}
      BY <2>1, RunningSetup
    <2>3. pc \notin {1, 3, 5, 19} /\ (pc = 7 => setup.mode # "none")
      BY <2>1, <2>2, TestsGates DEF Entry
    <2>4. Filled(fx, pc + 1, setup.mode)
      BY <2>1, <2>3, FilledAdvance DEF PInv
    <2>5. QED BY <2>1, <2>2, <2>4 DEF PInv
  <1>3. CASE RunTest
    <2> DEFINE t == Entry.test
               crit == Entry.critical /\ ~Entry.extended
    <2>1. /\ status = "running" /\ pc \in 1..42 /\ pc' = pc + 1 /\ setup' = setup
          /\ Position(t, pc)
          /\ setup.extended \/ ~Entry.extended
      BY <1>3, TestsPlaced DEF RunTest, Listed, TInv, Placed, Entry
    <2>2. PICK r \in {"pass", "fail", "panic"} :
            /\ Run(t, r)
            /\ status' = CASE r = "panic" -> "panic"
                           [] r = "fail" /\ Entry.critical /\ ~Entry.extended -> "exit1"
                           [] OTHER -> "running"
      BY <1>3 DEF RunTest
    <2>3. /\ setup.mode \in {"none", "reuse"}
          /\ ~Lost
          /\ setup.mode = "reuse" => ~CanFail /\ ~setup.extended
      BY <2>1, RunningSetup
    <2>4. /\ t \in PreparedReaders \cup {"mainPutObjectPrepared"} => setup.mode = "reuse"
          /\ t = "mainGetObjectRange" => setup.mode = "none"
          /\ t \notin FixtureWriters =>
               pc \notin {1, 3, 5, 19} /\ (pc = 7 => setup.mode = "reuse")
          /\ setup.mode = "none" /\ pc \in {1, 5, 7, 19} => crit
      BY <2>1, <2>3, TestsGates DEF Entry, FixtureScenarios, FixtureWriters
    <2>5. /\ r # "panic"
          /\ (r = "fail" /\ crit) \/ Filled(fx', pc + 1, setup.mode)
      BY <2>1, <2>2, <2>3, <2>4, RunFilled DEF TInv, PInv
    <2>6. QED BY <2>1, <2>2, <2>3, <2>5 DEF PInv
  <1>4. CASE Finish
    BY <1>4 DEF Finish, PInv
  <1>5. CASE UNCHANGED vars
    BY <1>5 DEF vars, PInv
  <1>6. QED BY <1>1, <1>2, <1>3, <1>4, <1>5 DEF Next

\* No runtime panic in the runner (cmd/main.go runTests and the scenarios
\* of cmd/*.go): a run with --clean,
\* without --reuse against a server that may refuse any request but loses
\* no reply, or with --reuse (not --extended) against a server that
\* answers as S3 does, and no --exclude of a scenario that fills a
\* fixture list, never indexes a fixture list past its end. The slices of
\* the object list in the ListObjects scenarios (objectInfo[:1000], [:30],
\* [30], [31:]) are not modelled: they stay in range only because
\* globals.go sets globalNumTestObjects to 1001, so for other values of
\* NumTestObjects the theorem covers only the indexes the model tracks.
THEOREM NoIndexPanicHolds ==
    ASSUME SafeSetups
    PROVE  Spec => []NoIndexPanic
  <1>1. Init => TInv /\ PInv
    BY InitTInv, InitPInv
  <1>2. TInv /\ PInv /\ [Next]_vars => TInv' /\ PInv'
    BY NextTInv, NextPInv
  <1>3. PInv => NoIndexPanic
    BY DEF PInv, NoIndexPanic
  <1>4. QED BY <1>1, <1>2, <1>3, PTL DEF Spec

=============================================================================
