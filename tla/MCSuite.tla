------------------------------- MODULE MCSuite -------------------------------
(***************************************************************************)
(* Suite for TLC.  Two test objects instead of 1001: a loop over them can   *)
(* stop at its first, its second or no iteration.                          *)
(***************************************************************************)
EXTENDS SuiteProofs

MCNumTestObjects == 2

Setup(mode, extended, faults, excludes) ==
    [mode |-> mode, extended |-> extended, faults |-> faults, excludes |-> excludes]

\* Runs without --reuse against a server that may refuse any request, with
\* and without --extended and with a harmless --exclude; --clean; and
\* --reuse against a server that answers as S3 does.
MCSetups ==
    { Setup("none", TRUE, {"reject"}, {}),
      Setup("none", FALSE, {"reject"}, {"mainListBuckets"}),
      Setup("clean", FALSE, {"reject"}, {}),
      Setup("reuse", FALSE, {}, {}) }

\* s3verify --reuse --extended against a server that answers as S3 does.
MCSetupsReuseExtended == { Setup("reuse", TRUE, {}, {}) }


\* The setups of the passing run are the ones NoIndexPanicHolds covers;
\* --reuse --extended is not, and there GetObjectRange panics.
ASSUME MCSetupsSafe ==
    /\ \A s \in MCSetups : SafeSetup(s)
    /\ \A s \in MCSetupsReuseExtended : ~SafeSetup(s)

=============================================================================
