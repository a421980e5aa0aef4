--------------------------- MODULE MCStreamLength ---------------------------
(* Model-checking instances of StreamLength: every body length up to a few *)
(* chunks, chunk sizes on both sides of the hex-digit boundary at 16, and  *)
(* the spec's test vector, 70000 bytes in chunks of 64 KiB.                *)
EXTENDS StreamLengthProofs

\* Bodies of one to 40 bytes, and the spec's example.
MCDataLens == (1..40) \cup {70000}
\* 1 and 15 give one-digit full frames, 16 and 17 two-digit ones; 65536 is
\* the chunk size newPutObjectStreamingReq uses.
MCChunkSizes == {1, 15, 16, 17, 65536}

\* The hypotheses of StreamLengthProofs' theorems, on this instance: the
\* bodies are not empty, and fmt.Sprintf("%x", n) as HexDigits computes it
\* has HexDigitCount[n] digits for every n up to the largest length a
\* frame or a test body has here.
MCHexBound == 70000
ASSUME NonEmptyBodiesChecked == NonEmptyBodies
ASSUME HexDigitsChecked ==
    \A n \in 0..MCHexBound : /\ HexDigits[n] \in Seq(0..15)
                             /\ Len(HexDigits[n]) = HexDigitCount[n]

=============================================================================
