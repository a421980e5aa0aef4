---------------------------- MODULE StreamLength ----------------------------
(***************************************************************************)
(* The Content-Length that s3verify's streaming PUT declares               *)
(* (calculateSignedChunkLength, calculateStreamContentLength and           *)
(* newPutObjectStreamingReq in cmd/put-object.go), against the aws-chunked *)
(* body the streaming signer writes: one frame per full chunk, one for the *)
(* remainder if any, and a zero-length frame that closes the stream; a     *)
(* frame is hex(size) ";chunk-signature=" signature CRLF bytes CRLF.       *)
(*                                                                          *)
(* The signer (signv4.StreamingSignV4) is not among the sources; its       *)
(* writer is modelled from the framing the spec gives, and builds every    *)
(* frame as a sequence so that its length is counted, not computed.        *)
(***************************************************************************)
EXTENDS Integers, Sequences

CONSTANTS
    DataLens,    \* lengths of object bodies a test may upload
    ChunkSizes   \* chunk sizes the request may be built with

ASSUME StreamAssumption ==
    /\ DataLens \subseteq Nat
    /\ ChunkSizes \subseteq Nat \ {0}

VARIABLES
    dataLen,    \* len(objectData) of the request being built (-1: none yet)
    chunkSize,  \* putObjectReq.chunkSize
    declared,   \* the Content-Length header the request carries
    rem,        \* bytes of the body the writer has not framed yet
    written,    \* bytes of aws-chunked body written so far
    closed      \* whether the zero-length frame has been written

vars == <<dataLen, chunkSize, declared, rem, written, closed>>

-----------------------------------------------------------------------------
(* fmt.Sprintf("%x", n) for n >= 0: the lower-case hex digits of n, most   *)
(* significant first, and "0" for zero.                                     *)

HexDigits[n \in Nat] ==
    IF n < 16 THEN <<n % 16>> ELSE Append(HexDigits[n \div 16], n % 16)

HexDigitCount[n \in Nat] == IF n < 16 THEN 1 ELSE 1 + HexDigitCount[n \div 16]

\* len(fmt.Sprintf("%x", chunkDataSize)).
HexLen(n) == HexDigitCount[n]

\* calculateSignedChunkLength.
CalculateSignedChunkLength(chunkDataSize) ==
    HexLen(chunkDataSize) + 17 + 64 + 2 + chunkDataSize + 2

\* Mutant: a body that is a multiple of the chunk size is given a
\* remainder frame of a full chunk as well.
CalculateStreamContentLengthCeil(len, size) ==
    IF len <= 0 THEN 0
    ELSE LET chunksCount == len \div size
             remainingBytes == len % size
         IN  chunksCount * CalculateSignedChunkLength(size)
               + (IF remainingBytes > 0 THEN CalculateSignedChunkLength(remainingBytes)
                  ELSE CalculateSignedChunkLength(size))
               + CalculateSignedChunkLength(0)

\* calculateStreamContentLength (dataLen, chunkSize are the Go parameters).
CalculateStreamContentLength(len, size) ==
    IF len <= 0 THEN 0
    ELSE LET chunksCount == len \div size
             remainingBytes == len % size
         IN  chunksCount * CalculateSignedChunkLength(size)
               + (IF remainingBytes > 0 THEN CalculateSignedChunkLength(remainingBytes)
                  ELSE 0)
               + CalculateSignedChunkLength(0)

-----------------------------------------------------------------------------
(* The aws-chunked frame of n bytes, as the streaming signer writes it.     *)

ChunkSignatureField ==
    <<";", "c", "h", "u", "n", "k", "-", "s", "i", "g", "n", "a", "t", "u",
      "r", "e", "=">> \o [i \in 1..64 |-> "x"]
CRLF == <<"\r", "\n">>
Frame(n) == HexDigits[n] \o ChunkSignatureField \o CRLF
              \o [i \in 1..n |-> "b"] \o CRLF

-----------------------------------------------------------------------------

Init ==
    /\ dataLen = -1
    /\ chunkSize = 0
    /\ declared = 0
    /\ rem = 0
    /\ written = 0
    /\ closed = FALSE

\* newPutObjectStreamingReq: the body and its declared length; the
\* request's chunk size is the one the signer frames with.
NewPutObjectStreamingReq(len, size) ==
    /\ dataLen = -1
    /\ dataLen' = len
    /\ chunkSize' = size
    /\ declared' = CalculateStreamContentLength(len, size)
    /\ rem' = len
    /\ UNCHANGED <<written, closed>>

\* Mutant: every frame is taken to be a full chunk.
WriteChunkFull ==
    /\ dataLen >= 0
    /\ rem > 0
    /\ written' = written + Len(Frame(chunkSize))
    /\ rem' = rem - chunkSize
    /\ UNCHANGED <<dataLen, chunkSize, declared, closed>>

\* The signer frames the next chunk: a full one, or the remainder.
WriteChunk ==
    /\ dataLen >= 0
    /\ rem > 0
    /\ LET n == IF rem < chunkSize THEN rem ELSE chunkSize
       IN  /\ written' = written + Len(Frame(n))
           /\ rem' = rem - n
    /\ UNCHANGED <<dataLen, chunkSize, declared, closed>>

\* The signer closes the stream with the zero-length frame.
WriteFinalChunk ==
    /\ dataLen >= 0
    /\ rem = 0
    /\ ~closed
    /\ written' = written + Len(Frame(0))
    /\ closed' = TRUE
    /\ UNCHANGED <<dataLen, chunkSize, declared, rem>>

Next ==
    \/ \E len \in DataLens, size \in ChunkSizes : NewPutObjectStreamingReq(len, size)
    \/ WriteChunk
    \/ WriteFinalChunk

Spec == Init /\ [][Next]_vars

-----------------------------------------------------------------------------
(* Properties.                                                             *)

TypeOK ==
    /\ dataLen \in DataLens \cup {-1}
    /\ chunkSize \in ChunkSizes \cup {0}
    /\ declared \in Nat
    /\ rem \in Nat
    /\ written \in Nat
    /\ closed \in BOOLEAN

\* Once the stream is closed, the body written has exactly the length the
\* request declared: the Content-Length newPutObjectStreamingReq computes
\* is the length of the aws-chunked stream.
ContentLengthExact == closed => written = declared

=============================================================================
