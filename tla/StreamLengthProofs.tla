------------------------- MODULE StreamLengthProofs -------------------------
(***************************************************************************)
(* Proofs that the Content-Length newPutObjectStreamingReq declares is the *)
(* length of the aws-chunked stream the signer writes, for every non-empty *)
(* body length and every chunk size.                                       *)
(*                                                                          *)
(* The one fact taken as a hypothesis is what the recursive HexDigits      *)
(* computes: a sequence of HexDigitCount[n] hex digits.  Recursive         *)
(* definitions cannot be unfolded by the provers, so that fact is checked  *)
(* by TLC (MCStreamLength's HexDigitsChecked); everything else, the        *)
(* division into full chunks and a remainder included, is proved here.    *)
(*                                                                          *)
(* ContentLengthExact is not inductive: it says nothing before the stream  *)
(* is closed.  IInv says that what is written plus what the writer still   *)
(* owes (Owed) is the declared length at every step.                       *)
(***************************************************************************)
EXTENDS StreamLength, SequenceTheorems, TLAPS

\* fmt.Sprintf("%x", n) yields HexDigitCount[n] hex digits.
HexDigitsWellFormed ==
    \A n \in Nat : /\ HexDigits[n] \in Seq(0..15)
                   /\ Len(HexDigits[n]) = HexDigitCount[n]

\* calculateStreamContentLength is only called with a body to send: its one
\* caller, mainPutObjectStream, uploads 60 random bytes.
NonEmptyBodies == 0 \notin DataLens

\* The frames the writer still owes for rem bytes in chunks of size:
\* the full chunks, then the remainder if any.
Owed(r, size) ==
    (r \div size) * CalculateSignedChunkLength(size)
      + (IF r % size > 0 THEN CalculateSignedChunkLength(r % size) ELSE 0)

IInv ==
    /\ TypeOK
    /\ dataLen = -1 => written = 0 /\ ~closed
    /\ dataLen # -1 =>
         /\ dataLen > 0
         /\ chunkSize \in ChunkSizes
         /\ closed => rem = 0
         /\ written + Owed(rem, chunkSize)
              + (IF closed THEN 0 ELSE CalculateSignedChunkLength(0))
            = declared

USE StreamAssumption

-----------------------------------------------------------------------------
(* Lemmas about the operators.                                             *)

\* The symbols a frame is written with.
FrameChars ==
    (0..15) \cup {";", "c", "h", "u", "n", "k", "-", "s", "i", "g", "a", "t",
                  "r", "e", "=", "x", "b", "\r", "\n"}

\* A function on 1..n is a sequence of length n.
LEMMA FcnIsSeq ==
    ASSUME NEW S, NEW n \in Nat, NEW f \in [1..n -> S]
    PROVE  f \in Seq(S) /\ Len(f) = n
  <1>1. f \in Seq(S)
    BY SeqDef
  <1>2. DOMAIN f = 1..Len(f) /\ Len(f) \in Nat
    BY <1>1, LenProperties
  <1>3. QED BY <1>1, <1>2

\* Concatenation adds lengths.
LEMMA ConcatLen ==
    ASSUME NEW S, NEW a \in Seq(S), NEW b \in Seq(S)
    PROVE  a \o b \in Seq(S) /\ Len(a \o b) = Len(a) + Len(b)
  OBVIOUS

\* The text ";chunk-signature=" that opens a frame's signature field.
SigPrefix ==
    <<";", "c", "h", "u", "n", "k", "-", "s", "i", "g", "n", "a", "t", "u",
      "r", "e", "=">>

LEMMA ChunkSignatureFieldLength ==
    ChunkSignatureField \in Seq(FrameChars) /\ Len(ChunkSignatureField) = 81
  <1> DEFINE X == [i \in 1..64 |-> "x"]
             P == [i \in 1..17 |-> SigPrefix[i]]
  <1>1. \A i \in 1..17 : i \in {1, 2, 3, 4, 5, 6, 7, 8, 9, 10, 11, 12, 13,
                                14, 15, 16, 17}
    OBVIOUS
  <1>2. /\ SigPrefix[1] \in FrameChars /\ SigPrefix[2] \in FrameChars
        /\ SigPrefix[3] \in FrameChars /\ SigPrefix[4] \in FrameChars
        /\ SigPrefix[5] \in FrameChars /\ SigPrefix[6] \in FrameChars
        /\ SigPrefix[7] \in FrameChars /\ SigPrefix[8] \in FrameChars
        /\ SigPrefix[9] \in FrameChars /\ SigPrefix[10] \in FrameChars
        /\ SigPrefix[11] \in FrameChars /\ SigPrefix[12] \in FrameChars
        /\ SigPrefix[13] \in FrameChars /\ SigPrefix[14] \in FrameChars
        /\ SigPrefix[15] \in FrameChars /\ SigPrefix[16] \in FrameChars
        /\ SigPrefix[17] \in FrameChars
    BY DEF SigPrefix, FrameChars
  <1>3. SigPrefix = P
    BY DEF SigPrefix
  <1>4. P \in [1..17 -> FrameChars]
    BY <1>1, <1>2
  <1>5. P \in Seq(FrameChars) /\ Len(P) = 17
    BY <1>4, FcnIsSeq
  <1>6. X \in Seq(FrameChars) /\ Len(X) = 64
    <2>1. X \in [1..64 -> FrameChars]
      BY DEF FrameChars
    <2>2. QED BY <2>1, FcnIsSeq
  <1>7. P \o X \in Seq(FrameChars) /\ Len(P \o X) = Len(P) + Len(X)
    BY <1>5, <1>6, ConcatLen
  <1>8. ChunkSignatureField = P \o X
    BY <1>3 DEF ChunkSignatureField, SigPrefix
  <1>9. QED BY <1>5, <1>6, <1>7, <1>8

\* A frame of n bytes is as long as calculateSignedChunkLength(n) says.
LEMMA FrameLength ==
    ASSUME HexDigitsWellFormed, NEW n \in Nat
    PROVE  /\ Len(Frame(n)) = CalculateSignedChunkLength(n)
           /\ CalculateSignedChunkLength(n) \in Nat
  <1>1. /\ HexDigits[n] \in Seq(FrameChars)
        /\ Len(HexDigits[n]) = HexLen(n)
        /\ HexLen(n) \in Nat
    <2>1. HexDigits[n] \in Seq(0..15) /\ Len(HexDigits[n]) = HexDigitCount[n]
      BY DEF HexDigitsWellFormed
    <2>2. HexDigits[n] \in Seq(FrameChars)
      BY <2>1, SeqMonotonic DEF FrameChars
    <2>3. QED BY <2>1, <2>2, LenProperties DEF HexLen
  <1>2. CRLF \in Seq(FrameChars) /\ Len(CRLF) = 2
    <2>1. \A i \in 1..2 : i \in {1, 2}
      OBVIOUS
    <2>2. CRLF = [i \in 1..2 |-> CRLF[i]] /\ CRLF[1] \in FrameChars /\ CRLF[2] \in FrameChars
      BY DEF CRLF, FrameChars
    <2>3. [i \in 1..2 |-> CRLF[i]] \in [1..2 -> FrameChars]
      BY <2>1, <2>2
    <2>4. QED BY <2>2, <2>3, FcnIsSeq
  <1>3. [i \in 1..n |-> "b"] \in Seq(FrameChars) /\ Len([i \in 1..n |-> "b"]) = n
    <2>1. [i \in 1..n |-> "b"] \in [1..n -> FrameChars]
      BY DEF FrameChars
    <2>2. QED BY <2>1, FcnIsSeq
  <1> DEFINE H == HexDigits[n]  F == ChunkSignatureField  B == [i \in 1..n |-> "b"]
  <1>4. H \o F \in Seq(FrameChars) /\ Len(H \o F) = Len(H) + Len(F)
    <2>1. \A h \in Seq(FrameChars) :
            h \o F \in Seq(FrameChars) /\ Len(h \o F) = Len(h) + Len(F)
      BY ChunkSignatureFieldLength, ConcatLen
    <2>2. QED BY <1>1, <2>1, Zenon
  <1>5. H \o F \o CRLF \in Seq(FrameChars)
        /\ Len(H \o F \o CRLF) = Len(H \o F) + Len(CRLF)
    BY <1>2, <1>4, ConcatLen, Zenon
  <1>6. H \o F \o CRLF \o B \in Seq(FrameChars)
        /\ Len(H \o F \o CRLF \o B) = Len(H \o F \o CRLF) + Len(B)
    BY <1>3, <1>5, ConcatLen, Zenon
  <1>7. Len(H \o F \o CRLF \o B \o CRLF) = Len(H \o F \o CRLF \o B) + Len(CRLF)
    BY <1>2, <1>6, ConcatLen, Zenon
  <1>8. QED
    BY <1>1, <1>2, <1>3, <1>4, <1>5, <1>6, <1>7, ChunkSignatureFieldLength
    DEF Frame, CalculateSignedChunkLength

\* Every frame length calculateSignedChunkLength gives is a number.
ChunkLengthsNat == \A k \in Nat : CalculateSignedChunkLength(k) \in Nat

LEMMA FrameLengthsNat == HexDigitsWellFormed => ChunkLengthsNat
  BY FrameLength DEF ChunkLengthsNat

\* Euclidean division of a natural number by a positive one.
LEMMA DivMod ==
    ASSUME NEW x \in Nat, NEW s \in Nat \ {0}
    PROVE  /\ x = (x \div s) * s + (x % s)
           /\ x % s \in 0..s-1
           /\ x \div s \in Nat
  <1>1. x = (x \div s) * s + (x % s)
    BY SMT
  <1>2. x % s \in 0..s-1
    BY SMT
  <1>3. x \div s \in Nat
    BY SMT
  <1>4. QED BY <1>1, <1>2, <1>3

\* The quotient and remainder are the only ones.
LEMMA DivUnique ==
    ASSUME NEW x \in Int, NEW s \in Nat \ {0}, NEW a \in Int, NEW b \in 0..s-1,
           x = a * s + b
    PROVE  x \div s = a /\ x % s = b
  BY SMT

\* Taking one full chunk off rem leaves one full chunk fewer to frame.
LEMMA OwedFullChunk ==
    ASSUME ChunkLengthsNat, NEW r \in Nat, NEW size \in Nat \ {0}, r >= size
    PROVE  Owed(r, size) = CalculateSignedChunkLength(size) + Owed(r - size, size)
  <1> DEFINE q == r \div size  m == r % size  c == CalculateSignedChunkLength(size)
  <1>1. r = q * size + m /\ m \in 0..size-1 /\ q \in Nat
    BY DivMod
  <1>2. r - size = (q - 1) * size + m /\ r - size \in Int /\ q - 1 \in Int
    BY <1>1
  <1>3. (r - size) \div size = q - 1 /\ (r - size) % size = m
    BY <1>1, <1>2, DivUnique, Zenon
  <1>4. c \in Nat /\ CalculateSignedChunkLength(m) \in Nat
    BY <1>1 DEF ChunkLengthsNat
  <1>5. q * c = c + (q - 1) * c
    BY <1>1, <1>4
  <1>6. QED BY <1>3, <1>4, <1>5 DEF Owed

\* A remainder shorter than a chunk is framed as one frame of its length.
LEMMA OwedRemainder ==
    ASSUME ChunkLengthsNat, NEW r \in Nat, NEW size \in Nat \ {0}, r < size
    PROVE  Owed(r, size) = IF r > 0 THEN CalculateSignedChunkLength(r) ELSE 0
  <1>1. r = 0 * size + r /\ r \in 0..size-1
    OBVIOUS
  <1>2. r \div size = 0 /\ r % size = r
    BY <1>1, DivUnique
  <1>3. CalculateSignedChunkLength(size) \in Nat /\ CalculateSignedChunkLength(r) \in Nat
    BY DEF ChunkLengthsNat
  <1>4. QED BY <1>2, <1>3 DEF Owed

\* The length a request declares is what it still owes before anything
\* is written, the closing frame included.
LEMMA DeclaredOwed ==
    ASSUME NEW len \in Nat \ {0}, NEW size \in Nat \ {0}
    PROVE  CalculateStreamContentLength(len, size)
             = Owed(len, size) + CalculateSignedChunkLength(0)
  BY DEF CalculateStreamContentLength, Owed

\* What is owed is a number.
LEMMA OwedNat ==
    ASSUME ChunkLengthsNat, NEW r \in Nat, NEW size \in Nat \ {0}
    PROVE  Owed(r, size) \in Nat
  <1>1. r \div size \in Nat /\ r % size \in Nat
    BY DivMod
  <1>2. CalculateSignedChunkLength(size) \in Nat
        /\ CalculateSignedChunkLength(r % size) \in Nat
    BY <1>1 DEF ChunkLengthsNat
  <1>3. QED BY <1>1, <1>2 DEF Owed

-----------------------------------------------------------------------------
(* The inductive invariant.                                                *)

LEMMA InitIInv == Init => IInv
  <1> SUFFICES ASSUME Init PROVE IInv
    OBVIOUS
  <1>1. TypeOK
    BY DEF Init, TypeOK
  <1>2. dataLen = -1 /\ written = 0 /\ ~closed
    BY DEF Init
  <1>3. QED BY <1>1, <1>2, Zenon DEF IInv

LEMMA NextIInv ==
    ASSUME HexDigitsWellFormed, NonEmptyBodies
    PROVE  IInv /\ [Next]_vars => IInv'
  <1> SUFFICES ASSUME IInv, [Next]_vars PROVE IInv'
    OBVIOUS
  <1>0. ChunkLengthsNat
    BY FrameLengthsNat
  <1> C0 == CalculateSignedChunkLength(0)
  <1>1. ASSUME NEW len \in DataLens, NEW size \in ChunkSizes,
               NewPutObjectStreamingReq(len, size)
        PROVE  IInv'
    <2>1. len \in Nat \ {0} /\ size \in Nat \ {0}
      BY DEF NonEmptyBodies
    <2>2. declared' = Owed(len, size) + C0
      BY <1>1, <2>1, DeclaredOwed DEF NewPutObjectStreamingReq
    <2>3. Owed(len, size) \in Nat /\ C0 \in Nat
      BY <1>0, <2>1, OwedNat DEF ChunkLengthsNat
    <2>4. written = 0 /\ ~closed
      BY <1>1 DEF NewPutObjectStreamingReq, IInv
    <2>5. QED BY <1>1, <2>1, <2>2, <2>3, <2>4
                 DEF NewPutObjectStreamingReq, IInv, TypeOK
  <1>2. CASE WriteChunk
    <2>1. /\ dataLen # -1 /\ rem > 0 /\ ~closed
          /\ chunkSize \in ChunkSizes /\ chunkSize \in Nat \ {0}
          /\ written + Owed(rem, chunkSize) + C0 = declared
          /\ TypeOK
      BY <1>2 DEF WriteChunk, IInv, TypeOK
    <2>2. C0 \in Nat
      BY <1>0 DEF ChunkLengthsNat
    <2>3. CASE rem < chunkSize
      <3>1. written' = written + CalculateSignedChunkLength(rem) /\ rem' = 0
        <4>1. Len(Frame(rem)) = CalculateSignedChunkLength(rem)
          BY <2>1, FrameLength DEF TypeOK
        <4>2. (IF rem < chunkSize THEN rem ELSE chunkSize) = rem
          BY <2>3
        <4>3. written' = written + CalculateSignedChunkLength(rem)
          BY <1>2, <4>1, <4>2, Zenon DEF WriteChunk
        <4>4. rem' = 0
          BY <1>2, <2>1, <4>2 DEF WriteChunk, TypeOK
        <4>5. QED BY <4>3, <4>4
      <3>2. Owed(rem, chunkSize) = CalculateSignedChunkLength(rem)
            /\ Owed(0, chunkSize) = 0
        BY <1>0, <2>1, <2>3, OwedRemainder DEF TypeOK
      <3>3. CalculateSignedChunkLength(rem) \in Nat
        BY <1>0, <2>1 DEF ChunkLengthsNat, TypeOK
      <3>4. QED BY <1>2, <2>1, <2>2, <3>1, <3>2, <3>3 DEF WriteChunk, IInv, TypeOK
    <2>4. CASE rem >= chunkSize
      <3>1. written' = written + CalculateSignedChunkLength(chunkSize)
            /\ rem' = rem - chunkSize
        <4>1. Len(Frame(chunkSize)) = CalculateSignedChunkLength(chunkSize)
          BY <2>1, FrameLength
        <4>2. (IF rem < chunkSize THEN rem ELSE chunkSize) = chunkSize
          BY <2>1, <2>4 DEF TypeOK
        <4>3. QED BY <1>2, <4>1, <4>2, Zenon DEF WriteChunk
      <3>2. Owed(rem, chunkSize)
              = CalculateSignedChunkLength(chunkSize) + Owed(rem - chunkSize, chunkSize)
        BY <1>0, <2>1, <2>4, OwedFullChunk DEF TypeOK
      <3>3. CalculateSignedChunkLength(chunkSize) \in Nat
            /\ Owed(rem - chunkSize, chunkSize) \in Nat
        BY <1>0, <2>1, <2>4, OwedNat DEF ChunkLengthsNat, TypeOK
      <3>4. QED BY <1>2, <2>1, <2>2, <3>1, <3>2, <3>3 DEF WriteChunk, IInv, TypeOK
    <2>5. QED BY <2>3, <2>4, <2>1 DEF TypeOK
  <1>3. CASE WriteFinalChunk
    <2>1. /\ dataLen # -1 /\ rem = 0 /\ ~closed
          /\ chunkSize \in Nat \ {0}
          /\ written + Owed(rem, chunkSize) + C0 = declared
      BY <1>3 DEF WriteFinalChunk, IInv, TypeOK
    <2>2. Owed(0, chunkSize) = 0
      BY <1>0, <2>1, OwedRemainder
    <2>3. written' = written + C0 /\ C0 \in Nat
      BY <1>0, <1>3, FrameLength DEF WriteFinalChunk
    <2>4. QED BY <1>3, <2>1, <2>2, <2>3 DEF WriteFinalChunk, IInv, TypeOK
  <1>4. CASE UNCHANGED vars
    BY <1>4 DEF vars, IInv, TypeOK
  <1>5. QED BY <1>1, <1>2, <1>3, <1>4 DEF Next

LEMMA IInvInvariant ==
    ASSUME HexDigitsWellFormed, NonEmptyBodies
    PROVE  Spec => []IInv
  BY InitIInv, NextIInv, PTL DEF Spec

-----------------------------------------------------------------------------
(* The theorems.                                                           *)

\* Once the signer has written the closing frame, the stream is exactly as
\* long as the Content-Length calculateStreamContentLength computed.
THEOREM ContentLengthExactHolds ==
    ASSUME HexDigitsWellFormed, NonEmptyBodies
    PROVE  Spec => []ContentLengthExact
  <1>1. IInv => ContentLengthExact
    <2> SUFFICES ASSUME IInv, closed PROVE written = declared
      BY DEF ContentLengthExact
    <2>1. dataLen # -1 /\ rem = 0 /\ chunkSize \in Nat \ {0}
      BY DEF IInv, TypeOK
    <2>2. Owed(0, chunkSize) = 0
      BY <2>1, FrameLengthsNat, OwedRemainder
    <2>3. QED BY <2>1, <2>2 DEF IInv, TypeOK
  <1>2. QED BY <1>1, IInvInvariant, PTL

\* Every variable of the streaming upload stays within its type: the
\* data length and chunk size are ones the caller passes (or unset), and
\* the declared length, the bytes left and the bytes written are natural
\* numbers, so no step of the chunked reader goes negative.
THEOREM StreamLengthTypeCorrect ==
    ASSUME HexDigitsWellFormed, NonEmptyBodies
    PROVE  Spec => []TypeOK
  <1>1. IInv => TypeOK
    BY DEF IInv
  <1>2. QED BY <1>1, IInvInvariant, PTL

=============================================================================
