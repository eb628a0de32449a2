----------------------------- MODULE Md5BufferProofs -----------------------------
(***************************************************************************)
(* Theorems about Md5Buffer for messages of any length: no copy leaves its *)
(* bounds, the blocks hashed are the stream, and the padded message is     *)
(* hashed to its end.                                                      *)
(***************************************************************************)
EXTENDS Md5Buffer, TLAPS

USE M5Assumption DEF M5Assumption

\* The place of the stream up to which it was hashed.
Hashed == Block * Len(blocks)

\* The buffer holds the n bytes of the stream that are not hashed yet.
Holds(n) == \A j \in 0..n - 1 : buffer[j] = Hashed + j

\* Between two calls the buffer holds what is left of the stream.
AtCall ==
  pc \in {"call", "done"} =>
    /\ count - Hashed \in 0..Block - 1
    /\ Holds(count - Hashed)

\* In a call, the place reached is i bytes into the data.
InCall ==
  pc \in {"loop", "rest"} => /\ i <= len
                             /\ len <= count
                             /\ Start + i = Hashed + index

InLoop == pc = "loop" => index = 0
InRest == pc = "rest" => /\ index + (len - i) < Block
                         /\ Holds(index)

\* How much was fed, and what was counted, before and after each call.
PadTo(n) == n + PadLen(n % Block)

Fed ==
  /\ pc = "call" => /\ feed = "message" => count = 0
                    /\ feed = "padding" => count = msgLen
                    /\ feed = "length"  => count = PadTo(msgLen)
  /\ pc \in {"loop", "rest"} =>
       /\ feed = "message" => count = msgLen
       /\ feed = "padding" => /\ count = PadTo(msgLen)
                              /\ bits = msgLen
                              /\ len <= Block
       /\ feed = "length"  => count = PadTo(msgLen) + LengthSize
  /\ pc = "done" => count = PadTo(msgLen) + LengthSize
  /\ pc = "done" \/ feed = "length" => bits = msgLen

IInv == /\ TypeOK /\ BlocksAreTheStream /\ Fed
        /\ AtCall /\ InCall /\ InLoop /\ InRest

-----------------------------------------------------------------------------
\* A count of bytes has one quotient and one remainder.
LEMMA Division ==
  ASSUME NEW n \in Nat
  PROVE  /\ n % Block \in 0..Block - 1
         /\ n \div Block \in Nat
         /\ n = Block * (n \div Block) + (n % Block)
BY DEF Block

LEMMA Remainder ==
  ASSUME NEW n \in Nat, NEW m \in Nat, n - Block * m \in 0..Block - 1
  PROVE  n % Block = n - Block * m /\ n \div Block = m
BY DEF Block

LEMMA SameBlock ==
  ASSUME NEW m \in Int, NEW n \in Int, Block * m - Block * n \in 0..Block - 1
  PROVE  n = m
BY DEF Block

\* The padding ends eight bytes before the end of a block, and the first such
\* end behind the message that leaves a byte for it.
LEMMA PadEnds ==
  ASSUME NEW n \in Nat
  PROVE  /\ PadLen(n % Block) \in 1..Block
         /\ PadTo(n) \in Nat
         /\ PadTo(n) + LengthSize = Block * ((n + LengthSize) \div Block + 1)
<1> DEFINE k == n \div Block
           r == n % Block
<1>1. r \in 0..Block - 1 /\ k \in Nat /\ n = Block * k + r
  BY Division
<1>2. CASE r < 56
  <2>1. (n + LengthSize) \div Block = k
    <3>1. (n + LengthSize) - Block * k \in 0..Block - 1
      BY <1>1, <1>2 DEF Block, LengthSize
    <3>2. n + LengthSize \in Nat
      BY DEF LengthSize
    <3> HIDE DEF k
    <3> QED
      BY <1>1, <3>1, <3>2, Remainder
  <2> HIDE DEF k, r
  <2>2. PadLen(r) = 56 - r
    BY <1>2 DEF PadLen
  <2> QED
    BY <1>1, <1>2, <2>1, <2>2 DEF PadTo, Block, LengthSize, r
<1>3. CASE ~(r < 56)
  <2>1. (n + LengthSize) \div Block = k + 1
    <3>1. (n + LengthSize) - Block * (k + 1) \in 0..Block - 1
      BY <1>1, <1>3 DEF Block, LengthSize
    <3>2. n + LengthSize \in Nat /\ k + 1 \in Nat
      BY <1>1 DEF LengthSize
    <3> HIDE DEF k
    <3> QED
      BY <1>1, <3>1, <3>2, Remainder
  <2> HIDE DEF k, r
  <2>2. PadLen(r) = 120 - r
    BY <1>3 DEF PadLen
  <2> QED
    BY <1>1, <1>3, <2>1, <2>2 DEF PadTo, Block, LengthSize, r
<1> QED
  BY <1>2, <1>3

-----------------------------------------------------------------------------
\* Filling the buffer from where the unhashed bytes end makes the next block of
\* the stream.
LEMMA FilledIsNext ==
  ASSUME TypeOK, count - Hashed \in 0..Block - 1, Holds(count - Hashed),
         NEW at, at = count % Block
  PROVE  /\ at = count - Hashed
         /\ Copied(at, count, Block - at) = BlockAt(Hashed)
<1>1. Len(blocks) \in Nat
  BY DEF TypeOK
<1>2. at = count - Hashed
  BY <1>1, Remainder DEF TypeOK, Hashed
<1>3. ASSUME NEW j \in 0..Block - 1
      PROVE  (IF j \in at..at + (Block - at) - 1 THEN count + (j - at) ELSE buffer[j])
               = Hashed + j
  <2>1. count \in Nat /\ Hashed \in Int /\ at \in 0..Block - 1
    BY <1>1, <1>2 DEF TypeOK, Hashed, Block
  <2>2. CASE j < at
    <3>1. buffer[j] = Hashed + j
      BY <1>2, <2>1, <2>2 DEF Holds, Block
    <3> QED
      BY <2>1, <2>2, <3>1 DEF Block
  <2>3. CASE ~(j < at)
    BY <1>2, <2>1, <2>3 DEF Block
  <2> QED
    BY <2>2, <2>3
<1> QED
  BY <1>2, <1>3 DEF Copied, BlockAt

\* One more block keeps the blocks the stream.
LEMMA NextBlock ==
  ASSUME TypeOK, BlocksAreTheStream, blocks' = Append(blocks, BlockAt(Hashed))
  PROVE  /\ blocks' \in Seq(Buffers)
         /\ BlocksAreTheStream'
         /\ Hashed' = Hashed + Block
<1>1. Len(blocks) \in Nat /\ Hashed = Block * Len(blocks) /\ Hashed \in Nat
  BY DEF TypeOK, Hashed, Block
<1>2. BlockAt(Hashed) \in Buffers
  BY <1>1 DEF BlockAt, Buffers
<1>3. blocks' \in Seq(Buffers) /\ Len(blocks') = Len(blocks) + 1
  BY <1>2 DEF TypeOK
<1>4. \A k \in 1..Len(blocks') : blocks'[k] = BlockAt(Block * (k - 1))
  <2> SUFFICES ASSUME NEW k \in 1..Len(blocks')
               PROVE  blocks'[k] = BlockAt(Block * (k - 1))
    OBVIOUS
  <2>1. CASE k \in 1..Len(blocks)
    BY <2>1 DEF TypeOK, BlocksAreTheStream
  <2>2. CASE k = Len(blocks) + 1
    BY <1>1, <2>2 DEF TypeOK
  <2> QED
    BY <1>1, <1>3, <2>1, <2>2
<1>5. Hashed' = Hashed + Block
  BY <1>1, <1>3 DEF Hashed, Block
<1> QED
  BY <1>3, <1>4, <1>5 DEF BlocksAreTheStream, BlockAt, Block

LEMMA Initially == Init => IInv
<1> SUFFICES ASSUME Init PROVE IInv
  OBVIOUS
<1> USE DEF Init
<1>1. TypeOK
  BY DEF TypeOK, Buffers, Garbage, Block
<1>2. Hashed = 0
  BY DEF Hashed, Block
<1>3. AtCall
  BY <1>2 DEF AtCall, Holds, Block
<1> QED
  BY <1>1, <1>3 DEF IInv, BlocksAreTheStream, Fed, InCall, InLoop, InRest

\* What each call is given.
LEMMA Given ==
  ASSUME IInv, pc = "call"
  PROVE  /\ NextLen \in Nat
         /\ feed = "padding" => count = msgLen /\ NextLen = PadLen(msgLen % Block)
         /\ feed = "padding" => NextLen \in 1..Block
<1>1. msgLen \in Nat /\ (feed = "padding" => count = msgLen)
  BY DEF IInv, TypeOK, Fed
<1> QED
  BY <1>1, PadEnds DEF NextLen, LengthSize, Block

LEMMA CallStep == IInv /\ Call => IInv'
<1> SUFFICES ASSUME IInv, Call PROVE IInv'
  OBVIOUS
<1> DEFINE at == count % Block
<1>1. pc = "call" /\ len' = NextLen /\ count' = count + NextLen /\ bits' = Bits
      /\ msgLen' = msgLen /\ feed' = feed
  BY DEF Call
<1>2. /\ NextLen \in Nat /\ count \in Nat /\ Len(blocks) \in Nat /\ Hashed \in Nat
      /\ at = count - Hashed /\ at \in 0..Block - 1
      /\ Copied(at, count, Block - at) = BlockAt(Hashed)
  <2>1. Len(blocks) \in Nat /\ count \in Nat
    BY DEF IInv, TypeOK
  <2>2. NextLen \in Nat
    BY <1>1, Given
  <2>3. count - Hashed \in 0..Block - 1 /\ Holds(count - Hashed)
    BY <1>1 DEF IInv, AtCall
  <2> QED
    BY <2>1, <2>2, <2>3, FilledIsNext DEF IInv, Hashed, Block
<1>3. Fed'
  <2>1. pc' \in {"loop", "rest"}
    BY DEF Call
  <2>2. /\ feed = "message" => count' = msgLen
        /\ feed = "padding" => count' = PadTo(msgLen)
        /\ feed = "length"  => count' = PadTo(msgLen) + LengthSize
    BY <1>1, Given DEF IInv, TypeOK, Fed, NextLen, PadTo
  <2>3. feed = "padding" => len' <= Block
    BY <1>1, Given DEF Block
  <2>4. (feed = "length" \/ feed = "padding") => bits' = msgLen
    BY <1>1, Given DEF IInv, Fed, Bits
  <2> QED
    BY <1>1, <2>1, <2>2, <2>3, <2>4 DEF Fed, PadTo
<1>4. bits' \in Nat
  BY <1>1, <1>2 DEF IInv, TypeOK, Bits
<1>5. CASE Fills(NextLen, at)
  <2>1. /\ buffer' = BlockAt(Hashed)
        /\ blocks' = Append(blocks, BlockAt(Hashed))
        /\ i' = Block - at /\ index' = 0 /\ pc' = "loop"
    BY <1>2, <1>5 DEF Call, IndexAfterFill
  <2>2. blocks' \in Seq(Buffers) /\ BlocksAreTheStream' /\ Hashed' = Hashed + Block
    BY <2>1, NextBlock DEF IInv
  <2>3. TypeOK'
    BY <1>1, <1>2, <1>4, <2>1, <2>2 DEF IInv, TypeOK, BlockAt, Buffers, Block
  <2>4. InCall'
    BY <1>1, <1>2, <1>5, <2>1, <2>2 DEF InCall, Start, Fills, Block
  <2> QED
    BY <1>3, <2>1, <2>2, <2>3, <2>4 DEF IInv, AtCall, InLoop, InRest
<1>6. CASE ~Fills(NextLen, at)
  <2>1. i' = 0 /\ index' = at /\ pc' = "rest" /\ buffer' = buffer /\ blocks' = blocks
    BY <1>6 DEF Call
  <2>2. TypeOK'
    BY <1>1, <1>2, <1>4, <2>1 DEF IInv, TypeOK
  <2>3. BlocksAreTheStream' /\ Hashed' = Hashed
    BY <2>1 DEF IInv, BlocksAreTheStream, Hashed
  <2>4. InCall'
    BY <1>1, <1>2, <2>1, <2>3 DEF InCall, Start
  <2>5. InRest'
    <3>1. index' + (len' - i') < Block
      BY <1>1, <1>2, <1>6, <2>1 DEF Fills, Block
    <3>2. Holds(at)
      BY <1>1, <1>2 DEF IInv, AtCall
    <3>3. Holds(index)'
      BY <2>1, <2>3, <3>2 DEF Holds
    <3> QED
      BY <3>1, <3>3 DEF InRest
  <2> QED
    BY <1>3, <2>1, <2>2, <2>3, <2>4, <2>5 DEF IInv, AtCall, InLoop
<1> QED
  BY <1>5, <1>6

LEMMA LoopStep == IInv /\ Loop => IInv'
<1> SUFFICES ASSUME IInv, Loop PROVE IInv'
  OBVIOUS
<1>1. /\ pc = "loop" /\ index = 0
      /\ UNCHANGED <<msgLen, feed, len, index, count, bits, buffer>>
  BY DEF Loop, IInv, InLoop
<1>2. /\ i \in Nat /\ len \in Nat /\ count \in Nat /\ Len(blocks) \in Nat /\ Hashed \in Nat
      /\ i <= len /\ len <= count /\ (count - len) + i = Hashed
  <2>1. Len(blocks) \in Nat /\ i \in Nat /\ len \in Nat /\ count \in Nat
    BY DEF IInv, TypeOK
  <2> QED
    BY <1>1, <2>1 DEF IInv, InCall, Start, Hashed, Block
<1>3. pc' \in {"loop", "rest"}
  BY <1>1 DEF Loop
<1>4. Fed'
  BY <1>1, <1>3 DEF IInv, Fed, PadTo
<1>5. CASE OneMore(i, len)
  <2>1. blocks' = Append(blocks, BlockAt(Hashed)) /\ i' = i + Block /\ pc' = "loop"
    BY <1>1, <1>2, <1>5 DEF Loop, Start
  <2>2. blocks' \in Seq(Buffers) /\ BlocksAreTheStream' /\ Hashed' = Hashed + Block
    BY <2>1, NextBlock DEF IInv
  <2>3. TypeOK'
    BY <1>1, <1>2, <2>1, <2>2 DEF IInv, TypeOK, Block
  <2>4. InCall'
    BY <1>1, <1>2, <1>5, <2>1, <2>2 DEF InCall, Start, OneMore, Block
  <2> QED
    BY <1>1, <1>4, <2>1, <2>2, <2>3, <2>4 DEF IInv, AtCall, InLoop, InRest
<1>6. CASE ~OneMore(i, len)
  <2>1. blocks' = blocks /\ i' = i /\ pc' = "rest"
    BY <1>6 DEF Loop
  <2>2. BlocksAreTheStream' /\ Hashed' = Hashed
    BY <2>1 DEF IInv, BlocksAreTheStream, Hashed
  <2>3. TypeOK'
    BY <1>1, <2>1 DEF IInv, TypeOK
  <2>4. InCall'
    BY <1>1, <1>2, <2>1, <2>2 DEF InCall, Start
  <2>5. InRest'
    BY <1>1, <1>2, <1>6, <2>1 DEF InRest, Holds, OneMore, Block
  <2> QED
    BY <1>4, <2>1, <2>2, <2>3, <2>4, <2>5 DEF IInv, AtCall, InLoop
<1> QED
  BY <1>5, <1>6

LEMMA RestStep == IInv /\ Rest => IInv'
<1> SUFFICES ASSUME IInv, Rest PROVE IInv'
  OBVIOUS
<1>1. /\ pc = "rest" /\ buffer' = Copied(index, Start + i, len - i)
      /\ feed' = IF feed = "message" THEN "padding" ELSE "length"
      /\ pc' = IF feed = "length" THEN "done" ELSE "call"
      /\ UNCHANGED <<msgLen, len, index, i, count, bits, blocks>>
  BY DEF Rest
<1>2. /\ i \in Nat /\ len \in Nat /\ count \in Nat /\ Len(blocks) \in Nat /\ Hashed \in Nat
      /\ index \in 0..Block - 1
      /\ i <= len /\ len <= count /\ (count - len) + i = Hashed + index
      /\ index + (len - i) < Block /\ Holds(index)
  <2>1. Len(blocks) \in Nat /\ i \in Nat /\ len \in Nat /\ count \in Nat
        /\ index \in 0..Block - 1
    BY DEF IInv, TypeOK
  <2> QED
    BY <1>1, <2>1 DEF IInv, InCall, InRest, Start, Hashed, Block
<1>3. BlocksAreTheStream' /\ Hashed' = Hashed
  BY <1>1 DEF IInv, BlocksAreTheStream, Hashed
<1>4. TypeOK'
  <2>1. buffer' \in Buffers
    BY <1>1, <1>2 DEF Copied, Start, Buffers, IInv, TypeOK, Block
  <2> QED
    BY <1>1, <2>1 DEF IInv, TypeOK
<1>5. Fed'
  <2>1. CASE feed = "message"
    BY <1>1, <2>1 DEF IInv, Fed, PadTo
  <2>2. CASE feed = "padding"
    BY <1>1, <2>2 DEF IInv, Fed, PadTo
  <2>3. CASE feed = "length"
    BY <1>1, <2>3 DEF IInv, Fed, PadTo
  <2> QED
    BY <2>1, <2>2, <2>3 DEF IInv, TypeOK
<1>6. AtCall'
  <2>1. count - Hashed = index + (len - i) /\ count - Hashed \in 0..Block - 1
    BY <1>2 DEF Block
  <2>2. ASSUME NEW j \in 0..(count - Hashed) - 1
        PROVE  buffer'[j] = Hashed + j
    <3>1. j \in 0..Block - 1
      BY <2>1 DEF Block
    <3>2. CASE j < index
      <4>1. buffer[j] = Hashed + j /\ j \notin index..index + (len - i) - 1
        BY <1>2, <2>1, <3>2 DEF Holds, Block
      <4> QED
        BY <1>1, <3>1, <4>1 DEF Copied
    <3>3. CASE ~(j < index)
      <4>1. j \in index..index + (len - i) - 1
        BY <1>2, <2>1, <3>3 DEF Block
      <4>2. Start + i + (j - index) = Hashed + j
        BY <1>2, <2>1, <3>3 DEF Start, Block
      <4> QED
        BY <1>1, <3>1, <4>1, <4>2 DEF Copied
    <3> QED
      BY <3>2, <3>3
  <2> QED
    BY <1>1, <1>3, <2>1, <2>2 DEF AtCall, Holds
<1> QED
  BY <1>1, <1>3, <1>4, <1>5, <1>6 DEF IInv, InCall, InLoop, InRest

\* The inductive invariant holds in every reachable state.
THEOREM Invariance == Spec => []IInv
<1>1. IInv /\ [Next]_vars => IInv'
  <2> SUFFICES ASSUME IInv, [Next]_vars PROVE IInv'
    OBVIOUS
  <2>1. CASE UNCHANGED vars
    BY <2>1 DEF vars, IInv, TypeOK, BlocksAreTheStream, Fed, AtCall, InCall, InLoop,
                InRest, Hashed, Holds, Start, PadTo
  <2> QED
    BY <2>1, CallStep, LoopStep, RestStep DEF Next, Finished
<1> QED
  BY <1>1, Initially, PTL DEF Spec

-----------------------------------------------------------------------------
\* Every variable keeps its type, for messages of any length.
THEOREM TypeCorrect == Spec => []TypeOK
BY Invariance, PTL DEF IInv

\* No copy of md5_update leaves the buffer or the data, whatever the length of
\* the message.
THEOREM CopiesInBounds == Spec => []CopiesFit
<1>1. IInv => CopiesFit
  BY DEF IInv, TypeOK, InCall, InRest, Fed, CopiesFit, Block
<1> QED
  BY <1>1, Invariance, PTL

\* Whatever its length, the message is hashed in order and nothing else is.
THEOREM StreamIsHashed == Spec => []BlocksAreTheStream
BY Invariance, PTL DEF IInv

\* Whatever the length of the message, md5_final leaves no byte unhashed, adds
\* no block too many, and encodes the length of the message.
THEOREM PaddedToTheEnd == Spec => []PaddedMessageHashed
<1>1. IInv => PaddedMessageHashed
  <2> SUFFICES ASSUME IInv, pc = "done"
               PROVE  /\ count = Block * Len(blocks)
                      /\ Len(blocks) = (msgLen + LengthSize) \div Block + 1
                      /\ bits = msgLen
    BY DEF PaddedMessageHashed
  <2> DEFINE k == (msgLen + LengthSize) \div Block
  <2>1. msgLen \in Nat /\ count \in Nat /\ Len(blocks) \in Nat
    BY DEF IInv, TypeOK
  <2>2. bits = msgLen /\ count = Block * (k + 1)
    BY <2>1, PadEnds DEF IInv, Fed
  <2>3. k \in Int
    BY <2>1 DEF Block, LengthSize
  <2>4. count - Block * Len(blocks) \in 0..Block - 1
    BY DEF IInv, AtCall, Hashed
  <2> HIDE DEF k
  <2>5. Len(blocks) = k + 1
    BY <2>1, <2>2, <2>3, <2>4, k + 1 \in Int, SameBlock
  <2> QED
    BY <2>2, <2>5 DEF k
<1> QED
  BY <1>1, Invariance, PTL

\* Whatever the length of the message, its digest is that of the padded message.
THEOREM MessageIsHashed == Spec => []EverythingHashed
<1>1. BlocksAreTheStream /\ PaddedMessageHashed => EverythingHashed
  BY DEF EverythingHashed
<1> QED
  BY <1>1, StreamIsHashed, PaddedToTheEnd, PTL
=================================================================================
