------------------------------- MODULE Md5Buffer -------------------------------
(***************************************************************************)
(* How md5_hex cuts a message into the 64-byte blocks it hashes            *)
(* (src/md5.cpp): md5_update with its 64-byte buffer, and the padding and  *)
(* the length that md5_final feeds through it.  The compression function   *)
(* is left out: a block stands for what it was given.                      *)
(*                                                                         *)
(* A byte is named by its place in the stream of all bytes fed to          *)
(* md5_update: the message, the padding, the length.  Garbage is a byte of *)
(* the buffer that nothing was written to: md5_hex leaves its context      *)
(* uninitialised but for the state and the count.  The count of bits       *)
(* stands for bytes, and is not wrapped: no string has 2^61 bytes.         *)
(***************************************************************************)
EXTENDS Integers, Sequences

CONSTANT MaxLen    \* the longest message

ASSUME M5Assumption == MaxLen \in Nat

Block == 64        \* sizeof buffer
LengthSize == 8    \* sizeof bits
Garbage == -1

VARIABLES
  msgLen,   \* the length of the message
  feed,     \* what the current call of md5_update is given
  pc,       \* where md5_update is
  len,      \* its argument len
  index,    \* its local variables index and i
  i,
  count,    \* ctx.bitcount, in bytes
  bits,     \* the count md5_final encodes, in bytes
  buffer,   \* ctx.buffer
  blocks    \* the blocks md5_transform was given

vars == <<msgLen, feed, pc, len, index, i, count, bits, buffer, blocks>>

\* The stream place of data[0] in the current call.
Start == count - len

\* The block of 64 bytes that begin at a place of the stream.
BlockAt(place) == [j \in 0..Block - 1 |-> place + j]

\* memcpy(&buffer[at], &data[from], n)
Copied(at, from, n) ==
  [j \in 0..Block - 1 |->
     IF j \in at..at + n - 1 THEN from + (j - at) ELSE buffer[j]]

Init ==
  /\ msgLen \in 0..MaxLen
  /\ feed = "message"
  /\ pc = "call"
  /\ len = 0 /\ index = 0 /\ i = 0
  /\ count = 0 /\ bits = 0
  /\ buffer = [j \in 0..Block - 1 |-> Garbage]
  /\ blocks = <<>>

-----------------------------------------------------------------------------
\* Mutants: the padding always ends in the block it begins in; so it does when
\* the message leaves eight bytes.
PadLenSameBlock(at) == 56 - at

\* So much that eight bytes are left in the block.
PadLen(at) == IF at < 56 THEN 56 - at ELSE 120 - at

\* Mutant: a block is hashed when only 63 bytes of data are left.
OneMoreEarly(k, n) == k + 63 <= n

\* n bytes fill the buffer from an index on; a whole block of data is left.
Fills(n, at) == n >= Block - at
OneMore(k, n) == k + 63 < n

\* Mutant: the index is not reset.
IndexKept(at) == at

\* Where the rest goes once the buffer was filled from an index on and hashed.
IndexAfterFill(at) == 0

\* The length of what the next call is given.
NextLen == IF feed = "message" THEN msgLen
           ELSE IF feed = "padding" THEN PadLen(count % Block)
           ELSE LengthSize

\* md5_final encodes the count before it feeds the padding.
Bits == IF feed = "padding" THEN count ELSE bits

\* md5_update is called: whatever fits is counted, and if the buffer gets full
\* it is filled and hashed.
Call ==
  /\ pc = "call"
  /\ len' = NextLen
  /\ count' = count + NextLen
  /\ bits' = Bits
  /\ LET at == count % Block
         part == Block - at
     IN IF Fills(NextLen, at)
        THEN /\ buffer' = Copied(at, count, part)
             /\ blocks' = Append(blocks, Copied(at, count, part))
             /\ i' = part
             /\ index' = IndexAfterFill(at)
             /\ pc' = "loop"
        ELSE /\ i' = 0
             /\ index' = at
             /\ pc' = "rest"
             /\ UNCHANGED <<buffer, blocks>>
  /\ UNCHANGED <<msgLen, feed>>

\* One turn of the loop over the whole blocks of data, or its end.
Loop ==
  /\ pc = "loop"
  /\ IF OneMore(i, len)
     THEN /\ blocks' = Append(blocks, BlockAt(Start + i))
          /\ i' = i + Block
          /\ pc' = pc
     ELSE /\ pc' = "rest"
          /\ UNCHANGED <<blocks, i>>
  /\ UNCHANGED <<msgLen, feed, len, index, count, bits, buffer>>

\* The rest goes into the buffer; md5_final makes its next call, or is done.
Rest ==
  /\ pc = "rest"
  /\ buffer' = Copied(index, Start + i, len - i)
  /\ feed' = IF feed = "message" THEN "padding" ELSE "length"
  /\ pc' = IF feed = "length" THEN "done" ELSE "call"
  /\ UNCHANGED <<msgLen, len, index, i, count, bits, blocks>>

Finished == pc = "done" /\ UNCHANGED vars

Next == Call \/ Loop \/ Rest \/ Finished

Spec == Init /\ [][Next]_vars

-----------------------------------------------------------------------------
Buffers == [0..Block - 1 -> Int]

\* Every variable keeps its type.
TypeOK ==
  /\ msgLen \in Nat /\ len \in Nat /\ i \in Nat /\ count \in Nat /\ bits \in Nat
  /\ index \in 0..Block - 1
  /\ feed \in {"message", "padding", "length"}
  /\ pc \in {"call", "loop", "rest", "done"}
  /\ buffer \in Buffers
  /\ blocks \in Seq(Buffers)

\* No memcpy of md5_update leaves the 64-byte buffer or the data it is given,
\* no block is read beyond the data, and the padding asked for is in its array.
CopiesFit ==
  /\ pc \in {"loop", "rest"} => i <= len
  /\ pc = "rest" => index + (len - i) <= Block
  /\ pc \in {"loop", "rest"} /\ feed = "padding" => len <= Block

\* What is hashed is the stream, cut into consecutive blocks: no byte is
\* skipped, hashed twice or out of order, and no byte of the buffer is hashed
\* that was not written.
BlocksAreTheStream ==
  \A k \in 1..Len(blocks) : blocks[k] = BlockAt(Block * (k - 1))

\* When md5_final is done, everything it was fed is hashed, in the smallest
\* number of blocks that holds the message, one byte of padding and the length;
\* and the length is that of the message.
PaddedMessageHashed ==
  pc = "done" => /\ count = Block * Len(blocks)
                 /\ Len(blocks) = (msgLen + LengthSize) \div Block + 1
                 /\ bits = msgLen

\* The digest is that of the padded message, whole and in order.
EverythingHashed == BlocksAreTheStream /\ PaddedMessageHashed
=================================================================================
