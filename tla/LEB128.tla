------------------------------- MODULE LEB128 -------------------------------
(***************************************************************************)
(* The variable-length integers of the opcode streams and the export trie  *)
(* (pkg/trie), at any number of bits: a byte carries PayloadBits bits and  *)
(* a flag that another byte follows, a word has WordBits bits.  In the     *)
(* code these are 7 and 64; nine bytes hold 63 bits, and of a tenth one    *)
(* bit fits.                                                               *)
(***************************************************************************)
EXTENDS Integers, Sequences

CONSTANTS PayloadBits, WordBits

ASSUME BitsAssumption == PayloadBits \in Nat \ {0} /\ WordBits \in Nat \ {0}

Base == 2 ^ PayloadBits
Modulus == 2 ^ WordBits
Bytes == 0 .. 2 * Base - 1

LastByte == WordBits \div PayloadBits       \* index of the byte that fits in part
LastMax == 2 ^ (WordBits % PayloadBits) - 1 \* what fits of it

More(b) == b >= Base
Bits(b) == b % Base

(* x << n of a word; bits shifted out are lost. *)
Shl(x, n) == (x * 2 ^ n) % Modulus

Error == [ok |-> FALSE, value |-> 0, used |-> 0]
Value(v, n) == [ok |-> TRUE, value |-> v, used |-> n]

(* Mutant: the byte that fits in part is not examined.                     *)
TooLong(i, b) == i > LastByte

Overflows(i, b) == (i = LastByte /\ b > LastMax) \/ i > LastByte

RECURSIVE readUleb(_, _, _)
readUleb(s, i, result) ==
    IF i = Len(s) \/ Overflows(i, s[i + 1]) THEN Error
    ELSE LET r == result + Shl(Bits(s[i + 1]), i * PayloadBits)
         IN  IF More(s[i + 1]) THEN readUleb(s, i + 1, r) ELSE Value(r, i + 1)

ReadUleb128(s) == readUleb(s, 0, 0)

(* The reader for buffers has no limit, and takes nothing for zero. *)
RECURSIVE readUlebFromBuffer(_, _, _)
readUlebFromBuffer(s, i, result) ==
    IF i = Len(s) THEN Error
    ELSE LET r == result + Shl(Bits(s[i + 1]), i * PayloadBits)
         IN  IF More(s[i + 1]) THEN readUlebFromBuffer(s, i + 1, r) ELSE Value(r, i + 1)

ReadUleb128FromBuffer(s) ==
    IF s = <<>> THEN Value(0, 0) ELSE readUlebFromBuffer(s, 0, 0)

(* A word read as a signed number. *)
SignedWord(x) == IF 2 * x >= Modulus THEN x - Modulus ELSE x

SignExtend(b, shift) ==
    IF shift < WordBits /\ 2 * Bits(b) >= Base THEN Modulus - 2 ^ shift ELSE 0

RECURSIVE readSleb(_, _, _)
readSleb(s, i, result) ==
    IF i = Len(s) THEN Error
    ELSE LET b == s[i + 1]
             r == result + Shl(Bits(b), i * PayloadBits)
         IN  IF More(b) THEN readSleb(s, i + 1, r)
             ELSE Value(SignedWord(r + SignExtend(b, (i + 1) * PayloadBits)), i + 1)

ReadSleb128(s) == readSleb(s, 0, 0)

RECURSIVE EncodeUleb128(_)
EncodeUleb128(x) ==
    IF x < Base THEN <<x>> ELSE <<Base + Bits(x)>> \o EncodeUleb128(x \div Base)

RECURSIVE EncodeSleb128(_)
EncodeSleb128(x) ==
    LET b == Bits(x)            \* the low bits of a negative number too
        y == x \div Base        \* arithmetic shift: rounds down
    IN  IF (y = 0 /\ 2 * b < Base) \/ (y = -1 /\ 2 * b >= Base)
        THEN <<b>> ELSE <<Base + b>> \o EncodeSleb128(y)

-----------------------------------------------------------------------------
Words == 0 .. Modulus - 1

(* The number a sequence of bytes stands for, without a word to fit it.    *)
RECURSIVE Exact(_)
Exact(s) == IF s = <<>> THEN 0 ELSE Bits(Head(s)) + Base * Exact(Tail(s))

(* A sequence that is one number: only the last byte has no flag.          *)
Complete(s) == s # <<>> /\ \A i \in DOMAIN s : More(s[i]) <=> i < Len(s)

(* The encoder and decoders are inverse to each other on every word.       *)
RoundTrips(x) ==
    /\ ReadUleb128(EncodeUleb128(x)) = Value(x, Len(EncodeUleb128(x)))
    /\ LET y == SignedWord(x)
       IN  ReadSleb128(EncodeSleb128(y)) = Value(y, Len(EncodeSleb128(y)))

(* ReadUleb128 loses no bits: it gives the exact number, which is then a   *)
(* word, or an error, which a number that fits never gets unless its bytes *)
(* go on past the one that fits in part; the reader for buffers agrees     *)
(* with every answer.                                                      *)
NothingIsLost(s) ==
    LET r == ReadUleb128(s)
    IN  Complete(s) =>
            /\ r.ok => r.value = Exact(s) /\ Exact(s) < Modulus /\ ReadUleb128FromBuffer(s) = r
            /\ ~r.ok => Exact(s) >= Modulus \/ Len(s) > LastByte + 1
=============================================================================
