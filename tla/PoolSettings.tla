---------------------------- MODULE PoolSettings ----------------------------
(***************************************************************************)
(* The arithmetic with which src/client/stratum.rs turns what the pool     *)
(* assigns, a difficulty and an extranonce, into the target and the nonce  *)
(* range of the jobs.  Words have WordBits bits instead of 64; a shift by  *)
(* the width of a word or more shifts by the remainder, as it does in the  *)
(* release build.                                                          *)
(***************************************************************************)
EXTENDS Integers, Sequences, Powers

CONSTANTS
  WordBits,            \* 64
  ByteBits,            \* 8
  BaseMantissa,        \* DIFFICULTY_1_TARGET.0
  BaseExponent,        \* DIFFICULTY_1_TARGET.1
  Difficulties,        \* what integer_decode makes of their reciprocals: [mantissa, exponent]
  Extranonces          \* [value, size]: the value, and the bytes left for the nonce

ASSUME WordsAssumption ==
  /\ {WordBits, ByteBits, BaseMantissa, BaseExponent} \subseteq Nat \ {0}
  /\ Difficulties \subseteq [mantissa : Nat, exponent : Int]
  /\ Extranonces \subseteq [value : Nat, size : Nat]

WordSize == Power[WordBits]

ShiftLeft(w, n) == (w * Power[n % WordBits]) % WordSize
ShiftRight(w, n) == w \div Power[n % WordBits]

-----------------------------------------------------------------------------
(* set_difficulty                                                          *)

Product(d) == d.mantissa * BaseMantissa

\* 24 bits of an f32 and the 16 of the base.
ASSUME ProductAssumption == \A d \in Difficulties : Product(d) < WordSize

Position(d) == BaseExponent + d.exponent
Start(d) == Position(d) \div WordBits
Remainder(d) == Position(d) % WordBits

\* A word outside of the four: the array is indexed out of bounds.
TargetPanics(d) == Start(d) \notin 0 .. 3

\* leading_zeros() < remainder, in the highest word
TargetTooBig(d) ==
  Start(d) = 3 /\ Product(d) * Power[Remainder(d)] >= WordSize

MutantTargetWords(d) ==
  [i \in 0 .. 3 |->
     CASE i = Start(d)     -> ShiftLeft(Product(d), Remainder(d))
       [] i = Start(d) + 1 -> ShiftRight(Product(d), Remainder(d))
       [] OTHER            -> 0]

\* The four words of target_pool, the lowest first.
TargetWords(d) ==
  [i \in 0 .. 3 |->
     CASE i = Start(d)     -> ShiftLeft(Product(d), Remainder(d))
       [] i = Start(d) + 1 -> ShiftRight(Product(d), WordBits - Remainder(d))
       [] OTHER            -> 0]

-----------------------------------------------------------------------------
(* set_extranonce                                                          *)

NonceBits(x) == x.size * ByteBits

NonceFixed(x) == ShiftLeft(x.value, NonceBits(x))
NonceMask(x) == (ShiftLeft(1, NonceBits(x)) - 1) % WordSize

-----------------------------------------------------------------------------
(* What the numbers have to be.                                            *)

Number(words) ==
  words[0] + words[1] * Power[WordBits] + words[2] * Power[2 * WordBits]
    + words[3] * Power[3 * WordBits]

\* Shifting right by a whole word leaves the mantissa in the word above as well.
WholeWord(d) == Start(d) < 3 /\ Remainder(d) = 0

\* Eight bytes for the nonce leave none for an extranonce.
FullWidth(x) == NonceBits(x) >= WordBits

\* The extranonce is no longer than what the nonce leaves.
Fits(x) == x.value * Power[NonceBits(x)] < WordSize

TargetExact(d, words) ==
  WholeWord(d) \/ Number(words) = Product(d) * Power[Position(d)]

RangeExact(x, fixed, mask) ==
  FullWidth(x)
    \/ /\ Fits(x) => fixed = x.value * Power[NonceBits(x)]
       /\ mask = Power[NonceBits(x)] - 1
=============================================================================
