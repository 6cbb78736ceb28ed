-------------------------- MODULE RadixComparison --------------------------
(***************************************************************************)
(* Comparing a shared value with public thresholds, digit by digit         *)
(* (less_than_public_radix_many of lookup.rs).  Neither party ever holds   *)
(* the value, so no party can add up the digits: the carry between two     *)
(* digits is itself shared, and each digit of the sum is only ever seen as *)
(* the index of a lookup.  From the lowest digit up, one lookup per digit  *)
(* yields the shared carry and, for every threshold, whether the digit is  *)
(* equal to and less than that of the threshold; from the highest digit    *)
(* down, products of shared bits put the answers together.                 *)
(***************************************************************************)
EXTENDS AdditiveShares, FiniteSets

CONSTANTS
  CompareFormats, \* records [bitWidth, radixBits, outputModulus] to choose from
  MaxDomain,      \* longest table the lookup accepts
  DirectLimit,    \* OUTPUT_MODULUS_DIRECT_DOMAIN_LIMIT
  CompareInputs,  \* what a party may hold, reduced or not
  ThresholdSets,
  CompareDraws    \* shares that party 0 may get from a lookup

ASSUME ComparisonAssumption ==
  /\ CompareFormats \subseteq [bitWidth : Nat, radixBits : Nat, outputModulus : Nat]
  /\ MaxDomain \in Nat /\ DirectLimit \in Nat
  /\ CompareInputs \subseteq Nat
  /\ ThresholdSets \subseteq SUBSET Nat
  /\ CompareDraws \subseteq Nat

VARIABLES
  compareFormat,
  value,        \* the shares of the value, as the two parties hold them
  thresholds,
  comparePhase, \* "digits", "fold", "convert" or "done"
  digit,        \* the digit to take next; in the fold, the number of those left
  carry,        \* into digit
  eq, lt,       \* eq[t][d], lt[t][d]: digit d compared with that of t
  prefix,       \* prefix[t]: the digits folded so far are equal to those of t
  less          \* less[t]: the value is less than t

compareVars == <<compareFormat, value, thresholds, comparePhase, digit, carry, eq, lt, prefix, less>>

CompareBits == compareFormat.bitWidth    \* the value is a number modulo 2^CompareBits
RadixBits == compareFormat.radixBits
AnswerModulus == compareFormat.outputModulus
Radix == TwoTo[RadixBits]
InputModulus == TwoTo[CompareBits]

NarrowModulus == 2 * Radix + 1
DirectIsWideEnough == AnswerModulus > 2 * Radix - 1
DirectIsSmall == AnswerModulus <= DirectLimit /\ AnswerModulus <= MaxDomain

\* The modulus of all shares but those of the answer, and the length of the
\* tables: no sum of two digits and a carry may reach it.
InternalModulus ==
  IF DirectIsWideEnough /\ DirectIsSmall THEN AnswerModulus ELSE NarrowModulus

\* What the function checks before it starts.
CompareAccepted ==
  /\ CompareBits \in 1 .. 63
  /\ RadixBits \in 1 .. CompareBits
  /\ AnswerModulus >= 3
  /\ InternalModulus > 3 /\ InternalModulus <= MaxDomain

Digits == (CompareBits + RadixBits - 1) \div RadixBits
DigitShift(d) == d * RadixBits
DigitBits(d) ==
  IF CompareBits - DigitShift(d) < RadixBits THEN CompareBits - DigitShift(d) ELSE RadixBits
DigitBase(d) == TwoTo[DigitBits(d)]
Digit(v, d) == ((v % InputModulus) \div TwoTo[DigitShift(d)]) % DigitBase(d)
HasCarry(d) == d + 1 < Digits

\* The other thresholds are answered at once.
Active == {t \in thresholds : t # 0 /\ t < InputModulus}
Zero == SharePublic(0, InternalModulus)
One == SharePublic(1, InternalModulus)

CompareInit ==
  /\ compareFormat \in CompareFormats /\ CompareAccepted
  /\ value \in [p0 : CompareInputs, p1 : CompareInputs]
  /\ thresholds \in ThresholdSets
  /\ comparePhase = IF Active = {} THEN "done" ELSE "digits"
  /\ digit = 0
  /\ carry = Zero
  /\ eq = [t \in Active |-> [d \in 0 .. Digits - 1 |-> Zero]]
  /\ lt = [t \in Active |-> [d \in 0 .. Digits - 1 |-> Zero]]
  /\ prefix = [t \in Active |-> One]
  /\ less = [t \in thresholds |->
               SharePublic(Bit(t >= InputModulus),
                           IF t \in Active THEN InternalModulus ELSE AnswerModulus)]
-----------------------------------------------------------------------------
\* A party adds its share of the carry to its digit.
IndexShareNoCarry(v, c, d) == Digit(v, d) % InternalModulus
IndexShare(v, c, d) == AddReduced(Digit(v, d) % InternalModulus, c, InternalModulus)
Index(d) == [p0 |-> IndexShare(value.p0, carry.p0, d), p1 |-> IndexShare(value.p1, carry.p1, d)]

\* Columns with a nonzero entry in some table (radix_digit_support_union); two
\* digits and a carry come to at most 2 * base - 1.

LastColumn(d) ==
  IF InternalModulus - 1 < 2 * DigitBase(d) - 1 THEN InternalModulus - 1 ELSE 2 * DigitBase(d) - 1
Support(d) ==
  {column \in 0 .. LastColumn(d) :
     \/ HasCarry(d) /\ column >= DigitBase(d)
     \/ \E t \in Active : column % DigitBase(d) <= Digit(t, d)}

Columns == 0 .. InternalModulus - 1
LookupDigit(d, table, draw) ==
  Lookup(Index(d), InternalModulus, Support(d), table, draw, InternalModulus)

TakeDigit(draw) ==
  /\ comparePhase = "digits"
  /\ LET d == digit
         base == DigitBase(d)
     IN  /\ eq' = [t \in Active |-> [eq[t] EXCEPT ![d] =
                     LookupDigit(d, [c \in Columns |-> Bit(c % base = Digit(t, d))], draw)]]
         /\ lt' = [t \in Active |-> [lt[t] EXCEPT ![d] =
                     LookupDigit(d, [c \in Columns |-> Bit(c % base < Digit(t, d))], draw)]]
         /\ carry' = IF HasCarry(d)
                     THEN LookupDigit(d, [c \in Columns |-> Bit(c >= base)], draw)
                     ELSE carry
         /\ IF HasCarry(d) THEN digit' = d + 1 /\ UNCHANGED comparePhase
                           ELSE digit' = Digits /\ comparePhase' = "fold"
  /\ UNCHANGED <<compareFormat, value, thresholds, prefix, less>>

\* and_shared_bits: two bits select column a + 2b of a table that is 1 at 3.
AndShared(x, y, draw) ==
  Lookup(AddShares(x, ScaledShares(y, 2, InternalModulus), InternalModulus), InternalModulus, {3},
         [c \in Columns |-> Bit(c = 3)], draw, InternalModulus)

\* Less at this digit, and equal at all digits above it.
LessHere(t, d, draw) == AndShared(prefix[t], lt[t][d], draw)

AfterFoldAtOnce(d) == IF d > 0 THEN "fold" ELSE "done"
AfterFold(d) ==
  IF d > 0 THEN "fold" ELSE IF InternalModulus = AnswerModulus THEN "done" ELSE "convert"

Fold(draw) ==
  /\ comparePhase = "fold"
  /\ LET d == digit - 1
     IN  /\ less' = [t \in thresholds |->
                       IF t \in Active THEN AddShares(less[t], LessHere(t, d, draw), InternalModulus)
                                       ELSE less[t]]
         /\ prefix' = [t \in Active |-> AndShared(prefix[t], eq[t][d], draw)]
         /\ digit' = d
         /\ comparePhase' = AfterFold(d)
  /\ UNCHANGED <<compareFormat, value, thresholds, carry, eq, lt>>

\* The answers as shares modulo AnswerModulus: one more lookup, because to
\* reduce the shares would not reduce their sum.
Converted(x, draw) ==
  Lookup(x, InternalModulus, {1}, [c \in Columns |-> Bit(c = 1)], draw, AnswerModulus)

ConvertAnswers(draw) ==
  /\ comparePhase = "convert"
  /\ less' = [t \in thresholds |-> IF t \in Active THEN Converted(less[t], draw) ELSE less[t]]
  /\ comparePhase' = "done"
  /\ UNCHANGED <<compareFormat, value, thresholds, digit, carry, eq, lt, prefix>>
-----------------------------------------------------------------------------
CompareNext ==
  \/ \E draw \in CompareDraws : TakeDigit(draw)
  \/ \E draw \in CompareDraws : Fold(draw)
  \/ \E draw \in CompareDraws : ConvertAnswers(draw)

CompareSpec == CompareInit /\ [][CompareNext]_compareVars
-----------------------------------------------------------------------------
HeldSum == (value.p0 + value.p1) % InputModulus
Below(v, d) == v % TwoTo[DigitShift(d)]

Pairs(m) == [p0 : 0 .. m - 1, p1 : 0 .. m - 1]
CompareTypeOK ==
  /\ compareFormat \in CompareFormats
  /\ value \in [p0 : CompareInputs, p1 : CompareInputs]
  /\ thresholds \in ThresholdSets
  /\ comparePhase \in {"digits", "fold", "convert", "done"}
  /\ digit \in 0 .. Digits
  /\ carry \in Pairs(InternalModulus)
  /\ eq \in [Active -> [0 .. Digits - 1 -> Pairs(InternalModulus)]]
  /\ lt \in [Active -> [0 .. Digits - 1 -> Pairs(InternalModulus)]]
  /\ prefix \in [Active -> Pairs(InternalModulus)]
  /\ \A t \in thresholds :
       less[t] \in Pairs(IF comparePhase = "done" \/ t \notin Active THEN AnswerModulus ELSE InternalModulus)

\* Whatever the parties' random shares are, the shared carry is that of the
\* sum of what they hold.
CarryIsExact ==
  comparePhase = "digits" =>
    Reconstruct(carry, InternalModulus)
      = (Below(value.p0 % InputModulus, digit) + Below(value.p1 % InputModulus, digit))
          \div TwoTo[DigitShift(digit)]

\* In the fold the answer compares the digits folded so far: the bits of the
\* sum and of the threshold above the digits that are left.
FoldIsExact ==
  comparePhase = "fold" =>
    \A t \in Active :
      LET high == HeldSum \div TwoTo[DigitShift(digit)]
          bound == t \div TwoTo[DigitShift(digit)]
      IN  /\ Reconstruct(prefix[t], InternalModulus) = Bit(high = bound)
          /\ Reconstruct(less[t], InternalModulus) = Bit(high < bound)

\* In the end the parties hold reduced shares of the comparison of the sum of
\* what they hold, modulo 2^CompareBits, with every threshold: also at
\* thresholds 0 and 2^CompareBits, with a short highest digit, and in either
\* modulus; on the way up the shared carry is that of the sum, and on the way
\* down the answer compares the high digits.
Compares ==
  /\ CarryIsExact
  /\ FoldIsExact
  /\ comparePhase = "done" =>
       \A t \in thresholds :
         less[t] \in Pairs(AnswerModulus) /\ Reconstruct(less[t], AnswerModulus) = Bit(HeldSum < t)
=============================================================================
