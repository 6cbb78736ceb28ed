------------------------------ MODULE Rescale ------------------------------
(***************************************************************************)
(* Rounding the product of two fixed-point numbers back to the scale       *)
(* (rescale_fixed and its variants in nonlinear.rs), one slot.  A number   *)
(* is signed and shared modulo p.  Each party divides its own share; what  *)
(* that gets wrong depends on the sign, on whether the two shares wrap     *)
(* around p, and on the remainders of both.  Comparisons yield the first   *)
(* two as shares; the remainders and the wrap together are the index of a  *)
(* table of corrections, which is looked up in a small batch and rebuilt   *)
(* from comparisons with the points where it changes in a large one.  A    *)
(* product of shares picks the branch of the sign.                         *)
(* The comparisons are their results: RadixComparison models their steps.  *)
(***************************************************************************)
EXTENDS AdditiveShares, Integers, FiniteSetsExt

CONSTANTS
  FixedPoints,   \* records [modulus, scale]
  MaxChanges,    \* most comparisons a large batch makes instead of a lookup
  Draws          \* shares that party 0 may get from a lookup or a product

FixedPointsAssumption ==
  /\ \A f \in FixedPoints : f.modulus \in Nat /\ f.modulus > 3 /\ f.scale \in Nat \ {0}
  /\ MaxChanges \in Nat
  /\ Draws \subseteq Nat

VARIABLES
  fixed,
  mode,        \* "exact", "nonnegative" or "approx": the variant called
  large,       \* the batch has at least 4096 slots
  input,       \* shares modulo p
  phase,       \* "compare", "correct", "combine" or "done"
  wrap, sign,  \* shares of the bits
  cpos, cneg,  \* shares of the corrections for either sign
  out

vars == <<fixed, mode, large, input, phase, wrap, sign, cpos, cneg, out>>

p == fixed.modulus
scale == fixed.scale
Zero == SharePublic(0, p)
-----------------------------------------------------------------------------
(* FixedPointConfig of fixedpoint.rs; % of the source keeps the sign.      *)
Rem(a, m) == IF a >= 0 THEN a % m ELSE -((0 - a) % m)
Encode(v) == IF Rem(v, p) < 0 THEN Rem(v, p) + p ELSE Rem(v, p)
Signed(v) == IF v % p > p \div 2 THEN (v % p) - p ELSE v % p
DivRoundNearest(v, d) ==
  IF v >= 0 THEN (v + d \div 2) \div d ELSE -((d \div 2 - v) \div d)
RescaleProductValue(v) == Encode(DivRoundNearest(Signed(v), scale))
-----------------------------------------------------------------------------
(* The tables (build_rescale_correction_tables), made once for a modulus.  *)
TableDomain == 0 .. 4 * scale - 2
HasTables == 4 * scale - 2 < p

\* The column 2 * scale * wrap + sum of the remainders.
Offset == 2 * scale
ColumnWrap(column) == column \div Offset
ColumnRemainder(column) == column % Offset

PositiveUnrounded(column) ==
  Encode((ColumnRemainder(column) - ColumnWrap(column) * (p % scale)) \div scale)
Positive(column) ==
  Encode((ColumnRemainder(column) - ColumnWrap(column) * (p % scale) + scale \div 2) \div scale)
NegativeNoWrap(column) ==
  Encode(((p % scale) - ColumnRemainder(column) + scale \div 2) \div scale)
Negative(column) ==
  Encode(((ColumnWrap(column) + 1) * (p % scale) - ColumnRemainder(column) + scale \div 2) \div scale)

\* No sum of remainders reaches column 2 * scale - 1, which stays zero.
InTable(column) == column \in TableDomain /\ ColumnRemainder(column) # Offset - 1
PositiveTable == [c \in TableDomain |-> IF InTable(c) THEN Positive(c) ELSE 0]
NegativeTable == [c \in TableDomain |-> IF InTable(c) THEN Negative(c) ELSE 0]
Support == {c \in TableDomain : PositiveTable[c] # 0 \/ NegativeTable[c] # 0}

\* The columns at which a table differs from the column before.
Changes(table) == {c \in TableDomain \ {0} : table[c] # table[c - 1]}
Delta(table, c) == SubReduced(table[c], table[c - 1], p)
-----------------------------------------------------------------------------
\* The sum of both shares, which is below 2p, is less than t.
LessThanSum(x, t, draw) == Shared(Bit(x.p0 + x.p1 < t), draw, p)

BitAnd(x, y, draw) ==
  Lookup(AddShares(x, ScaledShares(y, 2, p), p), p, {3}, [c \in 0 .. p - 1 |-> Bit(c = 3)], draw, p)

\* less_than_mod_public_many, for 0 < t < p: the shared number is less than t.
LessThanMod(x, t, draw) ==
  LET wrapped == OneMinus(LessThanSum(x, p, draw), p)
  IN  AddShares(LessThanSum(x, t, draw), BitAnd(wrapped, LessThanSum(x, p + t, draw), draw), p)

\* accumulate_correction_changes: the first value of the table, and the
\* difference at every change that the index has reached.
FromChanges(table, index, draw) ==
  FoldSet(LAMBDA c, acc :
            AddShares(acc, ScaledShares(OneMinus(LessThanMod(index, c, draw), p), Delta(table, c), p), p),
          SharePublic(table[0], p), Changes(table))

FromLookup(table, index, draw) ==
  Lookup(index, p, Support, [c \in 0 .. p - 1 |-> IF c \in TableDomain THEN table[c] ELSE 0], draw, p)

ChangeCount ==
  IF mode = "nonnegative" THEN Cardinality(Changes(PositiveTable))
  ELSE Cardinality(Changes(PositiveTable)) + Cardinality(Changes(NegativeTable))

Correction(table, index, draw) ==
  IF large /\ ChangeCount <= MaxChanges THEN FromChanges(table, index, draw)
                                        ELSE FromLookup(table, index, draw)
-----------------------------------------------------------------------------
Init ==
  /\ fixed \in FixedPoints
  /\ mode \in {"exact", "nonnegative", "approx"}
  /\ large \in BOOLEAN
  /\ input \in [p0 : 0 .. p - 1, p1 : 0 .. p - 1]
  /\ phase = "compare"
  /\ wrap = Zero /\ sign = Zero
  /\ cpos = Zero /\ cneg = Zero
  /\ out = Zero

\* The whole rounding as one table, for a modulus too small for the others.
LookUpAll(draw) ==
  /\ phase = "compare" /\ mode # "approx" /\ ~HasTables
  /\ out' = Lookup(input, p, 0 .. p - 1, [v \in 0 .. p - 1 |-> RescaleProductValue(v)], draw, p)
  /\ phase' = "done"
  /\ UNCHANGED <<fixed, mode, large, input, wrap, sign, cpos, cneg>>

\* The sum lies in the upper half of the numbers below p, or of those from p.
SignForgetsWrap(draw) ==
  SubShares(OneMinus(LessThanSum(input, p \div 2 + 1, draw), p),
            OneMinus(LessThanSum(input, p, draw), p), p)
SignOf(draw) ==
  AddShares(SubShares(OneMinus(LessThanSum(input, p \div 2 + 1, draw), p),
                      OneMinus(LessThanSum(input, p, draw), p), p),
            OneMinus(LessThanSum(input, p + p \div 2 + 1, draw), p), p)

Compare(draw) ==
  /\ phase = "compare" /\ (mode = "approx" \/ HasTables)
  /\ wrap' = OneMinus(LessThanSum(input, p, draw), p)
  /\ sign' = IF mode = "nonnegative" THEN sign ELSE SignOf(draw)
  /\ phase' = IF mode = "approx" THEN "combine" ELSE "correct"
  /\ UNCHANGED <<fixed, mode, large, input, cpos, cneg, out>>

IndexPart(share, wrapShare) == AddReduced(share % scale, (wrapShare * (Offset % p)) % p, p)
CorrectionIndex == [p0 |-> IndexPart(input.p0, wrap.p0), p1 |-> IndexPart(input.p1, wrap.p1)]

Correct(draw) ==
  /\ phase = "correct"
  /\ cpos' = Correction(PositiveTable, CorrectionIndex, draw)
  /\ cneg' = IF mode = "nonnegative" THEN cneg ELSE Correction(NegativeTable, CorrectionIndex, draw)
  /\ phase' = "combine"
  /\ UNCHANGED <<fixed, mode, large, input, wrap, sign, out>>

\* HssSlotEngine::mul_slots: shares of the product, by what it decrypts to.
MulSlots(x, y, draw) == Shared(Reconstruct(x, p) * Reconstruct(y, p), draw, p)

Quotient == p \div scale
Base == [p0 |-> input.p0 \div scale, p1 |-> input.p1 \div scale]
PositiveBranch == AddShares(SubShares(Base, ScaledShares(wrap, Quotient % p, p), p), cpos, p)
BranchDelta ==
  SubShares(SubShares(SharePublic(Encode(-Quotient), p), cneg, p), cpos, p)

Combine(draw) ==
  /\ phase = "combine"
  /\ out' = IF mode = "nonnegative" THEN PositiveBranch
            ELSE AddShares(PositiveBranch, MulSlots(sign, BranchDelta, draw), p)
  /\ phase' = "done"
  /\ UNCHANGED <<fixed, mode, large, input, wrap, sign, cpos, cneg>>
-----------------------------------------------------------------------------
Next ==
  \/ \E draw \in Draws : LookUpAll(draw)
  \/ \E draw \in Draws : Compare(draw)
  \/ \E draw \in Draws : Correct(draw)
  \/ \E draw \in Draws : Combine(draw)

Spec == Init /\ [][Next]_vars
-----------------------------------------------------------------------------
Value == Reconstruct(input, p)
Result == Reconstruct(out, p)
Pairs == [p0 : 0 .. p - 1, p1 : 0 .. p - 1]

\* The exact variant rounds every signed number as if one party held it
\* (rescale_product_value), whatever the shares, through a lookup of the
\* corrections, comparisons, or one lookup of everything; and the variant that
\* is told that the number is not negative rounds those that are not.
RescalesExactly ==
  phase = "done" /\ (mode = "exact" \/ (mode = "nonnegative" /\ Signed(Value) >= 0))
    => Result = RescaleProductValue(Value)

\* The variant without corrections is never more than two units away from the
\* exact one: the remainders, the wrap and the branch do not add up to more.
ApproximatesClosely ==
  phase = "done" /\ mode = "approx" =>
    Signed(SubReduced(Result, RescaleProductValue(Value), p)) \in -2 .. 2
=============================================================================
