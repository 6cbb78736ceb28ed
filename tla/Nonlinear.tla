------------------------------ MODULE Nonlinear ------------------------------
(***************************************************************************)
(* The nonlinear operators of NonlinearOps (nonlinear.rs) on vectors of    *)
(* shares: piecewise GeLU, softmax and layer normalisation.  Each is a     *)
(* chain of comparisons, selections, table lookups, products of shares and *)
(* roundings (Rescale), and no party ever sees a number: whether a product *)
(* is negative, fits below the modulus or lies in the table is something   *)
(* the chain has to know in advance.  Real numbers are their fixed-point   *)
(* encodings; exp, 1/x and 1/sqrt(x) are tables of encodings.              *)
(* The comparisons and the masked evaluation of polynomials (OF-PMPE) are  *)
(* their results: RadixComparison and MaskedEvaluation model their steps.  *)
(***************************************************************************)
EXTENDS AdditiveShares, Integers, SequencesExt

CONSTANTS
  Calls,        \* records: the operator, the format, the shape, the configuration
  MaxChanges,   \* most comparisons a large batch makes instead of a lookup
  ShareDraws    \* shares that party 0 may hold of an input, or get from a call

VARIABLES
  call,
  values,       \* the signed numbers shared
  input,        \* their shares, row by row
  draw,         \* what party 0 draws whenever something is shared anew
  out           \* "waiting", "refused" or "done" with vectors of shares

vars == <<call, values, input, draw, out>>

p == call.modulus
s == call.scale
Fixed == [modulus |-> p, scale |-> s]
Zero == SharePublic(0, p)
Computed(f) == IF f = f THEN f ELSE f

\* The steps of a rounding, at each of its stages.
Step(f, m, x, w, sgn, cp, cn) ==
  INSTANCE Rescale WITH
    FixedPoints <- {}, Draws <- {}, fixed <- f, mode <- m,
    large <- call.large, input <- x, phase <- "", wrap <- w, sign <- sgn, cpos <- cp, cneg <- cn,
    out <- x
At(x) ==
  INSTANCE Rescale WITH
    FixedPoints <- {}, Draws <- {}, fixed <- Fixed,
    mode <- "exact", large <- call.large, input <- x, phase <- "", wrap <- Zero, sign <- Zero,
    cpos <- Zero, cneg <- Zero, out <- x
Encode(v) == At(Zero)!Encode(v)
Signed(v) == At(Zero)!Signed(v)
DivRound(v, d) == At(Zero)!DivRoundNearest(v, d)
-----------------------------------------------------------------------------
(* Vectors of shares.                                                      *)
Each(x, Op(_)) == Computed([i \in DOMAIN x |-> Op(x[i])])
Plus(x, y) == Computed([i \in DOMAIN x |-> AddShares(x[i], y[i], p)])
Minus(x, y) == Computed([i \in DOMAIN x |-> SubShares(x[i], y[i], p)])
PlusPublic(x, c) ==
  Computed([i \in DOMAIN x |-> [x[i] EXCEPT !.p0 = AddReduced(@, Encode(c), p)]])
TimesPublic(x, c) == Each(x, LAMBDA y : ScaledShares(y, Encode(c), p))
Public(x, c) == [i \in DOMAIN x |-> SharePublic(Encode(c), p)]
Product(x, y) == Computed([i \in DOMAIN x |-> At(x[i])!MulSlots(x[i], y[i], draw + i)])
Complement(x) == Each(x, LAMBDA y : OneMinus(y, p))

Row(i, cols) == (i - 1) * cols
SumRows(x, rows, cols) ==
  Computed([i \in 1 .. rows |->
    FoldSet(LAMBDA j, acc : AddShares(acc, x[Row(i, cols) + j], p), Zero, 1 .. cols)])
RepeatRows(x, cols) == Computed([k \in 1 .. Len(x) * cols |-> x[(k - 1) \div cols + 1]])
ExpandRow(v, rows, cols, default) ==
  [k \in 1 .. rows * cols |->
     IF Len(v) = 0 THEN default ELSE IF Len(v) = rows * cols THEN v[k] ELSE v[((k - 1) % cols) + 1]]
RowParameterFits(v, rows, cols) == Len(v) \in {0, cols, rows * cols}
-----------------------------------------------------------------------------
(* Roundings of products.                                                  *)
HasTables(f) == Step(f, "exact", Zero, Zero, Zero, Zero, Zero)!HasTables
WrapOf(x) == OneMinus(At(x)!LessThanSum(x, p, draw), p)
SignBit(x) == At(x)!SignOf(draw)

\* With what the wrap and the sign are, and the corrections they select.
Branches(x, f, m, w, sgn, cp, cn) ==
  IF m = "nonnegative" THEN Step(f, m, x, w, sgn, cp, cn)!PositiveBranch
  ELSE AddShares(Step(f, m, x, w, sgn, cp, cn)!PositiveBranch,
                 At(x)!MulSlots(sgn, Step(f, m, x, w, sgn, cp, cn)!BranchDelta, draw), p)
CorrectionOf(x, f, m, w, sgn, table, index) ==
  Step(f, m, x, w, sgn, Zero, Zero)!Correction(table, index, draw)
Corrected(x, f, m, w, sgn, index) ==
  Branches(x, f, m, w, sgn,
           CorrectionOf(x, f, m, w, sgn, Step(f, m, x, w, sgn, Zero, Zero)!PositiveTable, index),
           CorrectionOf(x, f, m, w, sgn, Step(f, m, x, w, sgn, Zero, Zero)!NegativeTable, index))
WithBits(x, f, m, w, sgn) ==
  Corrected(x, f, m, w, sgn, Step(f, m, x, w, sgn, Zero, Zero)!CorrectionIndex)
RoundedExactly(x, f, m) == WithBits(x, f, m, WrapOf(x), SignBit(x))

WholeTable(x) ==
  Lookup(x, p, 0 .. p - 1, [v \in 0 .. p - 1 |-> At(x)!RescaleProductValue(v)], draw, p)
RescaleFixed(x) ==
  Each(x, LAMBDA y : IF HasTables(Fixed) THEN RoundedExactly(y, Fixed, "exact") ELSE WholeTable(y))
RescaleNonnegative(x) ==
  Each(x, LAMBDA y : IF HasTables(Fixed) THEN RoundedExactly(y, Fixed, "nonnegative") ELSE WholeTable(y))

\* Without corrections, and with the sign of the product as somebody knows it.
BaseLessWrap(y) == Step(Fixed, "approx", y, WrapOf(y), Zero, Zero, Zero)!PositiveBranch
WithSign(y, sgn) ==
  AddShares(BaseLessWrap(y), At(y)!MulSlots(sgn, SharePublic(Encode(-(p \div s)), p), draw), p)
RescaleApprox(x) == Each(x, LAMBDA y : WithSign(y, SignBit(y)))
RescaleWithSign(x, sgn) == Computed([i \in DOMAIN x |-> WithSign(x[i], sgn[i])])
RescaleNonnegativeApprox(x) == Each(x, BaseLessWrap)

\* Division by a public number other than the scale, which must have tables.
CanDivide(d) == d = 1 \/ HasTables([modulus |-> p, scale |-> d])
RescaleByScale(x, d) ==
  IF d = 1 THEN x ELSE Each(x, LAMBDA y : RoundedExactly(y, [modulus |-> p, scale |-> d], "nonnegative"))

MulFixed(x, y) == RescaleFixed(Product(x, y))
MulApprox(x, y) == RescaleApprox(Product(x, y))
MulNonnegative(x, y) == RescaleNonnegative(Product(x, y))
MulNonnegativeApprox(x, y) == RescaleNonnegativeApprox(Product(x, y))
MulPublic(x, c) == RescaleFixed(TimesPublic(x, c))
MulPublicNonnegative(x, c) == RescaleNonnegative(TimesPublic(x, c))
MulPublicSlots(x, cs) ==
  RescaleFixed(Computed([i \in DOMAIN x |-> ScaledShares(x[i], Encode(cs[i]), p)]))
-----------------------------------------------------------------------------
(* Comparisons with public thresholds, signed.                             *)
Half == p \div 2
LessThanMod(x, t) == At(x)!LessThanMod(x, t, draw)
BitAnd(x, y) == At(x)!BitAnd(x, y, draw)

SignedLessWithoutSign(x, t) ==
  CASE t <= -Half -> SharePublic(0, p)
    [] t > Half -> SharePublic(1, p)
    [] t = 0 -> SignBit(x)
    [] t \in 1 .. Half -> AddShares(SignBit(x), LessThanMod(x, t), p)
    [] OTHER -> LessThanMod(x, p + t)
SignedLess(x, t) ==
  CASE t <= -Half -> SharePublic(0, p)
    [] t > Half -> SharePublic(1, p)
    [] t = 0 -> SignBit(x)
    [] t \in 1 .. Half -> AddShares(SignBit(x), LessThanMod(x, t), p)
    [] OTHER -> BitAnd(SignBit(x), LessThanMod(x, p + t))

NonzeroBit(x) == OneMinus(LessThanMod(x, 1), p)
SignedLessNonpositive(x, t) ==
  CASE t <= -Half -> SharePublic(0, p)
    [] t > 0 -> SharePublic(1, p)
    [] t = 0 -> NonzeroBit(x)
    [] OTHER -> BitAnd(NonzeroBit(x), LessThanMod(x, p + t))

Less(x, t) == Each(x, LAMBDA y : SignedLess(y, t))
Increasing(ts) == Len(ts) > 0 /\ \A i \in 1 .. Len(ts) - 1 : ts[i] < ts[i + 1]

\* One bit per interval that the thresholds cut, as differences of comparisons.
Between(bits) ==
  Computed([j \in 1 .. Len(bits) + 1 |->
    CASE j = 1 -> bits[1]
      [] j = Len(bits) + 1 -> Complement(bits[Len(bits)])
      [] OTHER -> Minus(bits[j], bits[j - 1])])
Selectors(x, ts, nonpositive) ==
  Between(Computed([j \in DOMAIN ts |->
    Each(x, LAMBDA y : IF nonpositive THEN SignedLessNonpositive(y, ts[j]) ELSE SignedLess(y, ts[j]))]))

SelectConstant(selectors, constants) ==
  Computed([i \in DOMAIN selectors[1] |->
    FoldSet(LAMBDA j, acc : AddShares(acc, ScaledShares(selectors[j][i], Encode(constants[j]), p), p),
            Zero, DOMAIN selectors)])
SelectCoefficients(selectors, rows) ==
  [k \in DOMAIN rows[1] |-> SelectConstant(selectors, [j \in DOMAIN rows |-> rows[j][k]])]

EvalPoly(x, coeffs, approximate) ==
  FoldRight(LAMBDA c, y : Plus(IF approximate THEN MulApprox(x, y) ELSE MulFixed(x, y), c),
            Front(coeffs), Last(coeffs))

\* Pairs of columns are replaced by their larger one until one is left.
HalvedRows(x, rows, cols) ==
  LET pairs == cols \div 2
      next == pairs + (cols % 2)
      Left == [k \in 1 .. rows * pairs |->
                 x[Row((k - 1) \div pairs + 1, cols) + 2 * ((k - 1) % pairs) + 1]]
      Right == [k \in 1 .. rows * pairs |->
                 x[Row((k - 1) \div pairs + 1, cols) + 2 * ((k - 1) % pairs) + 2]]
      larger == Plus(Left, Product(Less(Minus(Left, Right), 0), Minus(Right, Left)))
      Column(r, c) == IF c < pairs THEN larger[r * pairs + c + 1] ELSE x[(r + 1) * cols]
  IN  Computed([k \in 1 .. rows * next |-> Column((k - 1) \div next, (k - 1) % next)])
RowMax(x, rows, cols) ==
  LET Halve(acc, i) ==
        IF acc.cols = 1 THEN acc
        ELSE [x |-> HalvedRows(acc.x, rows, acc.cols), cols |-> acc.cols - acc.cols \div 2]
  IN  FoldLeft(Halve, [x |-> x, cols |-> cols], [i \in 1 .. cols |-> i]).x
-----------------------------------------------------------------------------
(* Tables over an interval of signed numbers; 0 outside it.                *)
BoundedLookup(x, lo, hi, value) ==
  LET first == IF lo < -Half THEN -Half ELSE lo
      last == IF hi > Half THEN Half ELSE hi
      support == {Encode(v) : v \in {w \in first .. last : Encode(value[w]) # 0}}
  IN  Each(x, LAMBDA y : Lookup(y, p, support, [c \in 0 .. p - 1 |-> Encode(value[Signed(c)])], draw, p))

\* encode(1 / x), encode(1 / sqrt(x)): the integer nearest to s * s / x, and to
\* the root of s * s * s / x.
Reciprocal(v) == (2 * s * s + v) \div (2 * v)
RootOf(v) ==
  CHOOSE r \in 0 .. s * s :
    (r = 0 \/ (2 * r - 1) ^ 2 * v <= 4 * s ^ 3) /\ 4 * s ^ 3 < (2 * r + 1) ^ 2 * v
ReciprocalLookup(x, most) ==
  BoundedLookup(x, 1, most, [v \in 1 .. Half |-> Reciprocal(v)])
RsqrtLookup(x, most) ==
  Plus(BoundedLookup(x, 1, Max({most, 1}), [v \in 1 .. Half |-> RootOf(v)]),
       TimesPublic(Complement(Less(x, Max({most, 1}) + 1)), RootOf(most)))

Exp(v) == call.exp[v]
ExpLookup(x) ==
  Plus(Plus(BoundedLookup(x, call.expMin, call.expMax, call.exp),
            TimesPublic(Less(x, call.expMin), Exp(call.expMin))),
       TimesPublic(Complement(Less(x, call.expMax + 1)), Exp(call.expMax)))
ExpLookupNonpositive(x) ==
  IF call.expMax # 0 THEN ExpLookup(x)
  ELSE Plus(BoundedLookup(x, call.expMin, 0, call.exp),
            TimesPublic(Less(x, call.expMin), Exp(call.expMin)))

Squared(x, times) ==
  FoldLeft(LAMBDA acc, i : MulNonnegative(acc, acc), x, [i \in 1 .. times |-> i])
PartOf(squarings) == DivRound(s, 2 ^ squarings)
SquaringAccepted(squarings) ==
  /\ squarings \in 1 .. 32 /\ PartOf(squarings) # 0
  /\ s * s < Half /\ call.expMin >= -(s * 2 ^ squarings)
Clamped(below, most, poly) ==
  Plus(Plus(Product(Minus(most, below), poly), TimesPublic(below, Exp(call.expMin))),
       TimesPublic(Complement(most), Exp(call.expMax)))
ExpSquarings(x, squarings) ==
  Clamped(Less(x, call.expMin), Less(x, call.expMax + 1),
          Squared(PlusPublic(MulPublic(x, PartOf(squarings)), s), squarings))
-----------------------------------------------------------------------------
(* Newton steps from a seed selected by the interval of the argument.      *)
ReciprocalThresholds(cols) ==
  LET powers == {2 ^ k : k \in {j \in 1 .. cols : 2 ^ j < cols}}
  IN  [j \in 1 .. Cardinality(powers) + 1 |-> IF j > Cardinality(powers) THEN cols * s ELSE 2 ^ j * s]
ReciprocalSeeds(ts, cols) ==
  [j \in 1 .. Len(ts) + 1 |->
     IF j > Len(ts) THEN DivRound(s, cols)
     ELSE DivRound(2 * s * s, (IF j = 1 THEN s ELSE ts[j - 1]) + ts[j])]
ReciprocalStep(r0, sum) == MulNonnegative(r0, Minus(Public(sum, 2 * s), MulNonnegative(sum, r0)))
RowReciprocal(sum, cols) ==
  LET ts == ReciprocalThresholds(cols)
  IN  ReciprocalStep(SelectConstant(Selectors(sum, ts, FALSE), ReciprocalSeeds(ts, cols)), sum)

RsqrtHalved(r0, variance) ==
  MulPublicNonnegative(MulNonnegative(variance, MulNonnegative(r0, r0)), DivRound(s, 2))
RsqrtStep(r0, variance) ==
  MulNonnegative(r0, Minus(Public(variance, DivRound(3 * s, 2)), RsqrtHalved(r0, variance)))
Rsqrt(variance) ==
  RsqrtStep(SelectConstant(Selectors(variance, call.thresholds, FALSE), call.seeds), variance)

Headroom == 4 * s * s < p
-----------------------------------------------------------------------------
(* GeLU.                                                                   *)
PolyInClear(x, coeffs) ==
  FoldRight(LAMBDA c, y : DivRound(Signed(Encode(x * y)), s) + c, Front(coeffs), Last(coeffs))

GeluByLookup(x) ==
  Plus(BoundedLookup(x, call.t1, call.t2, [v \in -Half .. Half |-> PolyInClear(v, call.poly)]),
       Product(Complement(Less(x, call.t2 + 1)), x))

GeluThresholds == <<-call.clip>> \o call.thresholds \o <<call.clip>>
Intervals == Len(call.thresholds) + 1
ZeroRow == [k \in DOMAIN call.coeffs[1] |-> 0]
GeluSelected(x, selectors) ==
  Plus(EvalPoly(Minus(x, SelectConstant(selectors, <<0>> \o call.centers \o <<0>>)),
                SelectCoefficients(selectors, <<ZeroRow>> \o call.coeffs \o <<ZeroRow>>), call.approximate),
       Product(Last(selectors), x))
GeluByIntervals(x) == GeluSelected(x, Selectors(x, GeluThresholds, FALSE))

\* The caller vouches for the range, so one polynomial will do; its products
\* with an argument have the sign of the argument.
GeluInRange(x) ==
  LET y == PlusPublic(x, -call.centers[1])
      coeffs == [k \in DOMAIN call.coeffs[1] |-> Public(x, call.coeffs[1][k])]
      sgn == Less(y, 0)
      T(u) == RescaleWithSign(Product(y, u), sgn)
  IN  IF call.approximate /\ Len(coeffs) = 3 /\ call.centers[1] = 0
      THEN Plus(T(Plus(T(coeffs[3]), coeffs[2])), coeffs[1])
      ELSE EvalPoly(y, coeffs, call.approximate)
-----------------------------------------------------------------------------
(* Softmax.                                                                *)
Shifted(x) == Minus(x, RepeatRows(RowMax(x, call.rows, call.cols), call.cols))

RangeExp(x) ==
  LET ts == <<call.expMin>> \o call.thresholds \o <<call.expMax>>
      Constant(c) == [ZeroRow EXCEPT ![1] = c]
      rows == <<Constant(Exp(call.expMin))>> \o call.coeffs \o <<Constant(Exp(call.expMax))>>
      selectors == Selectors(x, ts, call.useRowMax /\ call.expMax <= 0)
  IN  EvalPoly(x, SelectCoefficients(selectors, rows), FALSE)
Normalised(exp, inverse) ==
  IF call.approximate THEN MulNonnegativeApprox(exp, RepeatRows(inverse, call.cols))
                      ELSE MulNonnegative(exp, RepeatRows(inverse, call.cols))
NormalisedByNewton(exp) == Normalised(exp, RowReciprocal(SumRows(exp, call.rows, call.cols), call.cols))
RangeSoftmax(x) ==
  NormalisedByNewton(RangeExp(IF call.useRowMax THEN Shifted(x) ELSE PlusPublic(x, -call.shift)))

WithReciprocalLookup(exp) ==
  Normalised(exp, ReciprocalLookup(SumRows(exp, call.rows, call.cols), call.cols * s))
Softmax(x) == WithReciprocalLookup(ExpLookupNonpositive(Shifted(x)))
SoftmaxBySquaring(x) == WithReciprocalLookup(ExpSquarings(Shifted(x), call.squarings))

\* Masked evaluation (OF-PMPE): a pack holds shares of a mask for every slot
\* and of the polynomial's Taylor coefficients at it; the parties open the
\* difference.  Real coefficients are encoded and multiplied by powers of the
\* inverse of s modulo p, integer ones are taken as they are.
Raised(v, k) == FoldSet(LAMBDA i, acc : (acc * v) % p, 1 % p, 1 .. k)
Choose(n, k) == FoldLeft(LAMBDA acc, i : (acc * (n - k + i)) \div i, 1, [i \in 1 .. k |-> i])
InverseScale == CHOOSE i \in 0 .. p - 1 : (i * s) % p = 1 % p
RealTerms(coeffs) == [k \in DOMAIN coeffs |-> (Encode(coeffs[k]) * Raised(InverseScale, k - 1)) % p]
IntegerTerms(coeffs) == [k \in DOMAIN coeffs |-> Encode(coeffs[k])]
ColumnTerm(terms, mask, k, j) ==
  (((terms[j] * (Choose(j - 1, k - 1) % p)) % p) * Raised(mask, j - k)) % p
Column(terms, mask, k) ==
  FoldSet(LAMBDA j, acc : (acc + ColumnTerm(terms, mask, k, j)) % p, 0, k .. Len(terms))
TaylorPack(slots, terms) ==
  LET Mask(i) == (draw + 5 * i) % p
  IN  Computed([i \in 1 .. slots |->
        [mask |-> Shared(Mask(i), draw, p),
         columns |-> [k \in DOMAIN terms |-> Shared(Column(terms, Mask(i), k), draw + k, p)]]])
OfPmpeEval(x, pack) ==
  LET At1(i, delta) ==
        FoldSet(LAMBDA k, acc : AddShares(acc, ScaledShares(pack[i].columns[k], Raised(delta, k - 1), p), p),
                Zero, DOMAIN pack[i].columns)
  IN  Computed([i \in DOMAIN x |-> At1(i, Reconstruct(SubShares(x[i], pack[i].mask, p), p))])
\* In chunks, each with a pack of its own.
OfPmpeStreaming(x, terms) ==
  LET Chunk(i) == SubSeq(x, i, Min({i + call.chunk - 1, Len(x)}))
      starts == [c \in 1 .. (Len(x) + call.chunk - 1) \div call.chunk |-> (c - 1) * call.chunk + 1]
  IN  FoldLeft(LAMBDA acc, i : acc \o OfPmpeEval(Chunk(i), TaylorPack(Len(Chunk(i)), terms)), <<>>, starts)
Evaluated(x, terms) ==
  IF call.chunk = 0 THEN OfPmpeEval(x, TaylorPack(Len(x), terms)) ELSE OfPmpeStreaming(x, terms)
OfPmpe(x, coeffs) == Evaluated(x, RealTerms(coeffs))
DyadicOfPmpe(x, coeffs) == Evaluated(x, IntegerTerms(coeffs))
SoftmaxOfPmpe(x) == WithReciprocalLookup(OfPmpe(Shifted(x), call.poly))

\* The same with denominators 2^bits that the shares carry along.
DyadicAccepted == 2 ^ call.inputBits = s /\ call.expBits >= call.denominatorBits
DyadicSum(exp) == SumRows(exp, call.rows, call.cols)
DyadicInverse(exp) ==
  ReciprocalLookup(RescaleByScale(DyadicSum(exp), 2 ^ (call.expBits - call.denominatorBits)), call.cols * s)
DyadicProductShift == call.expBits + call.denominatorBits - call.outputBits
DyadicSoftmaxFits ==
  /\ DyadicAccepted /\ DyadicProductShift >= 0
  /\ CanDivide(2 ^ (call.expBits - call.denominatorBits)) /\ CanDivide(2 ^ DyadicProductShift)
DyadicNormalised(exp) ==
  RescaleByScale(Product(exp, RepeatRows(DyadicInverse(exp), call.cols)), 2 ^ DyadicProductShift)
DyadicSoftmax(x) == DyadicNormalised(DyadicOfPmpe(Shifted(x), call.poly))
-----------------------------------------------------------------------------
(* Layer normalisation.                                                    *)
Part == DivRound(s, call.cols)
Centered(x) == Minus(x, RepeatRows(MulPublic(SumRows(x, call.rows, call.cols), Part), call.cols))
Squares(x) == IF call.approximate THEN MulNonnegativeApprox(x, x) ELSE MulNonnegative(x, x)
Variance(centered) ==
  PlusPublic(MulPublicNonnegative(SumRows(Squares(centered), call.rows, call.cols), Part), call.epsilon)
Affine(x) ==
  LET gamma == ExpandRow(call.gamma, call.rows, call.cols, s)
      beta == ExpandRow(call.beta, call.rows, call.cols, 0)
      Shift(scaled) == [i \in DOMAIN x |-> PlusPublic(scaled, beta[i])[i]]
  IN  Shift(IF \A i \in DOMAIN gamma : gamma[i] = s THEN x ELSE MulPublicSlots(x, gamma))
TimesRsqrt(centered) ==
  MulFixed(centered, RepeatRows(RsqrtLookup(Variance(centered), call.varianceMax), call.cols))
LayerNorm(x) == Affine(TimesRsqrt(Centered(x)))
TimesNewton(centered) == MulFixed(centered, RepeatRows(Rsqrt(Variance(centered)), call.cols))
BinadeLayerNorm(x) == Affine(TimesNewton(Centered(x)))

SquaresOfPmpe(x) == OfPmpe(Centered(x), <<0, 0, s>>)
\* Squares with twice the bits, their sum divided, and only then rounded.
RsqrtPhaseFits == DyadicAccepted /\ CanDivide(call.cols) /\ CanDivide(2 ^ call.inputBits)
RsqrtOfSquares(squares) ==
  RsqrtLookup(PlusPublic(RescaleByScale(RescaleByScale(SumRows(squares, call.rows, call.cols), call.cols),
                                        2 ^ call.inputBits), call.epsilon), call.varianceMax)
RsqrtPhase(x) == RsqrtOfSquares(DyadicOfPmpe(Centered(x), <<0, 0, 1>>))

DotFixed(x, y, group) ==
  RescaleFixed(SumRows(Product(x, y), Len(x) \div group, group))
-----------------------------------------------------------------------------
Init ==
  /\ call \in Calls
  /\ values \in [1 .. call.rows * call.cols -> call.operands]
  /\ draw \in ShareDraws
  /\ input \in {[i \in DOMAIN values |-> Shared(Encode(values[i]), d + i, p)] : d \in ShareDraws}
  /\ out = [status |-> "waiting"]

Answer(op, accepted, shares) ==
  /\ call.op = op /\ out.status = "waiting"
  /\ out' = IF accepted THEN [status |-> "done", shares |-> shares] ELSE [status |-> "refused"]
  /\ UNCHANGED <<call, values, input, draw>>

LayerFits == RowParameterFits(call.gamma, call.rows, call.cols) /\ RowParameterFits(call.beta, call.rows, call.cols)

FastGelu ==
  Answer("fast gelu",
         IF call.inRange THEN Len(call.coeffs) = 1 /\ call.thresholds = <<>>
         ELSE call.clip > 0 /\ Len(call.coeffs) = Intervals /\ Increasing(GeluThresholds),
         IF call.inRange THEN GeluInRange(input) ELSE GeluByIntervals(input))
Gelu == Answer("gelu", call.t1 <= call.t2, GeluByLookup(input))
RangeSoftmaxRows ==
  Answer("range softmax",
         /\ call.expMin < call.expMax /\ Len(call.coeffs) = Intervals /\ Headroom
         /\ Increasing(<<call.expMin>> \o call.thresholds \o <<call.expMax>>),
         RangeSoftmax(input))
SoftmaxRows == Answer("softmax", call.expMin <= call.expMax, Softmax(input))
SoftmaxRowsPolynomialExp ==
  Answer("softmax by squaring", call.expMin <= call.expMax /\ SquaringAccepted(call.squarings),
         SoftmaxBySquaring(input))
SoftmaxRowsOfPmpe == Answer("softmax of-pmpe", call.expMin <= call.expMax, SoftmaxOfPmpe(input))
SoftmaxRowsDyadic ==
  Answer("dyadic softmax", call.expMin <= call.expMax /\ DyadicSoftmaxFits, DyadicSoftmax(input))
LayerNormRows == Answer("layer norm", LayerFits, LayerNorm(input))
BinadeLayerNormRows ==
  Answer("binade layer norm",
         LayerFits /\ Len(call.thresholds) + 1 = Len(call.seeds) /\ Headroom /\ Increasing(call.thresholds),
         BinadeLayerNorm(input))
LayerNormSquare == Answer("layer norm square", TRUE, SquaresOfPmpe(input))
LayerNormRsqrt == Answer("layer norm rsqrt", call.epsilon >= 0 /\ RsqrtPhaseFits, RsqrtPhase(input))
Dot == Answer("dot", Len(input) % call.cols = 0, DotFixed(input, input, call.cols))
LessEqual == Answer("less equal", TRUE, Less(input, call.t1 + 1))

Next ==
  \/ FastGelu \/ Gelu
  \/ RangeSoftmaxRows \/ SoftmaxRows \/ SoftmaxRowsPolynomialExp \/ SoftmaxRowsOfPmpe \/ SoftmaxRowsDyadic
  \/ LayerNormRows \/ BinadeLayerNormRows \/ LayerNormSquare \/ LayerNormRsqrt
  \/ Dot \/ LessEqual

Spec == Init /\ [][Next]_vars
-----------------------------------------------------------------------------
(* What one party would compute who held the numbers.                      *)
Slots == DOMAIN values
Result(i) == Signed(Reconstruct(out.shares[i], p))
Round(v) == DivRound(v, s)
Errors == IF call.approximate THEN -2 .. 2 ELSE {0}
RowOf(i) == {j \in Slots : (j - 1) \div call.cols = (i - 1) \div call.cols}
RowSum(Op(_), i) == MapThenSumSet(Op, RowOf(i))
Top(i) == Max({values[j] : j \in RowOf(i)})
BelowTop(i) == values[i] - Top(i)
Piece(v, ts) == Cardinality({j \in DOMAIN ts : ts[j] <= v})

\* A polynomial whose k-th product from the highest is off by errors[k].
Polynomial(v, coeffs, errors) ==
  FoldRight(LAMBDA k, y : Round(v * y) + errors[k] + coeffs[k],
            [k \in 1 .. Len(coeffs) - 1 |-> k], Last(coeffs))
NoErrors(coeffs) == [k \in DOMAIN coeffs |-> 0]
OneOfPolynomials(result, v, coeffs) ==
  \E errors \in [1 .. Len(coeffs) - 1 -> Errors] : result = Polynomial(v, coeffs, errors)

FastGeluInClear(i) ==
  LET k == Piece(values[i], GeluThresholds)
  IN  CASE call.inRange -> OneOfPolynomials(Result(i), values[i] - call.centers[1], call.coeffs[1])
        [] ~call.inRange /\ k = 0 -> Result(i) \in Errors
        [] ~call.inRange /\ k = Intervals + 1 -> Result(i) - values[i] \in Errors
        [] OTHER -> OneOfPolynomials(Result(i), values[i] - call.centers[k], call.coeffs[k])
GeluInClear(i) ==
  Result(i) = (IF values[i] < call.t1 THEN 0
               ELSE IF values[i] > call.t2 THEN values[i] ELSE Polynomial(values[i], call.poly, NoErrors(call.poly)))

ClippedExp(v) ==
  CASE v < call.expMin -> Exp(call.expMin) [] v > call.expMax -> Exp(call.expMax) [] OTHER -> Exp(v)
PiecewiseExp(v) ==
  LET k == Piece(v, <<call.expMin>> \o call.thresholds \o <<call.expMax>>)
  IN  CASE k = 0 -> Exp(call.expMin)
        [] k = Intervals + 1 -> Exp(call.expMax)
        [] OTHER -> Polynomial(v, call.coeffs[k], NoErrors(call.coeffs[k]))
SquaredExp(v) ==
  IF v < call.expMin \/ v > call.expMax THEN ClippedExp(v)
  ELSE FoldLeft(LAMBDA y, i : Round(y * y), Round(v * PartOf(call.squarings)) + s,
                [i \in 1 .. call.squarings |-> i])
\* Defined where the division by powers of the scale leaves nothing.
Power(v, k) == IF k = 0 THEN 1 ELSE v ^ k
Term(coeffs, v, k) == coeffs[k] * Power(v, k - 1)
Divisible(v, coeffs) == \A k \in DOMAIN coeffs : Term(coeffs, v, k) % s ^ (k - 1) = 0
IntegerPoly(v, coeffs) == MapThenSumSet(LAMBDA k : Term(coeffs, v, k), DOMAIN coeffs)
FieldExp(v) == MapThenSumSet(LAMBDA k : Term(call.poly, v, k) \div s ^ (k - 1), DOMAIN call.poly)

InverseOf(sum) == IF sum \in 1 .. call.cols * s THEN Reciprocal(sum) ELSE 0
SoftmaxInClear(ExpOf(_), i) ==
  Result(i) - Round(ExpOf(BelowTop(i)) * InverseOf(RowSum(LAMBDA j : ExpOf(BelowTop(j)), i))) \in Errors

\* The Newton step needs a seed that is at most twice the inverse.
Seed(sum) == LET ts == ReciprocalThresholds(call.cols) IN ReciprocalSeeds(ts, call.cols)[Piece(sum, ts) + 1]
SeedServes(sum) == sum >= 0 /\ Round(sum * Seed(sum)) <= 2 * s
Newton(sum) == Round(Seed(sum) * (2 * s - Round(sum * Seed(sum))))
RangeInput(i) == IF call.useRowMax THEN BelowTop(i) ELSE values[i] - call.shift
RangeSum(i) == RowSum(LAMBDA j : PiecewiseExp(RangeInput(j)), i)
RangeSoftmaxInClear(i) ==
  SeedServes(RangeSum(i)) => Result(i) - Round(PiecewiseExp(RangeInput(i)) * Newton(RangeSum(i))) \in Errors

\* What a caller can learn of a polynomial in advance: its sign on a grid.
GridInput(lo, hi, samples, k) == IF samples = 1 THEN lo ELSE lo + ((hi - lo) * k) \div (samples - 1)
AuditedNonnegative(coeffs, lo, hi, samples) ==
  \A k \in 0 .. samples - 1 : IntegerPoly(GridInput(lo, hi, samples, k), coeffs) >= 0

DyadicExp(v) == IntegerPoly(v, call.poly)
DyadicSoftmaxInClear(i) ==
  LET sum == RowSum(LAMBDA j : DyadicExp(BelowTop(j)), i)
      inverse == InverseOf(DivRound(sum, 2 ^ (call.expBits - call.denominatorBits)))
  IN  (\A j \in RowOf(i) : AuditedNonnegative(call.poly, BelowTop(j), 0, 1 - BelowTop(j))) =>
        Result(i) = DivRound(DyadicExp(BelowTop(i)) * inverse, 2 ^ DyadicProductShift)

Deviation(i) == values[i] - Round(RowSum(LAMBDA j : values[j], i) * Part)
SquareSum(i, errors) == RowSum(LAMBDA j : Round(Deviation(j) ^ 2) + errors[j], i)
VarianceOf(i, errors) == Round(SquareSum(i, errors) * Part) + call.epsilon
RootInTable(v) == IF v < 1 THEN 0 ELSE IF v > call.varianceMax THEN RootOf(call.varianceMax) ELSE RootOf(v)
NewtonRoot(v) ==
  LET r0 == call.seeds[Piece(v, call.thresholds) + 1]
  IN  Round(r0 * (DivRound(3 * s, 2) - Round(Round(v * Round(r0 * r0)) * DivRound(s, 2))))
RootSeedServes(v) ==
  LET r0 == call.seeds[Piece(v, call.thresholds) + 1]
  IN  Round(Round(v * Round(r0 * r0)) * DivRound(s, 2)) <= DivRound(3 * s, 2)
AffineInClear(v, i) ==
  LET gamma == ExpandRow(call.gamma, call.rows, call.cols, s)[i]
  IN  (IF \A g \in ToSet(call.gamma) : g = s THEN v ELSE Round(v * gamma))
        + ExpandRow(call.beta, call.rows, call.cols, 0)[i]
LayerNormInClear(Root(_), Serves(_), i) ==
  \E errors \in [RowOf(i) -> Errors] :
     \/ SquareSum(i, errors) < 0
     \/ ~Serves(VarianceOf(i, errors))
     \/ Result(i) = AffineInClear(Round(Deviation(i) * Root(VarianceOf(i, errors))), i)

RsqrtInClear(i) ==
  LET first == (i - 1) * call.cols + 1
      squares == RowSum(LAMBDA j : Deviation(j) ^ 2, first)
  IN  Result(i) = RootInTable(DivRound(DivRound(squares, call.cols), s) + call.epsilon)

\* Every operator yields what one party would compute who held the numbers,
\* whatever the shares: the rounding of every product has the sign and the room
\* it was told, every number is in exactly one interval, no table is read where
\* it is 0; without corrections, every product is off by two units at most.
\* Excluded are what no check of the code excludes: a Newton step from a seed
\* more than twice too large, approximate squares that add up to less than 0,
\* a polynomial for exp that goes below 0 or whose powers the scale does not
\* divide.
ComputesInClear ==
  out.status = "done" =>
    \A i \in DOMAIN out.shares :
      CASE call.op = "fast gelu" -> FastGeluInClear(i)
        [] call.op = "gelu" -> GeluInClear(i)
        [] call.op = "range softmax" -> RangeSoftmaxInClear(i)
        [] call.op = "softmax" -> SoftmaxInClear(ClippedExp, i)
        [] call.op = "softmax by squaring" -> SoftmaxInClear(SquaredExp, i)
        [] call.op = "softmax of-pmpe" ->
             (\A j \in RowOf(i) : Divisible(BelowTop(j), call.poly)) => SoftmaxInClear(FieldExp, i)
        [] call.op = "dyadic softmax" -> DyadicSoftmaxInClear(i)
        [] call.op = "layer norm" -> LayerNormInClear(RootInTable, LAMBDA v : TRUE, i)
        [] call.op = "binade layer norm" -> LayerNormInClear(NewtonRoot, RootSeedServes, i)
        [] call.op = "layer norm square" ->
             Deviation(i) ^ 2 % s = 0 => Result(i) = Deviation(i) ^ 2 \div s
        [] call.op = "layer norm rsqrt" -> RsqrtInClear(i)
        [] call.op = "dot" ->
             Result(i) = Round(RowSum(LAMBDA j : values[j] ^ 2, (i - 1) * call.cols + 1))
        [] call.op = "less equal" -> Result(i) = Bit(values[i] <= call.t1)
=============================================================================
