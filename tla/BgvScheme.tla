------------------------------ MODULE BgvScheme -----------------------------
(***************************************************************************)
(* The BGV scheme: calls on ciphertexts, and what they decrypt to          *)
(* (silent-fhe schemes/bgv).  A plaintext is held below the noise, which   *)
(* is a multiple of t.  A ciphertext knows how much of the chain of moduli *)
(* it still has, and by which factor its plaintext is off: dropping a      *)
(* modulus divides the plaintext by it.                                    *)
(***************************************************************************)
EXTENDS Rlwe, SequencesExt

CONSTANTS
  Parameters,   \* records: moduli, the chain, and t
  Plaintexts,   \* what is encrypted: slot -> values
  Weights,      \* the values of a plaintext operand
  Starts,       \* records: public, ntt: how the first ciphertexts are made; calls: how many follow
  Seeds,        \* each gives the generators other draws
  Amounts,      \* of rotations and shifts
  Matrices,     \* row -> column -> number
  Babies,       \* sequences of elements to rotate by first
  Dimensions,   \* of packed matrices: <<rows, columns>>
  Polynomials   \* sequences of constant coefficients

VARIABLES
  par,
  sk,        \* the two secret keys
  keys,      \* [relin, galois, proxy]: the keys to switch with
  ciphers,   \* slot -> [polys, ntt, limbs, factor, degree] and history: owner, size
  meaning,   \* history: slot -> the values of the plaintext's slots
  calls      \* that may still follow

vars == <<par, sk, keys, ciphers, meaning, calls>>

Slots == {1, 2}
T == par.t
Full == Len(par.moduli)
Chain(limbs) == {par.moduli[j] : j \in 1 .. limbs}
Unknown == <<>>
-----------------------------------------------------------------------------
(* Bounds of a phase, which stop at Huge.                                  *)
Huge == 2 ^ 28
Plus(a, b) == Min({a + b, Huge})
Times(a, b) == IF b # 0 /\ a > Huge \div b THEN Huge ELSE a * b
Readable(ct) == 2 * ct.size < Prod(Chain(ct.limbs))
-----------------------------------------------------------------------------
(* Encoding, encryption, decryption.                                       *)
Bits(v) == CHOOSE k \in 0 .. 30 : v < 2 ^ k /\ (k = 0 \/ v >= 2 ^ (k - 1))
Encode(values) == Backward([m \in {T} |-> [i \in Indices |-> values[i] % T]])[T]
Decode(plain) == NttForward(plain, Tables(T))
Lift(plain, limbs) == [m \in Chain(limbs) |-> [i \in Indices |-> (plain[i] % T) % m]]

Wrap(polys, limbs, owner, size) ==
  [polys |-> polys, ntt |-> FALSE, limbs |-> limbs, factor |-> 1, degree |-> 1, owner |-> owner, size |-> size]
AddPlaintext(zero, plain) ==
  <<Backward(AddPoly(zero[1], Forward(Lift(plain, Full)))), Backward(zero[2])>>
EncryptSymmetric(values, s, seed, place) ==
  Wrap(AddPlaintext(EncryptZeroScaled(s, Chain(Full), T, seed, place), Encode(values)), Full, 1, 2 * T)
EncryptPublic(values, pk, owner, seed, place) ==
  Wrap(AddPlaintext(EncryptZeroPublic(pk, Chain(Full), T, seed, place), Encode(values)),
       Full, owner, T * (2 * N + 2))

\* The phase under the key, cut to the moduli that are left.
Transforms(ct) == IF ct.ntt THEN ct.polys ELSE [k \in DOMAIN ct.polys |-> Forward(ct.polys[k])]
DotPowers(x, s) ==
  LET KeyPower[k \in 2 .. Len(x)] == IF k = 2 THEN s ELSE MulPoly(KeyPower[k - 1], s)
      Sum[k \in 1 .. Len(x)] == IF k = 1 THEN x[1] ELSE AddPoly(Sum[k - 1], MulPoly(x[k], KeyPower[k]))
  IN  Sum[Len(x)]
Phase(ct) == Backward(DotPowers(Transforms(ct), Restricted(sk[ct.owner], Chain(ct.limbs))))
Centre(v, q) == IF v > q \div 2 THEN v - q ELSE v
ComposeCentred(r) == Centre(Compose(r), Prod(DOMAIN r))
CentredValues(x) == Computed([i \in Indices |-> ComposeCentred(CoefficientOf(x, i))])
Unscaled(phase, factor) == [i \in Indices |-> MulMod(phase[i] % T, ModInverse(factor, T), T)]
Decrypt(ct) == Decode(Computed(Unscaled(CentredValues(Phase(ct)), ct.factor)))
\* What the phase has above the message, at most.
NoiseOf(v) == IF v >= v % T THEN v - (v % T) ELSE (v % T) - v
Noises(phase) == {NoiseOf(phase[i]) : i \in Indices}
NoiseMax(ct) == Max(Noises(CentredValues(Phase(ct))))
-----------------------------------------------------------------------------
(* Switching keys: an encryption of each power of the base times a key.    *)
BaseLog == 8
KswLevels(limbs) == (Bits(Prod(Chain(limbs))) + BaseLog - 1) \div BaseLog + 1

Component(m, level) == ModPow(2, BaseLog * level, m)
WithComponent(zero, other, level) ==
  <<[m \in Chain(Full) |-> [i \in Indices |->
       AddMod(zero[1][m][i], MulMod(other[m][i], Component(m, level), m), m)]],
    zero[2]>>
EncryptKey(s, other, seed, place) ==
  [j \in 1 .. KswLevels(Full) |->
     WithComponent(EncryptZeroScaled(s, Chain(Full), T, seed, place + 3 * j), other, j - 1)]
EncryptKeyPublic(pk, other, seed, place) ==
  [j \in 1 .. KswLevels(Full) |->
     WithComponent(EncryptZeroPublic(pk, Chain(Full), T, seed, place + 3 * j), other, j - 1)]
PublicKey(s, seed, place) == EncryptZeroScaled(s, Chain(Full), T, seed, place)

\* The key, for a ciphertext with fewer moduli.
LevelKey(key, limbs) ==
  [j \in 1 .. KswLevels(limbs) |-> <<Restricted(key[j][1], Chain(limbs)), Restricted(key[j][2], Chain(limbs))>>]

\* Digits between - 128 and 128, the lowest first.
Lowest(low) == IF low > 2 ^ BaseLog \div 2 THEN low - 2 ^ BaseLog ELSE low
Balanced(v) ==
  LET digit == Lowest(v % 2 ^ BaseLog) IN [digit |-> digit, rest |-> (v - digit) \div 2 ^ BaseLog]
DigitsOf(v, levels) ==
  LET taken[j \in 1 .. levels] == Balanced(IF j = 1 THEN v ELSE taken[j - 1].rest)
  IN  [j \in 1 .. levels |-> taken[j].digit]
DigitWords(phase, levels) == Computed([i \in Indices |-> DigitsOf(phase[i], levels)])
DigitPolys(words, B, levels) ==
  [j \in 1 .. levels |-> [m \in B |-> [i \in Indices |-> words[i][j] % m]]]
GadgetDigits(x, levels) == DigitPolys(DigitWords(CentredValues(x), levels), DOMAIN x, levels)
KeySum(all, key, k) ==
  [m \in DOMAIN all[1] |-> [i \in Indices |->
     Total([j \in DOMAIN all |-> MulMod(all[j][m][i], key[j][k][m][i], m)]) % m]]
SwitchTransforms(all, key) == <<Backward(KeySum(all, key, 1)), Backward(KeySum(all, key, 2))>>
SwitchDigits(digits, key) ==
  SwitchTransforms(Computed([j \in DOMAIN digits |-> Forward(digits[j])]), key)
SwitchGadget(x, key) == SwitchDigits(GadgetDigits(x, Len(key)), key)
SwitchSize(limbs, public) ==
  KswLevels(limbs) * 2 ^ (BaseLog - 1) * N * T * (IF public THEN 2 * N + 1 ELSE 1)
-----------------------------------------------------------------------------
(* Levels and factors.                                                     *)
ToCoeff(ct) ==
  IF ct.ntt THEN [ct EXCEPT !.polys = [k \in DOMAIN @ |-> Backward(@[k])], !.ntt = FALSE] ELSE ct
DropTo(ct, limbs) ==
  [ct EXCEPT !.polys = [k \in DOMAIN @ |-> Restricted(@[k], Chain(limbs))], !.limbs = limbs]

CentredIn(r, from, m) == IF r > from \div 2 THEN NegMod((from - r) % m, m) ELSE r % m
\* Adding a multiple of t makes a word divisible by the modulus that goes.
DropCorrection(v, dropped) == MulMod(NegMod(v, dropped), ModInverse(T % dropped, dropped), dropped)
DownBy(v, correction, dropped, m) ==
  MulMod((v + T * CentredIn(correction, dropped, m)) % m, ModInverse(dropped % m, m), m)
SwitchDownBy(x, dropped, B) ==
  Computed([m \in B |-> [i \in Indices |->
              DownBy(x[m][i], DropCorrection(x[dropped][i], dropped), dropped, m)]])
SwitchDownOne(x, limbs) == SwitchDownBy(x, par.moduli[limbs], Chain(limbs - 1))
\* A mutant: 1 over the last modulus that was dropped.
FactorInvOfLast(from, to) == ModInverse(par.moduli[from] % T, T)
\* 1 over the moduli that were dropped, modulo t.
FactorInv(from, to) ==
  LET Dropped[j \in to .. from] == IF j = to THEN 1 ELSE MulMod(Dropped[j - 1], par.moduli[j] % T, T)
  IN  ModInverse(Dropped[from], T)
RECURSIVE SwitchDown(_, _, _)
SwitchDown(x, from, to) == IF from = to THEN x ELSE SwitchDown(SwitchDownOne(x, from), from - 1, to)
RoundSize(polys) ==
  (T * (1 + N + (IF polys > 2 THEN N * N ELSE 0) + (IF polys > 3 THEN N * N * N ELSE 0))) \div 2 + 2
SizeDown(size, from, to, round) ==
  LET S[j \in to .. from] == IF j = from THEN size ELSE (S[j + 1] \div par.moduli[j + 1]) + round
  IN  S[to]
SwitchedDown(ct, from, to) ==
  [ct EXCEPT !.polys = [k \in DOMAIN @ |-> SwitchDown(@[k], from, to)],
             !.limbs = to,
             !.factor = MulMod(@, FactorInv(from, to), T),
             !.degree = Max({@ - (from - to), 0}),
             !.size = SizeDown(@, from, to, RoundSize(Len(ct.polys)))]
ModSwitchTo(ct, limbs) == IF limbs = ct.limbs THEN ct ELSE SwitchedDown(ToCoeff(ct), ct.limbs, limbs)

ScaleByFactor(ct, f) ==
  IF f = 1 THEN ct
  ELSE [ct EXCEPT !.polys = [k \in DOMAIN @ |-> ScalarPoly(@[k], f)],
                  !.factor = MulMod(@, f, T), !.degree = @ + 1, !.size = Times(@, f)]
Align(a, b, limbs) == <<ModSwitchTo(a, limbs), ModSwitchTo(b, limbs)>>
AlignLevels(a, b) == Align(a, b, Min({a.limbs, b.limbs}))
\* The same level, factor and degree.
SameFactor(p) ==
  IF p[1].factor = p[2].factor THEN p
  ELSE <<ScaleByFactor(p[1], p[2].factor), ScaleByFactor(p[2], p[1].factor)>>
SameDegree(p) == [k \in {1, 2} |-> [p[k] EXCEPT !.degree = Max({p[1].degree, p[2].degree})]]
Adjusted(a, b) == SameDegree(SameFactor(AlignLevels(a, b)))
-----------------------------------------------------------------------------
(* Sums and products.                                                      *)
LinearPoly(x, y, k, sub) ==
  CASE k > Len(y) -> x[k]
    [] k > Len(x) -> IF sub THEN NegatePoly(y[k]) ELSE y[k]
    [] OTHER -> IF sub THEN SubPoly(x[k], y[k]) ELSE AddPoly(x[k], y[k])
LinearOf(a, b, sub) ==
  [a EXCEPT !.polys = [k \in 1 .. Max({Len(a.polys), Len(b.polys)}) |-> LinearPoly(a.polys, b.polys, k, sub)],
            !.size = Plus(a.size, b.size)]
BinaryLinear(p, sub) == LinearOf(ToCoeff(p[1]), ToCoeff(p[2]), sub)
AddBgv(a, b) == BinaryLinear(Adjusted(a, b), FALSE)
SubBgv(a, b) == BinaryLinear(Adjusted(a, b), TRUE)

TensorPoly(x, y, k) ==
  [m \in DOMAIN x[1] |-> [c \in Indices |->
     Total([i \in {i \in DOMAIN x : k + 1 - i \in DOMAIN y} |-> MulMod(x[i][m][c], y[k + 1 - i][m][c], m)]) % m]]
TensorOf(x, y) == [k \in 1 .. Len(x) + Len(y) - 1 |-> Backward(TensorPoly(x, y, k))]
Tensor(a, b) == TensorOf(Computed(Transforms(a)), Computed(Transforms(b)))
MulAligned(p) ==
  [p[1] EXCEPT !.polys = Tensor(p[1], p[2]), !.ntt = FALSE,
               !.factor = MulMod(@, p[2].factor, T), !.degree = @ + p[2].degree,
               !.size = Times(N, Times(@, p[2].size))]
MulBgv(a, b) == MulAligned(AlignLevels(a, b))

AddLifted(ct, lifted, sub) ==
  [ct EXCEPT !.polys = [@ EXCEPT ![1] = IF sub THEN SubPoly(@, lifted) ELSE AddPoly(@, lifted)],
             !.size = Plus(@, T)]
AddPlain(ct, plain, sub) ==
  AddLifted(ToCoeff(ct), Lift([i \in Indices |-> MulMod(plain[i], ct.factor, T)], ct.limbs), sub)
MulTransform(ct, x, plain) ==
  [ct EXCEPT !.polys = [k \in DOMAIN @ |-> Backward(MulPoly(x[k], plain))], !.ntt = FALSE,
             !.size = Times(@, N * T)]
MulPlain(ct, plain) == MulTransform(ct, Transforms(ct), Forward(Lift(plain, ct.limbs)))
-----------------------------------------------------------------------------
(* What needs a key.                                                       *)

\* Anything but a product is returned as it is.
WithSwitched(x, first, out, public) ==
  [x EXCEPT !.polys = <<AddPoly(first, out[1]), out[2]>>, !.size = Plus(@, SwitchSize(x.limbs, public))]
RelinearizedWith(x, out) ==
  [x EXCEPT !.polys = <<AddPoly(x.polys[1], out[1]), AddPoly(x.polys[2], out[2])>>,
            !.size = Plus(@, SwitchSize(x.limbs, FALSE))]
RelinearizedCoeff(x) ==
  RelinearizedWith(x, SwitchGadget(x.polys[3], LevelKey(keys.relin, x.limbs)))
Relinearized(ct) == IF Len(ct.polys) # 3 THEN ct ELSE RelinearizedCoeff(ToCoeff(ct))
MulRelinearized(a, b) == Relinearized(MulBgv(a, b))
ReencryptCoeff(x, key, public) ==
  WithSwitched([x EXCEPT !.owner = 2], x.polys[1], SwitchGadget(x.polys[2], LevelKey(key, x.limbs)), public)
ReencryptTo2(ct, key, public) == ReencryptCoeff(ToCoeff(ct), key, public)

\* A product is returned as it is, not rotated.
RotatedCoeff(x, k) ==
  WithSwitched(x, GaloisCoeff(x.polys[1], k),
               SwitchGadget(GaloisCoeff(x.polys[2], k), LevelKey(keys.galois[k], x.limbs)), FALSE)
Rotated(ct, k) == IF Len(ct.polys) # 2 THEN ct ELSE RotatedCoeff(ToCoeff(ct), k)
\* Several rotations of one ciphertext share its digits.
Precomputed(x) ==
  [coeff |-> x,
   digits |-> IF Len(x.polys) = 2 THEN Computed(GadgetDigits(x.polys[2], KswLevels(x.limbs))) ELSE <<>>]
FastRotatedCoeff(x, digits, k) ==
  WithSwitched(x, GaloisCoeff(x.polys[1], k),
               SwitchDigits([j \in DOMAIN digits |-> GaloisCoeff(digits[j], k)], LevelKey(keys.galois[k], x.limbs)),
               FALSE)
FastRotated(precomp, k) ==
  IF Len(precomp.coeff.polys) # 2 THEN precomp.coeff ELSE FastRotatedCoeff(precomp.coeff, precomp.digits, k)
\* Every rotation that is asked for, and the ciphertext itself.
RotationsOf(ct, elements, precomp) ==
  Computed([k \in elements |-> IF k = 1 THEN ct ELSE FastRotated(precomp, k)])
Rotations(ct, elements) == RotationsOf(ct, elements, Precomputed(ToCoeff(ct)))
-----------------------------------------------------------------------------
(* Slots.                                                                  *)
Elements == {k \in 1 .. 2 * N - 1 : k % 2 = 1}
SumOf(terms) ==
  LET sum[j \in DOMAIN terms] == IF j = 1 THEN terms[1] ELSE AddBgv(sum[j - 1], terms[j])
  IN  sum[Len(terms)]
Mask(places) == Encode([i \in Indices |-> IF i \in places THEN 1 ELSE 0])

\* The element that brings each slot what is so many places before it.
RotationElement(destination, amount) ==
  CHOOSE k \in Elements : AutomorphismMap(k, N)[destination] = (destination - amount) % N
Destinations(k, amount) == {i \in Indices : RotationElement(i, amount) = k}
UsedElements(amount) == {k \in Elements : Destinations(k, amount) # {}}
SumOfMasked(rotations, elements, amount) ==
  SumOf([j \in DOMAIN elements |-> MulPlain(rotations[elements[j]], Mask(Destinations(elements[j], amount)))])
SlotsRotated(ct, amount) ==
  IF amount % N = 0 THEN ct
  ELSE SumOfMasked(Rotations(ct, UsedElements(amount)), SetToSeq(UsedElements(amount)), amount)
KeptSlots(amount) == {i \in Indices : i - amount \in Indices}
SlotsShifted(ct, amount) ==
  IF amount = 0 THEN ct
  ELSE MulPlain(IF KeptSlots(amount) = {} THEN ct ELSE SlotsRotated(ct, amount), Mask(KeptSlots(amount)))

SumWith(ct, rotations) == SumOf([j \in 1 .. N |-> IF j = 1 THEN ct ELSE rotations[2 * j - 1]])
SumSlots(ct) == SumWith(ct, Rotations(ct, Elements \ {1}))
SumActive(ct, active) == SumSlots(MulPlain(ct, Mask(0 .. active - 1)))
Replicated(ct, slot) == SumSlots(MulPlain(ct, Mask({slot})))

SlotZeroTo(slot) == IF slot = 0 THEN 1 ELSE CHOOSE k \in Elements \ {1} : AutomorphismMap(k, N)[slot] = 0
MovedTo(masked, slot) == IF slot = 0 THEN masked ELSE Rotated(masked, SlotZeroTo(slot))
Merged(cts) == SumOf([j \in DOMAIN cts |-> MovedTo(MulPlain(cts[j], Mask({0})), j - 1)])
-----------------------------------------------------------------------------
(* Linear maps of the slots, by their diagonals.                           *)
DiagonalAlong(matrix, map) == [row \in Indices |-> matrix[row][map[row]] % T]
Diagonal(matrix, k) == DiagonalAlong(matrix, AutomorphismMap(k, N))
Ascending(S) == [j \in 1 .. Cardinality(S) |-> CHOOSE x \in S : Cardinality({y \in S : y < x}) = j - 1]
Nonzero(matrix) == {k \in Elements : \E row \in Indices : Diagonal(matrix, k)[row] # 0}
DiagonalElements(matrix) == Ascending(IF Nonzero(matrix) = {} THEN {1} ELSE Nonzero(matrix))
SumOfDiagonals(rotations, matrix, elements) ==
  SumOf([j \in DOMAIN elements |-> MulPlain(rotations[elements[j]], Encode(Diagonal(matrix, elements[j])))])
Transformed(ct, matrix) ==
  SumOfDiagonals(Rotations(ct, ToSet(DiagonalElements(matrix))), matrix, DiagonalElements(matrix))
\* Several maps share the rotations.
NeededElements(matrices) == UNION {ToSet(DiagonalElements(matrices[j])) : j \in DOMAIN matrices} \union {1}
TransformedWith(rotations, matrices) ==
  [j \in DOMAIN matrices |-> SumOfDiagonals(rotations, matrices[j], DiagonalElements(matrices[j]))]
TransformedMany(ct, matrices) == TransformedWith(Rotations(ct, NeededElements(matrices)), matrices)

AxisMatrix(rows, columns, axis) ==
  LET Same(x, y) == IF axis = "rows" THEN x \div columns = y \div columns ELSE x % columns = y % columns
      In(x, y) == x < rows * columns /\ y < rows * columns /\ Same(x, y)
  IN  [x \in Indices |-> [y \in Indices |-> IF In(x, y) THEN 1 ELSE 0]]

\* Baby steps and giant steps: an element is a baby times a giant.
ElementProduct(x, y) == (x * y) % (2 * N)
ElementInverse(x) == ModInverse(x, 2 * N)
DefaultBabyCount(count) == CHOOSE c \in 1 .. count : c * c >= count /\ (c - 1) * (c - 1) < count
Extended(babies, k) == IF k \in ToSet(babies) THEN babies ELSE Append(babies, k)
GivenBabies(given) ==
  LET babies[j \in 0 .. Len(given)] == IF j = 0 THEN <<1>> ELSE Extended(babies[j - 1], given[j])
  IN  babies[Len(given)]
\* After the first, none is added once there are enough.
ExtendedUpTo(babies, k, first, target) == IF ~first /\ Len(babies) >= target THEN babies ELSE Extended(babies, k)
DefaultBabies(elements, target) ==
  LET babies[j \in 0 .. Len(elements)] ==
        IF j = 0 THEN <<1>> ELSE ExtendedUpTo(babies[j - 1], elements[j], j = 1, target)
  IN  babies[Len(elements)]
NormalizedBabies(elements, given) ==
  IF given # <<>> THEN GivenBabies(given) ELSE DefaultBabies(elements, DefaultBabyCount(Len(elements)))
\* The giant that most elements can share; among those, none, or that of the
\* smallest baby.
Giant(k, baby) == ElementProduct(k, ElementInverse(baby))
Score(elements, babies, giant) ==
  Cardinality({p \in (DOMAIN elements) \X (DOMAIN babies) : Giant(elements[p[1]], babies[p[2]]) = giant})
Better(best, baby, giant, score) ==
  IF \/ score > best.score
     \/ score = best.score /\ (giant = 1 \/ (best.giant # 1 /\ baby < best.baby))
  THEN [baby |-> baby, giant |-> giant, score |-> score] ELSE best
BetterWith(best, baby, giant, elements, babies) == Better(best, baby, giant, Score(elements, babies, giant))
BsgsAssignment(elements, babies, element) ==
  LET best[j \in 0 .. Len(babies)] ==
        IF j = 0 THEN [baby |-> 1, giant |-> element, score |-> 0]
        ELSE BetterWith(best[j - 1], babies[j], Giant(element, babies[j]), elements, babies)
  IN  best[Len(babies)]
\* The diagonals of a giant are turned back before its rotation.
BsgsTerm(rotation, diagonal, giant) ==
  MulPlain(rotation, ApplyGaloisCoeff(Encode(diagonal), ElementInverse(giant), N, T))
InnerSum(rotations, matrix, elements, of, terms) ==
  SumOf([i \in DOMAIN terms |->
     BsgsTerm(rotations[of[terms[i]].baby], Diagonal(matrix, elements[terms[i]]), of[terms[i]].giant)])
Turned(inner, giant) == IF giant = 1 THEN inner ELSE Rotated(inner, giant)
Sharing(of, giant) == SetToSeq({j \in DOMAIN of : of[j].giant = giant})
BsgsGroups(rotations, matrix, elements, of, giants) ==
  SumOf([i \in DOMAIN giants |->
     Turned(InnerSum(rotations, matrix, elements, of, Sharing(of, giants[i])), giants[i])])
BsgsWith(ct, matrix, elements, of) ==
  BsgsGroups(Rotations(ct, {of[j].baby : j \in DOMAIN of}), matrix, elements, of,
             SetToSeq({of[j].giant : j \in DOMAIN of}))
BsgsPlan(elements, babies) ==
  Computed([j \in DOMAIN elements |-> BsgsAssignment(elements, babies, elements[j])])
BsgsOver(ct, matrix, elements, given) ==
  BsgsWith(ct, matrix, elements, BsgsPlan(elements, NormalizedBabies(elements, given)))
BsgsTransformed(ct, matrix, given) == BsgsOver(ct, matrix, DiagonalElements(matrix), given)
-----------------------------------------------------------------------------
(* Many operands.                                                          *)
Constant(c) == Encode([i \in Indices |-> c])
ConstantOf(ct, c) == AddPlain(MulPlain(ct, Constant(0)), Constant(c), FALSE)
Horner(ct, coefficients) ==
  LET acc[j \in DOMAIN coefficients] ==
        IF j = Len(coefficients) THEN ConstantOf(ct, coefficients[j])
        ELSE AddPlain(MulRelinearized(acc[j + 1], ct), Constant(coefficients[j]), FALSE)
  IN  acc[1]
ByPowers(ct, coefficients) ==
  LET powers[k \in 1 .. Len(coefficients)] == IF k = 1 THEN ct ELSE MulRelinearized(powers[k - 1], ct)
  IN  SumOf([j \in DOMAIN coefficients |->
               IF j = 1 THEN ConstantOf(ct, coefficients[1])
               ELSE MulPlain(powers[j - 1], Constant(coefficients[j]))])

\* Pairs are multiplied, those with most moduli and the lowest degree first.
Before(x, y, earlier) ==
  \/ x.limbs > y.limbs
  \/ x.limbs = y.limbs /\ (x.degree < y.degree \/ (x.degree = y.degree /\ earlier))
InOrder(work) ==
  [j \in DOMAIN work |->
     work[CHOOSE i \in DOMAIN work : Cardinality({k \in DOMAIN work : Before(work[k], work[i], k < i)}) = j - 1]]
MulPairs(sorted) ==
  [j \in 1 .. (Len(sorted) + 1) \div 2 |->
     IF 2 * j > Len(sorted) THEN sorted[2 * j - 1] ELSE MulRelinearized(sorted[2 * j - 1], sorted[2 * j])]
RECURSIVE MulMany(_)
MulMany(work) == IF Len(work) = 1 THEN work[1] ELSE MulMany(MulPairs(Computed(InOrder(work))))
-----------------------------------------------------------------------------
GaloisKeys(s, seed) ==
  [k \in Elements \ {1} |-> EncryptKey(s, Automorphism(s, k), seed, 300 + 50 * k)]
\* Two ciphertexts, encrypted under the key or with the public one, whose
\* polynomials may be kept as transforms.
Kept(ct, ntt) ==
  IF ntt THEN [ct EXCEPT !.polys = [k \in {1, 2} |-> Forward(@[k])], !.ntt = TRUE] ELSE ct
Fresh(values, s, pk, public, seed, place) ==
  IF public THEN EncryptPublic(values, pk, 1, seed, place) ELSE EncryptSymmetric(values, s, seed, place)
Init ==
  /\ par \in Parameters
  /\ \E seed \in Seeds, values \in Plaintexts, start \in Starts :
       /\ sk = <<SecretKey(Chain(Full), seed), SecretKey(Chain(Full), seed + 1)>>
       /\ keys = [relin |-> EncryptKey(sk[1], MulPoly(sk[1], sk[1]), seed, 200),
                  galois |-> GaloisKeys(sk[1], seed),
                  public |-> start.public,
                  proxy |-> IF start.public THEN EncryptKeyPublic(PublicKey(sk[2], seed, 50), sk[1], seed, 100)
                            ELSE EncryptKey(sk[2], sk[1], seed, 100)]
       /\ \E pk \in {PublicKey(sk[1], seed, 60)} :
            ciphers = [k \in Slots |-> Kept(Fresh(values[k], sk[1], pk, start.public, seed, 20 * k), start.ntt)]
       /\ meaning = values
       /\ calls = start.calls
-----------------------------------------------------------------------------
(* Calls.  The outcome takes the place of the first operand.  A ciphertext *)
(* that cannot be read any more is not used again.                         *)
Step(k, ct, values) ==
  /\ calls' = calls - 1
  /\ ciphers' = [ciphers EXCEPT ![k] = ct]
  /\ meaning' = [meaning EXCEPT ![k] = values]
Usable(k) == meaning[k] # Unknown /\ Readable(ciphers[k])
\* What a call means if it keeps to what its keys are for.
If(condition, values) ==
  IF condition THEN Computed([i \in Indices |-> values[i] % T]) ELSE Unknown
Own(k) == ciphers[k].owner = 1
Pair2(k) == Own(k) /\ Len(ciphers[k].polys) = 2
SameOwner(a, b) == ciphers[a].owner = ciphers[b].owner
SumSlotsOf(k, S) == Total([i \in S |-> meaning[k][i]])

Add(a, b) ==
  Step(a, AddBgv(ciphers[a], ciphers[b]),
       If(SameOwner(a, b), [i \in Indices |-> meaning[a][i] + meaning[b][i]]))
Sub(a, b) ==
  Step(a, SubBgv(ciphers[a], ciphers[b]),
       If(SameOwner(a, b), [i \in Indices |-> meaning[a][i] - meaning[b][i]]))
Mul(a, b) ==
  /\ Len(ciphers[a].polys) + Len(ciphers[b].polys) <= 5
  /\ Step(a, MulBgv(ciphers[a], ciphers[b]),
          If(SameOwner(a, b), [i \in Indices |-> meaning[a][i] * meaning[b][i]]))
InnerProduct(a, b, active) ==
  Step(a, SumActive(MulRelinearized(ciphers[a], ciphers[b]), active),
       If(Pair2(a) /\ Pair2(b),
          [i \in Indices |-> Total([j \in 0 .. active - 1 |-> meaning[a][j] * meaning[b][j]])]))
InnerProductPlain(a, plain, values, active) ==
  Step(a, SumActive(MulPlain(ciphers[a], plain), active),
       If(Pair2(a), [i \in Indices |-> Total([j \in 0 .. active - 1 |-> meaning[a][j] * values[j]])]))
MulThree(a, b) ==
  Step(a, MulMany(<<ciphers[a], ciphers[b], ciphers[a]>>),
       If(Pair2(a) /\ Pair2(b), [i \in Indices |-> meaning[a][i] * meaning[b][i] * meaning[a][i]]))
MergeSlots(a, b) ==
  Step(a, Merged(<<ciphers[a], ciphers[b], ciphers[a]>>),
       If(Pair2(a) /\ Pair2(b),
          [i \in Indices |-> IF i = 1 THEN meaning[b][0] ELSE IF i \in {0, 2} THEN meaning[a][0] ELSE 0]))
WeightedSum(a, b, weights) ==
  Step(a, SumOf(<<MulPlain(ciphers[a], Encode(weights)), MulPlain(ciphers[b], Constant(2))>>),
       If(SameOwner(a, b), [i \in Indices |-> meaning[a][i] * weights[i] + meaning[b][i] * 2]))

Relinearize(a) == Step(a, Relinearized(ciphers[a]), If(Own(a), meaning[a]))
\* Only pairs can be re-encrypted.
Reencrypt(a) ==
  /\ Len(ciphers[a].polys) = 2
  /\ Step(a, ReencryptTo2(ciphers[a], keys.proxy, keys.public), If(Own(a), meaning[a]))
Moved(values, map) == [i \in Indices |-> values[map[i]]]
Rotate(a, k) == Step(a, Rotated(ciphers[a], k), If(Pair2(a), Moved(meaning[a], AutomorphismMap(k, N))))
FastRotate(a, k) ==
  Step(a, FastRotated(Precomputed(ToCoeff(ciphers[a])), k),
       If(Pair2(a), Moved(meaning[a], AutomorphismMap(k, N))))
RotateSlots(a, amount) ==
  Step(a, SlotsRotated(ciphers[a], amount), If(Pair2(a), [i \in Indices |-> meaning[a][(i - amount) % N]]))
ShiftSlots(a, amount) ==
  Step(a, SlotsShifted(ciphers[a], amount),
       If(Pair2(a), [i \in Indices |-> IF i - amount \in Indices THEN meaning[a][i - amount] ELSE 0]))
SumActiveSlots(a, active) ==
  Step(a, SumActive(ciphers[a], active), If(Pair2(a), [i \in Indices |-> SumSlotsOf(a, 0 .. active - 1)]))
ReplicateSlot(a, slot) ==
  Step(a, Replicated(ciphers[a], slot), If(Pair2(a), [i \in Indices |-> meaning[a][slot]]))
\* Every slot in a ciphertext of its own; the first and the last are kept.
ReplicateAllSlots(a) ==
  /\ calls' = calls - 1
  /\ ciphers' = <<Replicated(ciphers[a], 0), Replicated(ciphers[a], N - 1)>>
  /\ meaning' = <<If(Pair2(a), [i \in Indices |-> meaning[a][0]]), If(Pair2(a), [i \in Indices |-> meaning[a][N - 1]])>>
Product(matrix, a) ==
  If(Pair2(a), [i \in Indices |-> Total([j \in Indices |-> matrix[i][j] * meaning[a][j]])])
Transform(a, matrix) == Step(a, Transformed(ciphers[a], matrix), Product(matrix, a))
BsgsTransform(a, matrix, babies) == Step(a, BsgsTransformed(ciphers[a], matrix, babies), Product(matrix, a))
\* The outcomes of two maps of one ciphertext.
TransformMany(a, matrices) ==
  /\ calls' = calls - 1
  /\ ciphers' = TransformedMany(ciphers[a], matrices)
  /\ meaning' = [j \in DOMAIN matrices |-> Product(matrices[j], a)]
Line(i, rows, columns, axis) ==
  {j \in 0 .. rows * columns - 1 :
     IF axis = "rows" THEN j \div columns = i \div columns ELSE j % columns = i % columns}
LineSums(a, rows, columns, axis) ==
  If(Pair2(a), [i \in Indices |-> IF i < rows * columns THEN SumSlotsOf(a, Line(i, rows, columns, axis)) ELSE 0])
SumAxis(a, rows, columns, axis) ==
  /\ rows * columns <= N
  /\ Step(a, Transformed(ciphers[a], AxisMatrix(rows, columns, axis)), LineSums(a, rows, columns, axis))
SumAxisBsgs(a, rows, columns, axis, babies) ==
  /\ rows * columns <= N
  /\ Step(a, BsgsTransformed(ciphers[a], AxisMatrix(rows, columns, axis), babies), LineSums(a, rows, columns, axis))

PolynomialAt(coefficients, x) ==
  LET acc[j \in 1 .. Len(coefficients) + 1] ==
        IF j > Len(coefficients) THEN 0 ELSE acc[j + 1] * x + coefficients[j]
  IN  acc[1]
EvaluatePolynomial(a, coefficients, powers) ==
  Step(a, IF powers THEN ByPowers(ciphers[a], coefficients) ELSE Horner(ciphers[a], coefficients),
       If(Pair2(a), [i \in Indices |-> PolynomialAt(coefficients, meaning[a][i])]))
WithPlain(a, plain, values, how) ==
  Step(a, IF how = "mul" THEN MulPlain(ciphers[a], plain) ELSE AddPlain(ciphers[a], plain, how = "sub"),
       If(TRUE, [i \in Indices |-> CASE how = "mul" -> meaning[a][i] * values[i]
                                      [] how = "sub" -> meaning[a][i] - values[i]
                                      [] OTHER -> meaning[a][i] + values[i]]))

DropLevel(a, levels) ==
  /\ levels < ciphers[a].limbs
  /\ Step(a, DropTo(ciphers[a], ciphers[a].limbs - levels), meaning[a])
ModSwitchDown(a, levels) ==
  /\ levels < ciphers[a].limbs
  /\ Step(a, ModSwitchTo(ciphers[a], ciphers[a].limbs - levels), meaning[a])
ScaleFactor(a, f) == Step(a, ScaleByFactor(ciphers[a], f), meaning[a])

Pairs(a, b) ==
  \/ Add(a, b) \/ Sub(a, b) \/ Mul(a, b)
  \/ MulThree(a, b) \/ MergeSlots(a, b) \/ InnerProduct(a, b, 3)
  \/ \E weights \in Weights : WeightedSum(a, b, weights)
Levels(a) ==
  \/ \E levels \in {1, 2} : DropLevel(a, levels) \/ ModSwitchDown(a, levels)
  \/ ScaleFactor(a, 3)
Switches(a) ==
  \/ Relinearize(a) \/ Reencrypt(a)
  \/ \E k \in DOMAIN keys.galois : Rotate(a, k) \/ FastRotate(a, k)
  \/ \E amount \in Amounts : RotateSlots(a, amount) \/ ShiftSlots(a, amount)
  \/ SumActiveSlots(a, 3) \/ ReplicateSlot(a, 1) \/ ReplicateAllSlots(a)
Maps(a) ==
  \/ \E matrix \in Matrices :
       Transform(a, matrix) \/ \E babies \in Babies : BsgsTransform(a, matrix, babies)
  \/ TransformMany(a, SetToSeq(Matrices))
  \/ \E dimensions \in Dimensions, axis \in {"rows", "columns"} :
       \/ SumAxis(a, dimensions[1], dimensions[2], axis)
       \/ SumAxisBsgs(a, dimensions[1], dimensions[2], axis, <<>>)
  \/ \E values \in Weights : InnerProductPlain(a, Encode(values), values, 3)
  \/ \E coefficients \in Polynomials, powers \in BOOLEAN : EvaluatePolynomial(a, coefficients, powers)
  \/ \E values \in Weights, how \in {"add", "sub", "mul"} : WithPlain(a, Encode(values), values, how)
Next ==
  /\ UNCHANGED <<par, sk, keys>>
  /\ calls > 0
  /\ \/ \E a \in Slots : Usable(a) /\ Levels(a)
     \/ Usable(1) /\ (Switches(1) \/ Maps(1))
     \/ \E b \in Slots : Usable(1) /\ Usable(b) /\ Pairs(1, b)
Spec == Init /\ [][Next]_vars
-----------------------------------------------------------------------------
\* Whatever calls are strung together, at whatever levels and with whatever
\* factors, a ciphertext that is within its bound decrypts to what they make of
\* the plaintexts, as long as each call got ciphertexts its keys are for; and
\* the noise that is measured in it is within the bound.
TracksFactors ==
  \A k \in Slots :
    meaning[k] # Unknown /\ Readable(ciphers[k]) =>
      /\ Decrypt(ciphers[k]) = meaning[k]
      /\ NoiseMax(ciphers[k]) <= ciphers[k].size + T
=============================================================================
