----------------------------- MODULE BgvBootstrap ----------------------------
(***************************************************************************)
(* Recryption of a BGV ciphertext (silent-fhe schemes/bgv/bootstrap.rs).   *)
(* The key is the secret key, encrypted for a target.  c0 + c1 s, taken    *)
(* over the integers, is the raw phase: the phase plus a number of times   *)
(* Q, the wraps, that the target must find and take away.  They are found  *)
(* from residues of the raw phase, or by polynomials that are right on     *)
(* every raw phase up to a bound.                                          *)
(*                                                                         *)
(* A ciphertext of the target stands for the coefficients it decrypts to,  *)
(* which BgvScheme's calls keep.  The ciphertext that is recrypted, and    *)
(* those that are read under another plaintext modulus, are ciphertexts.   *)
(***************************************************************************)
EXTENDS Rlwe, SequencesExt

CONSTANTS
  Sources,        \* records: moduli, t, limbs: the ciphertext is switched down to limbs
  Values,         \* what is encrypted: slot -> value
  Seeds,          \* each gives the generators other draws
  Fusions,        \* plaintext moduli to look phases up in
  Auxiliaries,    \* sequences of moduli to reconstruct phases from
  Targets,        \* plaintext moduli to switch to
  AuxiliaryBits,  \* 50: of the moduli the code selects
  MaxPoints       \* 4096: of a lookup

VARIABLES
  source,   \* [moduli, t]
  sk,       \* the source's keys, as BgvScheme has them
  cipher,   \* the ciphertext to recrypt
  message,  \* history: the coefficients it decrypts to
  outcome   \* what the last call gave: what, modulus, values

vars == <<source, sk, cipher, message, outcome>>

\* The scheme over the source's moduli, with plaintexts modulo t.
Scheme(t) ==
  INSTANCE BgvScheme WITH
    par <- [moduli |-> source.moduli, t |-> t], keys <- <<>>, ciphers <- <<>>, meaning <- <<>>, calls <- 0,
    Parameters <- {}, Plaintexts <- {}, Weights <- {}, Starts <- {}, Amounts <- {}, Matrices <- {},
    Babies <- {}, Dimensions <- {}, Polynomials <- {}

T == source.t
Chain == {source.moduli[j] : j \in 1 .. cipher.limbs}
Q == Prod(Chain)
Abs(v) == IF v < 0 THEN 0 - v ELSE v
-----------------------------------------------------------------------------
(* Residues.                                                               *)
CentredMod(r, m) == IF r % m > m \div 2 THEN (r % m) - m ELSE r % m
\* A mutant: a residue above the half does not count as a wrap.
FlooredAndWrap(v, q) == [residue |-> v % q, wrap |-> v \div q]
CentredAndWrap(v, q) ==
  [residue |-> CentredMod(v, q), wrap |-> (v \div q) + (IF v % q > q \div 2 THEN 1 ELSE 0)]

Centred(x) == Scheme(T)!CentredValues(x)
Component(k) == Centred(cipher.polys[k])
Secret == Centred(Backward(Restricted(sk[1], Chain)))
FactorInverse == ModInverse(cipher.factor, T)

\* Products modulo X^N + 1, of polynomials modulo p.
ProductAt(x, y, i) ==
  Total([j \in Indices |-> IF j <= i THEN x[j] * y[i - j] ELSE 0 - (x[j] * y[i + N - j])])
Product(x, y, p) == Computed([i \in Indices |-> ProductAt(x, y, i) % p])
PlusMod(x, y, p) == Computed([i \in Indices |-> (x[i] + y[i]) % p])
MinusMod(x, y, p) == Computed([i \in Indices |-> (x[i] - y[i]) % p])
-----------------------------------------------------------------------------
(* The raw phase, as a linear function of the secret.                      *)
RawPhaseOf(c0, c1, s) == Computed([i \in Indices |-> c0[i] + ProductAt(s, c1, i)])
RawPhase == RawPhaseOf(Component(1), Component(2), Secret)
\* What no raw phase under a ternary key exceeds.
Largest(x) == Max({Abs(x[i]) : i \in Indices})
PhaseBound == Largest(Component(1)) + Largest(Component(2)) * N
WrapsUpTo(bound) == Max({Abs(CentredAndWrap(bound, Q).wrap), Abs(CentredAndWrap(0 - bound, Q).wrap)})
MaxWraps == WrapsUpTo(PhaseBound)
Required(bound) == 2 * bound + 1

\* The interval of raw phases with this many wraps.
Interval(wrap) == (Q * wrap - (Q - (Q \div 2) - 1)) .. (Q * wrap + (Q \div 2))
InRange(raw, most) == \E wrap \in (0 - most) .. most : raw \in Interval(wrap)
Classify(raw, most) == CHOOSE wrap \in (0 - most) .. most : raw \in Interval(wrap)
-----------------------------------------------------------------------------
(* Recryption.                                                             *)

\* The raw phase under the target's modulus: the encrypted key times c1, and c0.
EncryptedPhase(p) == PlusMod(Product(Secret, Component(2), p), Component(1), p)
Unfactored(x) == Computed([i \in Indices |-> MulMod(x[i] % T, FactorInverse, T)])
Uncorrected == PlusMod(Product(Secret, Unfactored(Component(2)), T), Unfactored(Component(1)), T)
\* Each wrap has put Q too much into a coefficient.
CarryScalar == (0 - MulMod(Q % T, FactorInverse, T)) % T
CarryCorrection(wraps) == [i \in Indices |-> MulMod(CarryScalar, wraps[i] % T, T)]
Corrected(wraps) == PlusMod(Uncorrected, CarryCorrection(wraps), T)
\* What a holder of the key would correct by.
WrapsOf(raw) == [i \in Indices |-> CentredAndWrap(raw[i], Q).wrap]
TrueWraps == WrapsOf(RawPhase)
-----------------------------------------------------------------------------
(* From residues of the raw phase.                                         *)
AuxProduct(aux) ==
  LET product[j \in 0 .. Len(aux)] == IF j = 0 THEN 1 ELSE product[j - 1] * aux[j]
  IN  product[Len(aux)]
PlanAccepted(aux) == AuxProduct(aux) > Required(PhaseBound)
RECURSIVE SelectedFrom(_, _)
SelectedFrom(start, product) ==
  IF product > Required(PhaseBound) THEN <<>>
  ELSE LET m == PrevNttPrime(start, 2 * N)
       IN  <<m>> \o (IF m = Failed THEN <<>> ELSE SelectedFrom(Max({m - 2 * N, 0}), product * m))
SelectAuxiliary == SelectedFrom(2 ^ AuxiliaryBits - 1, 1)

ResiduesOf(raw, aux) == [i \in Indices |-> [j \in DOMAIN aux |-> raw[i] % aux[j]]]
CrtTerm(residue, punctured, m, product) ==
  (((punctured * ModInverse(punctured % m, m)) % product) * (residue % m)) % product
ReconstructedBelow(residues, aux, product) ==
  CentredMod(Total([j \in DOMAIN aux |-> CrtTerm(residues[j], product \div aux[j], aux[j], product)]), product)
Reconstructed(residues, aux) == ReconstructedBelow(residues, aux, AuxProduct(aux))
ClassifiedResidues(residues, aux, most) ==
  [i \in Indices |-> Classify(Reconstructed(residues[i], aux), most)]
WrapsFromResidues(residues, aux) == ClassifiedResidues(residues, aux, MaxWraps)

\* From the raw phase, what turns it into the plaintext, modulo another modulus.
SourcePlaintext(raw) == MulMod(CentredAndWrap(raw, Q).residue % T, FactorInverse, T)
SwitchCorrection(raw, p) == (SourcePlaintext(raw) - raw) % p
-----------------------------------------------------------------------------
(* Polynomials through given points, f: point -> value, modulo p.          *)
TimesRoot(poly, x, p) ==
  [d \in 0 .. Cardinality(DOMAIN poly) |->
     ((IF d > 0 THEN poly[d - 1] ELSE 0) - x * (IF d \in DOMAIN poly THEN poly[d] ELSE 0)) % p]
Degrees(poly) == Cardinality(DOMAIN poly)
ValueAt(poly, x, p) ==
  LET value[d \in 0 .. Degrees(poly)] == IF d = Degrees(poly) THEN 0 ELSE (value[d + 1] * x + poly[d]) % p
  IN  value[0]
RECURSIVE Vanishing(_, _)
Vanishing(points, p) ==
  IF points = {} THEN [d \in {0} |-> 1]
  ELSE LET x == CHOOSE x \in points : TRUE IN Computed(TimesRoot(Vanishing(points \ {x}, p), x, p))
\* Every root but x.
Basis(all, x, n, p) ==
  LET b[d \in 0 .. n - 1] == IF d = n - 1 THEN 1 ELSE (all[d + 1] + x * b[d + 1]) % p
  IN  Computed([d \in 0 .. n - 1 |-> b[d]])
ScaledTo(basis, x, value, p) ==
  LET scale == MulMod(value % p, ModInverse(ValueAt(basis, x, p), p), p)
  IN  [d \in DOMAIN basis |-> MulMod(basis[d], scale, p)]
Terms(f, all, p) == Computed([x \in DOMAIN f |-> ScaledTo(Basis(all, x, Degrees(f), p), x, f[x], p)])
SumOfTerms(terms, n, p) ==
  Computed([d \in 0 .. n - 1 |-> Total([x \in DOMAIN terms |-> terms[x][d]]) % p])
Interpolated(f, p) == SumOfTerms(Terms(f, Vanishing(DOMAIN f, p), p), Degrees(f), p)

Coverage(p) == p <= MaxPoints /\ p > Required(PhaseBound)
\* Right on the phases within the bound, and nothing elsewhere.
Phases == (0 - PhaseBound) .. PhaseBound
LookupAt(values, v, p) == IF v \in DOMAIN values THEN values[v] % p ELSE 0
LookupOf(values, p) == Interpolated(Computed([r \in 0 .. p - 1 |-> LookupAt(values, CentredMod(r, p), p)]), p)
Lookup(values, p) == LookupOf(Computed(values), p)
ClassifierUpTo(most, p) == Lookup([v \in Phases |-> Classify(v, most)], p)
WrapClassifier(p) == ClassifierUpTo(MaxWraps, p)
ResidueBridge(m, p) == Lookup([v \in Phases |-> v % m], p)
DecodePolynomial(p) == Lookup([v \in Phases |-> SourcePlaintext(v)], p)
CarryPolynomial(most) ==
  Interpolated([x \in {wrap % T : wrap \in (0 - most) .. most} |->
                  MulMod((0 - CentredMod(x, T)) % T, MulMod(Q % T, FactorInverse, T), T)], T)

\* Looked up in the integers, with centred coefficients, it may differ.
LiftedAt(poly, x, p) ==
  LET value[d \in 0 .. Degrees(poly)] ==
        IF d = Degrees(poly) THEN 0 ELSE (value[d + 1] * x + CentredMod(poly[d], p)) % T
  IN  value[0]
LiftedValue(poly, r, p) == LiftedAt(poly, CentredMod(r, p), p)
LiftCorrection(poly, p) ==
  Interpolated(Computed([r \in 0 .. p - 1 |-> (ValueAt(poly, r, p) - LiftedValue(poly, r, p)) % T]), p)
-----------------------------------------------------------------------------
(* Under encryption: slots, and their linear maps.                         *)
Unit(c) == [i \in Indices |-> IF i = c THEN 1 ELSE 0]
Columns(columns) == [row \in Indices |-> [c \in Indices |-> columns[c][row]]]
CoefficientsToSlots(p) == Columns(Computed([c \in Indices |-> Scheme(p)!Encode(Unit(c))]))
SlotsToCoefficients(p) == Columns(Computed([c \in Indices |-> Scheme(p)!Decode(Unit(c))]))
MappedSlots(slots, matrix, p) == [row \in Indices |-> Total([c \in Indices |-> matrix[row][c] * slots[c]]) % p]
Mapped(x, matrix, p) == Scheme(p)!Encode(Computed(MappedSlots(Scheme(p)!Decode(x), matrix, p)))
EvaluatedSlots(slots, poly, p) == [i \in Indices |-> ValueAt(poly, slots[i], p)]
EvaluatedOn(x, poly, p) == Scheme(p)!Encode(Computed(EvaluatedSlots(Scheme(p)!Decode(x), poly, p)))

PhaseSlots(p) == Mapped(EncryptedPhase(p), CoefficientsToSlots(p), p)
Refreshed(p) == Mapped(EvaluatedOn(PhaseSlots(p), DecodePolynomial(p), p), SlotsToCoefficients(p), p)

\* 1 on the residue, 0 on the others.
Indicator(residue, m, p) == Interpolated([r \in 0 .. m - 1 |-> IF r = residue THEN 1 ELSE 0], p)
Tuples(aux) == {r \in [DOMAIN aux -> 0 .. Max(ToSet(aux))] : \A j \in DOMAIN aux : r[j] < aux[j]}
\* The sum, over the tuples of residues that matter, of their indicators.
Indicators(aux, p) == [j \in DOMAIN aux |-> [r \in 0 .. aux[j] - 1 |-> Indicator(r, aux[j], p)]]
Hit(r, at, indicators, p) ==
  LET acc[j \in 0 .. Len(r)] == IF j = 0 THEN 1 ELSE (acc[j - 1] * ValueAt(indicators[j][r[j]], at[j], p)) % p
  IN  acc[Len(r)]
TuplesAt(weights, at, indicators, p) ==
  Total([r \in {r \in DOMAIN weights : weights[r] # 0} |-> (Hit(r, at, indicators, p) * (weights[r] % p)) % p]) % p
TuplesIn(weights, slots, indicators, p) ==
  [i \in Indices |-> TuplesAt(weights, [j \in DOMAIN slots |-> slots[j][i]], indicators, p)]
ClassifiedByTuples(residueSlots, aux, weights, p) ==
  Scheme(p)!Encode(Computed(
    TuplesIn(Computed(weights), Computed([j \in DOMAIN aux |-> Scheme(p)!Decode(residueSlots[j])]),
             Computed(Indicators(aux, p)), p)))
TuplesAccepted(aux, p) == AuxProduct(aux) <= MaxPoints /\ \A j \in DOMAIN aux : p > aux[j]
\* No tuple may stand for a phase outside the plan's intervals, even one that
\* no phase within the bound has.
WrapTermsExist(aux, most) == \A r \in Tuples(aux) : InRange(Reconstructed(r, aux), most)
ResidueSlots(aux, p) ==
  [j \in DOMAIN aux |-> EvaluatedOn(PhaseSlots(p), ResidueBridge(aux[j], p), p)]

\* The modulus to look phases up in, at least as large as the source's, if any.
FusionFor(required, p) == IF required >= MaxPoints \/ p > MaxPoints THEN {} ELSE {p}
FusionAbove(required) ==
  FusionFor(required, IF T > required THEN T ELSE NextNttPrime(Max({T, required + 1, 2 * N + 1}), 2 * N))
FusionModulus == FusionAbove(Required(PhaseBound))
-----------------------------------------------------------------------------
(* Bridges: the ciphertext itself, read under the plaintext modulus t.     *)
Unscaled(values, inverse, t) == Computed([i \in Indices |-> MulMod(values[i] % t, inverse, t)])
ReadAs(ct, t) == Unscaled(Centred(Scheme(t)!Phase(ct)), ModInverse(ct.factor % t, t), t)
FactorCompatible(t) == ModInverse(cipher.factor % t, t) # Failed
Reread(ct, t) == [ct EXCEPT !.factor = @ % t, !.degree = 1]
NoiseVanishes(t) == T % t = 0
\* What is missing, when it is read as it is.
ReducedTo(values, t) == [i \in Indices |-> values[i] % t]
NoiseCorrection(t) == MinusMod(ReducedTo(ReadAs(cipher, T), t), ReadAs(Reread(cipher, t), t), t)

\* A multiple of the fusion modulus that is the correction modulo t.
LiftScalar(t, factor) ==
  MulMod(MulMod(cipher.factor % t, ModInverse(T % t, t), t), ModInverse(factor % t, t), t)
LiftedLimbs(x, correction, lift) ==
  [m \in Chain |-> [i \in Indices |-> (x[m][i] + MulMod(T % m, MulMod(lift % m, correction[i] % m, m), m)) % m]]
WithPlainLift(correction, t) ==
  [cipher EXCEPT !.polys = [@ EXCEPT ![1] = LiftedLimbs(@, correction, LiftScalar(t, 1))]]
AddedTimes(x, y, scalar) ==
  [m \in Chain |-> [i \in Indices |-> (x[m][i] + MulMod(y[m][i], MulMod(T % m, scalar % m, m), m)) % m]]
WithEncryptedLift(encrypted, t) ==
  [cipher EXCEPT
     !.polys = [k \in {1, 2} |-> AddedTimes(@[k], encrypted.polys[k], LiftScalar(t, encrypted.factor))],
     !.degree = Max({@, encrypted.degree})]
\* Noise that vanishes modulo both.
CommonScalar(t) == (T \div Gcd(t, T)) * t
\* A ciphertext with the source's moduli, of coefficients below p.
Below(zero, x) == <<Backward(AddPoly(zero[1], Forward(x))), Backward(zero[2])>>
Encrypted(values, p, scalar, seed) ==
  Scheme(p)!DropTo(
    Scheme(p)!Wrap(Below(EncryptZeroScaled(sk[1], ToSet(source.moduli), scalar, seed, 400),
                         Scheme(p)!Lift(values, Len(source.moduli))),
                   Len(source.moduli), 1, 0),
    cipher.limbs)
-----------------------------------------------------------------------------
Nothing == [what |-> "nothing"]
\* A ciphertext that can still be read, after its moduli were dropped.
Init ==
  /\ source \in Sources
  /\ outcome = Nothing
  /\ message = Scheme(source.t)!Encode(Values)
  /\ \E seed \in Seeds : \E s \in {SecretKey(ToSet(source.moduli), seed)} :
       /\ sk = <<s, s>>
       /\ cipher = Scheme(source.t)!ModSwitchTo(
                     Scheme(source.t)!Wrap(
                       Below(EncryptZeroScaled(s, ToSet(source.moduli), source.scalar, seed, 20),
                             Scheme(source.t)!Lift(message, Len(source.moduli))),
                       Len(source.moduli), 1, 0),
                     source.limbs)
  /\ Scheme(source.t)!Decrypt(cipher) = [i \in Indices |-> Values[i] % source.t]
-----------------------------------------------------------------------------
Give(what, modulus, values) == outcome' = [what |-> what, modulus |-> modulus, values |-> values]
Refuse(why) == outcome' = [what |-> "refused", why |-> why]
Residues(aux) == ResiduesOf(RawPhase, aux)

PhaseMod(p) == Give("phase", p, EncryptedPhase(p))
RecryptWithWraps == Give("plaintext", T, Corrected(TrueWraps))
RecryptWithResidues(aux) ==
  IF PlanAccepted(aux) THEN Give("plaintext", T, Corrected(WrapsFromResidues(Residues(aux), aux)))
  ELSE Refuse("product too small")
\* The carry as a polynomial of the wraps, in the slots.
CarriedBy(polynomial, wraps) == [i \in Indices |-> ValueAt(polynomial, wraps[i] % T, T)]
RecryptWithCarry ==
  IF 2 * MaxWraps + 1 > T THEN Refuse("bound too large")
  ELSE Give("plaintext", T, PlusMod(Uncorrected, CarriedBy(CarryPolynomial(MaxWraps), TrueWraps), T))

ClassifyWraps(p) ==
  IF Coverage(p) THEN Give("wraps", p, EvaluatedOn(PhaseSlots(p), WrapClassifier(p), p))
  ELSE Refuse("coverage")
WrapTerms(aux, most) == [r \in Tuples(aux) |-> Classify(Reconstructed(r, aux), most)]
SwitchTerms(aux, t) == [r \in Tuples(aux) |-> SwitchCorrection(Reconstructed(r, aux), t)]
ByTuples(aux, p, weights) == ClassifiedByTuples(ResidueSlots(aux, p), aux, weights, p)
ClassifyByTuples(aux, p) ==
  /\ PlanAccepted(aux) /\ Coverage(p)
  /\ \E most \in {MaxWraps} :
       IF TuplesAccepted(aux, p) /\ WrapTermsExist(aux, most)
       THEN Give("wraps", p, ByTuples(aux, p, WrapTerms(aux, most)))
       ELSE Refuse("tuples")
FusionRefresh(p) ==
  IF Coverage(p) /\ p >= T THEN Give("fused", p, Refreshed(p)) ELSE Refuse("coverage")
\* The polynomial, lifted to the integers, and the correction of the lift.
LiftedAndCorrected(decode, correction, raw, p) ==
  [i \in Indices |-> (LiftedValue(decode, raw[i] % p, p) + ValueAt(correction, raw[i] % p, p)) % T]
LiftedDecode(p) ==
  /\ Coverage(p) /\ p >= T
  /\ \E decode \in {DecodePolynomial(p)} :
       Give("lifted", T, Computed(LiftedAndCorrected(decode, LiftCorrection(decode, p), RawPhase, p)))

SwitchCorrections(residues, aux, t) ==
  [i \in Indices |-> SwitchCorrection(Reconstructed(residues[i], aux), t)]
SwitchModulus(aux, t) ==
  /\ PlanAccepted(aux)
  /\ Give("switched", t, PlusMod(EncryptedPhase(t), SwitchCorrections(Residues(aux), aux, t), t))
\* With p above t, the correction modulo t is added modulo p.
SwitchBySlots(aux, t, p) ==
  /\ PlanAccepted(aux) /\ Coverage(p)
  /\ IF TuplesAccepted(aux, p) /\ p >= t
     THEN Give(IF p = t THEN "switched" ELSE "mixed", p,
               PlusMod(EncryptedPhase(p), Mapped(ByTuples(aux, p, SwitchTerms(aux, t)), SlotsToCoefficients(p), p), p))
     ELSE Refuse("tuples")

\* Whether a phase with the correction on it is still below Q.
FarFromHalf(phase, added) == \A i \in Indices : 2 * (Abs(phase[i]) + added) < Q
StaysBelow(ct, added) == FarFromHalf(Centred(Scheme(T)!Phase(ct)), added)
Read(ct, t) == Give("bridged", t, ReadAs(ct, t))
BridgeAsItIs(t) ==
  IF FactorCompatible(t) /\ NoiseVanishes(t) THEN Read(Reread(cipher, t), t) ELSE Refuse("noise")
BridgeWithPlaintext(t) ==
  /\ FactorCompatible(t) /\ StaysBelow(cipher, t)
  /\ Read(Scheme(t)!AddPlain(Reread(cipher, t), NoiseCorrection(t), FALSE), t)
BridgeWithEncrypted(t, seed) ==
  /\ FactorCompatible(t) /\ StaysBelow(cipher, 2 * t * t)
  /\ Read(Scheme(t)!AddBgv(Reread(cipher, t), Encrypted(NoiseCorrection(t), t, t, seed)), t)
\* The lift leaves what the ciphertext says under its own modulus.
BridgeWithPlainLift(t) ==
  /\ FactorCompatible(t) /\ ModInverse(T % t, t) # Failed /\ StaysBelow(cipher, T * t * t)
  /\ \E lifted \in {WithPlainLift(NoiseCorrection(t), t)} :
       /\ ReadAs(lifted, T) = ReadAs(cipher, T)
       /\ Read(Reread(lifted, t), t)
BridgeWithEncryptedLift(t, scalar, seed) ==
  /\ FactorCompatible(t) /\ ModInverse(T % t, t) # Failed
  /\ StaysBelow(cipher, T * t * (t + scalar * (N + 1)))
  /\ Give(IF scalar % t = 0 THEN "bridged" ELSE "mixed", t,
          ReadAs(Reread(WithEncryptedLift(Encrypted(NoiseCorrection(t), T, scalar, seed), t), t), t))
RecryptBridged(t) ==
  Give("switched", t,
       PlusMod(EncryptedPhase(t), MinusMod(ReducedTo(ReadAs(cipher, T), t), RawPhase, t), t))

Recryptions ==
  \/ \E p \in Fusions \union Targets : PhaseMod(p)
  \/ RecryptWithWraps \/ RecryptWithCarry
  \/ \E aux \in Auxiliaries \union {SelectAuxiliary} :
       \/ RecryptWithResidues(aux)
       \/ \E t \in Targets : SwitchModulus(aux, t)
Lookups ==
  \E p \in Fusions \union FusionModulus :
    \/ ClassifyWraps(p) \/ FusionRefresh(p) \/ LiftedDecode(p)
    \/ \E aux \in Auxiliaries :
         ClassifyByTuples(aux, p) \/ \E t \in Targets \union {p} : SwitchBySlots(aux, t, p)
Bridges ==
  \E t \in Targets :
    \/ BridgeAsItIs(t) \/ BridgeWithPlaintext(t) \/ BridgeWithPlainLift(t) \/ RecryptBridged(t)
    \/ \E seed \in {7, 8} :
         \/ BridgeWithEncrypted(t, seed)
         \/ \E scalar \in {T, CommonScalar(t)} : BridgeWithEncryptedLift(t, scalar, seed)
Next ==
  /\ UNCHANGED <<source, sk, cipher, message>>
  /\ outcome = Nothing
  /\ Recryptions \/ Lookups \/ Bridges
Spec == Init /\ [][Next]_vars
-----------------------------------------------------------------------------
\* Whichever way the wraps of the raw phase are found, from a key holder, from
\* residues, by a polynomial or by tuples of residues, they are those of the
\* source's own reduction modulo Q, and the recrypted, refreshed, switched or
\* bridged ciphertext has the message the source decrypts to.
Agrees(t) == \A i \in Indices : outcome.values[i] % t = message[i] % t
SlotsAgree(slots, raw, phase, p) == \A i \in Indices : (slots[i] * Q + phase[i] - raw[i]) % p = 0
RecryptsExactly ==
  CASE outcome.what = "phase" ->
         \A raw \in {RawPhase} : \A i \in Indices : outcome.values[i] = raw[i] % outcome.modulus
    [] outcome.what = "wraps" ->
         SlotsAgree(Scheme(outcome.modulus)!Decode(outcome.values), RawPhase,
                    Centred(Scheme(T)!Phase(cipher)), outcome.modulus)
    [] outcome.what \in {"plaintext", "lifted"} -> Agrees(T)
    [] outcome.what = "fused" -> \A i \in Indices : outcome.values[i] = message[i]
    [] outcome.what \in {"switched", "bridged"} -> Agrees(outcome.modulus)
    [] OTHER -> TRUE
=============================================================================
