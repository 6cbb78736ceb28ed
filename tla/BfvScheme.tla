------------------------------ MODULE BfvScheme -----------------------------
(***************************************************************************)
(* The BFV scheme: calls on ciphertexts, and what they decrypt to          *)
(* (silent-fhe schemes/bfv).  A plaintext is held above the noise, times   *)
(* Q / t.  A product is computed in one of four ways, each through another *)
(* base; a product has three polynomials until it is relinearized.         *)
(*                                                                         *)
(* The evaluator keeps a key's precomputed form by the address of the key. *)
(***************************************************************************)
EXTENDS Rlwe

CONSTANTS
  Parameters,   \* records: moduli, t, B, msk, mTilde, R, P, special
  Plaintexts,   \* what is encrypted: slot -> values
  Seeds,        \* each gives the generators other draws
  Forms,        \* which of the first ciphertexts are kept as transforms
  Results,      \* the slots that outcomes are kept in
  Dyadics,      \* the ways to multiply pairs of transforms
  Moves,        \* may a key take the place of one that was used?
  MaxCalls

VARIABLES
  par,
  sk,        \* the secret key
  dyadic,    \* read once
  method,    \* read at every call
  shape,     \* of the keys: made for a method
  keys,      \* address -> [purpose, parts]
  cache,     \* address -> parts, or <<>>
  ciphers,   \* slot -> [polys, ntt]
  meaning,   \* history: slot -> the values of the plaintext's slots
  noise,     \* history: slot -> a bound of the noise
  calls

vars == <<par, sk, dyadic, method, shape, keys, cache, ciphers, meaning, noise, calls>>

Methods == {"hps", "hpspoverq", "leveled", "behz"}
Slots == {1, 2}
Q == {par.moduli[j] : j \in DOMAIN par.moduli}
T == par.t
\* The last of P, unless a modulus is set for the purpose.
KeySwitchModulus == par.special
Unknown == <<>>
-----------------------------------------------------------------------------
(* Encoding, encryption, decryption.                                       *)
Encode(values) == Backward([m \in {T} |-> values])
Decode(plain) == Forward(plain)[T]

\* - (Q mod t) / t, that is floor(Q / t), without the product Q.
Delta == [m \in Q |-> MulMod(NegMod((Prod(Q) % T) % m, m), ModInverse(T % m, m), m)]
Lifted(plain, delta) == [m \in Q |-> [i \in Indices |-> MulMod(plain[i] % m, delta[m], m)]]
AddPlaintext(zero, plain) == <<Backward(AddPoly(zero[1], Forward(plain))), Backward(zero[2])>>
EncryptSymmetric(values, seed, place) ==
  [polys |-> AddPlaintext(EncryptZero(sk, Q, seed, place), Lifted(Encode(values)[T], Delta)), ntt |-> FALSE]

\* The sum of the polynomials times the powers of the key.
Transforms(ct) == IF ct.ntt THEN ct.polys ELSE [k \in DOMAIN ct.polys |-> Forward(ct.polys[k])]
DotKey(x) == AddPoly(x[1], MulPoly(x[2], sk))
Phase(ct) ==
  LET x == Transforms(ct)
  IN  Backward(IF Len(ct.polys) = 2 THEN DotKey(x) ELSE AddPoly(DotKey(x), MulPoly(x[3], MulPoly(sk, sk))))
RoundedPhase(phase, exact) ==
  [m \in {T} |-> [i \in Indices |->
     IF exact THEN RoundInDoubleWords(CoefficientOf(phase, i), T) ELSE RoundFloat(CoefficientOf(phase, i), T, 0, 0)]]
Rounded(ct, exact) == RoundedPhase(Phase(ct), exact)
Decrypt(ct, exact) == Decode(Rounded(ct, exact))
-----------------------------------------------------------------------------
(* The product, divided by Q / t.                                          *)
Coefficients(x, ntt) == IF ntt THEN Backward(x) ELSE x
Transform(x, ntt) == IF ntt THEN x ELSE Forward(x)
DyadicProduct(x, y) == [m \in DOMAIN x |-> [i \in Indices |-> Barrett(x[m][i], y[m][i], m)]]
DyadicProductAdd(acc, x, y) == AddPoly(acc, DyadicProduct(x, y))
\* The three polynomials of a product of pairs of transforms: in one pass, in
\* four, or with three products for four.
CrossProduct(a, b) ==
  [m \in DOMAIN a[1] |-> [i \in Indices |->
     AddMod(Barrett(a[1][m][i], b[2][m][i], m), Barrett(a[2][m][i], b[1][m][i], m), m)]]
Standard(a, b) == <<DyadicProduct(a[1], b[1]), CrossProduct(a, b), DyadicProduct(a[2], b[2])>>
Split(a, b) ==
  <<DyadicProduct(a[1], b[1]),
    DyadicProductAdd(DyadicProduct(a[2], b[1]), a[1], b[2]),
    DyadicProduct(a[2], b[2])>>
BothHalves(x) == [m \in DOMAIN x[1] |-> [i \in Indices |-> ReduceOnce((x[1][m][i] + x[2][m][i]) % Word, 2 * m)]]
Middle(low, both, high) == <<low, SubPoly(SubPoly(both, low), high), high>>
Karatsuba(a, b) ==
  Middle(DyadicProduct(a[1], b[1]), DyadicProduct(BothHalves(a), BothHalves(b)), DyadicProduct(a[2], b[2]))

\* Each way extends a coefficient of an operand to another base and divides a
\* coefficient of the product.
HpsExtendedAt(x) == Together([i \in Indices |-> SwitchBasis(CoefficientOf(x, i), par.R, 0)])
HpsExtended(x, ntt) == Transform(x, ntt) @@ Forward(HpsExtendedAt(Coefficients(x, ntt)))
HpsExtendedPair(ct) == <<HpsExtended(ct.polys[1], ct.ntt), HpsExtended(ct.polys[2], ct.ntt)>>
HpsScaledAt(r) == SwitchBack(HpsScale(r, Q, par.R, T, 0), Q, 0)
HpsScaled(x) == Together([i \in Indices |-> HpsScaledAt(CoefficientOf(x, i))])
HpsProduct(product) == [k \in 1 .. 3 |-> HpsScaled(Backward(product[k]))]
MulHps(a, b) == HpsProduct(Standard(HpsExtendedPair(a), HpsExtendedPair(b)))

\* The left operand is extended exactly; the right one is moved to the other
\* base and back.
PoverqLeftAt(x) == Together([i \in Indices |-> SwitchBasis(CoefficientOf(x, i), par.P, 0)])
PoverqLeft(x, ntt) == Transform(x, ntt) @@ ForwardLazy(PoverqLeftAt(Coefficients(x, ntt)))
InP(x) == Together([i \in Indices |-> ApproxSwitch(CoefficientOf(x, i), par.P)])
BackInQ(inP) == Together([i \in Indices |-> SwitchBack(CoefficientOf(inP, i), Q, 0)])
MovedBack(inP) == Forward(BackInQ(inP)) @@ ForwardLazy(inP)
PoverqRight(x, ntt) == MovedBack(InP(Coefficients(x, ntt)))
\* x = Q * k + (x mod Q): t times k, and x mod Q rounded.
MultiplesOfQ(r, inP) ==
  SwitchBack([p \in par.P |-> MulMod(SubMod(r[p], inP[p], p), ModInverse(Prod(Q) % p, p), p)], Q, 0)
RoundedLow(low) == IF method = "leveled" THEN RoundFloat(low, T, 0, 0) ELSE RoundInDoubleWords(low, T)
WithRounded(multiples, rounded) == [q \in Q |-> AddMod(MulMod(multiples[q], T % q, q), rounded, q)]
PoverqScaledLow(r, low) ==
  WithRounded(MultiplesOfQ(r, SwitchBasis(low, par.P, 0)), RoundedLow(low))
PoverqScaledAt(r) == PoverqScaledLow(r, Restricted(r, Q))
PoverqScaled(x) == Together([i \in Indices |-> PoverqScaledAt(CoefficientOf(x, i))])
PoverqProduct(product) == [k \in 1 .. 3 |-> PoverqScaled(Backward(product[k]))]
MulHpsPoverq(a, b) ==
  PoverqProduct(Standard(<<PoverqLeft(a.polys[1], a.ntt), PoverqLeft(a.polys[2], a.ntt)>>,
                         <<PoverqRight(b.polys[1], b.ntt), PoverqRight(b.polys[2], b.ntt)>>))

BehzExtendedAt(x, tables) ==
  Together([i \in Indices |-> BehzMontgomery(BehzConvert(CoefficientOf(x, i), tables), tables)])
BehzExtended(x, ntt, tables) ==
  (IF ntt THEN x ELSE ForwardLazy(x)) @@ ForwardLazy(BehzExtendedAt(Coefficients(x, ntt), tables))
BehzExtendedPair(ct, tables) ==
  <<BehzExtended(ct.polys[1], ct.ntt, tables), BehzExtended(ct.polys[2], ct.ntt, tables)>>
TimesT(r) == [m \in DOMAIN r |-> Shoup(r[m], T % m, m)]
BehzScaledAt(r, tables) == BehzBack(BehzFloor(TimesT(r), tables), tables)
BehzScaled(x, tables) == Together([i \in Indices |-> BehzScaledAt(CoefficientOf(x, i), tables)])
BehzProduct(left, right) ==
  CASE dyadic = "karatsuba" -> Karatsuba(left, right)
    [] dyadic = "split" -> Split(left, right)
    [] OTHER -> Standard(left, right)
BehzQuotient(product, tables) == [k \in 1 .. 3 |-> BehzScaled(BackwardLazy(product[k]), tables)]
MulBehzWith(a, b, tables) ==
  BehzQuotient(BehzProduct(BehzExtendedPair(a, tables), BehzExtendedPair(b, tables)), tables)
MulBehz(a, b) == MulBehzWith(a, b, BehzTables(Q, par.B, par.msk, par.mTilde))

\* Only the first two polynomials of each are read.
Multiplied(a, b) ==
  [polys |-> CASE method = "hps" -> MulHps(a, b)
               [] method = "behz" -> MulBehz(a, b)
               [] OTHER -> MulHpsPoverq(a, b),
   ntt |-> FALSE]
-----------------------------------------------------------------------------
(* Switching to the key sk: each limb of x is a digit.  The reference does *)
(* the same with all residues reduced.                                     *)
Whole(x, ntt, strict) == CASE ~ntt -> x [] ntt /\ strict -> Backward(x) [] OTHER -> BackwardLazy(x)
DigitIn(whole, j, m) == IF j <= m THEN whole[j] ELSE [i \in Indices |-> whole[j][i] % m]
Digit(x, whole, ntt, j, m, strict) ==
  CASE m = j /\ ntt -> x[j]
    [] strict /\ (m # j \/ ~ntt) -> NttForward(DigitIn(whole, j, m), Tables(m))
    [] OTHER -> NttForwardLazy(DigitIn(whole, j, m), Tables(m))
Digits(x, whole, B, ntt, strict) ==
  Computed([m \in B |-> [j \in DOMAIN par.moduli |-> Digit(x, whole, ntt, par.moduli[j], m, strict)]])
\* The digits, in a limb, times component k of the parts of the key.
DigitTerm(digit, word, m, strict) == IF strict THEN MulMod(digit, word, m) ELSE Lazy(digit, word, m)
SumOfDigits(digit, parts, k, m, strict) ==
  [i \in Indices |->
     Total([j \in DOMAIN parts |-> DigitTerm(digit[j][i], parts[j][k][m][i], m, strict)]) % m]

\* Rounded division by the switching modulus, added to acc.
HalfAdded(lazy, qk) == [i \in Indices |-> ReduceOnce(ReduceOnce(lazy[i], qk) + qk \div 2, qk)]
Fixed(last, qk, m, strict) ==
  [i \in Indices |->
     (IF strict THEN ReduceOnce((last[i] % m) + m - ((qk \div 2) % m), m)
      ELSE (last[i] % m) + m - ((qk \div 2) % m))]
Difference(v, fixed, m, reduced) ==
  IF reduced THEN SubMod(v, fixed, m) ELSE ReduceOnce(v + 2 * m - fixed, 2 * m)
AddQuotient(acc, v, qk, m) == ReduceOnce(ReduceOnce(acc + Lazy(v, ModInverse(qk % m, m), m), 2 * m), m)
ModDownLimb(x, fixed, acc, qk, m, reduced) ==
  [i \in Indices |-> AddQuotient(acc[i], Difference(x[i], fixed[i], m, reduced), qk, m)]
ModDownIn(limb, fixed, acc, qk, m, ntt, strict) ==
  CASE ntt -> ModDownLimb(limb, NttForward(fixed, Tables(m)), acc, qk, m, TRUE)
    [] ~ntt /\ strict -> ModDownLimb(NttInverse(limb, Tables(m)), fixed, acc, qk, m, TRUE)
    [] OTHER -> ModDownLimb(NttInverseLazy(limb, Tables(m)), fixed, acc, qk, m, FALSE)
ModDownFrom(prod, last, acc, qk, ntt, strict) ==
  Computed([m \in Q |-> ModDownIn(prod[m], Fixed(last, qk, m, strict), acc[m], qk, m, ntt, strict)])
ModDownAdd(prod, acc, qk, ntt, strict) ==
  ModDownFrom(prod, HalfAdded(NttInverseLazy(prod[qk], Tables(qk)), qk), acc, qk, ntt, strict)
ProductWith(digit, parts, k, strict) ==
  Computed([m \in DOMAIN digit |-> SumOfDigits(digit[m], parts, k, m, strict)])
SwitchRnsWith(digit, parts, acc, ntt, strict) ==
  [k \in 1 .. 2 |-> ModDownAdd(ProductWith(digit, parts, k, strict), acc[k], KeySwitchModulus, ntt, strict)]
SwitchRns(x, parts, acc, ntt, strict) ==
  SwitchRnsWith(Digits(x, Whole(x, ntt, strict), Q \union {KeySwitchModulus}, ntt, strict), parts, acc, ntt, strict)

SwitchHpsWith(digit, parts, acc, ntt) ==
  [k \in 1 .. 2 |->
     IF ntt THEN AddPoly(acc[k], ProductWith(digit, parts, k, FALSE))
     ELSE Backward(AddPoly(acc[k], ProductWith(digit, parts, k, FALSE)))]
HpsDigit(x, whole, ntt, j, m) ==
  IF ntt /\ j = m THEN x[j]
  ELSE NttForwardLazy(IF ~ntt /\ j <= m THEN whole[j] ELSE [i \in Indices |-> whole[j][i] % m], Tables(m))
HpsDigits(x, whole, ntt) ==
  Computed([m \in Q |-> [j \in DOMAIN par.moduli |-> HpsDigit(x, whole, ntt, par.moduli[j], m)]])
SwitchHps(x, parts, acc, ntt) ==
  SwitchHpsWith(HpsDigits(x, Whole(x, ntt, FALSE), ntt), parts, acc, ntt)

\* Keys for one way to switch are refused by the other.
Accepted == (method = "hps") = (shape = "hps")
\* What the key at an address was when it was first used from there.
Parts(address) == IF cache[address] # <<>> THEN cache[address] ELSE keys[address].parts
Zeros == <<ZeroPoly(Q), ZeroPoly(Q)>>
SwitchedFrom(x, address, from, ntt) ==
  IF shape = "hps" THEN SwitchHps(x, Parts(address), from, ntt)
  ELSE SwitchRns(x, Parts(address), from, ntt, FALSE)
AddPair(x, y) == <<AddPoly(x[1], y[1]), AddPoly(x[2], y[2])>>
\* A switched ciphertext; coefficients are switched on their own, and added.
Switched2(x, address, acc, ntt) ==
  [polys |-> IF ntt THEN SwitchedFrom(x, address, acc, ntt) ELSE AddPair(acc, SwitchedFrom(x, address, Zeros, ntt)),
   ntt |-> ntt]
\* The check of a switch, if it is asked for.
Verified(x, address, ntt) ==
  SwitchRns(x, Parts(address), Zeros, ntt, TRUE) = SwitchRns(x, Parts(address), Zeros, ntt, FALSE)
-----------------------------------------------------------------------------
(* Bounds of the noise, in the phase less Q / t times the plaintext.       *)
Size == Cardinality(Q)
FreshNoise == 1 + T
ProductNoise(a, b) == N * T * (1 + (1 + N) * Size) * (a + b) + (Size + 1) * (1 + N + N * N)
SwitchedDigits == Size * N * 2 * Max(Q)
SwitchNoise == IF shape = "hps" THEN SwitchedDigits ELSE (SwitchedDigits \div KeySwitchModulus) + 2 + N
Readable(k) == 2 * T * noise[k] < Prod(Q)
-----------------------------------------------------------------------------
KeyFor(purpose, seed) ==
  [purpose |-> purpose,
   parts |-> IF purpose = 0 THEN RelinearizationKey(sk, par.moduli, KeySwitchModulus, shape, 1, seed)
             ELSE GaloisKey(purpose, sk, par.moduli, KeySwitchModulus, shape, 1, seed)]

Kept(ct, ntt) ==
  IF ntt THEN [polys |-> <<Forward(ct.polys[1]), Forward(ct.polys[2])>>, ntt |-> TRUE] ELSE ct
Init ==
  /\ par \in Parameters
  /\ dyadic \in Dyadics
  /\ method \in Methods /\ (dyadic # "standard" => method = "behz")
  /\ shape \in {"hps", "qk"} /\ (shape = "hps" => method = "hps")
  /\ \E seed \in Seeds :
       /\ sk = SecretKey(Q, seed)
       /\ keys = [a \in {1, 2} |-> KeyFor(IF a = 1 THEN 0 ELSE 3, seed)]
       /\ \E values \in Plaintexts, ntt \in Forms :
            /\ ciphers = [k \in Slots |-> Kept(EncryptSymmetric(values[k], seed, 10 * k), ntt[k])]
            /\ meaning = values
  /\ cache = [a \in {1, 2} |-> <<>>]
  /\ noise = [k \in Slots |-> FreshNoise]
  /\ calls = 0

\* The outcome of a call takes the place of its first operand.
Call == calls < MaxCalls /\ calls' = calls + 1
Store(k, ct, values, bound) ==
  /\ ciphers' = [ciphers EXCEPT ![k] = ct]
  /\ meaning' = [meaning EXCEPT ![k] = values]
  /\ noise' = [noise EXCEPT ![k] = bound]
Known(ks) == \A k \in ks : meaning[k] # Unknown
\* What the slots of two operands make, if that is known.
Combined(x, y, how) == CASE how = "add" -> x + y [] how = "sub" -> x - y [] OTHER -> x * y
BySlot(a, b, how, known) ==
  IF known /\ Known({a, b}) THEN Computed([i \in Indices |-> Combined(meaning[a][i], meaning[b][i], how) % T])
  ELSE Unknown

\* The polynomials the second operand lacks stay; those the first lacks are lost.
AddCiphersSame(x, y, ntt, how) ==
  [k \in DOMAIN x |->
     Coefficients(CASE k > Len(y) -> x[k]
                    [] k <= Len(y) /\ how = "add" -> AddPoly(x[k], y[k])
                    [] OTHER -> SubPoly(x[k], y[k]), ntt)]
SameForm(ct, same) ==
  IF same THEN ct.polys ELSE [k \in DOMAIN ct.polys |-> Coefficients(ct.polys[k], ct.ntt)]
AddCiphers(a, b, how) ==
  [polys |-> AddCiphersSame(SameForm(a, a.ntt = b.ntt), SameForm(b, a.ntt = b.ntt), a.ntt /\ b.ntt, how),
   ntt |-> FALSE]
Linear(a, b, how) ==
  /\ Call
  /\ Store(a, AddCiphers(ciphers[a], ciphers[b], how),
           BySlot(a, b, how, Len(ciphers[b].polys) <= Len(ciphers[a].polys)), noise[a] + noise[b])
  /\ UNCHANGED cache
Add(a, b) == Linear(a, b, "add")
Sub(a, b) == Linear(a, b, "sub")

IsPair(k) == Len(ciphers[k].polys) = 2
Mul(a, b) ==
  /\ Call
  /\ Readable(a) /\ Readable(b)
  /\ Store(a, Multiplied(ciphers[a], ciphers[b]), BySlot(a, b, "mul", IsPair(a) /\ IsPair(b)),
           ProductNoise(noise[a], noise[b]))
  /\ UNCHANGED cache

\* Anything but a product is returned as it is.
Relinearize(a, address) ==
  /\ Call
  /\ keys[address].purpose = 0
  /\ LET ct == ciphers[a]
     IN  IF Len(ct.polys) # 3
         THEN Store(a, ct, meaning[a], noise[a]) /\ UNCHANGED cache
         ELSE /\ Accepted
              /\ Store(a, Switched2(ct.polys[3], address, <<ct.polys[1], ct.polys[2]>>, ct.ntt),
                       meaning[a], noise[a] + SwitchNoise)
              /\ cache' = [cache EXCEPT ![address] = Parts(address)]

\* A product is returned as it is, not rotated.
RotatedBy(x, y, address) ==
  Switched2(GaloisCoeff(y, keys[address].purpose), address,
            <<GaloisCoeff(x, keys[address].purpose), ZeroPoly(Q)>>, FALSE)
Moved(values, map) == Computed([i \in Indices |-> values[map[i]]])
Rotate(a, address) ==
  LET ct == ciphers[a]
  IN  /\ Call
      /\ keys[address].purpose # 0
      /\ IF Len(ct.polys) # 2
         THEN Store(a, ct, Unknown, noise[a]) /\ UNCHANGED cache
         ELSE /\ Accepted
              /\ Store(a, RotatedBy(Coefficients(ct.polys[1], ct.ntt), Coefficients(ct.polys[2], ct.ntt), address),
                       IF Known({a}) THEN Moved(meaning[a], AutomorphismMap(keys[address].purpose, N)) ELSE Unknown,
                       noise[a] + SwitchNoise)
              /\ cache' = [cache EXCEPT ![address] = Parts(address)]

\* The environment names another way to multiply.
Reconfigure ==
  /\ Call
  /\ method' \in Methods
  /\ UNCHANGED <<cache, ciphers, meaning, noise, keys>>

\* A key is dropped and another is put where it was: one that was used by this
\* evaluator, or only one that was not.
Rekey(address, purpose) ==
  /\ Moves \/ cache[address] = <<>>
  /\ Call
  /\ keys' = [keys EXCEPT ![address] = KeyFor(purpose, 7)]
  /\ UNCHANGED <<cache, ciphers, meaning, noise, method>>

Next ==
  /\ UNCHANGED <<par, sk, dyadic, shape>>
  /\ \/ /\ UNCHANGED <<keys, method>>
        /\ \E a \in Results :
             \/ \E b \in Slots : Add(a, b) \/ Sub(a, b) \/ Mul(a, b)
             \/ \E address \in DOMAIN keys : Relinearize(a, address) \/ Rotate(a, address)
     \/ Reconfigure
     \/ \E address \in DOMAIN keys, purpose \in {0, 3} : Rekey(address, purpose)
Spec == Init /\ [][Next]_vars
-----------------------------------------------------------------------------
\* Whatever calls are strung together, on coefficients or transforms, a
\* ciphertext decrypts, read either way, to what they make of the plaintexts, as
\* long as its noise is within the bound and the calls lost no polynomial; and a
\* switch of coefficients passes its check.
DecryptsToMeaning ==
  /\ \A k \in Slots :
       meaning[k] # Unknown /\ Readable(k) =>
         \A exact \in BOOLEAN : Decrypt(ciphers[k], exact) = meaning[k]
  /\ \A k \in Slots :
       shape = "qk" /\ ~ciphers[k].ntt /\ Len(ciphers[k].polys) = 3 => Verified(ciphers[k].polys[3], 1, FALSE)
=============================================================================
