-------------------------------- MODULE Rlwe --------------------------------
(***************************************************************************)
(* Keys and encryptions of zero over a ring (silent-rlwe, silent-ring).    *)
(* A polynomial is a function from a base to its limbs, a limb a           *)
(* polynomial modulo its modulus.  A ciphertext is the sequence of its     *)
(* polynomials, with the form they are in: coefficients or transforms.     *)
(*                                                                         *)
(* The generator is a function of the place of a draw; any would do.       *)
(* The arithmetic of residues and of transforms is a parameter: RnsTool    *)
(* defines each of its operators under the same name.                      *)
(***************************************************************************)
EXTENDS Integers, Sequences, FiniteSets, FiniteSetsExt, TLC

CONSTANTS
  N,          \* degree of the ring, a power of two
  Tables(_)   \* NttTables(N, m) of a modulus m

\* RnsTool: words, numbers and bases.
CONSTANTS
  Word, AddMod(_, _, _), SubMod(_, _, _), NegMod(_, _), MulMod(_, _, _), ReduceOnce(_, _),
  Lazy(_, _, _), Shoup(_, _, _), Barrett(_, _, _),
  Failed, Gcd(_, _), ModInverse(_, _), ModPow(_, _, _), PrevNttPrime(_, _), NextNttPrime(_, _),
  Total(_), Prod(_), Hat(_, _), HatInv(_, _), Compose(_), Restricted(_, _),
  ApproxSwitch(_, _), SwitchBasis(_, _, _), SwitchBack(_, _, _),
  RoundFloat(_, _, _, _), RoundInDoubleWords(_, _), HpsScale(_, _, _, _, _),
  BehzTables(_, _, _, _), BehzConvert(_, _), BehzMontgomery(_, _), BehzFloor(_, _), BehzBack(_, _)
\* RnsTool: transforms and automorphisms.
CONSTANTS
  NttForward(_, _), NttForwardLazy(_, _), NttInverse(_, _), NttInverseLazy(_, _),
  AutomorphismMap(_, _), ApplyAutomorphism(_, _, _), ApplyGaloisCoeff(_, _, _, _),
  Log(_), ReverseBits(_, _), HasTables(_, _)

\* A function with its values computed.
Computed(f) == IF f = f THEN f ELSE f

Indices == 0 .. N - 1
Draw(seed, place) == ((((seed * 7919 + place * (place * 31 + 1237)) % 30011) * 613) % 65521) \div 3
-----------------------------------------------------------------------------
(* Polynomials.                                                            *)
ZeroPoly(B) == [m \in B |-> [i \in Indices |-> 0]]
AddPoly(x, y) == Computed([m \in DOMAIN x |-> [i \in Indices |-> AddMod(x[m][i], y[m][i], m)]])
SubPoly(x, y) == Computed([m \in DOMAIN x |-> [i \in Indices |-> SubMod(x[m][i], y[m][i], m)]])
MulPoly(x, y) == Computed([m \in DOMAIN x |-> [i \in Indices |-> MulMod(x[m][i], y[m][i], m)]])
MulShoup(x, y) == Computed([m \in DOMAIN x |-> [i \in Indices |-> Shoup(x[m][i], y[m][i], m)]])
NegatePoly(x) == Computed([m \in DOMAIN x |-> [i \in Indices |-> NegMod(x[m][i], m)]])
ScalarPoly(x, c) == Computed([m \in DOMAIN x |-> [i \in Indices |-> MulMod(x[m][i], c % m, m)]])

Forward(x) == Computed([m \in DOMAIN x |-> NttForward(x[m], Tables(m))])
ForwardLazy(x) == Computed([m \in DOMAIN x |-> NttForwardLazy(x[m], Tables(m))])
Backward(x) == Computed([m \in DOMAIN x |-> NttInverse(x[m], Tables(m))])
BackwardLazy(x) == Computed([m \in DOMAIN x |-> NttInverseLazy(x[m], Tables(m))])
Automorphism(x, k) == Computed([m \in DOMAIN x |-> ApplyAutomorphism(x[m], k, N)])
GaloisCoeff(x, k) == Computed([m \in DOMAIN x |-> ApplyGaloisCoeff(x[m], k, N, m)])

\* The residues of a coefficient; and the polynomial of such residues.
CoefficientOf(x, i) == [m \in DOMAIN x |-> x[m][i]]
Together(residues) ==
  LET known == Computed(residues)
  IN  [m \in DOMAIN known[0] |-> [i \in Indices |-> known[i][m]]]
-----------------------------------------------------------------------------
(* Samples: uniform transforms, small coefficients (kept to -1, 0, 1).     *)
Uniform(B, seed, place) ==
  Computed([m \in B |-> [i \in Indices |-> Draw(seed, place * N + i + m) % m]])
Small(B, seed, place) ==
  Computed([m \in B |-> [i \in Indices |-> ((Draw(seed, place * N + i) % 3) - 1) % m]])

SecretKey(B, seed) == Forward(Small(B, seed, 1000))

\* b = -(a * s + e); the error is scaled where the plaintext is kept below it.
MaskedBy(a, s, e) == <<NegatePoly(AddPoly(MulPoly(a, s), e)), a>>
EncryptZero(s, B, seed, place) ==
  MaskedBy(Uniform(B, seed, place), Restricted(s, B), Forward(Small(B, seed, place + 1)))
ScaledBy(ct, c) == [k \in 1 .. 2 |-> ScalarPoly(ct[k], c)]
EncryptZeroScaled(s, B, c, seed, place) == ScaledBy(EncryptZero(s, B, seed, place), c)
WithPublicKey(pk, u, errors) == [k \in 1 .. 2 |-> AddPoly(MulPoly(u, pk[k]), errors[k])]
EncryptZeroPublic(pk, B, c, seed, place) ==
  WithPublicKey(pk, Forward(Small(B, seed, place)),
                [k \in 1 .. 2 |-> ScalarPoly(Forward(Small(B, seed, place + k)), c)])
-----------------------------------------------------------------------------
(* Keys to switch from a key to s, one for each modulus of Q.              *)

\* s modulo qk too, from what its first limb says of the signs.
ExtendKey(s, first, qk) ==
  LET coeff == Backward(s)
      SignedIn(v) == IF v > first \div 2 THEN qk - (first - v) ELSE v
  IN  Forward(coeff @@ [m \in {qk} |-> [i \in Indices |-> SignedIn(coeff[first][i])]])

\* An encryption of zero, to which a multiple of the other key is added.
SwitchMask(s, c, seed, place) ==
  LET a == Uniform(DOMAIN s, seed, place)
      e == Forward(ScalarPoly(Small(DOMAIN s, seed, place + 1), c))
  IN  <<NegatePoly(AddPoly(MulShoup(a, s), e)), a>>
\* The key for digit j: qk times the other key in limb j.
KswitchKey(other, j, mask, qk) ==
  LET Out(i) == AddMod(mask[1][j][i], MulMod(other[j][i], qk % j, j), j)
  IN  <<[mask[1] EXCEPT ![j] = [i \in Indices |-> Out(i)]], mask[2]>>
\* Without qk: what composes digit j times the other key, in every limb.
KswitchKeyHps(other, j, mask) ==
  LET B == DOMAIN mask[1]
      Garner(m) == MulMod(Hat(B, j) % m, HatInv(B, j), m)
      Out(m, i) == AddMod(mask[1][m][i], MulMod(other[m][i], Garner(m), m), m)
  IN  <<[m \in B |-> [i \in Indices |-> Out(m, i)]], mask[2]>>

\* The key as a list, digit by digit, for the moduli in their order.
SwitchKey(other, s, moduli, qk, shape, c, seed, place) ==
  LET under == IF shape = "hps" THEN s ELSE ExtendKey(s, moduli[1], qk)
      masks == [j \in 1 .. Len(moduli) |-> SwitchMask(under, c, seed, place + 10 * j)]
  IN  [j \in 1 .. Len(moduli) |->
         IF shape = "hps" THEN KswitchKeyHps(other, moduli[j], masks[j])
         ELSE KswitchKey(other, moduli[j], masks[j], qk)]
RelinearizationKey(s, moduli, qk, shape, c, seed) ==
  SwitchKey(MulPoly(s, s), s, moduli, qk, shape, c, seed, 200)
GaloisKey(k, s, moduli, qk, shape, c, seed) ==
  SwitchKey(Automorphism(s, k), s, moduli, qk, shape, c, seed, 300 + 100 * k)
=============================================================================
