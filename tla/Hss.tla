--------------------------------- MODULE Hss --------------------------------
(***************************************************************************)
(* Homomorphic secret sharing from ring-LWE (silent-hss).  Two servers     *)
(* hold shares of (1, s).  An input m is encrypted twice, as m and as      *)
(* m * s; a number y in memory is a pair of shares of (y, y * s), and a    *)
(* server multiplies its share by an input alone: an inner product,        *)
(* rounded to the plaintext modulus p and lifted again.                    *)
(*                                                                         *)
(* A share is the pair of its polynomials; a key share's are transforms, a *)
(* memory share's coefficients.  An input is a record of two ciphertexts,  *)
(* in transforms.                                                          *)
(***************************************************************************)
EXTENDS Rlwe, SequencesExt

Refused == <<>>
Servers == {0, 1}
-----------------------------------------------------------------------------
(* Plaintexts: values in slots, in the order of the powers of 3.           *)
Position(i) == (3 ^ i) % (2 * N)
MatrixIndexAt(i) ==
  LET row == N \div 2
  IN  ReverseBits((IF i < row THEN Position(i) - 1 ELSE 2 * N - Position(i - row) - 1) \div 2, Log(N))
MatrixIndex == [i \in Indices |-> MatrixIndexAt(i)]
\* What is not given is 0; what is too much is left out.
Padded(values, i) == IF i < Len(values) THEN values[i + 1] ELSE 0
Encode(values, p) ==
  Backward([m \in {p} |-> [c \in Indices |-> Padded(values, CHOOSE i \in Indices : MatrixIndex[i] = c)]])
InOrder(slots) == [i \in 1 .. N |-> slots[MatrixIndex[i - 1]]]
Decode(plain, p) == InOrder(Forward(plain)[p])
-----------------------------------------------------------------------------
(* Encryption under the public key; the second ciphertext has the message  *)
(* in the polynomial that decryption multiplies by s.                      *)
Delta(B, p) == [m \in B |-> (Prod(B) \div p) % m]
Lifted(coeffs, B) == [m \in B |-> [i \in Indices |-> coeffs[i] % m]]
TimesDelta(x, p) == MulPoly(x, [m \in DOMAIN x |-> [i \in Indices |-> Delta(DOMAIN x, p)[m]]])
ConstantMessage(value, B, p) == TimesDelta(Lifted([i \in Indices |-> value], B), p)
LiftMessage(plain, B, p) == Forward(TimesDelta(Lifted(plain[p], B), p))
AddedTo(zero, k, message) == [zero EXCEPT ![k] = AddPoly(@, message)]
Encrypted(pk, message, B, seed, place) ==
  LET zeros == [k \in 1 .. 2 |-> EncryptZeroPublic(pk, B, 1, seed, place + 3 * (k - 1))]
  IN  [m |-> AddedTo(zeros[1], 1, message), ms |-> AddedTo(zeros[2], 2, message)]
EncryptConstant(pk, value, B, p, seed, place) == Encrypted(pk, ConstantMessage(value, B, p), B, seed, place)
EncryptPoly(pk, plain, B, p, seed, place) == Encrypted(pk, LiftMessage(plain, B, p), B, seed, place)
-----------------------------------------------------------------------------
(* Keys: additive shares of (1, s), and a key for masks both servers have. *)
One(B) == [m \in B |-> [i \in Indices |-> 1]]
SharesOf(pair, mask) == <<mask, <<SubPoly(pair[1], mask[1]), SubPoly(pair[2], mask[2])>>>>
SplitSecretKey(s, B, seed) ==
  SharesOf(<<One(B), s>>, [k \in 1 .. 2 |-> Forward(Uniform(B, seed, 499 + k))])
KeysOf(shares, seed) == [b \in Servers |-> [share |-> shares[b + 1], party |-> b, prf |-> seed + 77]]
EvalKeys(s, B, seed) == KeysOf(SplitSecretKey(s, B, seed), seed)

\* The masks of an instruction, which one server adds and the other subtracts.
PrfMask(key, id, B) == <<Uniform(B, key, 2 * id), Uniform(B, key, 2 * id + 1)>>
MaskedShare(share, mask, party) ==
  [k \in 1 .. 2 |-> IF party = 0 THEN AddPoly(share[k], mask[k]) ELSE SubPoly(share[k], mask[k])]
ApplyMask(share, key, id) == MaskedShare(share, PrfMask(key.prf, id, DOMAIN share[1]), key.party)
-----------------------------------------------------------------------------
(* What a server computes alone.                                           *)
InRing(x, B) == DOMAIN x = B /\ \A m \in B : \A i \in Indices : x[m][i] < m
ValidShare(share, B) == InRing(share[1], B) /\ InRing(share[2], B)
ValidInput(ct, B) == \A part \in {ct.m, ct.ms} : Len(part) = 2 /\ InRing(part[1], B) /\ InRing(part[2], B)

DotProd(share, ct) ==
  LET InnerWith(c) == AddPoly(MulPoly(c[1], share[1]), MulPoly(c[2], share[2]))
  IN  <<InnerWith(ct.m), InnerWith(ct.ms)>>

\* The representative next to 0 of a number modulo p, modulo m.
Centred(v, p, m) == IF v > p \div 2 THEN NegMod((p - v) % m, m) ELSE v % m
CentredPoly(words, p, B) == Computed([m \in B |-> [i \in Indices |-> Centred(words[i], p, m)]])
RescalePoly(x, p) ==
  CentredPoly(Computed([i \in Indices |-> RoundInDoubleWords(CoefficientOf(x, i), p)]), p, DOMAIN x)

\* The same for a key share, which is in transforms, and a memory share.
Rescaled(t, p) == [k \in 1 .. 2 |-> RescalePoly(Backward(t[k]), p)]
DecShare(share, ct, p) == Rescaled(DotProd(share, ct), p)
HssMult(share, ct, p) ==
  IF ~ValidShare(share, DOMAIN share[1]) \/ ~ValidInput(ct, DOMAIN share[1]) \/ p < 2 THEN Refused
  ELSE DecShare(<<Forward(share[1]), Forward(share[2])>>, ct, p)
DDec(share, ct, p) == RescalePoly(Backward(DotProd(share, ct)[1]), p)

HssLoad(key, ct, id, p) ==
  IF ~ValidShare(key.share, DOMAIN key.share[1]) \/ ~ValidInput(ct, DOMAIN key.share[1]) \/ p < 2 THEN Refused
  ELSE ApplyMask(DecShare(key.share, ct, p), key, id)
HssAddMem(key, x, y, id) == ApplyMask(<<AddPoly(x[1], y[1]), AddPoly(x[2], y[2])>>, key, id)
MaskUnlessRefused(out, key, id) == IF out = Refused THEN Refused ELSE ApplyMask(out, key, id)
HssMultMem(key, share, ct, id, p) == MaskUnlessRefused(HssMult(share, ct, p), key, id)

\* On inputs.
HssAdd(x, y) == [part \in {"m", "ms"} |-> [k \in 1 .. 2 |-> AddPoly(x[part][k], y[part][k])]]
HssMulPlain(x, factor) == [part \in {"m", "ms"} |-> [k \in 1 .. 2 |-> MulPoly(x[part][k], factor)]]

\* The number next to 0, modulo p.
CentredModulo(v, total, p) == IF v > total \div 2 THEN NegMod((total - v) % p, p) ELSE v % p
CentredReduce(x, p) ==
  LET total == Prod(DOMAIN x)
  IN  Computed([i \in Indices |-> CentredModulo(Compose(CoefficientOf(x, i)), total, p)])
HssOutputMem(share, r) == CentredReduce(share[1], r)
HssReconstruct(pair, p) == CentredReduce(AddPoly(pair[1][1], pair[2][1]), p)
-----------------------------------------------------------------------------
(* With both shares in one place: what they stand for, shared anew.        *)
WithKey(x, s) == <<x, Backward(MulPoly(Forward(x), s))>>
SharePlainExact(coeffs, keys, p, seed, place) ==
  LET B == DOMAIN keys[0].share[1]
      s == AddPoly(keys[0].share[2], keys[1].share[2])
  IN  SharesOf(WithKey(CentredPoly([i \in Indices |-> coeffs[i] % p], p, B), s),
               [k \in 1 .. 2 |-> Uniform(B, seed, place + k - 1)])
DecSharePair(keys, ct, p, seed, place) ==
  IF ~ValidInput(ct, DOMAIN keys[0].share[1]) \/ p < 2 THEN Refused
  ELSE SharePlainExact(HssReconstruct([b \in 1 .. 2 |-> DecShare(keys[b - 1].share, ct, p)], p), keys, p, seed, place)
ExactlyShared(raw, keys, p, seed, place) ==
  IF raw[1] = Refused THEN Refused ELSE SharePlainExact(HssReconstruct(raw, p), keys, p, seed, place)
MultPairExact(pair, ct, keys, p, seed, place) ==
  ExactlyShared([b \in 1 .. 2 |-> HssMult(pair[b], ct, p)], keys, p, seed, place)
-----------------------------------------------------------------------------
(* When rounding apart gives shares of the rounded sum.                    *)

\* The numbers next to 0 that a pair of polynomials adds up to.
Next0(v, total) == IF v > total \div 2 THEN v - total ELSE v
Numbers(x) == Computed([i \in Indices |-> Next0(Compose(CoefficientOf(x, i)), Prod(DOMAIN x))])
SumOf(x, y) == Numbers(AddPoly(x, y))
Magnitude(v) == IF v < 0 THEN 0 - v ELSE v
NormOf(f) == Total([i \in Indices |-> Magnitude(f[i])])

\* The second shares add up to s times what the first ones do.
KeepsInvariant(pair, s) ==
  AddPoly(pair[1][2], pair[2][2]) = Backward(MulPoly(Forward(AddPoly(pair[1][1], pair[2][1])), s))

\* An encryption of numbers of a size, with noise: the error of its product
\* with a pair, in units of 1 / (p * Q).
ErrorOf(pair, size, noise, B, p) ==
  NormOf(SumOf(pair[1][1], pair[2][1])) * ((Prod(B) % p) * size + p * noise)
\* The numbers before rounding are further from a half than that.
Firm(t, i, error, p) ==
  LET total == Prod(DOMAIN t)
      part == (p * Compose([m \in DOMAIN t |-> t[m][i]])) % total
  IN  Magnitude(2 * part - total) > 2 * error
=============================================================================
