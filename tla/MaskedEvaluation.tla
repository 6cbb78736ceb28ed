--------------------------- MODULE MaskedEvaluation -------------------------
(***************************************************************************)
(* Evaluation on shares by opening a masked input (nonlinear.rs): the      *)
(* parties hold shares of a mask and of values derived from it, a pack     *)
(* prepared offline; online they open the masked input once and each       *)
(* computes its share of the outcome alone.  A polynomial is evaluated     *)
(* from its Taylor coefficients at the mask (OF-PMPE), on residues or on   *)
(* plain shares (source "fixed"); a product from a triple; a number is     *)
(* divided by a power of two from the quotient of the mask.                *)
(* One call, over all slots at once or, streaming, chunk by chunk with a   *)
(* pack for each.  Sources differ in how they make a pack.                 *)
(*                                                                         *)
(* Integers are shared residue by residue (RnsShareTensor): a tensor maps  *)
(* every limb, a position in a sequence of pairwise coprime moduli, to two *)
(* shares.  A sequence of one modulus stands for plain shares.             *)
(***************************************************************************)
EXTENDS AdditiveShares, Integers, Sequences, FiniteSetsExt

\* u128_bit_width, and modulus_bit_width, which is one less at powers of two.
WidestInteger == 30
BitWidth(n) == CHOOSE b \in 0 .. WidestInteger : n < 2^b /\ (b > 0 => n >= 2^(b - 1))
ModulusBitWidth(m) == BitWidth(m - 1)

Coprime(a, b) == \A d \in 2 .. a : a % d = 0 => b % d # 0
IsDomain(moduli) ==
  /\ moduli # <<>>
  /\ \A l \in DOMAIN moduli : moduli[l] \in Nat /\ moduli[l] >= 3
  /\ \A k, l \in DOMAIN moduli : k < l => Coprime(moduli[k], moduli[l])

\* The product of the first n moduli.
Product(moduli, n) == FoldSet(LAMBDA l, acc : acc * moduli[l], 1, 1 .. n)
CrtModulus(moduli) == Product(moduli, Len(moduli))
DomainBits(moduli) == BitWidth(CrtModulus(moduli))

ModInverse(v, m) == CHOOSE i \in 0 .. m - 1 : (v * i) % m = 1
-----------------------------------------------------------------------------
\* Party 0's share of each residue of v is draw.
ShareTensor(v, draw, moduli) == [l \in DOMAIN moduli |-> Shared(v, draw, moduli[l])]
PublicTensor(v, moduli) == [l \in DOMAIN moduli |-> SharePublic(v, moduli[l])]

\* Both parties make up their shares of what becomes a random integer.
OwnShares(s0, s1, moduli) ==
  [l \in DOMAIN moduli |-> [p0 |-> s0 % moduli[l], p1 |-> s1 % moduli[l]]]

TensorAdd(x, y, moduli) == [l \in DOMAIN moduli |-> AddShares(x[l], y[l], moduli[l])]
TensorSub(x, y, moduli) == [l \in DOMAIN moduli |-> SubShares(x[l], y[l], moduli[l])]
TensorScaled(x, k, moduli) == [l \in DOMAIN moduli |-> ScaledShares(x[l], k % moduli[l], moduli[l])]
Residues(x, moduli) == [l \in DOMAIN moduli |-> Reconstruct(x[l], moduli[l])]
-----------------------------------------------------------------------------
(* Mixed-radix reconstruction, limb after limb: the number below the        *)
(* product of the first n moduli that has their residues.                  *)
Garner(residues, moduli, n) ==
  LET g[k \in 1 .. n] ==
        IF k = 1 THEN residues[1]
        ELSE LET m == moduli[k]
                 inverse == ModInverse(Product(moduli, k - 1) % m, m)
             IN  g[k - 1] + Product(moduli, k - 1)
                            * ((SubReduced(residues[k], g[k - 1] % m, m) * inverse) % m)
  IN  g[n]

\* reconstruct_centered_i128: the number around zero.
Centered(x, moduli) ==
  LET value == Garner(Residues(x, moduli), moduli, Len(moduli))
  IN  IF value > CrtModulus(moduli) \div 2 THEN value - CrtModulus(moduli) ELSE value

(***************************************************************************)
(* reconstruct_nonnegative_i128_bounded takes in limbs until the moduli    *)
(* determine a number of bound bits; the widths it adds up for this may    *)
(* exceed that of the product.  The limbs left over must agree with the    *)
(* number, which must be within the bound.                                 *)
(***************************************************************************)
WidthEstimate(moduli, n) ==
  IF n = 1 THEN BitWidth(moduli[1])
  ELSE BitWidth(Product(moduli, n - 1)) + ModulusBitWidth(moduli[n])
Suffices(moduli, n, bound) == n = Len(moduli) \/ WidthEstimate(moduli, n) > bound + 1
LimbsUsed(moduli, bound) == Min({n \in DOMAIN moduli : Suffices(moduli, n, bound)})

BoundedValue(x, moduli, bound) ==
  Garner(Residues(x, moduli), moduli, LimbsUsed(moduli, bound))
WithinBound(x, moduli, bound) ==
  LET value == BoundedValue(x, moduli, bound)
  IN  /\ value < 2^bound
      /\ \A l \in LimbsUsed(moduli, bound) + 1 .. Len(moduli) :
           value % moduli[l] = Residues(x, moduli)[l]
-----------------------------------------------------------------------------
(***************************************************************************)
(* A pad holds shares of two random numbers a and b and of their product.  *)
(* Opening x - a and y - b yields shares of x * y; the product of the two  *)
(* opened numbers goes to party 0.                                         *)
(***************************************************************************)
MakePad(a, b, moduli, draw) ==
  [a |-> a, b |-> b,
   ab |-> [l \in DOMAIN moduli |->
             Shared(Reconstruct(a[l], moduli[l]) * Reconstruct(b[l], moduli[l]), draw, moduli[l])]]

PaddedProduct(x, y, pad, moduli) ==
  LET d == Residues(TensorSub(x, pad.a, moduli), moduli)
      e == Residues(TensorSub(y, pad.b, moduli), moduli)
      Limb(l) ==
        AddShares(AddShares(AddShares(pad.ab[l], ScaledShares(pad.b[l], d[l], moduli[l]), moduli[l]),
                            ScaledShares(pad.a[l], e[l], moduli[l]), moduli[l]),
                  SharePublic(d[l] * e[l], moduli[l]), moduli[l])
  IN  [l \in DOMAIN moduli |-> Limb(l)]
-----------------------------------------------------------------------------

CONSTANTS
  Calls,       \* records of the parameters of a call
  ShareDraws   \* party 0's shares of the inputs

(* kind      "polynomial", "product" or "rescale"                          *)
(* moduli    of the domain; one for source "fixed"                         *)
(* source    of packs: "fixed", "direct", "pads", "encrypted pads", "hss", *)
(*           "cross terms" or "encrypted cross terms"; for a division      *)
(*           "direct" or "coins"                                           *)
(* coeffs    of the polynomial, lowest degree first                        *)
(* inputBits declared bound of the input, which margin and signed go with  *)
(* shift, maskBits, security   of a division                               *)
(* chunk     slots of a chunk, 0 when not streaming                        *)
(* slots, operands             how many inputs, and the tuples they are    *)
(* draws                       what random residues of a pack may be       *)
CallsAssumption ==
  \A c \in Calls :
    /\ IsDomain(c.moduli)
    /\ c.kind \in {"polynomial", "product", "rescale"}
    /\ c.chunk \in Nat /\ c.slots \in Nat \ {0}
    /\ c.kind = "rescale" => c.chunk = 0

VARIABLES
  call,
  values,   \* the integers of each slot
  input,    \* their tensors
  pack,     \* the pack of the current chunk, by slot, and whether consumed
  opens,    \* inputs opened under that pack
  out,      \* the tensors of the slots that are done
  phase     \* "start", "packed", "done" or "refused"

vars == <<call, values, input, pack, opens, out, phase>>

moduli == call.moduli
Streaming == call.chunk > 0
Slots == 1 .. call.slots
ChunkEnd == IF Streaming THEN Min({Len(out) + call.chunk, call.slots}) ELSE call.slots
Chunk == Len(out) + 1 .. ChunkEnd
-----------------------------------------------------------------------------
Degree == Len(call.coeffs) - 1
Coeff(j) == call.coeffs[j + 1]
AbsInt(n) == IF n < 0 THEN 0 - n ELSE n

\* mask_powers, delta_power: the zeroth power is one, of zero too.
Pow(b, k) == IF k = 0 THEN 1 ELSE b^k

\* binomial_mod
Binomial(n, k) ==
  LET c[i \in 0 .. k] == IF i = 0 THEN 1 ELSE (c[i - 1] * (n + 1 - i)) \div i IN c[k]

\* estimate_dyadic_output_bound_bits: a bound on the polynomial, in bits.
Terms == {j \in 0 .. Degree : Coeff(j) # 0}
TermBits(j) == BitWidth(AbsInt(Coeff(j))) + j * call.inputBits
WidestTerm == Max({0} \cup {TermBits(j) : j \in Terms})
BoundIgnoresCount == WidestTerm
OutputBound ==
  IF Cardinality(Terms) <= 1 THEN WidestTerm
  ELSE WidestTerm + BitWidth(Cardinality(Terms) - 1)

\* NoWrapAudit on residues, modulus_wrap_safe on plain shares.
RequiredBits == OutputBound + call.margin + (IF call.signed THEN 1 ELSE 0)
AuditOk ==
  IF call.source = "fixed" THEN RequiredBits < ModulusBitWidth(moduli[1])
                           ELSE RequiredBits <= DomainBits(moduli)

OpenedBits == Max({call.inputBits, call.maskBits}) + 1
RescaleAccepted ==
  /\ call.maskBits > 0
  /\ DomainBits(moduli) > OpenedBits + 1
  /\ call.source = "coins" =>
       call.maskBits > call.shift /\ call.maskBits >= call.inputBits + call.security

Accepted ==
  CASE call.kind = "polynomial" -> AuditOk
    [] call.kind = "product" -> call.source \notin {"cross terms", "encrypted cross terms"}
    [] call.kind = "rescale" -> RescaleAccepted
-----------------------------------------------------------------------------
(* The Taylor pack of one slot.  d is what the generator draws for it: the *)
(* mask of source "direct" and its share, otherwise the parties' shares of *)
(* the mask, and two more shares.                                          *)
Mask(d) ==
  IF call.source \in {"fixed", "direct"} THEN ShareTensor(d[1], d[2], moduli)
                                         ELSE OwnShares(d[1], d[2], moduli)
MaskResidue(d, l) == Reconstruct(Mask(d)[l], moduli[l])

(***************************************************************************)
(* A triple whose cross terms party 1 adds up under party 0's encryption,  *)
(* with a mask it keeps; encryption is what decrypts to the sum.           *)
(***************************************************************************)
EncryptedPad(a, b, r) ==
  LET Cross(l) == a[l].p0 * b[l].p1 + b[l].p0 * a[l].p1 + r
      Part0(l) == (a[l].p0 * b[l].p0 + Cross(l)) % moduli[l]
      Part1(l) == (a[l].p1 * b[l].p1 - r) % moduli[l]
  IN  [a |-> a, b |-> b, ab |-> [l \in DOMAIN moduli |-> [p0 |-> Part0(l), p1 |-> Part1(l)]]]

PadOf(a, b, draw) ==
  IF call.source = "encrypted pads" THEN EncryptedPad(a, b, draw) ELSE MakePad(a, b, moduli, draw)

\* One draw serves the pads of all powers of a slot.
Pad(d) == PadOf(OwnShares(d[3], d[4], moduli), OwnShares(d[4], d[3], moduli), d[3])

\* HssSlotEngine: shares of the product, by what it decrypts to.
HssProduct(x, y, draw) ==
  [l \in DOMAIN moduli |->
     Shared(Reconstruct(x[l], moduli[l]) * Reconstruct(y[l], moduli[l]), draw, moduli[l])]

\* (r0 + r1)^k: each party has its own power, the cross terms are shared.
CrossPowerOnce(d, k) ==
  LET r(l) == Mask(d)[l]
      Cross(l, i) == Shared(r(l).p0^i * r(l).p1^(k - i), d[3], moduli[l])
      Own(l) == [p0 |-> r(l).p0^k % moduli[l], p1 |-> r(l).p1^k % moduli[l]]
  IN  [l \in DOMAIN moduli |->
         FoldSet(LAMBDA i, acc : AddShares(acc, Cross(l, i), moduli[l]), Own(l), 1 .. k - 1)]
CrossPower(d, k) ==
  LET r(l) == Mask(d)[l]
      Cross(l, i) == ScaledShares(Shared(r(l).p0^i * r(l).p1^(k - i), d[3], moduli[l]),
                            Binomial(k, i), moduli[l])
      Own(l) == [p0 |-> r(l).p0^k % moduli[l], p1 |-> r(l).p1^k % moduli[l]]
  IN  [l \in DOMAIN moduli |->
         FoldSet(LAMBDA i, acc : AddShares(acc, Cross(l, i), moduli[l]), Own(l), 1 .. k - 1)]

\* Shares of the powers of the mask, by degree.
Powers(d) ==
  LET power[k \in 0 .. Degree] ==
        CASE k = 0 -> PublicTensor(1, moduli)
          [] k = 1 -> Mask(d)
          [] k > 1 /\ call.source \in {"pads", "encrypted pads"} ->
               PaddedProduct(power[k - 1], Mask(d), Pad(d), moduli)
          [] k > 1 /\ call.source = "hss" -> HssProduct(power[k - 1], Mask(d), d[3])
          [] k > 1 /\ call.source = "cross terms" -> CrossPower(d, k)
  IN  power

\* Coefficient k of the polynomial around the mask.
CoeffFromPowers(d, k) ==
  LET power == Powers(d)
  IN  FoldSet(LAMBDA j, acc :
                TensorAdd(acc, TensorScaled(power[j - k], Coeff(j) * Binomial(j, k), moduli), moduli),
              PublicTensor(0, moduli), k .. Degree)
CoeffInClear(d, k) ==
  LET Residue(l) ==
        FoldSet(LAMBDA j, acc :
                  acc + ((Coeff(j) * Binomial(j, k)) % moduli[l]) * Pow(MaskResidue(d, l), j - k),
                0, k .. Degree)
  IN  [l \in DOMAIN moduli |-> Shared(Residue(l), d[3], moduli[l])]

\* Each party adds the powers of its own share; the cross terms of all powers
\* come in one encrypted sum, for the coefficients that have any.
CoeffEncrypted(d, k) ==
  LET r(l) == Mask(d)[l]
      Factor(l, j) == (Coeff(j) * Binomial(j, k)) % moduli[l]
      Own(l) ==
        FoldSet(LAMBDA j, acc :
                  AddShares(acc, [p0 |-> (Factor(l, j) * Pow(r(l).p0, j - k)) % moduli[l],
                                  p1 |-> (Factor(l, j) * Pow(r(l).p1, j - k)) % moduli[l]],
                            moduli[l]),
                SharePublic(Factor(l, k), moduli[l]), k + 1 .. Degree)
      CrossOf(l, j) ==
        FoldSet(LAMBDA i, acc :
                  acc + Factor(l, j) * Binomial(j - k, i) * (r(l).p0^i * r(l).p1^(j - k - i) % moduli[l]),
                0, 1 .. j - k - 1)
      Cross(l) == FoldSet(LAMBDA j, acc : acc + CrossOf(l, j), 0, k + 2 .. Degree)
      Masked(l) == [p0 |-> (Cross(l) + d[3]) % moduli[l], p1 |-> (0 - d[3]) % moduli[l]]
  IN  [l \in DOMAIN moduli |->
         IF Degree - k >= 2 THEN AddShares(Own(l), Masked(l), moduli[l]) ELSE Own(l)]

TaylorCoeff(d, k) ==
  CASE call.source \in {"fixed", "direct"} -> CoeffInClear(d, k)
    [] call.source = "encrypted cross terms" -> CoeffEncrypted(d, k)
    [] OTHER -> CoeffFromPowers(d, k)

TaylorPack(d) ==
  [mask |-> Mask(d), coeffs |-> [k \in 0 .. Degree |-> TaylorCoeff(d, k)]]

TriplePack(d) == PadOf(Mask(d), OwnShares(d[3], d[4], moduli), d[1])

\* A mask and its quotient: shared from one integer, or the sum of two that
\* the parties toss, whose low parts together stay below a carry.
RescalePack(d) ==
  IF call.source = "direct"
  THEN [mask |-> ShareTensor(d[1], d[2], moduli),
        quotient |-> ShareTensor(d[1] \div 2^call.shift, d[3], moduli)]
  ELSE [mask |-> OwnShares(d[1] * 2^call.shift + d[3], d[2] * 2^call.shift + d[4], moduli),
        quotient |-> OwnShares(d[1], d[2], moduli)]

\* Draws below 2^bits; without bits, the draw is zero.
BelowBits(bits) == 0 .. 2^bits - 1
CoinQuotients == BelowBits(call.maskBits - call.shift - 1)
CoinRemaindersWide == BelowBits(call.shift)
CoinRemainders == BelowBits(call.shift - 1)

Draws ==
  IF call.kind # "rescale" THEN [1 .. 4 -> call.draws]
  ELSE IF call.source = "direct" THEN BelowBits(call.maskBits) \X call.draws \X call.draws
  ELSE CoinQuotients \X CoinQuotients \X CoinRemainders \X CoinRemainders

SlotPack(d) ==
  CASE call.kind = "polynomial" -> TaylorPack(d)
    [] call.kind = "product" -> TriplePack(d)
    [] call.kind = "rescale" -> RescalePack(d)
-----------------------------------------------------------------------------
(* What the parties compute for one slot from the pack of the slot.        *)
PolynomialAt(x, p) ==
  LET delta == Residues(TensorSub(x, p.mask, moduli), moduli)
      PowerTerm(l, k) == ScaledShares(p.coeffs[k][l], Pow(delta[l], k) % moduli[l], moduli[l])
  IN  [l \in DOMAIN moduli |->
         FoldSet(LAMBDA k, acc : AddShares(acc, PowerTerm(l, k), moduli[l]),
                 p.coeffs[0][l], 1 .. Degree)]

Opened(x, p) == TensorAdd(x, p.mask, moduli)
QuotientAt(x, p) ==
  TensorSub(PublicTensor(BoundedValue(Opened(x, p), moduli, OpenedBits) \div 2^call.shift, moduli),
            p.quotient, moduli)

OutcomeAt(operands, p) ==
  CASE call.kind = "polynomial" -> PolynomialAt(operands[1], p)
    [] call.kind = "product" -> PaddedProduct(operands[1], operands[2], p, moduli)
    [] call.kind = "rescale" -> QuotientAt(operands[1], p)

\* The bounded reconstruction takes every opened number of the chunk.
OpensWithinBound ==
  call.kind = "rescale" =>
    \A i \in Chunk : WithinBound(Opened(input[i][1], pack.slot[i]), moduli, OpenedBits)
-----------------------------------------------------------------------------
NoPack == [slot |-> <<>>, consumed |-> TRUE]
SpentIfAnswered == [pack EXCEPT !.consumed = OpensWithinBound]
Spent == [pack EXCEPT !.consumed = TRUE]

Init ==
  /\ call \in Calls
  /\ values \in [Slots -> call.operands]
  /\ \E draw \in [Slots -> ShareDraws] :
       input = [i \in Slots |->
                  [o \in DOMAIN values[i] |-> ShareTensor(values[i][o], draw[i], call.moduli)]]
  /\ pack = NoPack
  /\ opens = 0
  /\ out = <<>>
  /\ phase = "start"

\* A division that keeps the scale returns its input.
KeepScale ==
  /\ phase = "start" /\ call.kind = "rescale" /\ call.shift = 0
  /\ out' = [i \in Slots |-> input[i][1]]
  /\ phase' = "done"
  /\ UNCHANGED <<call, values, input, pack, opens>>

Refuse ==
  /\ phase = "start" /\ ~Accepted
  /\ call.kind = "rescale" => call.shift > 0
  /\ phase' = "refused"
  /\ UNCHANGED <<call, values, input, pack, opens, out>>

Prepare ==
  /\ phase = "start" /\ Accepted
  /\ call.kind = "rescale" => call.shift > 0
  /\ \E draw \in [Chunk -> Draws] :
       pack' = [slot |-> [i \in Chunk |-> SlotPack(draw[i])], consumed |-> FALSE]
  /\ opens' = 0
  /\ phase' = "packed"
  /\ UNCHANGED <<call, values, input, out>>

\* A caller that keeps the pack first uses it with a degree, a scale or a
\* length it was not made for: an error, and except for plain shares the pack
\* is gone.
Misuse ==
  /\ phase = "packed" /\ ~pack.consumed
  /\ ~Streaming /\ call.source # "fixed"
  /\ pack' = Spent
  /\ UNCHANGED <<call, values, input, opens, out, phase>>

\* A caller may try again with whatever pack it has, also after an error.  On
\* plain shares the pack is marked after its input was opened; what is between
\* the two cannot fail, as lengths and moduli have been compared before.
Evaluate ==
  /\ phase # "start" /\ ~pack.consumed
  /\ pack' = Spent
  /\ opens' = opens + 1
  /\ IF OpensWithinBound
     THEN /\ out' = out \o [k \in 1 .. Cardinality(Chunk) |->
                              OutcomeAt(input[Len(out) + k], pack.slot[Len(out) + k])]
          /\ phase' = IF ChunkEnd = call.slots THEN "done" ELSE "start"
     ELSE out' = out /\ phase' = "refused"
  /\ UNCHANGED <<call, values, input>>

RefuseConsumed ==
  /\ phase = "packed" /\ pack.consumed
  /\ phase' = "refused"
  /\ UNCHANGED <<call, values, input, pack, opens, out>>

Next == KeepScale \/ Refuse \/ Prepare \/ Misuse \/ Evaluate \/ RefuseConsumed

Spec == Init /\ [][Next]_vars
-----------------------------------------------------------------------------
PolynomialValue(v) == FoldSet(LAMBDA j, acc : acc + Coeff(j) * Pow(v, j), 0, 0 .. Degree)
Expected(operands) ==
  IF call.kind = "polynomial" THEN PolynomialValue(operands[1]) ELSE operands[1] * operands[2]

\* The integer that the audit promises can be read off the shares.
ReadOff(x) == IF call.signed THEN Centered(x, moduli)
                             ELSE Garner(Residues(x, moduli), moduli, Len(moduli))
Audited(operands) ==
  /\ call.kind = "polynomial" /\ call.margin > 0
  /\ AbsInt(operands[1]) <= 2^call.inputBits
  /\ call.signed \/ PolynomialValue(operands[1]) >= 0

\* Whatever source made the packs and whatever they hold, and also chunk by
\* chunk, each outcome has the residues of the polynomial or of the product;
\* and a polynomial that passed the audit, with its default margin of one bit
\* or more, does not wrap around the moduli for inputs within the bound.
ComputesExactly ==
  call.kind # "rescale" =>
    /\ phase = "done" => Len(out) = call.slots
    /\ \A i \in DOMAIN out :
         /\ \A l \in DOMAIN moduli :
              Residues(out[i], moduli)[l] = Expected(values[i]) % moduli[l]
         /\ Audited(values[i]) => ReadOff(out[i]) = Expected(values[i])

\* A division either refuses or is at most one unit above the quotient rounded
\* down, even for inputs outside the declared bound and negative ones, for
\* which the opened number may wrap around the moduli; and it takes every
\* input within the bound.
RescalesWithinOne ==
  call.kind = "rescale" =>
    /\ \A i \in DOMAIN out :
         Centered(out[i], moduli) - values[i][1] \div 2^call.shift \in 0 .. 1
    /\ phase = "refused" /\ opens > 0 =>
         \E i \in Slots : values[i][1] \notin 0 .. 2^call.inputBits - 1

\* No two inputs are opened under the same mask, whatever fails in between: not
\* when a pack was used wrongly, nor when the opened number was out of bound and
\* the caller tries again.
MasksOpenOnce == opens <= 1
=============================================================================
