------------------------------ MODULE HssServers ----------------------------
(***************************************************************************)
(* Two servers that run one straight-line program on shared numbers        *)
(* (silent-hss).  An instruction appends an input or a memory value; its   *)
(* place in the program is the id its masks are drawn by.  A value is      *)
(* written raw, masked, or, with both shares in one place, exactly; and it *)
(* may be put out to both servers and encrypted anew (silent-operators,    *)
(* domain.rs), which with exact loads and products is the multiplication   *)
(* of slots in hss_slots.rs.                                               *)
(***************************************************************************)
EXTENDS Hss

CONSTANTS
  Parameters,     \* records: moduli, p
  Plaintexts,     \* sequences of inputs: the values, in slots, of one owner, or both servers' shares
  Factors,        \* public values, in slots
  OutputModuli,
  Seeds,
  MaxCalls

VARIABLES
  par,
  sk, pk,
  keys,      \* the servers' evaluation keys
  inputs,    \* sequence of [ct]; history: the values it means, size, noise, and
             \* whether the values are sure
  memory,    \* sequence of [pair]; history: its values, whether they are
             \* sure, and whether it was written exactly
  calls

vars == <<par, sk, pk, keys, inputs, memory, calls>>

Base == ToSet(par.moduli)
P == par.p
Ways == {"raw", "masked", "exact"}
SlotSums(x, y) == [i \in 1 .. N |-> (x[i] + y[i]) % P]
SlotProducts(x, y) == [i \in 1 .. N |-> (x[i] * y[i]) % P]
-----------------------------------------------------------------------------
(* History: what an input stands for is below p in size and has the noise  *)
(* of u * e + e1 + s * e2, all three small.                                *)
FreshNoise == 2 * N + 1
Input(ct, values, size, noise, sure) ==
  [ct |-> ct, means |-> values, size |-> size, noise |-> noise, sure |-> sure]
Value(pair, values, sure, exact) == [pair |-> pair, means |-> values, sure |-> sure, exact |-> exact]

\* Sums beyond a few p are no product of the program's own.
Small1(pair) == \A i \in Indices : Magnitude(SumOf(pair[1][1], pair[2][1])[i]) <= 4 * P
\* Do the servers' own numbers next to 0 add up without passing Q?
Unwrapped(pair) ==
  \A own \in {[b \in 1 .. 2 |-> Numbers(pair[b][1])]}, sum \in {SumOf(pair[1][1], pair[2][1])} :
    \A i \in Indices : own[1][i] + own[2][i] = sum[i]
\* Does a pair times an input come out as the product?
FirmProduct(product, pair, x) ==
  \A k \in {1, 2} :
    \A t \in {Backward(product[k])},
       error \in {ErrorOf(pair, inputs[x].size * (IF k = 1 THEN 1 ELSE N), inputs[x].noise, Base, P)} :
      \A i \in Indices : Firm(t, i, error, P)
SureProduct(pair, x) ==
  /\ KeepsInvariant(pair, sk)
  /\ Small1(pair)
  /\ FirmProduct(DotProd([k \in 1 .. 2 |-> Forward(pair[1][k])], inputs[x].ct), pair, x)
\* The key as a pair: its sum is 1.
KeyPair == [b \in 1 .. 2 |-> [k \in 1 .. 2 |-> Backward(keys[b - 1].share[k])]]
-----------------------------------------------------------------------------
\* Both servers' shares, encrypted by each of them and added.
Encryptions(key, owned, B, p, seed, place) ==
  [k \in DOMAIN owned |-> EncryptPoly(key, [m \in {p} |-> owned[k]], B, p, seed, place + 10 * (k - 1))]
AddedUp(cts) == IF Len(cts) = 1 THEN cts[1] ELSE HssAdd(cts[1], cts[2])
ShareCoeffsToHe(key, owned, B, p, seed, place) == AddedUp(Encryptions(key, owned, B, p, seed, place))
ShareSlotsToHe(key, owned, B, p, seed, place) ==
  ShareCoeffsToHe(key, [k \in DOMAIN owned |-> Encode(owned[k], p)[p]], B, p, seed, place)

Given(owned, key, B, p, seed, place) ==
  Input(ShareSlotsToHe(key, owned, B, p, seed, place),
        [slot \in 1 .. N |-> Total([k \in DOMAIN owned |-> owned[k][slot]]) % p],
        Len(owned) * p, Len(owned) * FreshNoise, TRUE)
Init ==
  \E p \in Parameters, seed \in Seeds, given \in Plaintexts :
    /\ par = p
    /\ sk = SecretKey(Base, seed)
    /\ pk = EncryptZero(sk, Base, seed, 400)
    /\ keys = EvalKeys(sk, Base, seed)
    /\ inputs = [i \in DOMAIN given |-> Given(given[i], pk, Base, P, seed, 410 + 20 * i)]
    /\ memory = <<>> /\ calls = 0

Step == calls < MaxCalls /\ calls' = calls + 1 /\ UNCHANGED <<par, sk, pk, keys>>
Write(pair, values, sure, exact) ==
  /\ Step
  /\ memory' = Append(memory, Value(pair, values, sure, exact))
  /\ UNCHANGED inputs
Supply(ct, values, size, noise, sure) ==
  /\ Step
  /\ inputs' = Append(inputs, Input(ct, values, size, noise, sure))
  /\ UNCHANGED memory

Loaded(ct, way) ==
  CASE way = "raw" -> [b \in 1 .. 2 |-> DecShare(keys[b - 1].share, ct, P)]
    [] way = "masked" -> [b \in 1 .. 2 |-> HssLoad(keys[b - 1], ct, calls, P)]
    [] OTHER -> DecSharePair(keys, ct, P, 1, 600 + 2 * calls)
Load(x, way) ==
  Write(Loaded(inputs[x].ct, way), inputs[x].means, inputs[x].sure /\ SureProduct(KeyPair, x), way = "exact")

Multiplied(y, ct, way) ==
  CASE way = "raw" -> [b \in 1 .. 2 |-> HssMult(y[b], ct, P)]
    [] way = "masked" -> [b \in 1 .. 2 |-> HssMultMem(keys[b - 1], y[b], ct, calls, P)]
    [] OTHER -> MultPairExact(y, ct, keys, P, 1, 600 + 2 * calls)
Mult(j, x, way) ==
  Write(Multiplied(memory[j].pair, inputs[x].ct, way), SlotProducts(memory[j].means, inputs[x].means),
        memory[j].sure /\ inputs[x].sure /\ SureProduct(memory[j].pair, x), way = "exact")

AddMem(i, j) ==
  Write([b \in 1 .. 2 |-> HssAddMem(keys[b - 1], memory[i].pair[b], memory[j].pair[b], calls)],
        SlotSums(memory[i].means, memory[j].means), memory[i].sure /\ memory[j].sure, FALSE)

AddInput(x, y) ==
  Supply(HssAdd(inputs[x].ct, inputs[y].ct), SlotSums(inputs[x].means, inputs[y].means),
         inputs[x].size + inputs[y].size, inputs[x].noise + inputs[y].noise, inputs[x].sure /\ inputs[y].sure)

MulPlain(x, factor) ==
  \E plain \in {Encode(factor, P)[P]} :
    Supply(HssMulPlain(inputs[x].ct, Forward(Lifted(plain, Base))), SlotProducts(inputs[x].means, factor),
           NormOf(plain) * inputs[x].size, NormOf(plain) * inputs[x].noise, inputs[x].sure)

\* A value becomes an input.
MemorySharesToHe(j) ==
  LET pair == memory[j].pair
      owned == [b \in 1 .. 2 |-> HssOutputMem(pair[b], P)]
  IN  Supply(ShareCoeffsToHe(pk, owned, Base, P, 1, 700 + 20 * calls), memory[j].means,
             2 * P, 2 * FreshNoise, memory[j].sure /\ Unwrapped(pair))

Next ==
  \/ \E x \in DOMAIN inputs, way \in Ways : Load(x, way) \/ \E j \in DOMAIN memory : Mult(j, x, way)
  \/ \E i, j \in DOMAIN memory : i <= j /\ AddMem(i, j)
  \/ \E j \in DOMAIN memory : MemorySharesToHe(j)
  \/ \E x, y \in DOMAIN inputs : x <= y /\ AddInput(x, y)
  \/ \E x \in DOMAIN inputs, factor \in Factors : MulPlain(x, factor)
Spec == Init /\ [][Next]_vars
-----------------------------------------------------------------------------
\* Neither is written twice: the last of each is enough.
Newest(s) == IF s = <<>> THEN {} ELSE {Len(s)}

KeyModuloP ==
  LET first == Min(Base)
      coeffs == Backward([m \in {first} |-> sk[first]])[first]
  IN  [m \in {P} |-> [i \in Indices |-> Next0(coeffs[i], first) % P]]

\* A value that was made from pairs that kept the invariant, and was not rounded
\* next to a half, is what the program computes; and the other shares are those
\* of it times s, modulo p.
Reconstructs ==
  \A j \in Newest(memory) : memory[j].sure =>
    \A value \in {[m \in {P} |-> HssReconstruct(memory[j].pair, P)]} :
      /\ Decode(value, P) = memory[j].means
      /\ CentredReduce(AddPoly(memory[j].pair[1][2], memory[j].pair[2][2]), P)
           = Backward(MulPoly(Forward(value), Forward(KeyModuloP)))[P]

\* What both servers write together is a number next to 0 and s times it,
\* right or not, so it may be multiplied again.
ExactPairs ==
  \A j \in Newest(memory) : memory[j].exact =>
    LET sum == SumOf(memory[j].pair[1][1], memory[j].pair[2][1])
    IN  KeepsInvariant(memory[j].pair, sk) /\ \A i \in Indices : Magnitude(sum[i]) <= P \div 2

\* Each server's own output: with modulus p the two add up to the value, with
\* another only if the shares' numbers do so without a multiple of p or of Q.
\* Put into slots, they are shares of the slots' values.
MemoryShareToSlots(share) == Decode([m \in {P} |-> HssOutputMem(share, P)], P)
OutputsAgree ==
  \A j \in Newest(memory) :
    LET pair == memory[j].pair
    IN  memory[j].sure /\ Unwrapped(pair) =>
          /\ \A value \in {HssReconstruct(pair, P)}, sum \in {SumOf(pair[1][1], pair[2][1])},
                r \in OutputModuli \union {P} :
               \A own \in {[b \in 1 .. 2 |-> HssOutputMem(pair[b], r)]}, i \in Indices :
                 r = P \/ 2 * Magnitude(sum[i]) < P =>
                   (own[1][i] + own[2][i]) % r = (IF 2 * value[i] > P THEN value[i] - P ELSE value[i]) % r
          /\ SlotSums(MemoryShareToSlots(pair[1]), MemoryShareToSlots(pair[2])) = memory[j].means

\* One polynomial is enough to decrypt an input.
InputsDecrypt ==
  \A x \in Newest(inputs) :
    inputs[x].sure /\ SureProduct(KeyPair, x) =>
      \A half \in {[b \in Servers |-> DDec(keys[b].share, inputs[x].ct, P)]} :
        Decode([m \in {P} |-> CentredReduce(AddPoly(half[0], half[1]), P)], P) = inputs[x].means

ServersAgree == Reconstructs /\ ExactPairs /\ OutputsAgree /\ InputsDecrypt
=============================================================================
