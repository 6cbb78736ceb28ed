----------------------------- MODULE AhssEngine -----------------------------
(***************************************************************************)
(* What the protocol layer passes on (silent-operators, bks_ahss.rs,       *)
(* ahss.rs, he_bridge.rs): a full state is an encryption to multiply by,   *)
(* and shares of the same polynomial in memory; a bridge state is an       *)
(* encryption alone.  Public linear steps act on either, and a reload      *)
(* (direct_reload.rs) makes a full state of a bridge, as it is or rounded. *)
(* With each goes a certificate (coefficient_cert.rs): a bound on          *)
(* coefficients that nobody can look at, moved along by every step, by     *)
(* which callers decide whether the plaintext modulus is large enough.     *)
(*                                                                         *)
(* An encryption, and a pair of shares in memory, is what it decrypts to:  *)
(* a sequence of Degree numbers modulo P.                                  *)
(***************************************************************************)
EXTENDS Integers, SequencesExt, FiniteSetsExt

CONSTANTS
  P,              \* the plaintext modulus
  Degree,
  Bks,            \* BksParams: [secretBound, noise, qBits, lambda]
  Plaintexts,     \* polynomials to encrypt
  Slacks,         \* by how much a declared bound exceeds the coefficients
  Primitives,     \* public steps: [kind, amount, count, levels, rescaled, key]
  PublicPolys,
  Matrices,       \* sequences of public polynomials, the diagonals
  RoundingBits,
  Draws,          \* what a party's share of a decryption may be
  Misses,          \* and by how much two shares taken modulo P may miss the sum
  Trees,          \* reductions to certify: [bounds, plan, times]
  MaxCalls

VARIABLES
  full,        \* <<>> or [ct, memory, cert]; history: clear, the exact
               \* integers, and drift, how far rounding can have moved them
  bridge,      \* <<>> or [ct, cert, compatible, key]; history: as above
  product,     \* <<>> or [memory]; history: clear, drifted
  report,      \* of the last reload; history: from, what was reloaded
  certified,   \* of the last reduction: [tree, bound, exact]
  calls

ahssVars == <<full, bridge, product, report, certified, calls>>

Refused == 0 - 1
NoProduct == 0 - 1     \* secret_product_bound: None
DefaultKey == "bks-ahss-default-key"
SameKey == "same key"  \* output_key_id: None
-----------------------------------------------------------------------------
(* Certificates: bounds of single steps.                                   *)
CeilDiv(a, b) == IF a = 0 THEN 0 ELSE ((a - 1) \div b) + 1
SumUpTo(s, n) == FoldLeft(LAMBDA a, b : a + b, 0, IF n < Len(s) THEN SubSeq(s, 1, n) ELSE s)

ApplyPrimitiveBound(bounds, op) ==
  CASE op.kind = "encode" -> op.amount
    [] op.kind = "add" -> IF op.count = 0 THEN Refused ELSE SumUpTo(bounds, op.count)
    [] op.kind = "rotate" -> bounds[1]
    [] op.kind \in {"plain mul", "restricted mul", "repack"} -> bounds[1] * op.amount
    [] op.kind = "diagonal matmul" -> IF op.count = 0 THEN Refused ELSE bounds[1] * op.amount * op.count
    [] op.kind = "reduction tree" ->
         IF op.count = 0 \/ op.levels = 0 THEN Refused
         ELSE SumUpTo(bounds, Len(bounds)) + (IF op.rescaled THEN op.levels ELSE 0)
    [] op.kind = "rescale" -> IF op.amount = 0 THEN Refused ELSE CeilDiv(bounds[1], op.amount) + op.count

Primitive(kind, amount, count) ==
  [kind |-> kind, amount |-> amount, count |-> count, levels |-> 1, rescaled |-> FALSE, key |-> SameKey]
WithBound(cert, bound) == [cert EXCEPT !.bound = bound]

\* The margins that rule out a wrap.
BitLength(v) == Cardinality({n \in 0 .. 30 : 2 ^ n <= v})
RequiredP(cert) ==
  4 * Max({cert.bound, cert.range, 1}) + Max({2 * cert.noise, 2 * Bks.noise, 64}) + 1
RequiredQBits(cert) ==
  LET secret == IF cert.secret # NoProduct THEN cert.secret
                ELSE Max({cert.bound, cert.range, 1}) * Bks.secretBound
      margin == CASE Bks.lambda < 64 -> 8 [] Bks.lambda \in 64 .. 263 -> Bks.lambda \div 8 [] Bks.lambda > 263 -> 32
  IN  BitLength(P) + BitLength(Max({secret, cert.noise, Bks.noise, 1})) + margin
Admissible(cert) == P >= RequiredP(cert) /\ Bks.qBits >= RequiredQBits(cert)
AdmissibleForBound(cert, bound) ==
  Admissible([cert EXCEPT !.bound = bound, !.secret = bound * Bks.secretBound])
-----------------------------------------------------------------------------
(* Bounds of a reduction: levels of sums of fanin neighbours, each with a  *)
(* public rescaling if the plan says so, until one is left.                *)
Covers(count, plan) == count > 0 /\ plan.fanin ^ plan.levels >= count
InGroups(s, plan) ==
  [k \in 1 .. CeilDiv(Len(s), plan.fanin) |->
     SumUpTo(SubSeq(s, (k - 1) * plan.fanin + 1, Len(s)), plan.fanin)]
RescaledBounds(s, plan) ==
  [k \in DOMAIN s |-> ApplyPrimitiveBound(<<s[k]>>, Primitive("rescale", plan.divisor, 1))]
ReductionLevel(s, plan) ==
  IF Len(s) = 1 THEN s
  ELSE IF plan.rescaled THEN RescaledBounds(InGroups(s, plan), plan) ELSE InGroups(s, plan)
ReductionSteps(bounds, plan) ==
  LET level[l \in 0 .. plan.levels] == IF l = 0 THEN bounds ELSE ReductionLevel(level[l - 1], plan)
  IN  IF Covers(Len(bounds), plan) THEN level[plan.levels][1] ELSE Refused

CertifyReductionTree(certs, plan) ==
  [WithBound(certs[1], ReductionSteps([k \in DOMAIN certs |-> certs[k].bound], plan))
     EXCEPT !.noise = Max({certs[k].noise : k \in DOMAIN certs}),
            !.exact = (\A k \in DOMAIN certs : certs[k].exact) /\ ~plan.rescaled]

\* Products of two certified vectors, added up.
CertifyAttentionScore(q, k, headDim, plan) ==
  LET each == ApplyPrimitiveBound(<<q.bound>>, Primitive("restricted mul", k.bound, 1))
      bound == ReductionSteps([i \in 1 .. headDim |-> each], plan)
  IN  [WithBound(q, bound) EXCEPT !.secret = bound * Bks.secretBound,
                                  !.noise = q.noise + k.noise + Bks.noise,
                                  !.exact = q.exact /\ k.exact /\ ~plan.rescaled]

CertifyMatmul(cert, terms, maxL1, plan) ==
  LET exact == ApplyPrimitiveBound(<<cert.bound>>, Primitive("diagonal matmul", maxL1, terms))
      bound == IF plan.rescaled
               THEN ApplyPrimitiveBound(<<exact>>, Primitive("rescale", plan.divisor, 1)) ELSE exact
  IN  [WithBound(cert, bound) EXCEPT !.secret = bound * Bks.secretBound, !.noise = @ + Bks.noise]
-----------------------------------------------------------------------------
(* Polynomials: as integers, and modulo P.                                 *)
Positions == 1 .. Degree
Reduced(x) == [k \in Positions |-> x[k] % P]
CenteredOne(v) == IF v % P > P \div 2 THEN (v % P) - P ELSE v % P
Centered(x) == [k \in Positions |-> CenteredOne(x[k])]
Magnitude(v) == IF v < 0 THEN 0 - v ELSE v
Norm(x) == Max({Magnitude(x[k]) : k \in Positions})
L1Norm(x) == MapThenSumSet(LAMBDA k : Magnitude(x[k]), Positions)
Times(x, f) ==
  LET Term(i, k) == IF i <= k THEN x[i] * f[k - i + 1] ELSE (0 - x[i]) * f[Degree + k - i + 1]
  IN  [k \in Positions |-> MapThenSumSet(LAMBDA i : Term(i, k), Positions)]
Scaled(x, c) == [k \in Positions |-> x[k] * c]
Plus(x, y) == [k \in Positions |-> x[k] + y[k]]

\* Only for amounts from 0 up to the degree is this the product with a power.
Rotated(x, amount) ==
  [k \in Positions |-> LET from == (k - 1 - amount) % Degree
                       IN  IF from <= k - 1 THEN x[from + 1] ELSE 0 - x[from + 1]]

\* A short sequence is filled up with zeros.
PolyFromCoeffs(coeffs) == [k \in Positions |-> IF k <= Len(coeffs) THEN coeffs[k] % P ELSE 0]

\* To the next multiple, the larger one from the middle.
RoundToMultiple(v, step) ==
  IF v >= 0 THEN ((v + step \div 2) \div step) * step ELSE 0 - (((step \div 2) - v) \div step) * step
RoundCoeffs(x, bits) ==
  IF bits = 0 THEN Reduced(x) ELSE [k \in Positions |-> RoundToMultiple(CenteredOne(x[k]), 2 ^ bits) % P]
HalfStep(bits) == IF bits = 0 THEN 0 ELSE 2 ^ (bits - 1)
MaxCenteredError(x, y) ==
  Max({LET d == Magnitude((x[k] % P) - (y[k] % P)) IN IF d < P - d THEN d ELSE P - d : k \in Positions})
-----------------------------------------------------------------------------
AhssInit ==
  /\ full = <<>> /\ bridge = <<>> /\ product = <<>> /\ report = <<>> /\ certified = <<>>
  /\ calls = 0

Step == calls < MaxCalls /\ calls' = calls + 1

\* What a caller declares of a polynomial it has.
Declared(coeffs, slack) ==
  LET bound == Norm(Centered(PolyFromCoeffs(coeffs))) + slack
  IN  [bound |-> bound, range |-> bound, secret |-> NoProduct, noise |-> 0, exact |-> TRUE]

LoadFull(coeffs, slack) ==
  /\ Step /\ full = <<>>
  /\ full' = [ct |-> PolyFromCoeffs(coeffs), memory |-> PolyFromCoeffs(coeffs),
              cert |-> Declared(coeffs, slack), clear |-> Centered(PolyFromCoeffs(coeffs)), drift |-> 0]
  /\ UNCHANGED <<bridge, product, report, certified>>

EncryptBridge(coeffs, slack) ==
  /\ Step /\ bridge = <<>>
  /\ bridge' = [ct |-> PolyFromCoeffs(coeffs), cert |-> Declared(coeffs, slack), compatible |-> TRUE,
                key |-> DefaultKey, clear |-> Centered(PolyFromCoeffs(coeffs)), drift |-> 0]
  /\ UNCHANGED <<full, product, report, certified>>

\* The engine has products with a constant; to add and to rotate change only
\* the certificate. The constant is put next to 0 first.
Supported(op) == op.kind \in {"plain mul", "add", "rotate"}
Constant(op) == IF op.kind = "plain mul" THEN op.amount ELSE 1
Linear(x, op) == Reduced(Scaled(x, CenteredOne(Constant(op))))
History(state, x, op) == [state EXCEPT !.ct = x, !.clear = Scaled(@, Constant(op)), !.drift = @ * Constant(op)]

EvalLinear(op) ==
  /\ Step /\ full # <<>> /\ Supported(op)
  /\ \E bound \in {ApplyPrimitiveBound(<<full.cert.bound>>, op)} :
       /\ bound # Refused
       /\ full' = [History(full, Linear(full.ct, op), op)
                     EXCEPT !.memory = Linear(@, op), !.cert = WithBound(@, bound)]
  /\ UNCHANGED <<bridge, product, report, certified>>

\* The caller computes the bound.
EvalPublicPolyLinear(f) ==
  /\ Step /\ full # <<>>
  /\ full' = [full EXCEPT !.ct = Reduced(Times(@, Centered(f))), !.memory = Reduced(Times(@, Centered(f))),
                          !.cert = WithBound(@, @.bound * L1Norm(Centered(f))),
                          !.clear = Times(@, Centered(f)), !.drift = @ * L1Norm(Centered(f))]
  /\ UNCHANGED <<bridge, product, report, certified>>

\* The state's memory, or an earlier product, times its encryption.
RestrictedMulPairExact(again) ==
  /\ Step /\ full # <<>> /\ (again => product # <<>>)
  /\ product' =
       IF again
       THEN [memory |-> Reduced(Times(product.memory, full.ct)), clear |-> Times(product.clear, full.clear),
             drifted |-> product.drifted \/ full.drift > 0]
       ELSE [memory |-> Reduced(Times(full.memory, full.ct)), clear |-> Times(full.clear, full.clear),
             drifted |-> full.drift > 0]
  /\ UNCHANGED <<full, bridge, report, certified>>

\* A bridge that was given another key never fits the first coordinate again.
OutputKey(state, op) == IF op.key = SameKey THEN state.key ELSE op.key
StaysCompatible(state, op) ==
  /\ state.compatible /\ OutputKey(state, op) = state.key
  /\ op.kind \in {"add", "rotate", "plain mul", "diagonal matmul"}
BridgePublicLinear(op) ==
  /\ Step /\ bridge # <<>> /\ Supported(op)
  /\ \E bound \in {ApplyPrimitiveBound(<<bridge.cert.bound>>, op)} :
       /\ bound # Refused
       /\ bridge' = [History(bridge, Linear(bridge.ct, op), op)
                       EXCEPT !.cert = WithBound(@, bound), !.key = OutputKey(bridge, op),
                              !.compatible = StaysCompatible(bridge, op)]
  /\ UNCHANGED <<full, product, report, certified>>

\* A product with public diagonals that was computed outside, under a
\* certificate of this crate, and is taken in (bridge_from_he).
BridgeFromHe(diagonals) ==
  /\ Step /\ bridge # <<>>
  /\ LET Sum(x) == FoldLeftDomain(LAMBDA acc, d : Plus(acc, Times(Rotated(x, d - 1), Centered(diagonals[d]))),
                                  [k \in Positions |-> 0], diagonals)
         maxL1 == Max({L1Norm(Centered(diagonals[d])) : d \in DOMAIN diagonals})
     IN  bridge' = [ct |-> Reduced(Sum(bridge.ct)), compatible |-> TRUE, key |-> DefaultKey,
                    cert |-> CertifyMatmul(bridge.cert, Len(diagonals), maxL1, [rescaled |-> FALSE]),
                    clear |-> Sum(bridge.clear), drift |-> bridge.drift * maxL1 * Len(diagonals)]
  /\ UNCHANGED <<full, product, report, certified>>
-----------------------------------------------------------------------------
(* Reloads.                                                                *)

\* synthesize_material: only what was not rounded keeps the bridge's encryption.
SynthesizedMaterial(value, from, mode) ==
  IF mode = "ExactFastPath" /\ from.compatible THEN from.ct ELSE Reduced(value)
Reloaded(value, from, mode, drift) ==
  [ct |-> SynthesizedMaterial(value, from, mode), memory |-> Reduced(value), cert |-> from.cert,
   clear |-> from.clear, drift |-> from.drift + drift]

\* Whether the value, and either share of it on its own, might be loaded.
ReloadStats(from, z, shares, error, correct) ==
  [z |-> z, shares |-> shares, error |-> error, correct |-> correct, from |-> from.ct,
   fits |-> [s \in {z, shares[1], shares[2]} |-> AdmissibleForBound(from.cert, Norm(Centered(s)))]]

\* One party's share is drawn; taken modulo P apart, the two may miss the sum.
SharesOf(value, miss) ==
  {<<[k \in Positions |-> d], [k \in Positions |-> (value[k] - d + miss) % P]>> : d \in Draws}

DirectReloadExact ==
  /\ Step /\ bridge # <<>> /\ bridge.compatible
  /\ full' = Reloaded(bridge.ct, bridge, "ExactFastPath", 0)
  /\ \E s \in SharesOf(bridge.ct, 0) : report' = ReloadStats(bridge, bridge.ct, s, 0, TRUE)
  /\ UNCHANGED <<bridge, product, certified>>

\* With the engine, which does not round (bits 0), or BksRoundedFh2a.
DirectReloadApproxFullRemat(bits) ==
  /\ Step /\ bridge # <<>>
  /\ \E z \in {RoundCoeffs(bridge.ct, bits)}, w \in IF bits = 0 THEN {0} ELSE Misses :
       /\ full' = Reloaded(z, bridge, "ApproxFullRematerialization", HalfStep(bits))
       /\ \E s \in SharesOf(z, w) :
            report' = ReloadStats(bridge, z, s, MaxCenteredError(bridge.ct, z), TRUE)
  /\ UNCHANGED <<bridge, product, certified>>

\* The bridge is rounded and encrypted anew; what decrypts it may round again.
DirectReloadApproxRounded(bits, again) ==
  /\ Step /\ bridge # <<>>
  /\ \E r \in {RoundCoeffs(bridge.ct, bits)} : \E z \in {RoundCoeffs(r, again)} :
       /\ full' = Reloaded(z, [bridge EXCEPT !.ct = r, !.cert.exact = FALSE, !.compatible = FALSE],
                           "ApproxRoundedBridgeUpdate", HalfStep(bits) + HalfStep(again))
       /\ \E s \in SharesOf(z, 0) :
            report' = ReloadStats(bridge, z, s, Max({MaxCenteredError(bridge.ct, r), MaxCenteredError(r, z)}), TRUE)
  /\ UNCHANGED <<bridge, product, certified>>

\* The baseline that loads the two shares each on its own.
UnsafeLoadRandomShares ==
  /\ Step /\ bridge # <<>>
  /\ \E s \in SharesOf(bridge.ct, 0) :
       LET stats == ReloadStats(bridge, bridge.ct, s, 0, FALSE)
       IN  report' = [stats EXCEPT !.correct = stats.fits[s[1]] /\ stats.fits[s[2]]]
  /\ UNCHANGED <<full, bridge, product, certified>>

\* A reduction on its own: of sums, or of products of two vectors.
TreeCert(bound) == [bound |-> bound, range |-> bound, secret |-> NoProduct, noise |-> 0, exact |-> TRUE]
Certify(tree) ==
  /\ calls = 0 /\ calls' = MaxCalls
  /\ LET of == [k \in DOMAIN tree.bounds |-> TreeCert(tree.bounds[k])]
         out == IF tree.times = 0 THEN CertifyReductionTree(of, tree.plan)
                ELSE CertifyAttentionScore(of[1], TreeCert(tree.times), Len(of), tree.plan)
     IN  certified' = [tree |-> tree, bound |-> out.bound, exact |-> out.exact]
  /\ UNCHANGED <<full, bridge, product, report>>

AhssNext ==
  \/ \E x \in Plaintexts, slack \in Slacks : LoadFull(x, slack) \/ EncryptBridge(x, slack)
  \/ \E op \in Primitives : EvalLinear(op) \/ BridgePublicLinear(op)
  \/ \E f \in PublicPolys : EvalPublicPolyLinear(f)
  \/ \E again \in BOOLEAN : RestrictedMulPairExact(again)
  \/ \E diagonals \in Matrices : BridgeFromHe(diagonals)
  \/ DirectReloadExact
  \/ \E bits \in RoundingBits : DirectReloadApproxFullRemat(bits)
  \/ \E bits, again \in RoundingBits : DirectReloadApproxRounded(bits, again)
  \/ UnsafeLoadRandomShares
  \/ \E tree \in Trees : Certify(tree)
-----------------------------------------------------------------------------
\* What the servers multiply by is what they hold in memory.
MaterialIsMemory == full # <<>> => full.ct = full.memory

\* A certificate bounds the exact integers whatever was done to them, and
\* without rounding they are what is held, modulo P. Where it is admissible,
\* and rounding has not used up its margin, nothing has wrapped.
Certified(state) ==
  /\ Norm(state.clear) <= state.cert.bound
  /\ state.drift = 0 => state.ct = Reduced(state.clear)
  /\ Admissible(state.cert) /\ state.drift <= state.cert.bound + 32 =>
       \A k \in Positions : Magnitude(CenteredOne(state.ct[k]) - state.clear[k]) <= state.drift
CertificatesHold ==
  /\ full # <<>> => Certified(full)
  /\ bridge # <<>> => Certified(bridge)
  /\ product # <<>> /\ ~product.drifted => product.memory = Reduced(product.clear)

\* The reported error is that of one rounding: two may add up to its double.
\* Two shares of which either may be loaded add up without a wrap.
ReportHolds ==
  report # <<>> =>
    /\ MaxCenteredError(report.from, report.z) <= 2 * report.error
    /\ /\ \A i \in 1 .. 2 : report.fits[report.shares[i]]
       /\ report.z = Reduced(Plus(report.shares[1], report.shares[2]))
       => Plus(Centered(report.shares[1]), Centered(report.shares[2])) = Centered(report.z)

\* The bound of a reduction is one on every outcome of it.
Nearest(v, d) == IF v >= 0 THEN (2 * v + d) \div (2 * d) ELSE 0 - ((d - 2 * v) \div (2 * d))
Evaluated(values, plan) ==
  LET sums(s) == InGroups(s, plan)
      next(s) == IF Len(s) = 1 THEN s
                 ELSE IF plan.rescaled THEN [k \in DOMAIN sums(s) |-> Nearest(sums(s)[k], plan.divisor)]
                 ELSE sums(s)
      level[l \in 0 .. plan.levels] == IF l = 0 THEN values ELSE next(level[l - 1])
  IN  level[plan.levels]
Within(b, times) == IF times = 0 THEN (0 - b) .. b ELSE {x * y : x \in (0 - b) .. b, y \in (0 - times) .. times}
ReductionsBound ==
  certified # <<>> /\ certified.bound # Refused =>
    LET b == certified.tree.bounds
        v(k) == IF certified.tree.times = 0 THEN b[k] ELSE b[1]
        values == {x \in [DOMAIN b -> UNION {Within(v(k), certified.tree.times) : k \in DOMAIN b}] :
                     \A k \in DOMAIN b : x[k] \in Within(v(k), certified.tree.times)}
    IN  \A x \in values :
          \A out \in {Evaluated(x, certified.tree.plan)} :
            /\ Len(out) = 1 /\ Magnitude(out[1]) <= certified.bound
            /\ certified.exact => out[1] = SumUpTo(x, Len(x))

AhssCertified == MaterialIsMemory /\ CertificatesHold /\ ReportHolds /\ ReductionsBound
=============================================================================
