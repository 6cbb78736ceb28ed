-------------------------------- MODULE Hat --------------------------------
(***************************************************************************)
(* Nonlinear functions of shared numbers modulo 2^bitwidth (hat.rs): a     *)
(* token holds a random mask and what a function needs to know of it, its  *)
(* bits or parts, as inputs of a machine.  The parties open the difference *)
(* of their number and the mask, compile a program for that difference,    *)
(* and run it: it loads inputs, combines memory linearly, and multiplies   *)
(* memory by an input only, never by memory.  A token is for one call.     *)
(***************************************************************************)
EXTENDS AdditiveShares, Integers, FiniteSets, FiniteSetsExt, SequencesExt

CONSTANTS
  Tokens,       \* records: the operator and its parameters, how it is evaluated,
                \* the numbers that are shared and the masks that may be drawn
  MaxCalls      \* bound on the calls with one token

ASSUME TokensAssumption ==
  \A t \in Tokens :
    /\ t.name \in {"cmp", "relu", "maxpool", "trunc", "poly"} /\ t.backend \in {"local", "bks"}
    /\ t.bitwidth \in Nat /\ t.batch \in Nat /\ t.shift \in Nat /\ t.signed \in BOOLEAN
    /\ t.threshold \in Int /\ t.operands \subseteq Int /\ t.masks \subseteq Int
    /\ t.coeffs \in Seq(Int)

VARIABLES
  op,           \* the operator the token is for
  token,        \* NoToken, or the masks, the inputs of the machine, consumed or not
  opened,       \* how often a difference to the masks was opened
  calls,        \* how often the token was presented
  failed,       \* how often the engine failed
  outcome       \* of the last call: its operator, arguments and results

hatVars == <<op, token, opened, calls, failed, outcome>>

NoToken == [status |-> "none"]
modulus == TwoTo[op.bitwidth]
Mod(v) == v % modulus
DecodeSigned(v) == IF v >= modulus \div 2 THEN v - modulus ELSE v
BitOf(v, i) == (v \div TwoTo[i]) % 2
-----------------------------------------------------------------------------
(* Programs: instructions that each write the next cell of memory.         *)
Const(value) == [kind |-> "const", value |-> value]
Load(wire) == [kind |-> "load", wire |-> wire]
Lin(constant, terms) == [kind |-> "lin", value |-> constant, terms |-> terms]
MulIn(wire, cell) == [kind |-> "mulin", wire |-> wire, cell |-> cell]

RWire == <<"r", 0>>
HighLimb == <<"high limb", 0>>

\* Adds gamma to the number whose bits are loaded from the wires of this name,
\* bit by bit: after a cell of 0, the first carry, each bit writes four cells, of
\* which the last are the next carry and the bit of the sum.
CarryCell(i) == IF i = 0 THEN 1 ELSE 4 * i
SumCell(i) == 4 * i + 5
AddBit(i, gamma, name) ==
  LET wire == <<name, i>>
      carry == CarryCell(i)
      bit == 4 * i + 2
      prod == 4 * i + 3
  IN  <<Load(wire), MulIn(wire, carry),
        IF BitOf(gamma, i) = 0 THEN Lin(0, << <<1, prod>> >>)
        ELSE Lin(0, << <<1, bit>>, <<1, carry>>, <<-1, prod>> >>),
        IF BitOf(gamma, i) = 0 THEN Lin(0, << <<1, bit>>, <<1, carry>>, <<-2, prod>> >>)
        ELSE Lin(1, << <<-1, bit>>, <<-1, carry>>, <<2, prod>> >>)>>
BitAdd(bits, gamma, name) ==
  [c \in 1 .. 4 * bits + 1 |->
     IF c = 1 THEN Const(0) ELSE AddBit((c - 2) \div 4, gamma, name)[((c - 2) % 4) + 1]]

CompileCmp(delta, threshold) ==
  Append(BitAdd(op.bitwidth, Mod(delta - threshold), "bit"), Lin(1, << <<-1, SumCell(op.bitwidth - 1)>> >>))

CompileRelu(delta) ==
  LET code == CompileCmp(delta, 0)
      beta == Len(code)
  IN  code \o <<MulIn(RWire, beta), Lin(0, << <<1, beta + 1>>, <<delta, beta>> >>)>>

\* The carry out of the low bits belongs to the quotient; for a signed number,
\* its sign and the carry out of all bits are taken off the quotient's range.
QuotientBits == IF op.signed THEN op.bitwidth ELSE op.shift
TruncAdd(delta) ==
  IF op.signed THEN BitAdd(op.bitwidth, delta, "bit")
  ELSE BitAdd(op.shift, delta % TwoTo[op.shift], "low bit")
Extension == modulus - TwoTo[op.bitwidth - op.shift]
TruncTerms == << <<1, 4 * QuotientBits + 2>>, <<1, CarryCell(op.shift)>> >>
SignTerms == << <<Extension, SumCell(op.bitwidth - 1)>>, <<Extension, CarryCell(op.bitwidth)>> >>
CompileTruncWith(delta, sign) ==
  TruncAdd(delta) \o
    <<Load(HighLimb),
      Lin(delta \div TwoTo[op.shift], IF op.signed THEN TruncTerms \o sign ELSE TruncTerms)>>
CompileTruncWithoutCarryOut(delta) == CompileTruncWith(delta, << SignTerms[1] >>)
CompileTrunc(delta) == CompileTruncWith(delta, SignTerms)

\* The coefficients of the polynomial in the mask, delta being known.
Binomial(n, k) == FoldLeft(LAMBDA acc, i : (acc * (n - k + i)) \div i, 1, [i \in 1 .. k |-> i])
PowMod(base, exp) == FoldLeft(LAMBDA acc, i : Mod(acc * base), Mod(1), [i \in 1 .. exp |-> i])
ShiftedCoefficient(coeffs, delta, k) ==
  Mod(MapThenSumSet(
    LAMBDA j : Mod(Mod(Mod(coeffs[j]) * Mod(Binomial(j - 1, k - 1))) * PowMod(delta, j - k)),
    k .. Len(coeffs)))
CompilePoly(delta) ==
  LET Coefficient(k) == ShiftedCoefficient(op.coeffs, delta, k)
      degree == Len(op.coeffs) - 1
  IN  [c \in 1 .. 2 * degree + 1 |->
         IF c = 1 THEN Const(Coefficient(degree + 1))
         ELSE IF c % 2 = 0 THEN MulIn(RWire, c - 1)
         ELSE Lin(Coefficient(degree + 1 - c \div 2), << <<1, c - 1>> >>)]

Compile(delta) ==
  CASE op.name = "cmp" -> CompileCmp(delta, op.threshold)
    [] op.name \in {"relu", "maxpool"} -> CompileRelu(delta)
    [] op.name = "trunc" -> CompileTrunc(delta)
    [] op.name = "poly" -> CompilePoly(delta)

\* What the report counts, for the program of difference 0.
Count(code, kind) == Cardinality({i \in DOMAIN code : code[i].kind = kind})
Audit(code) ==
  [program |-> Len(code), loads |-> Count(code, "load"), mulins |-> Count(code, "mulin"),
   linears |-> Count(code, "lin"), consts |-> Count(code, "const")]
-----------------------------------------------------------------------------
(* The machine.                                                            *)
LimbShift == IF op.name = "trunc" THEN op.shift ELSE 0
WireValue(r, wire) ==
  CASE wire[1] = "r" -> Mod(r)
    [] wire[1] \in {"bit", "low bit"} -> BitOf(r, wire[2])
    [] wire[1] = "high limb" -> IF LimbShift >= op.bitwidth THEN 0 ELSE r \div TwoTo[LimbShift]

BitWires == {<<"bit", i>> : i \in 0 .. op.bitwidth - 1}
RequiredInputWires ==
  CASE op.name = "cmp" -> BitWires
    [] op.name \in {"relu", "maxpool"} -> {RWire} \cup BitWires
    [] op.name = "trunc" /\ op.signed -> {HighLimb} \cup BitWires
    [] op.name = "trunc" /\ ~op.signed -> {HighLimb} \cup {<<"low bit", i>> : i \in 0 .. op.shift - 1}
    [] op.name = "poly" -> {RWire}
\* The machine in one process holds every part of the mask.
LocalWires == {RWire, HighLimb} \cup BitWires \cup {<<"low bit", i>> : i \in 0 .. LimbShift - 1}
Inputs(r) ==
  LET wires == IF op.backend = "bks" THEN RequiredInputWires ELSE LocalWires
  IN  [w \in wires |-> WireValue(r, w)]

\* What the token accounts for: encodings of bits, beside r and the high limb.
AccountedBits ==
  CASE op.name \in {"cmp", "relu", "maxpool"} -> op.bitwidth
    [] op.name = "trunc" /\ op.signed -> (op.bitwidth - op.shift) + op.shift
    [] op.name = "trunc" /\ ~op.signed -> op.shift
    [] op.name = "poly" -> 0

Summed(instruction, memory) ==
  LET terms == instruction.terms
      sum[n \in 0 .. Len(terms)] ==
        IF n = 0 THEN Mod(instruction.value)
        ELSE Mod(sum[n - 1] + Mod(terms[n][1]) * memory[terms[n][2]])
  IN  sum[Len(terms)]
Executed(instruction, memory, inputs) ==
  CASE instruction.kind = "const" -> Mod(instruction.value)
    [] instruction.kind = "load" -> Mod(inputs[instruction.wire])
    [] instruction.kind = "lin" -> Summed(instruction, memory)
    [] instruction.kind = "mulin" -> Mod(Mod(inputs[instruction.wire]) * memory[instruction.cell])
HasWires(code, inputs) ==
  \A i \in DOMAIN code : code[i].kind \in {"load", "mulin"} => code[i].wire \in DOMAIN inputs
Run(code, inputs) ==
  LET memory[n \in 0 .. Len(code)] ==
        IF n = 0 THEN <<>>
        ELSE LET before == memory[n - 1] IN Append(before, Executed(code[n], before, inputs))
  IN  memory[Len(code)][Len(code)]
-----------------------------------------------------------------------------
HatInit ==
  /\ op \in Tokens
  /\ token = NoToken /\ opened = 0 /\ calls = 0 /\ failed = 0
  /\ outcome = NoToken

Acceptable ==
  /\ op.bitwidth \in 1 .. 62 /\ op.batch > 0
  /\ op.name = "trunc" => op.shift \in 1 .. op.bitwidth
  /\ op.name = "poly" => op.coeffs # <<>>

PrepToken ==
  /\ token = NoToken
  /\ \E masks \in [1 .. op.batch -> op.masks] :
       token' = IF Acceptable
                THEN [status |-> "ready", consumed |-> FALSE, masks |-> [i \in DOMAIN masks |-> Mod(masks[i])],
                      inputs |-> [i \in DOMAIN masks |-> Inputs(Mod(masks[i]))]]
                ELSE [status |-> "refused"]
  /\ UNCHANGED <<op, opened, calls, failed, outcome>>

Present == token.status = "ready" /\ calls < MaxCalls /\ calls' = calls + 1 /\ UNCHANGED op

\* The function of another operator, a consumed token, and inputs of another
\* length are refused before anything is opened.
RefuseToken(name, len) ==
  /\ Present
  /\ name # op.name \/ token.consumed \/ len # op.batch
  /\ outcome' = [status |-> "refused"]
  /\ UNCHANGED <<token, opened, failed>>

Delta(i, lhs, rhs) == Mod(lhs[i] - rhs[i] - token.masks[i])
Result(i, lhs, rhs) ==
  Mod(rhs[i] + Run(Compile(Delta(i, lhs, rhs)), token.inputs[i]))

\* For all operators but the maximum, rhs is 0.
Evaluate(lhs, rhs) ==
  /\ Present
  /\ ~token.consumed
  /\ op.name # "maxpool" => \A i \in DOMAIN rhs : rhs[i] = 0
  /\ opened' = opened + 1
  /\ outcome' =
       IF \A i \in DOMAIN lhs : HasWires(Compile(Delta(i, lhs, rhs)), token.inputs[i])
       THEN [status |-> "done", lhs |-> lhs, rhs |-> rhs,
             values |-> [i \in DOMAIN lhs |-> Result(i, lhs, rhs)], report |-> Audit(Compile(0))]
       ELSE [status |-> "missing wire"]
  /\ token' = [token EXCEPT !.consumed = outcome'.status = "done"]
  /\ UNCHANGED failed

\* The engine may fail at a multiplication; the difference is open by then, and
\* the token remains as it was.
EngineFails(lhs, rhs) ==
  /\ Present
  /\ ~token.consumed /\ op.backend = "bks"
  /\ op.name # "maxpool" => \A i \in DOMAIN rhs : rhs[i] = 0
  /\ Count(Compile(Delta(1, lhs, rhs)), "mulin") > 0
  /\ opened' = opened + 1 /\ failed' = failed + 1
  /\ outcome' = [status |-> "failed"]
  /\ UNCHANGED token

Names == {"cmp", "relu", "maxpool", "trunc", "poly"}
HatNext ==
  \/ PrepToken
  \/ \E name \in Names, len \in {1, 2} : RefuseToken(name, len)
  \/ \E lhs, rhs \in [1 .. op.batch -> op.operands] : Evaluate(lhs, rhs)
  \/ \E lhs, rhs \in [1 .. op.batch -> op.operands] : EngineFails(lhs, rhs)

HatSpec == HatInit /\ [][HatNext]_hatVars
-----------------------------------------------------------------------------
(* What one party would compute who held the numbers.                      *)
SignedWord(v) == DecodeSigned(Mod(v))
ReferencePoly(v) ==
  FoldRight(LAMBDA c, acc : Mod(Mod(acc * v) + Mod(c)), op.coeffs, 0)
FloorDiv(v, d) == IF v >= 0 THEN v \div d ELSE -((-v + d - 1) \div d)

\* A difference of two signed numbers may leave the signed range, where it is
\* taken for one of the other sign; the quotient of an unsigned number keeps the
\* wrap of its difference to the mask.
Difference(v, w) == SignedWord(Mod(v - w))
InClear(i, lhs, rhs) ==
  LET v == Mod(lhs[i])
      w == Mod(rhs[i])
  IN  CASE op.name = "cmp" -> IF Difference(v, op.threshold) >= 0 THEN 1 ELSE 0
        [] op.name = "relu" -> Mod(Max({SignedWord(v), 0}))
        [] op.name = "maxpool" ->
             IF Difference(v, w) = SignedWord(v) - SignedWord(w) THEN Mod(Max({SignedWord(v), SignedWord(w)}))
             ELSE Mod(Min({SignedWord(v), SignedWord(w)}))
        [] op.name = "trunc" /\ op.signed -> Mod(FloorDiv(SignedWord(v), TwoTo[op.shift]))
        [] op.name = "trunc" /\ ~op.signed ->
             Mod(v \div TwoTo[op.shift] + (IF v < token.masks[i] THEN TwoTo[op.bitwidth - op.shift] ELSE 0))
        [] op.name = "poly" -> ReferencePoly(v)

\* Whatever the mask, the program of the difference computes the function of
\* the number.
ComputesFunction ==
  outcome.status = "done" /\ op.name # "poly" =>
    \A i \in DOMAIN outcome.values : outcome.values[i] = InClear(i, outcome.lhs, outcome.rhs)
EvaluatesPolynomial ==
  outcome.status = "done" /\ op.name = "poly" =>
    \A i \in DOMAIN outcome.values : outcome.values[i] = InClear(i, outcome.lhs, outcome.rhs)

\* Every program reads only what the token holds, as many bits as the token
\* accounts for, and is of the size that is reported.
ReadsWhatIsHeld ==
  /\ outcome.status # "missing wire"
  /\ outcome.status = "done" =>
       \A i \in DOMAIN outcome.values :
         LET code == Compile(Delta(i, outcome.lhs, outcome.rhs))
         IN  /\ Audit(code) = outcome.report
             /\ AccountedBits = Count(code, "load") - (IF op.name = "trunc" THEN 1 ELSE 0)

\* Only a failure of the engine makes a token open more than one difference.
MaskOpensOnce == opened <= failed + 1 /\ (token.status = "ready" /\ token.consumed => opened = failed + 1)

\* A token computes its function once: it opens one difference unless the engine
\* fails, and the program for that difference runs to the end on the parts of
\* the mask that the token holds, with the function of the number as result.
TokenComputesOnce == MaskOpensOnce /\ ReadsWhatIsHeld /\ ComputesFunction
=============================================================================
