---------------------------- MODULE RnsPipeline -----------------------------
(***************************************************************************)
(* A product of two numbers modulo Q, divided by Q / t or by P, in the     *)
(* ways RnsTool offers: each number is extended to a second base, the      *)
(* residues are multiplied, the product is divided and brought back to Q.  *)
(* No step sees the numbers themselves.                                    *)
(***************************************************************************)
EXTENDS RnsTool

CONSTANTS
  Tools,        \* the bases and moduli of a tool
  Operands(_),  \* the numbers multiplied, for a tool
  Drifts        \* errors of the sums in floating point

VARIABLES tool, chain, left, right, drift, stage, value

vars == <<tool, chain, left, right, drift, stage, value>>

Chains == {"behz", "openfhe", "hps", "modup", "expand", "round"}
Q == tool.Q
Behz == BehzTables(Q, tool.B, tool.msk, tool.mTilde)
OpenFhe == OpenFheTables(Q, tool.B, tool.msk, tool.mTilde, tool.t)
Number(x) == Decompose(x, Q)
-----------------------------------------------------------------------------
\* Tables are built for the chains the tool is configured for.
Configured(c) == (c = "hps" => tool.R # {}) /\ (c \in {"modup", "expand"} => tool.P # {})
Init ==
  /\ tool \in Tools /\ IsBase(tool.Q)
  /\ chain \in Chains /\ Configured(chain)
  /\ left \in Operands(tool) /\ right \in Operands(tool)
  /\ chain = "round" => right = left
  /\ drift \in Drifts /\ (chain \notin {"hps", "round", "expand"} => drift = 0)
  /\ stage = "start" /\ value = <<Number(left), Number(right)>>

ExtendOne(x) ==
  CASE chain = "behz" -> BehzMontgomery(BehzConvert(x, Behz), Behz) @@ x
    [] chain = "openfhe" -> ConvMontgomery(x, OpenFhe) @@ x
    [] chain = "hps" -> Expand(x, tool.R, drift)
    [] chain = "modup" -> ApproxModUp(x, tool.P)
    [] chain = "expand" -> Expand(x, tool.P, drift)
Extend ==
  /\ stage = "start" /\ chain # "round"
  /\ value' = <<ExtendOne(value[1]), ExtendOne(value[2])>>
  /\ stage' = "extended"

\* behz multiplies by t before it divides, openfhe as it divides.
Multiply ==
  /\ stage = "extended"
  /\ value' = [m \in DOMAIN value[1] |->
                 LET z == Barrett(value[1][m], value[2][m], m)
                 IN  IF chain = "behz" THEN Shoup(z, tool.t % m, m) ELSE z]
  /\ stage' = "multiplied"

Divide ==
  /\ stage = "multiplied"
  /\ value' = CASE chain = "behz" -> BehzFloor(value, Behz)
                [] chain = "openfhe" -> RnsFloor(value, OpenFhe)
                [] chain = "hps" -> HpsScale(value, Q, tool.R, tool.t, drift)
                [] chain = "modup" -> ApproxModDown(value, Q, tool.P, 0)
                [] chain = "expand" -> ApproxModDown(value, Q, tool.P, tool.t)
  /\ stage' = IF chain \in {"modup", "expand"} THEN "done" ELSE "divided"

Back ==
  /\ stage = "divided"
  /\ value' = CASE chain = "behz" -> BehzBack(value, Behz)
                [] chain = "openfhe" -> ConvSk(value, OpenFhe)
                [] chain = "hps" -> SwitchBack(value, Q, drift)
  /\ stage' = "done"

Round ==
  /\ stage = "start" /\ chain = "round"
  /\ value' = {RoundExact(value[1], tool.t), RoundInDoubleWords(value[1], tool.t),
               RoundFloat(value[1], tool.t, 0, drift), RoundFloat(value[1], tool.t, tool.shift, drift)}
  /\ stage' = "done"

Next ==
  /\ UNCHANGED <<tool, chain, left, right, drift>>
  /\ Extend \/ Multiply \/ Divide \/ Back \/ Round
Spec == Init /\ [][Next]_vars
-----------------------------------------------------------------------------
Centre(x, m) == IF 2 * (x % m) > m THEN (x % m) - m ELSE x % m
Nearest(a, b) == (2 * a + b) \div (2 * b)
Size == Cardinality(Q)
Product == Prod(Q)

\* An extension stands for the number, up to a multiple of Q where the wraps are
\* not counted exactly; the Montgomery reduction keeps it around zero.
Multiples ==
  CASE chain = "modup" -> 0 .. 2 * Size
    [] chain \in {"behz", "openfhe"} \/ drift # 0 -> {0 - 1, 0, 1}
    [] OTHER -> {0}
AroundZero(y) == LET most == (Product * (tool.mTilde + 4 * Size)) \div (2 * tool.mTilde) IN y \in (0 - most) .. most
Represented(x) ==
  {y \in {(IF chain = "modup" THEN x ELSE Centre(x, Product)) + u * Product : u \in Multiples} :
     chain \in {"behz", "openfhe"} => AroundZero(y)}

\* The quotient of the two numbers multiplied, and how far off the code may be.
Near(z) ==
  CASE chain \in {"behz", "openfhe"} -> \E e \in 0 .. 2 * Size : Compose(value) = (((tool.t * z) \div Product) - e) % Product
    [] chain = "hps" -> \E e \in (IF drift = 0 THEN {0} ELSE {0 - 1, 0, 1}) : Compose(value) = (Nearest(tool.t * z, Product) + e) % Product
    [] chain = "modup" -> \E e \in 0 .. 2 * Cardinality(tool.P) : Compose(value) = ((z \div Prod(tool.P)) - e) % Product
    [] chain = "expand" ->
         \E e \in 0 - tool.t .. 2 * tool.t * Cardinality(tool.P) :
           /\ Compose(value) = ((z \div Prod(tool.P)) - e) % Product
           /\ (Prod(tool.P) * ((z \div Prod(tool.P)) - e) - z) % tool.t = 0

\* The outcome is the product of the numbers divided, with the error of the way
\* it was computed; rounding is to the nearest, or next to it where the error of
\* the floating point decides.
Divides ==
  stage = "done" =>
    IF chain = "round"
    THEN \A r \in value :
           \/ r = Nearest(tool.t * left, Product) % tool.t
           \/ drift # 0 /\ \E d \in {0 - drift, drift} : r = FloatFloor(tool.t * left, Product, d) % tool.t
    ELSE \E v \in Represented(left), w \in Represented(right) : Near(v * w)
=============================================================================
