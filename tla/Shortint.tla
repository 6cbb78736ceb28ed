------------------------------ MODULE Shortint ------------------------------
(***************************************************************************)
(* Short integers (schemes/shortint): ciphertexts of a slot with a message *)
(* and a carry part below a padding bit, each with its worst-case plaintext*)
(* and noise.  A call checks these numbers and never the plaintext.        *)
(*                                                                         *)
(* A plaintext is a multiple of delta modulo 2T, T = mm * cm; noise within *)
(* the budget rounds away.  A programmable bootstrap looks a plaintext up  *)
(* in a table of T entries, the upper half of the 2T values giving the     *)
(* negated entry (module Bootstrap models its steps).                      *)
(***************************************************************************)
EXTENDS Integers

CONSTANTS
  ParameterSets,   \* records [mm, cm] with the message and carry modulus
  CipherNames,           \* variables of the caller that hold ciphertexts
  Scalars,         \* clear factors
  Tables,          \* names of the tables of the caller
  MaxCalls         \* bound: calls

\* A message modulus of one would leave nothing to encrypt.
ASSUME ParametersAssumption ==
  /\ \A p \in ParameterSets : p.mm \in Nat \ {0, 1} /\ p.cm \in Nat \ {0}
  /\ Scalars \subseteq Nat
  /\ Tables \subseteq {"bitnot", "next", "double"}

VARIABLES
  params,
  calls,
  slots,       \* [plain, degree, noise] of each ciphertext
  meaning,     \* history: the number modulo mm that the calls so far make it
  sound,       \* history: every call on it returned Ok, every table of the
               \* caller gave messages
  overfull,    \* history: so did all but the last, which added in place and was
               \* refused, or looked a carry up
  crossed      \* history: a subtraction it stems from went below zero

shortintVars == <<params, calls, slots, meaning, sound, overfull, crossed>>

mm == params.mm
cm == params.cm
TotalModulus == mm * cm
Padded == 2 * TotalModulus
Nominal == 1

MaxDegree == mm * cm - 1
MaxNoise == (cm * mm - 1) \div (mm - 1)
Valid(degree, noise) == degree <= MaxDegree /\ noise <= MaxNoise

Fresh(message) == [plain |-> message, degree |-> mm - 1, noise |-> Nominal]
CarryIsEmpty(ct) == ct.degree < mm

DecryptFull(ct) == ct.plain % TotalModulus
Decrypt(ct) == DecryptFull(ct) % mm
-----------------------------------------------------------------------------
(* What a call makes of its left operand, and whether it returns Ok.       *)
Ok(ct) == [ok |-> TRUE, ct |-> ct]
Err(ct) == [ok |-> FALSE, ct |-> ct]

\* apply_lookup_table_poly_cached: table is a function on 0 .. TotalModulus - 1.
LookedUp(plain, table) ==
  IF plain < TotalModulus THEN table[plain] ELSE (Padded - table[plain - TotalModulus]) % Padded
Bootstrapped(ct, table) == Fresh(LookedUp(ct.plain, table))

MessageTable == [v \in 0 .. TotalModulus - 1 |-> v % mm]
MessageExtract(ct) == IF CarryIsEmpty(ct) THEN ct ELSE Bootstrapped(ct, MessageTable)

\* The ciphertexts are added before the sum of their degrees is checked.
UncheckedAddOf(left, right) ==
  LET sum == (left.plain + right.plain) % Padded
      degree == left.degree + right.degree
      noise == left.noise + right.noise
  IN  IF Valid(degree, noise) THEN Ok([plain |-> sum, degree |-> degree, noise |-> noise])
      ELSE Err([left EXCEPT !.plain = sum])

Negated(ct) == [ct EXCEPT !.plain = (Padded - ct.plain) % Padded]
UncheckedSubOf(left, right) == UncheckedAddOf(left, Negated(right))

\* A factor of zero leaves a ciphertext without noise, whatever it was.
UncheckedScalarMulOf(ct, scalar) ==
  LET degree == ct.degree * scalar
      noise == ct.noise * scalar
  IN  CASE scalar = 0 -> Ok([plain |-> 0, degree |-> 0, noise |-> Nominal])
        [] scalar # 0 /\ Valid(degree, noise) ->
             Ok([plain |-> (ct.plain * scalar) % Padded, degree |-> degree, noise |-> noise])
        [] OTHER -> Err(ct)

\* The operands are cleaned before, the outcome after; an error is returned
\* at once.
Finished(result) == IF result.ok THEN Ok(MessageExtract(result.ct)) ELSE result
AddOf(left, right) == Finished(UncheckedAddOf(MessageExtract(left), MessageExtract(right)))
SubOf(left, right) == Finished(UncheckedSubOf(MessageExtract(left), MessageExtract(right)))
ScalarMulOf(ct, scalar) == Finished(UncheckedScalarMulOf(MessageExtract(ct), scalar))
NegOf(ct) == ScalarMulOf(ct, mm - 1)
-----------------------------------------------------------------------------
(* Functions of two messages, packed as left * mm + right into one slot.   *)
Methods ==
  {"bitand", "bitxor", "bitor", "gt", "eq", "lt", "ge", "le", "ne", "mul", "max", "min"}

Truth(b) == IF b THEN 1 ELSE 0
Evaluate(method, x, y) ==
  CASE method = "bitand" -> ((x % 2) * (y % 2)) % mm
    [] method = "bitxor" -> (x + y) % 2
    [] method = "bitor" -> ((x % 2) + (y % 2) - (x % 2) * (y % 2)) % mm
    [] method = "gt" -> Truth(x > y)
    [] method = "eq" -> Truth(x = y)
    [] method = "lt" -> Truth(x < y)
    [] method = "ge" -> Truth(x >= y)
    [] method = "le" -> Truth(x <= y)
    [] method = "ne" -> Truth(x # y)
    [] method = "mul" -> (x * y) % mm
    [] method = "max" -> IF x >= y THEN x ELSE y
    [] method = "min" -> IF x <= y THEN x ELSE y

BivariateTable(method) ==
  [packed \in 0 .. TotalModulus - 1 |-> Evaluate(method, (packed \div mm) % mm, (packed % mm) % mm) % TotalModulus]

\* Without the first conjunct the right operand may reach into the left one.
PossibleIfOverlapping(left, right) ==
  Valid(left.degree * mm + right.degree, left.noise * mm + right.noise)
IsBivariatePbsPossible(left, right) ==
  right.degree < mm /\ Valid(left.degree * mm + right.degree, left.noise * mm + right.noise)

UncheckedBivariateOf(left, right, method) ==
  IF IsBivariatePbsPossible(left, right)
  THEN Ok(Bootstrapped(UncheckedAddOf(UncheckedScalarMulOf(left, mm).ct, right).ct,
                       BivariateTable(method)))
  ELSE Err(left)

\* Both operands are cleaned, and kept so, if they do not fit as they are.
BivariateOf(left, right, method) ==
  IF IsBivariatePbsPossible(left, right) THEN UncheckedBivariateOf(left, right, method)
  ELSE UncheckedBivariateOf(MessageExtract(left), MessageExtract(right), method)
-----------------------------------------------------------------------------
(* Tables of one argument: bitnot, and two of a caller, of which one has   *)
(* values with a carry.                                                    *)
UnivariateTable(name) ==
  [v \in 0 .. TotalModulus - 1 |->
     CASE name = "bitnot" -> (1 + mm - (v % mm)) % mm
       [] name = "next" -> (v + 1) % mm
       [] name = "double" -> (2 * v) % TotalModulus]

TableMeaning(name, m) ==
  CASE name = "bitnot" -> (1 + mm - m) % mm
    [] name = "next" -> (m + 1) % mm
    [] name = "double" -> (2 * m) % mm

GivesMessages(name) == name # "double"
-----------------------------------------------------------------------------
Called ==
  /\ calls < MaxCalls
  /\ calls' = calls + 1

\* A method that returns a new ciphertext drops what it made if it fails.
ByValue(d, result) ==
  /\ Called
  /\ result.ok
  /\ slots' = [slots EXCEPT ![d] = result.ct]
  /\ UNCHANGED params

\* An assigning method works on the caller's ciphertext.
InPlace(d, result) ==
  /\ Called
  /\ slots' = [slots EXCEPT ![d] = result.ct]
  /\ UNCHANGED params

Remember(d, ok, m, from, below) ==
  /\ sound' = [sound EXCEPT ![d] = ok /\ \A s \in from : sound[s]]
  /\ overfull' = [overfull EXCEPT ![d] = ~ok /\ \A s \in from : sound[s]]
  /\ crossed' = [crossed EXCEPT ![d] = below \/ \E s \in from : crossed[s]]
  /\ meaning' = [meaning EXCEPT ![d] = IF (sound'[d] \/ overfull'[d]) /\ ~crossed'[d] THEN m % mm ELSE 0]

Encrypt(d, message) ==
  /\ Called
  /\ message < mm
  /\ slots' = [slots EXCEPT ![d] = Fresh(message)]
  /\ Remember(d, TRUE, message, {}, FALSE)
  /\ UNCHANGED params

Add(a, b, d) ==
  /\ ByValue(d, AddOf(slots[a], slots[b]))
  /\ Remember(d, TRUE, meaning[a] + meaning[b], {a, b}, FALSE)
AddAssign(a, b) ==
  /\ InPlace(a, AddOf(slots[a], slots[b]))
  /\ Remember(a, AddOf(slots[a], slots[b]).ok, meaning[a] + meaning[b], {a, b}, FALSE)
UncheckedAdd(a, b, d) ==
  /\ ByValue(d, UncheckedAddOf(slots[a], slots[b]))
  /\ Remember(d, TRUE, meaning[a] + meaning[b], {a, b}, FALSE)
UncheckedAddAssign(a, b) ==
  /\ InPlace(a, UncheckedAddOf(slots[a], slots[b]))
  /\ Remember(a, UncheckedAddOf(slots[a], slots[b]).ok, meaning[a] + meaning[b], {a, b}, FALSE)

Below(x, y) == DecryptFull(x) < DecryptFull(y)
Sub(a, b, d) ==
  /\ ByValue(d, SubOf(slots[a], slots[b]))
  /\ Remember(d, TRUE, meaning[a] - meaning[b], {a, b},
              Below(MessageExtract(slots[a]), MessageExtract(slots[b])))
SubAssign(a, b) ==
  /\ InPlace(a, SubOf(slots[a], slots[b]))
  /\ Remember(a, SubOf(slots[a], slots[b]).ok, meaning[a] - meaning[b], {a, b},
              Below(MessageExtract(slots[a]), MessageExtract(slots[b])))
UncheckedSub(a, b, d) ==
  /\ ByValue(d, UncheckedSubOf(slots[a], slots[b]))
  /\ Remember(d, TRUE, meaning[a] - meaning[b], {a, b}, Below(slots[a], slots[b]))
UncheckedSubAssign(a, b) ==
  /\ InPlace(a, UncheckedSubOf(slots[a], slots[b]))
  /\ Remember(a, UncheckedSubOf(slots[a], slots[b]).ok, meaning[a] - meaning[b], {a, b},
              Below(slots[a], slots[b]))

\* The left operand keeps what it stood for if the factor is refused.
ScalarMulAssign(a, k) ==
  LET result == ScalarMulOf(slots[a], k)
  IN  InPlace(a, result) /\ Remember(a, TRUE, IF result.ok THEN k * meaning[a] ELSE meaning[a], {a}, FALSE)
UncheckedScalarMulAssign(a, k) ==
  LET result == UncheckedScalarMulOf(slots[a], k)
  IN  InPlace(a, result) /\ Remember(a, TRUE, IF result.ok THEN k * meaning[a] ELSE meaning[a], {a}, FALSE)
ScalarMul(a, k, d) ==
  ByValue(d, ScalarMulOf(slots[a], k)) /\ Remember(d, TRUE, k * meaning[a], {a}, FALSE)
NegAssign(a) == ScalarMulAssign(a, mm - 1)
Neg(a, d) ==
  ByValue(d, NegOf(slots[a])) /\ Remember(d, TRUE, mm - meaning[a], {a}, FALSE)

MessageExtractAssign(a) ==
  InPlace(a, Ok(MessageExtract(slots[a]))) /\ Remember(a, TRUE, meaning[a], {a}, FALSE)

ApplyLookupTable(a, name, d) ==
  /\ ByValue(d, Ok(Bootstrapped(slots[a], UnivariateTable(name))))
  /\ Remember(d, GivesMessages(name), TableMeaning(name, meaning[a]), {a}, FALSE)

ApplyBivariate(a, b, method, d) ==
  /\ ByValue(d, BivariateOf(slots[a], slots[b], method))
  /\ Remember(d, TRUE, Evaluate(method, meaning[a], meaning[b]), {a, b}, FALSE)
ApplyBivariateAssign(a, b, method) ==
  LET result == BivariateOf(slots[a], slots[b], method)
  IN  /\ InPlace(a, result)
      /\ IF result.ok THEN Remember(a, TRUE, Evaluate(method, meaning[a], meaning[b]), {a, b}, FALSE)
         ELSE Remember(a, TRUE, meaning[a], {a}, FALSE)
-----------------------------------------------------------------------------
ShortintInit ==
  /\ params \in ParameterSets
  /\ calls = 0
  /\ meaning \in [CipherNames -> 0 .. mm - 1]
  /\ slots = [s \in CipherNames |-> Fresh(meaning[s])]
  /\ sound = [s \in CipherNames |-> TRUE]
  /\ overfull = [s \in CipherNames |-> FALSE]
  /\ crossed = [s \in CipherNames |-> FALSE]

ShortintNext ==
  \/ \E d \in CipherNames, message \in 0 .. mm - 1 : Encrypt(d, message)
  \/ \E a, b, d \in CipherNames : Add(a, b, d) \/ UncheckedAdd(a, b, d) \/ Sub(a, b, d) \/ UncheckedSub(a, b, d)
  \/ \E a, b \in CipherNames :
       AddAssign(a, b) \/ UncheckedAddAssign(a, b) \/ SubAssign(a, b) \/ UncheckedSubAssign(a, b)
  \/ \E a \in CipherNames, k \in Scalars : ScalarMulAssign(a, k) \/ UncheckedScalarMulAssign(a, k)
  \/ \E a, d \in CipherNames, k \in Scalars : ScalarMul(a, k, d)
  \/ \E a, d \in CipherNames : Neg(a, d)
  \/ \E a \in CipherNames : MessageExtractAssign(a) \/ NegAssign(a)
  \/ \E a, d \in CipherNames, name \in Tables : ApplyLookupTable(a, name, d)
  \/ \E a, b, d \in CipherNames, method \in Methods : ApplyBivariate(a, b, method, d)
  \/ \E a, b \in CipherNames, method \in Methods : ApplyBivariateAssign(a, b, method)

ShortintSpec == ShortintInit /\ [][ShortintNext]_shortintVars
-----------------------------------------------------------------------------
ShortintTypeOK ==
  /\ slots \in [CipherNames -> [plain : 0 .. Padded - 1, degree : 0 .. MaxDegree, noise : 1 .. MaxNoise]]
  /\ meaning \in [CipherNames -> 0 .. mm - 1]
  /\ sound \in [CipherNames -> BOOLEAN]
  /\ overfull \in [CipherNames -> BOOLEAN]
  /\ crossed \in [CipherNames -> BOOLEAN]

\* Whatever calls are strung together, in place or not, checked or unchecked,
\* with refusals in between: a ciphertext decrypts to what they make of the
\* messages encrypted, and its plaintext is within its degree, as long as no
\* subtraction went below zero.  A refused assigning addition or subtraction
\* has been done all the same: the ciphertext decrypts to the sum, under the
\* degree of the left operand, which no longer covers it; so does the entry
\* with a carry of a caller's table.  What is made of such a ciphertext is lost.
DegreeBoundsPlaintext ==
  \A s \in CipherNames :
    /\ sound[s] /\ ~crossed[s] => slots[s].plain <= slots[s].degree
    /\ (sound[s] \/ overfull[s]) /\ ~crossed[s] => Decrypt(slots[s]) = meaning[s]

\* server_key.rs:336: a bootstrap "that clears the carry slot, leaving a clean
\* message encoding" ends every checked call; such a ciphertext has the degree
\* and the noise of a fresh one.
ExtractsClean ==
  \A s \in CipherNames :
    sound[s] /\ slots[s].degree = mm - 1 /\ slots[s].noise = Nominal => slots[s].plain < mm
=============================================================================
