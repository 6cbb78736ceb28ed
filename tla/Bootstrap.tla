------------------------------ MODULE Bootstrap -----------------------------
(***************************************************************************)
(* The programmable bootstrap of the TFHE scheme (schemes/tfhe): a sum of  *)
(* two ciphertexts is looked up in a table.  An accumulator that holds the *)
(* table is divided by X^body, then multiplied by X^mask[i] where key bit  *)
(* i is set, under encryption, one mask entry at a time; its constant      *)
(* coefficient is extracted, and switched back to the key it came from.    *)
(*                                                                         *)
(* Four ways to multiply: schoolbook and Karatsuba on the bootstrap key as *)
(* it is, and two transforms (taken as exact: their rounding errors are    *)
(* below the noise) on a cached, flattened key.                            *)
(*                                                                         *)
(* Under it: polynomials modulo X^n + 1 with coefficients modulo a power   *)
(* of two q (silent-ring), functions on 0 .. n - 1; an LWE ciphertext is a *)
(* mask and a body, a GLWE ciphertext a mask of polynomials followed by a  *)
(* body polynomial.                                                        *)
(***************************************************************************)
EXTENDS Integers

Sum(f, n) ==
  LET s[i \in 0 .. n] == IF i = 0 THEN 0 ELSE s[i - 1] + f[i - 1]
  IN  s[n]
-----------------------------------------------------------------------------
Plus(a, b, q) == [i \in DOMAIN a |-> (a[i] + b[i]) % q]
Minus(a, b, q) == [i \in DOMAIN a |-> (a[i] - b[i]) % q]
Negate(a, q) == [i \in DOMAIN a |-> (0 - a[i]) % q]
Scaled(a, c, q) == [i \in DOMAIN a |-> (a[i] * c) % q]
Zero(n) == [i \in 0 .. n - 1 |-> 0]

\* Coefficient k of a * b modulo X^n + 1; the wrapped terms change their sign.
Schoolbook(a, b, n, q) ==
  [k \in 0 .. n - 1 |->
     Sum([i \in 0 .. n - 1 |-> IF i <= k THEN a[i] * b[k - i] ELSE 0 - a[i] * b[n + k - i]], n) % q]

\* The product without reduction, of twice the length, in three products of
\* half the length.
Plain(a, b, n) ==
  [k \in 0 .. 2 * n - 1 |->
     Sum([i \in 0 .. n - 1 |-> IF k - i \in 0 .. n - 1 THEN a[i] * b[k - i] ELSE 0], n)]
RECURSIVE FullProduct(_, _, _, _)
FullProduct(a, b, n, threshold) ==
  IF n <= threshold THEN Plain(a, b, n)
  ELSE LET h == n \div 2
           Low(p) == [i \in 0 .. h - 1 |-> p[i]]
           High(p) == [i \in 0 .. h - 1 |-> p[h + i]]
           Both(p) == [i \in 0 .. h - 1 |-> p[i] + p[h + i]]
           z0 == FullProduct(Low(a), Low(b), h, threshold)
           z2 == FullProduct(High(a), High(b), h, threshold)
           mixed == FullProduct(Both(a), Both(b), h, threshold)
           At(f, i) == IF i \in DOMAIN f THEN f[i] ELSE 0
           z1 == [i \in 0 .. n - 1 |-> mixed[i] - z0[i] - z2[i]]
       IN  [k \in 0 .. 2 * n - 1 |-> At(z0, k) + At(z1, k - h) + At(z2, k - n)]
Karatsuba(a, b, n, q, threshold) ==
  LET full == FullProduct(a, b, n, threshold)
  IN  [k \in 0 .. n - 1 |-> (full[k] - full[n + k]) % q]

\* Division by X^d, d < 2n: the code copies two slices, and negates one of
\* them, or the other if d reaches n.
Odd(x) == x % 2 = 1
DivMonomial(p, d, n, q) ==
  LET r == d % n
  IN  [i \in 0 .. n - 1 |->
         IF i < n - r THEN (IF Odd(d \div n) THEN (0 - p[i + r]) % q ELSE p[i + r])
         ELSE IF Odd(d \div n) THEN p[i - (n - r)] ELSE (0 - p[i - (n - r)]) % q]

\* X^d * p - p in one pass.
MonomialMinusOne(p, d, n, q) ==
  LET r == d % n
      minus == Odd(d \div n)
  IN  [i \in 0 .. n - 1 |->
         IF i < r THEN ((IF minus THEN p[n - r + i] ELSE 0 - p[n - r + i]) - p[i]) % q
         ELSE ((IF minus THEN 0 - p[i - r] ELSE p[i - r]) - p[i]) % q]
-----------------------------------------------------------------------------
\* A value modulo q = 2^logq at the nearest multiple of 2^(logq - logto), and a
\* message in the top bits.
ModulusSwitch(value, logq, logto) ==
  LET step == 2 ^ (logq - logto)
  IN  IF logto >= logq THEN value ELSE ((value + step \div 2) \div step) % (2 ^ logto)

\* Signed digits of value, most significant first: it is rounded to the digits
\* there are, then each digit above half the base borrows from the next one.
Digits(value, logq, baseLog, level) ==
  LET B == 2 ^ baseLog
      dropped == logq - baseLog * level
      rounding == IF dropped = 0 THEN 0 ELSE 2 ^ (dropped - 1)
      state == ((value + rounding) % (2 ^ logq)) \div (2 ^ dropped)
      raw[i \in 0 .. level - 1] ==
        ((state \div (B ^ i)) % B) + (IF i > 0 /\ raw[i - 1] > B \div 2 THEN 1 ELSE 0)
  IN  [j \in 0 .. level - 1 |-> LET d == raw[level - 1 - j] IN IF d > B \div 2 THEN d - B ELSE d]

\* The bootstrap with a cached key has a shorter form for a single digit.
OneDigit(value, logq, baseLog) ==
  LET B == 2 ^ baseLog
      shift == logq - baseLog
      rounding == IF shift = 0 THEN 0 ELSE 2 ^ (shift - 1)
      raw == (((value + rounding) % (2 ^ logq)) \div (2 ^ shift)) % B
  IN  [j \in {0} |-> IF raw > B \div 2 THEN raw - B ELSE raw]

LevelScale(j, logq, baseLog) == 2 ^ (logq - (j + 1) * baseLog)
-----------------------------------------------------------------------------
\* LWE ciphertexts [mask, body]; the key has one bit for each mask entry.
Inner(mask, key, n) == Sum([i \in 0 .. n - 1 |-> mask[i] * key[i]], n)
EncryptLwe(mask, key, n, plain, e, q) == [mask |-> mask, body |-> (Inner(mask, key, n) + plain + e) % q]
DecryptRaw(ct, key, n, q) == (ct.body - Inner(ct.mask, key, n)) % q

AddLwe(x, y, q) == [mask |-> Plus(x.mask, y.mask, q), body |-> (x.body + y.body) % q]
SubLwe(x, y, q) == [mask |-> Minus(x.mask, y.mask, q), body |-> (x.body - y.body) % q]
NegateLwe(x, q) == [mask |-> Negate(x.mask, q), body |-> (0 - x.body) % q]
ScaleLwe(x, c, q) == [mask |-> Scaled(x.mask, c, q), body |-> (x.body * c) % q]
AddPlain(x, plain, q) == [x EXCEPT !.body = (x.body + plain) % q]

\* GLWE ciphertexts: polynomials 0 .. k - 1 are the mask, polynomial k the body.
EncryptGlwe(mask, key, k, n, plain, e, q) ==
  LET body[i \in 0 .. k] ==
        IF i = 0 THEN Plus(plain, e, q)
        ELSE Plus(body[i - 1], Schoolbook(key[i - 1], mask[i - 1], n, q), q)
  IN  [i \in 0 .. k |-> IF i < k THEN mask[i] ELSE body[k]]
PhaseGlwe(ct, key, k, n, q) ==
  LET phase[i \in 0 .. k] ==
        IF i = 0 THEN ct[k] ELSE Minus(phase[i - 1], Schoolbook(key[i - 1], ct[i - 1], n, q), q)
  IN  phase[k]
PlusGlwe(x, y, q) == [i \in DOMAIN x |-> Plus(x[i], y[i], q)]
MinusGlwe(x, y, q) == [i \in DOMAIN x |-> Minus(x[i], y[i], q)]
-----------------------------------------------------------------------------

CONSTANTS
  Parameters,    \* records: logq, N, k, n, T, baseLog, level, ksBaseLog, ksLevel, noise
  Seeds,         \* each gives the generator other draws
  PreciseBits,   \* 37: digits and degree up to which one transform is enough
  Threshold,     \* 32: length up to which Karatsuba multiplies directly
  PublicCount    \* encryptions of zero in the public key

VARIABLES
  par, seed,
  keys,       \* [lwe, glwe]: bits, polynomials of bits
  backend,
  table,      \* function on 0 .. T - 1
  input,      \* the ciphertext to be looked up
  meant,      \* history: the plaintext of input, in 0 .. 2T - 1
  pc, i,      \* i: next mask entry
  acc, out

vars == <<par, seed, keys, backend, table, input, meant, pc, i, acc, out>>

q == 2 ^ par.logq
N == par.N
k == par.k
Size == par.k + 1
T == par.T
Delta == q \div (2 * T)
Log2(x) == CHOOSE e \in 0 .. 20 : 2 ^ e = x

Backends == {"schoolbook", "karatsuba", "fft", "torus"}

\* The generator: any function of the draws made so far would do.
Draw(place) == ((((seed * 7919 + place * (place * 31 + 1237)) % 30011) * 613) % 65521) \div 3
Uniform(place) == Draw(place) % q
Noise(place) == (Draw(place) % (2 * par.noise + 1)) - par.noise
UniformPoly(place) == [c \in 0 .. N - 1 |-> Uniform(N * place + c)]
NoisePoly(place) == [c \in 0 .. N - 1 |-> Noise(N * place + c)]
-----------------------------------------------------------------------------
(* Encoding, encryption, decryption.                                       *)
Encode(message) == (message % (2 * T)) * Delta
DecodeMsb(value) == ((value + Delta \div 2) \div Delta) % (2 * T)

UniformMask(place) == [e \in 0 .. par.n - 1 |-> Uniform(7 * place + e)]
EncryptSymmetric(message, place) ==
  EncryptLwe(UniformMask(place), keys.lwe, par.n, Encode(message), Noise(place), q)

\* A random subset of the public encryptions of zero is summed.
PublicKey == [c \in 0 .. PublicCount - 1 |->
  EncryptLwe(UniformMask(100 + c), keys.lwe, par.n, 0, Noise(100 + c), q)]
EncryptPublic(message, place) ==
  LET sum[c \in 0 .. PublicCount] ==
        IF c = 0 THEN [mask |-> Zero(par.n), body |-> 0]
        ELSE IF Draw(place + c) % 2 = 0 THEN sum[c - 1] ELSE AddLwe(sum[c - 1], PublicKey[c - 1], q)
  IN  AddPlain(sum[PublicCount], Encode(message), q)
DecryptPadded(ct) == DecodeMsb(DecryptRaw(ct, keys.lwe, par.n, q))

\* The accumulator to start from: boxes of N / T equal coefficients, the first
\* half box negated and moved to the end, as X^N = -1 would.
LookupPolynomial ==
  LET box == N \div T
      half == box \div 2
      raw == [c \in 0 .. N - 1 |->
                LET v == Encode(table[c \div box]) IN IF c < half THEN (0 - v) % q ELSE v]
  IN  [c \in 0 .. N - 1 |-> raw[(c + half) % N]]
-----------------------------------------------------------------------------
(* Keys for the server: for every bit a GGSW ciphertext of it, for every   *)
(* coefficient of the GLWE key its multiples under the small key.          *)
GgswRow(bit, j, r) ==
  LET scaled == bit * LevelScale(j, par.logq, par.baseLog)
  IN  IF r < k THEN Negate(Scaled(keys.glwe[r], scaled, q), q)
      ELSE [c \in 0 .. N - 1 |-> IF c = 0 THEN scaled ELSE 0]
EncryptGgsw(bit, place) ==
  [j \in 0 .. par.level - 1 |-> [r \in 0 .. Size - 1 |->
     LET here == place + 11 * j + 5 * r
     IN  EncryptGlwe([p \in 0 .. k - 1 |-> UniformPoly(here + p)], keys.glwe, k, N,
                     GgswRow(bit, j, r), NoisePoly(here + k), q)]]
BootstrapKey(e) == EncryptGgsw(keys.lwe[e], 20 + 40 * e)

\* The key of the extracted ciphertext: the coefficients one after another.
BigKey == [e \in 0 .. k * N - 1 |-> keys.glwe[e \div N][e % N]]
KeyswitchKey(e) ==
  [j \in 0 .. par.ksLevel - 1 |->
     EncryptLwe(UniformMask(200 + 9 * e + j), keys.lwe, par.n,
                0 - BigKey[e] * LevelScale(j, par.logq, par.ksBaseLog), Noise(300 + 9 * e + j), q)]
-----------------------------------------------------------------------------
(* External product: the digits of each polynomial times the rows.         *)
DecomposePoly(p, j) == [c \in 0 .. N - 1 |-> Digits(p[c], par.logq, par.baseLog, par.level)[j]]
DecomposePolyInto(p, j) ==
  IF par.level = 1 THEN [c \in 0 .. N - 1 |-> OneDigit(p[c], par.logq, par.baseLog)[j]]
  ELSE DecomposePoly(p, j)

Multiply(a, b) ==
  IF backend = "karatsuba" THEN Karatsuba(a, b, N, q, Threshold) ELSE Schoolbook(a, b, N, q)

SumPolys(f, count) ==
  LET s[x \in 0 .. count] == IF x = 0 THEN Zero(N) ELSE Plus(s[x - 1], f[x - 1], q)
  IN  s[count]

ExternalProduct(ggsw, glwe) ==
  [p \in 0 .. k |->
     SumPolys([x \in 0 .. Size * par.level - 1 |->
                 LET r == x \div par.level
                     j == x % par.level
                 IN  Multiply(DecomposePoly(glwe[r], j), ggsw[j][r][p])], Size * par.level)]

Cmux(ggsw, c0, c1) == PlusGlwe(ExternalProduct(ggsw, MinusGlwe(c1, c0, q)), c0, q)

\* The cached key: all polynomials of a GGSW ciphertext in one sequence.
Flattened(ggsw) ==
  [x \in 0 .. par.level * Size * Size - 1 |->
     ggsw[x \div (Size * Size)][(x \div Size) % Size][x % Size]]
RowBaseByRow(j, r) == r * par.level * Size + j * Size
RowBase(j, r) == j * Size * Size + r * Size

\* Short digits: both rows of a pair in one pass, from half the spectrum.
UseHalf == par.baseLog + Log2(N) <= PreciseBits /\ Size = 2

CachedTerm(block, glwe, j, r, p) ==
  Schoolbook(DecomposePolyInto(glwe[r], j), block[RowBase(j, r) + p], N, q)
RowByRow(block, glwe, p) ==
  SumPolys([x \in 0 .. Size * par.level - 1 |->
              CachedTerm(block, glwe, x % par.level, x \div par.level, p)], Size * par.level)
ExternalProductFft(block, glwe, addend) ==
  LET paired(p) == [j \in 0 .. par.level - 1 |->
        Plus(CachedTerm(block, glwe, j, 0, p), CachedTerm(block, glwe, j, 1, p), q)]
  IN  [p \in 0 .. k |->
         Plus(addend[p], IF UseHalf THEN SumPolys(paired(p), par.level) ELSE RowByRow(block, glwe, p), q)]
ExternalProductTorusFft(block, glwe, addend) ==
  [p \in 0 .. k |-> Plus(addend[p], RowByRow(block, glwe, p), q)]
-----------------------------------------------------------------------------
(* One bootstrap.                                                          *)
Switched(value) == ModulusSwitch(value, par.logq, Log2(2 * N))

Goto(here, there) == pc = here /\ pc' = there /\ UNCHANGED <<par, seed, keys, backend, table, input, meant>>

RotateBody ==
  /\ Goto("body", "mask")
  /\ acc' = [p \in 0 .. k |->
       DivMonomial(IF p < k THEN Zero(N) ELSE LookupPolynomial, Switched(input.body), N, q)]
  /\ i' = 0
  /\ UNCHANGED out

Rotation == Switched(input.mask[i])
SkipZero ==
  /\ i < par.n /\ Rotation = 0
  /\ Goto("mask", "mask")
  /\ i' = i + 1
  /\ UNCHANGED <<acc, out>>

\* acc := acc + bit * (X^rotation * acc - acc)
Difference == [p \in 0 .. k |-> MonomialMinusOne(acc[p], Rotation, N, q)]
Rotate(rotated) ==
  /\ i < par.n /\ Rotation # 0
  /\ Goto("mask", "mask")
  /\ acc' = rotated
  /\ i' = i + 1
  /\ UNCHANGED out
BlindRotate ==
  /\ backend \in {"schoolbook", "karatsuba"}
  /\ Rotate(Cmux(BootstrapKey(i), acc, PlusGlwe(acc, Difference, q)))
BlindRotateFft ==
  /\ backend = "fft"
  /\ Rotate(ExternalProductFft(Flattened(BootstrapKey(i)), Difference, acc))
BlindRotateTorusFft ==
  /\ backend = "torus"
  /\ Rotate(ExternalProductTorusFft(Flattened(BootstrapKey(i)), Difference, acc))

\* The LWE ciphertext of coefficient position of the body.
SampleExtract(glwe, position) ==
  [mask |-> [e \in 0 .. k * N - 1 |->
     LET c == e % N
         p == glwe[e \div N]
     IN  IF c <= position THEN p[position - c] ELSE (0 - p[N + position - c]) % q],
   body |-> glwe[k][position]]

Extract ==
  /\ i = par.n
  /\ Goto("mask", "extracted")
  /\ out' = SampleExtract(acc, 0)
  /\ UNCHANGED <<i, acc>>

Keyswitched(ct) ==
  LET levels == par.ksLevel
      term(x) == ScaleLwe(KeyswitchKey(x \div levels)[x % levels],
                          Digits(ct.mask[x \div levels], par.logq, par.ksBaseLog, levels)[x % levels], q)
      sum[x \in 0 .. k * N * levels] ==
        IF x = 0 THEN [mask |-> Zero(par.n), body |-> ct.body] ELSE AddLwe(sum[x - 1], term(x - 1), q)
  IN  sum[k * N * levels]

Keyswitch ==
  /\ Goto("extracted", "done")
  /\ out' = Keyswitched(out)
  /\ UNCHANGED <<i, acc>>
-----------------------------------------------------------------------------
\* Operations on ciphertexts before the lookup, and the plaintext they mean.
Inputs(a, b) ==
  LET x == EncryptSymmetric(a, 1)
      y == EncryptPublic(b, 2)
  IN  { [ct |-> AddLwe(x, y, q), meant |-> a + b], [ct |-> SubLwe(x, y, q), meant |-> a - b],
        [ct |-> ScaleLwe(x, b, q), meant |-> a * b], [ct |-> NegateLwe(y, q), meant |-> 0 - b],
        [ct |-> AddPlain(y, Encode(a), q), meant |-> a + b] }

Init ==
  /\ par \in Parameters
  /\ seed \in Seeds
  /\ keys = [lwe |-> [e \in 0 .. par.n - 1 |-> Draw(400 + e) % 2],
             glwe |-> [p \in 0 .. par.k - 1 |-> [c \in 0 .. par.N - 1 |-> Draw(500 + par.N * p + c) % 2]]]
  /\ backend \in Backends
  /\ table \in [0 .. par.T - 1 -> 0 .. par.T - 1]
  /\ \E a \in 0 .. par.T - 1, b \in 0 .. par.T - 1 :
       \E made \in Inputs(a, b) : input = made.ct /\ meant = made.meant % (2 * par.T)
  /\ pc = "body"
  /\ i = 0
  /\ acc = <<>>
  /\ out = <<>>

Next == RotateBody \/ SkipZero \/ BlindRotate \/ BlindRotateFft \/ BlindRotateTorusFft \/ Extract \/ Keyswitch

Spec == Init /\ [][Next]_vars
-----------------------------------------------------------------------------
\* The lower half of the plaintexts gives the entry, the upper half the negated
\* entry.
Expected == IF meant < T THEN table[meant] ELSE (2 * T - table[meant - T]) % (2 * T)

Near(x, y) == (x - y + Delta \div 2) % q < Delta

\* Whatever way it multiplies, the accumulator is at each step the table rotated
\* by as much of the phase as has been read, and the outcome decrypts under the
\* first key to the entry.
Evaluates ==
  LET read[e \in 0 .. i] == IF e = 0 THEN 0 ELSE read[e - 1] + Switched(input.mask[e - 1]) * keys.lwe[e - 1]
      phase == (Switched(input.body) - read[i]) % (2 * N)
      rotated == DivMonomial(LookupPolynomial, phase, N, q)
  IN  /\ pc = "mask" => \A c \in 0 .. N - 1 : Near(PhaseGlwe(acc, keys.glwe, k, N, q)[c], rotated[c])
      /\ pc = "extracted" => Near(DecryptRaw(out, BigKey, k * N, q), Encode(Expected))
      /\ pc = "done" => DecryptPadded(out) = Expected
=============================================================================
