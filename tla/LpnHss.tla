------------------------------- MODULE LpnHss -------------------------------
(***************************************************************************)
(* Shares of a client's vector times a server's matrix, from noisy         *)
(* encodings that a code corrects (silent-lpn, hss.rs and lpn.rs; products *)
(* of matrices and triples in silent-operators, modular/lpn_hss.rs).       *)
(*                                                                         *)
(* Every entry of the codeword of the product is computed on its own, from *)
(* an encoding with noise of its own, so noise is an error in the word.    *)
(*                                                                         *)
(* The code is Reed and Solomon's (silent-lpn, code.rs), over the linear   *)
(* algebra of linalg.rs and field.rs, modulo q, meant to be a prime: three *)
(* eliminations give up on a pivot that has no inverse.  Messages are r    *)
(* numbers, words their values at 1 .. n; there are two decoders, up to t  *)
(* errors.  The code is a record of its parameters and matrices.           *)
(***************************************************************************)
EXTENDS MatrixMul, AdditiveShares

\* 0 where there is none.
InvMod(a, q) ==
  LET found == {x \in 1 .. q - 1 : (a * x) % q = 1}
  IN  IF found = {} THEN 0 ELSE CHOOSE x \in found : TRUE

HammingWeight(v) == Cardinality({i \in DOMAIN v : v[i] # 0})
Identity(n) == [i \in 1 .. n |-> [j \in 1 .. n |-> IF i = j THEN 1 ELSE 0]]
Transpose(m) == [j \in Columns(m) |-> Column(m, j)]
SubVectors(u, v, q) == [i \in DOMAIN u |-> (u[i] - v[i]) % q]
ScaleAdd(u, c, v, q) == [i \in DOMAIN u |-> (u[i] + c * v[i]) % q]
MulVec(m, v, q) == Computed(MatrixTimesVector(m, v, q))
TransposeMulVec(m, v, q) == Computed(TransposeTimesVector(m, v, q))
-----------------------------------------------------------------------------
(* The first entry that is not 0 in a column becomes the pivot.  What has  *)
(* been done: the matrix, the columns with a pivot, and whether all of     *)
(* them had an inverse.                                                    *)
Candidates(done, c) == {i \in Len(done.pivots) + 1 .. Len(done.m) : done.m[i][c] # 0}
Swapped(m, i, j) == [m EXCEPT ![i] = m[j], ![j] = m[i]]
Normalized(m, row, factor, q) == [m EXCEPT ![row] = [k \in DOMAIN @ |-> (@[k] * factor) % q]]
Cleared(m, row, c, from, q) ==
  [i \in DOMAIN m |-> IF i = row \/ i < from THEN m[i] ELSE ScaleAdd(m[i], 0 - m[i][c], m[row], q)]

\* With the entry in row `at`; the rows before `from` stay as they are.
PivotIn(done, c, at, from, q) ==
  LET row == Len(done.pivots) + 1
      inverse == InvMod(done.m[at][c], q)
  IN  IF inverse = 0 THEN [done EXCEPT !.ok = FALSE]
      ELSE [ok |-> TRUE, pivots |-> Append(done.pivots, c),
            m |-> Computed(Cleared(Normalized(Swapped(done.m, row, at), row, inverse, q), row, c, from, q))]
\* A mutant: only the rows below are cleared.
EliminateBelow(done, c, q) ==
  IF ~done.ok \/ Candidates(done, c) = {} THEN done
  ELSE PivotIn(done, c, Min(Candidates(done, c)), Len(done.pivots) + 1, q)
Eliminate(done, c, q) ==
  IF ~done.ok \/ Candidates(done, c) = {} THEN done
  ELSE PivotIn(done, c, Min(Candidates(done, c)), 1, q)
Eliminated(m, columns, q) ==
  FoldLeft(LAMBDA done, c : Eliminate(done, c, q), [ok |-> TRUE, m |-> m, pivots |-> <<>>],
           [c \in 1 .. columns |-> c])

\* solve_linear_system: what has no pivot is 0; "error" where a pivot failed.
SolutionOf(done, width) ==
  LET Contradicts(row) == (\A c \in 1 .. width : row[c] = 0) /\ row[width + 1] # 0
      value(c) ==
        IF \E i \in DOMAIN done.pivots : done.pivots[i] = c
        THEN done.m[CHOOSE i \in DOMAIN done.pivots : done.pivots[i] = c][width + 1] ELSE 0
  IN  IF ~done.ok THEN [kind |-> "error", values |-> <<>>]
      ELSE IF \E i \in DOMAIN done.m : Contradicts(done.m[i]) THEN [kind |-> "none", values |-> <<>>]
      ELSE [kind |-> "solution", values |-> [c \in 1 .. width |-> value(c)]]
Solve(m, rhs, q) ==
  SolutionOf(Eliminated([i \in DOMAIN m |-> Append(m[i], rhs[i])], Len(m[1]), q), Len(m[1]))

RightHalf(done, n) ==
  IF ~done.ok \/ Len(done.pivots) < n THEN Refused ELSE [i \in 1 .. n |-> SubSeq(done.m[i], n + 1, 2 * n)]
InvertSquare(m, q) ==
  RightHalf(Eliminated([i \in DOMAIN m |-> m[i] \o Identity(Len(m))[i]], Len(m), q), Len(m))

\* One row for each column without a pivot.
BasisOf(done, width, q) ==
  LET free == SetToSortSeq(1 .. width \ Range(done.pivots), <)
      vector(f) ==
        [c \in 1 .. width |->
           IF c = f THEN 1
           ELSE IF \E i \in DOMAIN done.pivots : done.pivots[i] = c
           THEN (0 - done.m[CHOOSE i \in DOMAIN done.pivots : done.pivots[i] = c][f]) % q ELSE 0]
  IN  IF ~done.ok THEN Refused ELSE [k \in DOMAIN free |-> vector(free[k])]
NullspaceBasis(m, q) == BasisOf(Eliminated(m, Len(m[1]), q), Len(m[1]), q)
-----------------------------------------------------------------------------

\* A modulus that is not a prime passes where the eliminations do.
CodeOf(q, n, r, t, generator, parity, inverse) ==
  IF parity = Refused \/ Len(parity) # n - r \/ inverse = Refused THEN Refused
  ELSE [q |-> q, n |-> n, r |-> r, t |-> t, generator |-> generator, parity |-> Computed(parity),
        recovery |-> Computed([i \in 1 .. r |-> inverse[i] \o [k \in 1 .. n - r |-> 0]])]
NewCode(q, n, r, t) ==
  LET generator == Computed([i \in 1 .. n |-> [j \in 1 .. r |-> (i ^ (j - 1)) % q]])
  IN  IF r = 0 \/ n <= r \/ n >= q \/ 2 * t > n - r THEN Refused
      ELSE CodeOf(q, n, r, t, generator, NullspaceBasis(Transpose(generator), q),
                  InvertSquare(SubSeq(generator, 1, r), q))

EncodeWord(code, message) == MulVec(code.generator, message, code.q)
Syndrome(code, word) == MulVec(code.parity, word, code.q)
Recover(code, word) == MulVec(code.recovery, word, code.q)
-----------------------------------------------------------------------------
(* By syndrome: the first set of positions, in order, with errors that     *)
(* explain it, none of them 0.                                             *)
ErrorFrom(code, syndrome, support, solved) ==
  LET error ==
        [i \in 1 .. code.n |->
           IF \E k \in DOMAIN support : support[k] = i
           THEN solved.values[CHOOSE k \in DOMAIN support : support[k] = i] ELSE 0]
  IN  IF solved.kind # "solution" \/ (\E k \in DOMAIN solved.values : solved.values[k] = 0)
         \/ Syndrome(code, error) # syndrome
      THEN [kind |-> IF solved.kind = "error" THEN "error" ELSE "none", error |-> <<>>]
      ELSE [kind |-> "solution", error |-> error]
SolveSupport(code, syndrome, support) ==
  LET m == [i \in DOMAIN code.parity |-> [k \in DOMAIN support |-> code.parity[i][support[k]]]]
  IN  ErrorFrom(code, syndrome, support, Solve(m, syndrome, code.q))

SupportBefore(a, b) ==
  \/ Len(a) < Len(b)
  \/ Len(a) = Len(b) /\ \E k \in DOMAIN a : a[k] < b[k] /\ \A j \in 1 .. k - 1 : a[j] = b[j]
Supports(n, t) ==
  LET weights == 1 .. t
  IN  {s \in UNION {[1 .. w -> 1 .. n] : w \in weights} : \A k \in 2 .. Len(s) : s[k - 1] < s[k]}

\* The search ends at the first answer, or at an elimination that failed.
FirstAnswer(code, syndrome, answers) ==
  IF answers = {} THEN Refused
  ELSE SolveSupport(code, syndrome,
         CHOOSE s \in answers : \A other \in answers \ {s} : SupportBefore(s, other)).error
DecodeErrorFromSyndrome(code, syndrome) ==
  IF \A i \in DOMAIN syndrome : syndrome[i] = 0 THEN [i \in 1 .. code.n |-> 0]
  ELSE FirstAnswer(code, syndrome,
         {s \in Supports(code.n, code.t) : SolveSupport(code, syndrome, s).kind # "none"})
-----------------------------------------------------------------------------
(* By Berlekamp and Welch: polynomials Q and E with Q(x) = y E(x) at every *)
(* point, E of degree t, and the message Q / E.                            *)
Trimmed(f) ==
  LET nonzero == {k \in DOMAIN f : f[k] # 0}
  IN  SubSeq(f, 1, IF nonzero = {} THEN 0 ELSE Max(nonzero))

\* Quotient and remainder by a polynomial with leading coefficient 1.
PolyDiv(f, g, q) ==
  LET num == Trimmed(f)
      den == Trimmed(g)
      steps == Len(num) - Len(den) + 1
      Divide(acc, shift) ==
        LET c == acc.rem[shift + Len(den)]
        IN  [quo |-> [acc.quo EXCEPT ![shift + 1] = c],
             rem |-> Computed([k \in DOMAIN acc.rem |->
                       IF k > shift /\ k <= shift + Len(den)
                       THEN (acc.rem[k] - c * den[k - shift]) % q ELSE acc.rem[k]])]
  IN  IF Len(num) < Len(den) THEN [quo |-> <<0>>, rem |-> num]
      ELSE FoldLeft(LAMBDA acc, shift : Divide(acc, shift),
                    [quo |-> [k \in 1 .. steps |-> 0], rem |-> num],
                    [k \in 1 .. steps |-> steps - k])

Distance(u, v) == Cardinality({i \in DOMAIN u : u[i] # v[i]})
MessageFrom(code, word, divided) ==
  LET message == [k \in 1 .. code.r |-> IF k <= Len(divided.quo) THEN divided.quo[k] ELSE 0]
  IN  IF Trimmed(divided.rem) # <<>> \/ Distance(word, EncodeWord(code, message)) > code.t
      THEN Refused ELSE message
Quotient(code, word, values) ==
  LET terms == code.r + code.t
  IN  MessageFrom(code, word,
        PolyDiv(SubSeq(values, 1, terms), Append(SubSeq(values, terms + 1, terms + code.t), 1), code.q))
BerlekampWelch(code, word) ==
  LET terms == code.r + code.t
      row(i) ==
        [k \in 1 .. terms + code.t |->
           IF k <= terms THEN (i ^ (k - 1)) % code.q
           ELSE (0 - word[i] * i ^ (k - terms - 1)) % code.q]
      rhs == [i \in 1 .. code.n |-> (word[i] * i ^ code.t) % code.q]
      Answer(solved) == IF solved.kind # "solution" THEN Refused ELSE Quotient(code, word, solved.values)
  IN  IF terms + code.t > code.n THEN Refused
      ELSE Answer(Solve([i \in 1 .. code.n |-> row(i)], rhs, code.q))

\* The other decoder is asked where the first gives up.
Corrected(code, word, error) ==
  IF error = Refused THEN Refused ELSE Recover(code, SubVectors(word, error, code.q))
DecodeWord(code, word) ==
  LET Else(message) ==
        IF message # Refused THEN message
        ELSE Corrected(code, word, DecodeErrorFromSyndrome(code, Syndrome(code, word)))
  IN  IF code.t = 0 THEN Recover(code, word) ELSE Else(BerlekampWelch(code, word))
DecodeErrorFromWord(code, word) ==
  LET Small(error) == IF HammingWeight(error) > code.t THEN Refused ELSE error
      Error(message) ==
        IF message = Refused THEN Refused
        ELSE Small(SubVectors(word, EncodeWord(code, message), code.q))
  IN  Error(DecodeWord(code, word))

\* From shares of a noisy word to shares of its message, the word in the open.
PlainCrscConvert(code, client, server) ==
  LET Shares(error) ==
        IF error = Refused THEN Refused
        ELSE [client |-> Recover(code, SubVectors(client, error, code.q)),
              server |-> Recover(code, server), error |-> error]
  IN  Shares(DecodeErrorFromWord(code, AddVectors(client, server, code.q)))
-----------------------------------------------------------------------------
(***************************************************************************)
(* Correcting a shared word without opening it (silent-operators,          *)
(* modular/lpn_crsc.rs): for every set of at most two positions the        *)
(* parties compute shares of the errors that would explain the syndrome    *)
(* there, and shares of whether they do, and take away the sum of all      *)
(* errors that do.  A slot of a batch is computed like any other.          *)
(***************************************************************************)

\* All that lookups and products draw, as a function of one number.
ZeroIndicator(x, draw, q) == Lookup(x, q, {0}, [c \in 0 .. q - 1 |-> Bit(c = 0)], draw, q)
NonzeroIndicator(x, draw, q) == SubShares(SharePublic(1, q), ZeroIndicator(x, draw, q), q)
AndBits(x, y, draw, q) ==
  Lookup(AddShares(x, ScaledShares(y, 2, q), q), q, {3}, [c \in 0 .. q - 1 |-> Bit(c = 3)], draw, q)

\* From shares of a triple a * b = c; only x - a and y - b are opened.
BeaverWithoutPublicTerm(x, y, draw, q) ==
  LET a == Shared(draw, draw + 1, q)
      b == Shared(draw + 2, 2 * draw, q)
      c == Shared(draw * (draw + 2), draw + 3, q)
      d == Reconstruct(SubShares(x, a, q), q)
      e == Reconstruct(SubShares(y, b, q), q)
  IN  [p0 |-> (c.p0 + d * b.p0 + e * a.p0) % q, p1 |-> (c.p1 + d * b.p1 + e * a.p1) % q]
BeaverMul(x, y, draw, q) ==
  LET a == Shared(draw, draw + 1, q)
      b == Shared(draw + 2, 2 * draw, q)
      c == Shared(draw * (draw + 2), draw + 3, q)
      d == Reconstruct(SubShares(x, a, q), q)
      e == Reconstruct(SubShares(y, b, q), q)
  IN  [p0 |-> (c.p0 + d * b.p0 + e * a.p0 + d * e) % q,
       p1 |-> (c.p1 + d * b.p1 + e * a.p1) % q]
-----------------------------------------------------------------------------
H(code, row, position) == code.parity[row][position]
Times(x, y, c, d, q) == SubShares(ScaledShares(x, c, q), ScaledShares(y, d, q), q)

\* The syndrome is a sequence of shares; the first row, or pair of rows, that
\* can be solved. <<>> where there is none.
SolveWeightOne(code, position, syndrome) ==
  LET rows == {row \in DOMAIN code.parity : InvMod(H(code, row, position), code.q) # 0}
      row == Min(rows)
  IN  IF rows = {} THEN Refused
      ELSE << ScaledShares(syndrome[row], InvMod(H(code, row, position), code.q), code.q) >>

Determinant(code, a, b, i, j) ==
  (H(code, a, i) * H(code, b, j) - H(code, a, j) * H(code, b, i)) % code.q
SolveWeightTwo(code, i, j, syndrome) ==
  LET rows == DOMAIN code.parity
      pairs ==
        {w \in rows \X rows :
           w[1] < w[2] /\ InvMod(Determinant(code, w[1], w[2], i, j), code.q) # 0}
      a == Min({w[1] : w \in pairs})
      b == Min({w[2] : w \in {v \in pairs : v[1] = a}})
      inverse == InvMod(Determinant(code, a, b, i, j), code.q)
      first == Times(syndrome[a], syndrome[b], H(code, b, j), H(code, a, j), code.q)
      second == Times(syndrome[b], syndrome[a], H(code, a, i), H(code, b, i), code.q)
  IN  IF pairs = {} THEN Refused
      ELSE << ScaledShares(first, inverse, code.q), ScaledShares(second, inverse, code.q) >>

SolveSupportValues(code, support, syndrome) ==
  IF Len(support) = 1 THEN SolveWeightOne(code, support[1], syndrome)
  ELSE SolveWeightTwo(code, support[1], support[2], syndrome)

\* Shares of whether the values explain every row.
ResidualZero(code, support, values, syndrome, draw) ==
  LET residual(row) ==
        FoldLeftDomain(LAMBDA acc, k :
          SubShares(acc, ScaledShares(values[k], H(code, row, support[k]), code.q), code.q),
          syndrome[row], support)
  IN  FoldLeftDomain(LAMBDA acc, row :
        AndBits(acc, ZeroIndicator(residual(row), draw + row, code.q), draw, code.q),
        SharePublic(1, code.q), code.parity)

AllNonzero(values, indicator, draw, q) ==
  FoldLeft(LAMBDA acc, v : AndBits(acc, NonzeroIndicator(v, draw, q), draw + 1, q), indicator, values)
-----------------------------------------------------------------------------
CandidateCount(code) ==
  1 + (IF code.t >= 1 THEN code.n ELSE 0)
    + (IF code.t >= 2 THEN (code.n * (code.n - 1)) \div 2 ELSE 0)

\* The shares of the errors, over all supports in order.
ErrorShares(code, syndrome, draw) ==
  LET Add(errors, support, values, indicator) ==
        Computed([i \in DOMAIN errors |->
          IF \E k \in DOMAIN support : support[k] = i
          THEN AddShares(errors[i],
                         BeaverMul(indicator, values[CHOOSE k \in DOMAIN support : support[k] = i], draw, code.q),
                         code.q)
          ELSE errors[i]])
      Try(errors, support, values) ==
        Add(errors, support, values,
            AllNonzero(values, ResidualZero(code, support, values, syndrome, draw), draw, code.q))
      Select(errors, support) == Try(errors, support, SolveSupportValues(code, support, syndrome))
  IN  FoldLeft(Select, [i \in 1 .. code.n |-> SharePublic(0, code.q)],
               SetToSortSeq(Supports(code.n, code.t), SupportBefore))

\* Refused with a radius above 2, too many candidates, lookups too small, or a
\* support that no row can be solved for.
DistributedRefuses(code, config) ==
  \/ code.t > 2 \/ CandidateCount(code) > config.maxCandidates
  \/ code.q > config.maxDomain \/ (code.q <= 3 /\ code.t > 0)
  \/ \E s \in Supports(code.n, code.t) :
       SolveSupportValues(code, s, [i \in 1 .. code.n - code.r |-> SharePublic(0, code.q)]) = Refused

\* Both parties correct their own share.
DistributedConvert(code, client, server, draw, config) ==
  LET Pairs(ours, theirs) == [i \in DOMAIN ours |-> [p0 |-> ours[i], p1 |-> theirs[i]]]
      Shares(errors) ==
        [client |-> Recover(code, SubVectors(client, [i \in DOMAIN errors |-> errors[i].p0], code.q)),
         server |-> Recover(code, SubVectors(server, [i \in DOMAIN errors |-> errors[i].p1], code.q)),
         error |-> [i \in DOMAIN errors |-> Reconstruct(errors[i], code.q)]]
  IN  IF DistributedRefuses(code, config) THEN Refused
      ELSE Shares(ErrorShares(code, Pairs(Syndrome(code, client), Syndrome(code, server)), draw))

\* preprocess_crsc_keys_many checks what the conversion checks, for a batch of
\* one size; the conversion of that batch allows as many candidates as it found.
PreprocessKeys(code, config, batch) ==
  IF batch = 0 \/ code.q > config.maxDomain \/ code.t > 2 \/ CandidateCount(code) > config.maxCandidates
  THEN Refused ELSE [batch |-> batch, candidates |-> CandidateCount(code)]
ConvertManyLocal(code, keys, clients, servers, draw, config) ==
  IF keys = Refused \/ Len(clients) # keys.batch THEN Refused
  ELSE [k \in DOMAIN clients |->
          DistributedConvert(code, clients[k], servers[k], draw,
                             [config EXCEPT !.maxCandidates = keys.candidates])]
-----------------------------------------------------------------------------
(* Products of a vector and a matrix over the code.                        *)

\* [kind, q, codeLen, radius, weight, blockWidth, lhs, rhs, lhs2, rhs2, lpn,
\*  masks, noises, conversion, draw, config, words]: lpn holds a and b for each
\* block, masks and noises what the server may draw, lhs2 and rhs2 the
\* server's shares of a triple.
CONSTANT LpnJobs

VARIABLES
  lpnJob,
  lpnPhase,   \* "setup", "preprocess", "digest", "convert", "done", "refused", "word"
  at,         \* the invocation: product, block, row
  code,
  keys,       \* what the server preprocessed
  client,     \* the digests, masks and words of the client, one for each slot
  sums,       \* shares of the products
  stats       \* blocks, weight of the corrected errors, field elements sent, and
              \* whether no error was beyond the radius

lpnVars == <<lpnJob, lpnPhase, at, code, keys, client, sums, stats>>
-----------------------------------------------------------------------------
(* The protocol's pieces.                                                  *)
Digest(lpn, x, u, q) == AddVectors(MulVec(lpn.a, x, q), MulVec(lpn.b, u, q), q)

MasksOfWeight(len, weight, q) == {u \in [1 .. len -> 0 .. q - 1] : HammingWeight(u) = weight}

\* One encoding for every position of the codeword.
Encodings(c, lpn, ys, masks, noise) ==
  LET bar(j) ==
        FoldLeftDomain(LAMBDA acc, l : ScaleAdd(acc, c.generator[j][l], ys[l], c.q),
                       [k \in DOMAIN ys[1] |-> 0], ys)
      e(j) == AddVectors(AddVectors(TransposeMulVec(lpn.a, masks[j], c.q), bar(j), c.q), noise[j].x, c.q)
      e2(j) == AddVectors(TransposeMulVec(lpn.b, masks[j], c.q), noise[j].u, c.q)
  IN  Computed([j \in 1 .. c.n |-> [e |-> e(j), e2 |-> e2(j)]])

SyndromeKey(c, masks) ==
  Computed([row \in DOMAIN c.parity |->
     FoldLeftDomain(LAMBDA acc, j : ScaleAdd(acc, c.parity[row][j], masks[j], c.q),
                    [k \in DOMAIN masks[1] |-> 0], masks)])

ClientWord(encodings, x, u, q) ==
  [j \in DOMAIN encodings |-> (Dot(encodings[j].e, x, q) + Dot(encodings[j].e2, u, q)) % q]
ServerWord(masks, digest, q) == [j \in DOMAIN masks |-> (0 - Dot(masks[j], digest, q)) % q]

\* The client corrects, with the key in place of the server's syndrome.
SyndromeFromKey(c, word, digest, key) ==
  LET own == Syndrome(c, word)
  IN  [row \in DOMAIN own |-> (own[row] - Dot(key[row], digest, c.q)) % c.q]
KeyShares(c, word, corrected, serverWord, error) ==
  IF error = Refused THEN Refused
  ELSE [client |-> Recover(c, IF corrected THEN SubVectors(word, error, c.q) ELSE word),
        server |-> Recover(c, serverWord), error |-> error]
SyndromeKeyConvertUncorrected(c, word, serverWord, digest, key) ==
  KeyShares(c, word, FALSE, serverWord, DecodeErrorFromSyndrome(c, SyndromeFromKey(c, word, digest, key)))
SyndromeKeyConvert(c, word, serverWord, digest, key) ==
  KeyShares(c, word, TRUE, serverWord, DecodeErrorFromSyndrome(c, SyndromeFromKey(c, word, digest, key)))

\* A batch under one key, refused as a whole.
WholeBatch(results) == IF \E k \in DOMAIN results : results[k] = Refused THEN Refused ELSE results
SyndromeKeyMany(c, words, serverWords, digests, key) ==
  WholeBatch([k \in DOMAIN words |->
                SyndromeKeyConvert(c, words[k], serverWords[k], digests[k], key)])

\* The server corrects, with the client's syndrome.
ServerPlainConvert(c, word, serverWord) ==
  LET Shares(error) ==
        IF error = Refused THEN Refused
        ELSE [client |-> Recover(c, word), server |-> Recover(c, SubVectors(serverWord, error, c.q)),
              error |-> error]
  IN  Shares(DecodeErrorFromSyndrome(c, AddVectors(Syndrome(c, word), Syndrome(c, serverWord), c.q)))
-----------------------------------------------------------------------------
(* Products of matrices, in blocks of columns.                             *)
Triple(job) == job.kind = "triple"
ProductsOf(job) ==
  IF Triple(job)
  THEN << [lhs |-> job.lhs, rhs |-> job.rhs2],
          [lhs |-> Transpose(job.rhs), rhs |-> Transpose(job.lhs2)] >>
  ELSE << [lhs |-> job.lhs, rhs |-> job.rhs] >>
Current == ProductsOf(lpnJob)[at.product]

Width(lhs) == IF lpnJob.blockWidth < Len(lhs[1]) THEN lpnJob.blockWidth ELSE Len(lhs[1])
Starts(lhs) == {k \in 1 .. Len(lhs[1]) : (k - 1) % Width(lhs) = 0}
EndOf(lhs, start) == IF start + Width(lhs) - 1 < Len(lhs[1]) THEN start + Width(lhs) - 1 ELSE Len(lhs[1])

\* The part of a row of the client, and of every column of the server.
LhsRowBlock(lhs, row, start) == SubSeq(lhs[row], start, EndOf(lhs, start))
RhsColumnBlocks(rhs, lhs, start) ==
  [j \in Columns(rhs) |-> SubSeq(Column(rhs, j), start, EndOf(lhs, start))]

\* The rows of one vector product are slots that share one preprocessing.
Slots == IF lpnJob.kind = "batch" THEN Rows(Current.lhs) ELSE {at.row}

MaskLen == Len(lpnJob.lpn[1].b[1])
FieldElements(c, lpn) ==
  c.n * (Len(lpn.a[1]) + Len(lpn.b[1])) + (c.n - c.r) * Len(lpn.a) + Len(lpn.a)
-----------------------------------------------------------------------------
LpnInit ==
  /\ lpnJob \in LpnJobs
  /\ lpnPhase = "setup"
  /\ at = [product |-> 1, start |-> 1, row |-> 1]
  /\ code = <<>> /\ keys = <<>> /\ client = <<>>
  /\ sums = [k \in DOMAIN ProductsOf(lpnJob) |->
               LET zero == [i \in Rows(ProductsOf(lpnJob)[k].lhs) |->
                              [j \in Columns(ProductsOf(lpnJob)[k].rhs) |-> 0]]
               IN  [client |-> zero, server |-> zero, error |-> <<>>]]
  /\ stats = [blocks |-> 0, weight |-> 0, elements |-> 0, clean |-> TRUE]

\* A new public setup for every block.
SetupBlock ==
  /\ lpnPhase = "setup" /\ lpnJob.kind # "word"
  /\ code' = NewCode(lpnJob.q, lpnJob.codeLen, Len(Current.rhs[1]), lpnJob.radius)
  /\ lpnPhase' = IF code' = Refused \/ lpnJob.weight > MaskLen \/ lpnJob.blockWidth = 0
                 THEN "refused" ELSE "preprocess"
  /\ UNCHANGED <<lpnJob, at, keys, client, sums, stats>>

Setups == lpnJob.lpn[Cardinality({s \in Starts(Current.lhs) : s <= at.start})]
ServerPreprocess ==
  /\ lpnPhase = "preprocess"
  /\ \E masks \in lpnJob.masks, noise \in lpnJob.noises :
       LET narrowed == [j \in DOMAIN noise |->
                          [x |-> SubSeq(noise[j].x, 1, EndOf(Current.lhs, at.start) - at.start + 1),
                           u |-> noise[j].u]]
       IN  keys' = [masks |-> masks, syndrome |-> SyndromeKey(code, masks), noise |-> narrowed,
                    encodings |-> Encodings(code, Setups, RhsColumnBlocks(Current.rhs, Current.lhs, at.start),
                                            masks, narrowed)]
  /\ lpnPhase' = "digest"
  /\ UNCHANGED <<lpnJob, at, code, client, sums, stats>>

\* A mask of exactly the weight for every slot.
ClientDigest ==
  /\ lpnPhase = "digest"
  /\ \E us \in [Slots -> MasksOfWeight(MaskLen, lpnJob.weight, lpnJob.q)] :
       client' =
         [slot \in Slots |->
            LET x == LhsRowBlock(Current.lhs, slot, at.start)
            IN  [x |-> x, u |-> us[slot], digest |-> Digest(Setups, x, us[slot], lpnJob.q),
                 word |-> ClientWord(keys.encodings, x, us[slot], lpnJob.q)]]
  /\ lpnPhase' = "convert"
  /\ UNCHANGED <<lpnJob, at, code, keys, sums, stats>>

TheirWord(slot) == ServerWord(keys.masks, client[slot].digest, lpnJob.q)
Converted(slot) ==
  LET mine == client[slot]
  IN  CASE lpnJob.conversion = "syndrome key" ->
             SyndromeKeyConvert(code, mine.word, TheirWord(slot), mine.digest, keys.syndrome)
        [] lpnJob.conversion = "server" -> ServerPlainConvert(code, mine.word, TheirWord(slot))
        [] lpnJob.conversion = "plain" -> PlainCrscConvert(code, mine.word, TheirWord(slot))
        [] lpnJob.conversion = "distributed" ->
             DistributedConvert(code, mine.word, TheirWord(slot), lpnJob.draw, lpnJob.config)

\* A batch is prepared for its size, and refused as a whole.
ConvertedBatch ==
  LET first == Min(Slots) - 1
      count == 1 .. Cardinality(Slots)
      words == [k \in count |-> client[first + k].word]
      theirs == [k \in count |-> TheirWord(first + k)]
      OfSlots(many) == [slot \in Slots |-> IF many = Refused THEN Refused ELSE many[slot - first]]
  IN  OfSlots(IF lpnJob.conversion = "distributed"
              THEN ConvertManyLocal(code, PreprocessKeys(code, lpnJob.config, lpnJob.config.batch),
                                    words, theirs, lpnJob.draw, lpnJob.config)
              ELSE SyndromeKeyMany(code, words, theirs, [k \in count |-> client[first + k].digest],
                                   keys.syndrome))
ConvertedSlots ==
  IF lpnJob.kind = "batch" THEN ConvertedBatch ELSE [slot \in Slots |-> Converted(slot)]

\* What the noise adds to the word of a slot.
ErrorIn(slot) ==
  [j \in 1 .. code.n |->
     (Dot(keys.noise[j].x, client[slot].x, lpnJob.q) + Dot(keys.noise[j].u, client[slot].u, lpnJob.q))
     % lpnJob.q]
Within(slot) == HammingWeight(ErrorIn(slot)) <= code.t

\* Shares are added up over the blocks; then the next row, block or product.
ConvertShares ==
  /\ lpnPhase = "convert"
  /\ \E results \in {Computed(ConvertedSlots)} :
     LET added(which, i, j) ==
           IF i \in Slots THEN (sums[at.product][which][i][j] + results[i][which][j]) % lpnJob.q
           ELSE sums[at.product][which][i][j]
         table(which) ==
           [i \in Rows(Current.lhs) |-> [j \in Columns(Current.rhs) |-> added(which, i, j)]]
         last == Max(Slots) = Len(Current.lhs)
         ended == EndOf(Current.lhs, at.start) = Len(Current.lhs[1])
     IN  IF \E slot \in Slots : results[slot] = Refused THEN
           /\ lpnPhase' = "refused"
           /\ UNCHANGED <<at, sums, stats>>
         ELSE
           /\ sums' = [sums EXCEPT ![at.product] =
                         [client |-> table("client"), server |-> table("server"),
                          error |-> Append(@.error, [slot \in Slots |-> results[slot].error])]]
           /\ stats' = [blocks |-> stats.blocks + (IF last THEN 1 ELSE 0),
                        weight |-> stats.weight
                                   + SumOver(Slots, LAMBDA slot : HammingWeight(results[slot].error)),
                        elements |-> stats.elements + FieldElements(code, Setups),
                        clean |-> stats.clean /\ \A slot \in Slots : Within(slot)]
           /\ at' = IF ~last THEN [at EXCEPT !.row = @ + 1]
                    ELSE IF ~ended THEN [at EXCEPT !.row = 1, !.start = EndOf(Current.lhs, @) + 1]
                    ELSE [product |-> at.product + 1, start |-> 1, row |-> 1]
           /\ lpnPhase' = IF ~last THEN "preprocess"
                          ELSE IF ~ended \/ at.product < Len(ProductsOf(lpnJob)) THEN "setup" ELSE "done"
  /\ UNCHANGED <<lpnJob, code, keys, client>>

\* The code alone, on some word.
TakeWord ==
  /\ lpnPhase = "setup" /\ lpnJob.kind = "word"
  /\ code' = NewCode(lpnJob.q, lpnJob.codeLen, lpnJob.rows, lpnJob.radius)
  /\ \E word \in lpnJob.words : client' = IF code' = Refused THEN <<>> ELSE word
  /\ lpnPhase' = IF code' = Refused THEN "refused" ELSE "word"
  /\ UNCHANGED <<lpnJob, at, keys, sums, stats>>

LpnNext == SetupBlock \/ ServerPreprocess \/ ClientDigest \/ ConvertShares \/ TakeWord
-----------------------------------------------------------------------------
IsPrime(q) == \A a \in 2 .. q - 1 : q % a # 0
Messages(c) == [1 .. c.r -> 0 .. c.q - 1]
Near(c, word) == {m \in Messages(c) : Distance(word, EncodeWord(c, m)) <= c.t}

\* A decoder answers with a message within the radius, and over a field it
\* finds the one there is; both decoders agree.
DecodesNearest ==
  lpnPhase = "word" =>
    \A near \in {Near(code, client)}, message \in {DecodeWord(code, client)},
       error \in {DecodeErrorFromSyndrome(code, Syndrome(code, client))} :
      /\ message # Refused => message \in near
      /\ error # Refused => HammingWeight(error) <= code.t
      /\ IsPrime(code.q) =>
           /\ Cardinality(near) <= 1
           /\ near = {} <=> message = Refused
           /\ error = DecodeErrorFromWord(code, client)
           /\ near # {} => error = SubVectors(client, EncodeWord(code, message), code.q)

\* The word two parties hold is the codeword of the product plus the noise;
\* within the radius the noise is what is corrected, and the shares open to
\* the product. Beyond it a conversion refuses, or takes the word for another;
\* the distributed one cannot refuse.
Target(slot) ==
  [j \in Columns(Current.rhs) |->
     Dot(client[slot].x, RhsColumnBlocks(Current.rhs, Current.lhs, at.start)[j], lpnJob.q)]
CorrectsNoise ==
  lpnPhase = "convert" =>
    \A results \in {Computed(ConvertedSlots)} :
       \A slot \in Slots :
          LET opened == AddVectors(client[slot].word, TheirWord(slot), lpnJob.q)
              result == results[slot]
              answer == AddVectors(result.client, result.server, lpnJob.q)
              allowed ==
                /\ lpnJob.kind = "batch" => \A other \in Slots : Within(other)
                /\ lpnJob.conversion = "distributed" =>
                     /\ ~DistributedRefuses(code, lpnJob.config)
                     /\ lpnJob.kind = "batch" => lpnJob.config.batch = Cardinality(Slots)
          IN  /\ opened = AddVectors(EncodeWord(code, Target(slot)), ErrorIn(slot), lpnJob.q)
              /\ Within(slot) /\ allowed =>
                   result # Refused /\ result.error = ErrorIn(slot) /\ answer = Target(slot)
              /\ ~Within(slot) /\ result # Refused =>
                   /\ HammingWeight(result.error) <= code.t
                   /\ IF Near(code, opened) # {} THEN answer \in Near(code, opened)
                      ELSE /\ lpnJob.conversion = "distributed"
                           /\ answer = Recover(code, opened)

\* Nothing beyond the radius: the sums open to the products, the weights add
\* up, and a triple is a product of sums.
Opened(k) == AddMatrices(sums[k].client, sums[k].server, lpnJob.q)
TripleShare(side) ==
  LET own == IF side = "client" THEN Product(lpnJob.lhs, lpnJob.rhs, lpnJob.q)
             ELSE Product(lpnJob.lhs2, lpnJob.rhs2, lpnJob.q)
  IN  AddMatrices(AddMatrices(own, sums[1][side], lpnJob.q), Transpose(sums[2][side]), lpnJob.q)
MultipliesUnderNoise ==
  (lpnPhase = "done" /\ stats.clean) =>
    /\ \A k \in DOMAIN sums :
         LET pair == ProductsOf(lpnJob)[k]
         IN  Opened(k) = Product(pair.lhs, pair.rhs, lpnJob.q)
    /\ Triple(lpnJob) =>
         AddMatrices(TripleShare("client"), TripleShare("server"), lpnJob.q)
         = Product(AddMatrices(lpnJob.lhs, lpnJob.lhs2, lpnJob.q),
                   AddMatrices(lpnJob.rhs, lpnJob.rhs2, lpnJob.q), lpnJob.q)
=============================================================================
