------------------------------ MODULE MatrixMul -----------------------------
(***************************************************************************)
(* Shares of the product of two parties' matrices over Z_q                 *)
(* (silent-operators, modular/matrix.rs and matrix_mul.rs), and over       *)
(* Z_q[X] / (X^d + 1) (ring_matrix_mul.rs).  A matrix is the sequence of   *)
(* its rows, a vector a sequence of residues, a ring element the sequence  *)
(* of its coefficients.                                                    *)
(*                                                                         *)
(* What is drawn (the reference string, secrets and noise) is a parameter, *)
(* noise as small numbers with sign.                                       *)
(***************************************************************************)
EXTENDS Integers, SequencesExt

Refused == <<>>
Columns(m) == 1 .. Len(m[1])
Rows(m) == DOMAIN m
SumOver(S, Op(_)) == MapThenSumSet(Op, S)
\* f, for TLC to compute it once.
Computed(f) == IF f = f THEN f ELSE f
-----------------------------------------------------------------------------
(* Vectors and matrices.                                                   *)
Reduced(v, q) == [i \in DOMAIN v |-> v[i] % q]
ReducedMatrix(m, q) == [i \in Rows(m) |-> Reduced(m[i], q)]

DotWithoutLast(u, v, q) == LET Term(i) == u[i] * v[i] IN SumOver(1 .. Len(u) - 1, Term) % q
Dot(u, v, q) == LET Term(i) == u[i] * v[i] IN SumOver(DOMAIN u, Term) % q
AddVectors(u, v, q) == [i \in DOMAIN u |-> (u[i] + v[i]) % q]
Row(m, i) == m[i]
Column(m, j) == [i \in Rows(m) |-> m[i][j]]
SliceColumns(m, first, width) == [i \in Rows(m) |-> SubSeq(m[i], first, first + width - 1)]
AddMatrices(m, n, q) == [i \in Rows(m) |-> AddVectors(m[i], n[i], q)]
SubMatrices(m, n, q) == [i \in Rows(m) |-> [j \in Columns(m) |-> (m[i][j] - n[i][j]) % q]]
ScaleMatrix(m, c, q) == [i \in Rows(m) |-> [j \in Columns(m) |-> (m[i][j] * c) % q]]
Product(m, n, q) == [i \in Rows(m) |-> [j \in Columns(n) |-> Dot(Row(m, i), Column(n, j), q)]]

MatrixTimesVector(m, v, q) == [i \in Rows(m) |-> Dot(Row(m, i), v, q)]
TransposeTimesVector(m, v, q) == [j \in Columns(m) |-> Dot(Column(m, j), v, q)]
-----------------------------------------------------------------------------
(* The parties' encodings: A keeps a and r, B keeps s; d and e are public. *)
Setup(v, u, q) == [v |-> ReducedMatrix(v, q), u |-> ReducedMatrix(u, q)]

\* One row of noise for each row of a.
EncodeA(crs, a, noise, q) ==
  LET r(i) == Reduced(noise[i], q)
      d(i) == AddVectors(MatrixTimesVector(crs.u, r(i), q), MatrixTimesVector(crs.v, Row(a, i), q), q)
  IN  IF Columns(a) # Columns(crs.v) THEN Refused
      ELSE [d |-> [i \in Rows(a) |-> d(i)], a |-> a, r |-> [i \in Rows(a) |-> r(i)]]

\* One secret and two noises for each column of b; p = 0 leaves b unscaled.
Delta(q, p) == IF p = 0 THEN 1 ELSE q \div p
EncodeBUnscaled(crs, b, s, noise, noise2, q, p) ==
  LET e0(j) ==
        LET blind == TransposeTimesVector(crs.v, s[j], q)
        IN  [i \in Rows(b) |-> (blind[i] + b[i][j] + noise[j][i]) % q]
      e1(j) == AddVectors(TransposeTimesVector(crs.u, s[j], q), noise2[j], q)
  IN  IF Rows(b) # Columns(crs.v) THEN Refused
      ELSE [e |-> [j \in Columns(b) |-> <<e0(j), e1(j)>>], s |-> s]
EncodeB(crs, b, s, noise, noise2, q, p) ==
  LET e0(j) ==
        LET blind == TransposeTimesVector(crs.v, s[j], q)
        IN  [i \in Rows(b) |-> (blind[i] + Delta(q, p) * b[i][j] + noise[j][i]) % q]
      e1(j) == AddVectors(TransposeTimesVector(crs.u, s[j], q), noise2[j], q)
  IN  IF Rows(b) # Columns(crs.v) THEN Refused
      ELSE [e |-> [j \in Columns(b) |-> <<e0(j), e1(j)>>], s |-> s]

DecodeA(e, state, q) ==
  [i \in Rows(state.a) |-> [j \in DOMAIN e |->
     (Dot(e[j][1], Row(state.a, i), q) + Dot(e[j][2], state.r[i], q)) % q]]
DecodeB(d, state, q) == [i \in DOMAIN d |-> [j \in DOMAIN state.s |-> Dot(state.s[j], d[i], q)]]

ReconstructSub(za, zb, q) == SubMatrices(za, zb, q)

\* The nearest multiple of q / p, halves away from 0, modulo p.
RoundCentered(v, q, p) ==
  LET scaled == (IF v > q \div 2 THEN v - q ELSE v) * p
  IN  IF scaled >= 0 THEN ((scaled + q \div 2) \div q) % p
      ELSE (0 - ((q \div 2 - scaled) \div q)) % p
RoundMatrix(m, q, p) == [i \in Rows(m) |-> [j \in Columns(m) |-> RoundCentered(m[i][j], q, p)]]
-----------------------------------------------------------------------------
(* The same over ring elements.                                            *)

(* Elements.                                                               *)
ZeroElement(d) == [k \in 1 .. d |-> 0]
Constant(c, d, q) == [k \in 1 .. d |-> IF k = 1 THEN c % q ELSE 0]
AddElements(f, g, q) == AddVectors(f, g, q)
SubElements(f, g, q) == [k \in DOMAIN f |-> (f[k] - g[k]) % q]
ScaleElement(f, c, q) == [k \in DOMAIN f |-> (f[k] * c) % q]
NegateElement(f, q) == [k \in DOMAIN f |-> (0 - f[k]) % q]

\* What leaves the top comes back at the bottom with its sign changed.
MulCyclic(f, g, q) ==
  LET d == Len(f)
      Term(k, i) == f[i] * g[((k - i) % d) + 1]
  IN  [k \in 1 .. d |-> LET Of(i) == Term(k, i) IN SumOver(1 .. d, Of) % q]
MulNegacyclic(f, g, q) ==
  LET d == Len(f)
      Term(k, i) == IF i <= k THEN f[i] * g[k - i + 1] ELSE 0 - f[i] * g[d + k - i + 1]
  IN  [k \in 1 .. d |-> LET Of(i) == Term(k, i) IN SumOver(1 .. d, Of) % q]
-----------------------------------------------------------------------------
(* Vectors and matrices of elements.                                       *)
RingDot(u, v, q) ==
  LET Add(acc, i) == AddElements(acc, MulNegacyclic(u[i], v[i], q), q)
  IN  FoldLeftDomain(LAMBDA acc, i : Add(acc, i), ZeroElement(Len(u[1])), u)
RingAddVectors(u, v, q) == [i \in DOMAIN u |-> AddElements(u[i], v[i], q)]
RingColumn(m, j) == [i \in Rows(m) |-> m[i][j]]
RingSubMatrices(m, n, q) ==
  [i \in Rows(m) |-> [j \in Columns(m) |-> SubElements(m[i][j], n[i][j], q)]]
RingSliceColumns(m, first, width) == SliceColumns(m, first, width)
RingProduct(m, n, q) ==
  [i \in Rows(m) |-> [j \in Columns(n) |-> RingDot(m[i], RingColumn(n, j), q)]]

RingTimesVector(m, v, q) == [i \in Rows(m) |-> RingDot(m[i], v, q)]
RingTransposeTimesVector(m, v, q) == [j \in Columns(m) |-> RingDot(RingColumn(m, j), v, q)]
-----------------------------------------------------------------------------
(* The protocol.                                                           *)
RingReduced(m, q) == [i \in Rows(m) |-> [j \in Columns(m) |-> Reduced(m[i][j], q)]]
RingSetup(v, u, q) == [v |-> RingReduced(v, q), u |-> RingReduced(u, q)]

RingEncodeA(crs, a, noise, q) ==
  LET r == [i \in Rows(a) |-> [t \in Columns(crs.u) |-> Reduced(noise[i][t], q)]]
      d(i) == RingAddVectors(RingTimesVector(crs.u, r[i], q), RingTimesVector(crs.v, a[i], q), q)
  IN  IF Columns(a) # Columns(crs.v) THEN Refused
      ELSE [d |-> [i \in Rows(a) |-> d(i)], a |-> a, r |-> r]

RingEncodeB(crs, b, s, noise, noise2, q, p) ==
  LET e0(j) ==
        LET blind == RingTransposeTimesVector(crs.v, s[j], q)
        IN  [i \in Rows(b) |->
               AddElements(AddElements(blind[i], ScaleElement(b[i][j], Delta(q, p), q), q),
                           Reduced(noise[j][i], q), q)]
      e1(j) ==
        LET blind == RingTransposeTimesVector(crs.u, s[j], q)
        IN  [t \in Columns(crs.u) |-> AddElements(blind[t], Reduced(noise2[j][t], q), q)]
  IN  IF Rows(b) # Columns(crs.v) THEN Refused
      ELSE [e |-> [j \in Columns(b) |-> <<e0(j), e1(j)>>], s |-> s]

RingDecodeA(e, state, q) ==
  [i \in Rows(state.a) |-> [j \in DOMAIN e |->
     AddElements(RingDot(e[j][1], state.a[i], q), RingDot(e[j][2], state.r[i], q), q)]]
RingDecodeB(d, state, q) ==
  [i \in DOMAIN d |-> [j \in DOMAIN state.s |-> RingDot(state.s[j], d[i], q)]]

RingReconstructSub(za, zb, q) == RingSubMatrices(za, zb, q)
RingRoundMatrix(m, q, p) ==
  [i \in Rows(m) |-> [j \in Columns(m) |->
     [k \in DOMAIN m[i][j] |-> RoundCentered(m[i][j][k], q, p)]]]
=============================================================================
