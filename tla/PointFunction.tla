---------------------------- MODULE PointFunction ---------------------------
(***************************************************************************)
(* Shares of a table that holds a payload at one place and 0 elsewhere     *)
(* (silent-operators, modular/point_function.rs).  The place is the sum of *)
(* an index of each party, row and column.  A encodes the payload at its   *)
(* own place; B encodes the shift by its column, encrypts the choice of    *)
(* its row, and both multiply.  Without carry emulation columns turn round *)
(* in their row; with it a row is twice as long and what passes its middle *)
(* is moved to the next row.  In the full form either party has a payload: *)
(* they run two halves in which the roles are exchanged.                   *)
(***************************************************************************)
EXTENDS Hss

Matrices == INSTANCE MatrixMul

CONSTANTS
  Shapes,     \* records: ell, m, rows, gadget, q, p, carry, noise (B's)
  Jobs        \* sequences of records: index (party -> <<row, column>>), payload (party -> number), full, seed

VARIABLES
  shape, job,
  published,   \* party -> half -> public key, or Refused
  secrets,     \* party -> half -> [role, state]
  results      \* party -> sequence of shares, or Refused

vars == <<shape, job, published, secrets, results>>

Parties == {"A", "B"}
Other(party) == IF party = "A" THEN "B" ELSE "A"
\* In half "ab" A has the payload, in half "ba" B.
Halves == IF job.full THEN {"ab", "ba"} ELSE {"ab"}
Chooses(party, half) == (party = "A") = (half = "ab")
-----------------------------------------------------------------------------
(* Parameters.                                                             *)
ShapeOk(s) ==
  /\ s.ell > 0 /\ s.m > 0 /\ s.rows > 0 /\ s.gadget > 0
  /\ s.p > 2 /\ s.q > s.p /\ s.q % 2 = 1 /\ s.noise >= 0
EncodedCols(s) == IF s.carry THEN 2 * s.m ELSE s.m
\* The least power of two with room for every slot, if p has roots for it; then
\* less, until q has too.
ChooseHssDegree(p, slots) ==
  LET most == Max({d \in {2 ^ k : k \in 0 .. 10} : d = 1 \/ (p - 1) % (2 * d) = 0})
      least == Min({d \in {2 ^ k : k \in 0 .. 10} : d >= slots})
  IN  Min({least, most})
HssDegree(s) ==
  Max({d \in {2 ^ k : k \in 0 .. 10} :
         d <= ChooseHssDegree(s.p, s.ell * EncodedCols(s)) /\ (d = 1 \/ HasTables(d, s.q))})
-----------------------------------------------------------------------------
(* Keys.                                                                   *)
B0 == {shape.q}
Element(f) == [k \in 1 .. N |-> f[k - 1]]
Constant(c) == Matrices!Constant(c, N, shape.q)
Zero == Constant(0)

\* The reference string and the parties' draws.
Elements(rows, cols, place) ==
  [i \in 1 .. rows |-> [j \in 1 .. cols |->
     Element(Uniform(B0, job.seed, place + rows * 7 * j + i)[shape.q])]]
SmallOnes(rows, cols, width, place) ==
  [i \in 1 .. rows |-> [j \in 1 .. cols |->
     [k \in 1 .. N |-> (Draw(job.seed, place + 5 * i + 3 * j + k) % (2 * width + 1)) - width]]]
Crs ==
  Matrices!RingSetup(Elements(shape.rows, EncodedCols(shape), 20), Elements(shape.rows, shape.gadget, 60), shape.q)

GenA(index, payload) ==
  LET a == [i \in 1 .. shape.ell |-> [j \in 1 .. EncodedCols(shape) |->
              IF i = index[1] + 1 /\ j = index[2] + 1 THEN Constant(payload % shape.p) ELSE Zero]]
      out == Matrices!RingEncodeA(Crs, a, SmallOnes(shape.ell, shape.gadget, 1, 90), shape.q)
  IN  [public |-> [d |-> out.d], state |-> out, choice |-> Refused]

CyclicShift(shift) ==
  LET size == EncodedCols(shape)
  IN  [i \in 1 .. size |-> [j \in 1 .. size |-> IF j = ((i - 1 + shift) % size) + 1 THEN Constant(1) ELSE Zero]]

EncryptChoice(pk, index) ==
  [i \in 1 .. shape.ell |->
     EncryptConstant(pk, IF i - 1 = index[1] THEN 1 ELSE 0, B0, shape.p, job.seed, 400 + 10 * i)]
\* A new key; the choice of the row; and the shift, plain and times s.
GenB(index) ==
  LET sk == SecretKey(B0, job.seed)
      s == Element(Backward(sk)[shape.q])
      shift == CyclicShift(index[2])
      both == [i \in 1 .. EncodedCols(shape) |-> [j \in 1 .. 2 * EncodedCols(shape) |->
                 IF j <= EncodedCols(shape) THEN shift[i][j]
                 ELSE Matrices!MulNegacyclic(shift[i][j - EncodedCols(shape)], s, shape.q)]]
      columns == 2 * EncodedCols(shape)
      Made(out, choice) ==
        [public |-> [e |-> out.e, choice |-> choice], state |-> out, choice |-> choice, key |-> sk]
  IN  Made(Matrices!RingEncodeB(Crs, both, Elements(columns, shape.rows, 120),
                                SmallOnes(columns, EncodedCols(shape), shape.noise, 150),
                                SmallOnes(columns, shape.gadget, shape.noise, 180), shape.q, 0),
           EncryptChoice(EncryptZero(sk, B0, job.seed, 400), index))

\* A reads B's encoding with its own numbers, B reads A's with its secrets.
KeyDerA(public, secret) ==
  [role |-> "A", share |-> Matrices!RingDecodeA(public.e, secret.state, shape.q), choice |-> public.choice]
KeyDerB(public, secret) ==
  [role |-> "B", share |-> Matrices!RingDecodeB(public.d, secret.state, shape.q), choice |-> secret.choice]
-----------------------------------------------------------------------------
(* Evaluation.                                                             *)
ShiftRowsDown(m, shift) == [i \in DOMAIN m |-> m[((i - 1 - shift) % Len(m)) + 1]]

\* B's numbers are those to subtract.
MemoryShare(key, row, col) ==
  LET Held(f) == IF key.role = "B" THEN Matrices!NegateElement(f, shape.q) ELSE f
      Poly(f) == [m \in B0 |-> [k \in Indices |-> Held(f)[k + 1] % m]]
  IN  <<Poly(row[col]), Poly(row[EncodedCols(shape) + col])>>
AddShares(x, y) == <<AddPoly(x[1], y[1]), AddPoly(x[2], y[2])>>
ZeroShare == <<ZeroPoly(B0), ZeroPoly(B0)>>

\* Every row of the table, chosen for every shift; one row needs no choice.
Selected(key, row, col) ==
  LET Product(shift) ==
        HssMult(MemoryShare(key, ShiftRowsDown(key.share, shift)[row], col), key.choice[shift + 1], shape.p)
  IN  IF shape.ell = 1 THEN MemoryShare(key, key.share[1], col)
      ELSE FoldSet(LAMBDA shift, acc : AddShares(acc, Product(shift)), ZeroShare, 0 .. shape.ell - 1)
\* What passed the middle belongs to the next row.
EvalAll(key) ==
  LET Row(idx) == ((idx - 1) \div shape.m) + 1
      Col(idx) == ((idx - 1) % shape.m) + 1
      Before(row) == IF row = 1 THEN shape.ell ELSE row - 1
      WithCarry(own, idx) ==
        IF shape.carry THEN AddShares(own, Selected(key, Before(Row(idx)), shape.m + Col(idx))) ELSE own
  IN  IF Len(key.share) # shape.ell \/ Len(key.share[1]) # 2 * EncodedCols(shape) \/ Len(key.choice) # shape.ell
      THEN Refused
      ELSE [idx \in 1 .. shape.ell * shape.m |-> WithCarry(Selected(key, Row(idx), Col(idx)), idx)]

KeyFor(party, half) ==
  IF Chooses(party, half) THEN KeyDerA(published[Other(party)][half], secrets[party][half])
  ELSE KeyDerB(published[Other(party)][half], secrets[party][half])
AddTables(ab, ba) == [idx \in DOMAIN ab |-> AddShares(ab[idx], ba[idx])]
EvalAllFull(party) == AddTables(EvalAll(KeyFor(party, "ab")), EvalAll(KeyFor(party, "ba")))

ReconstructEvalAll(a, b) == [idx \in DOMAIN a |-> HssReconstruct(<<a[idx], b[idx]>>, shape.p)[0]]
OutputEvalAllShare(shares, r) == [idx \in DOMAIN shares |-> HssOutputMem(shares[idx], r)[0] % r]
-----------------------------------------------------------------------------
Init ==
  /\ shape \in {s \in Shapes : ShapeOk(s) /\ HssDegree(s) = N}
  /\ \E n \in DOMAIN Jobs :
       /\ job = Jobs[n]
       /\ \A party \in Parties : Jobs[n].index[party][1] < shape.ell /\ Jobs[n].index[party][2] < shape.m
  /\ published = [party \in Parties |-> Refused]
  /\ secrets = [party \in Parties |-> Refused]
  /\ results = [party \in Parties |-> Refused]

Generate(party) ==
  /\ published[party] = Refused
  /\ \E made \in {[half \in Halves |->
                    IF Chooses(party, half) THEN GenA(job.index[party], job.payload[party])
                    ELSE GenB(job.index[party])]} :
      /\ published' = [published EXCEPT ![party] = [half \in Halves |-> made[half].public]]
      /\ secrets' = [secrets EXCEPT ![party] = made]
  /\ UNCHANGED <<shape, job, results>>

Evaluate(party) ==
  /\ published[party] # Refused /\ published[Other(party)] # Refused /\ results[party] = Refused
  /\ results' = [results EXCEPT ![party] = IF job.full THEN EvalAllFull(party) ELSE EvalAll(KeyFor(party, "ab"))]
  /\ UNCHANGED <<shape, job, published, secrets>>

Next == \E party \in Parties : Generate(party) \/ Evaluate(party)
Spec == Init /\ [][Next]_vars
-----------------------------------------------------------------------------
\* Where the payload of a half is, as the code says it and without a carry.
ExpectedHotIndexWithCarry(a, b) ==
  LET sum == a[2] + b[2] IN ((a[1] + b[1] + sum \div shape.m) % shape.ell) * shape.m + (sum % shape.m)
HotIndex(a, b) == ((a[1] + b[1]) % shape.ell) * shape.m + ((a[2] + b[2]) % shape.m)
Hot == IF shape.carry THEN ExpectedHotIndexWithCarry(job.index["A"], job.index["B"])
       ELSE HotIndex(job.index["A"], job.index["B"])
Expected(idx) ==
  IF idx # Hot + 1 THEN 0
  ELSE (job.payload["A"] + (IF job.full THEN job.payload["B"] ELSE 0)) % shape.p

\* The products of one column of a half: without noise of B's the pairs are of
\* the payload, or of 0, and of that times s; was none rounded next to a half?
SureColumn(half, row, col) ==
  LET chooser == IF half = "ab" THEN "A" ELSE "B"
      key == KeyFor(chooser, half)
      error == (job.payload[chooser] % shape.p) * ((shape.q % shape.p) + shape.p * (2 * N + 1))
      Before(shift) ==
        LET share == MemoryShare(key, ShiftRowsDown(key.share, shift)[row], col)
        IN  Backward(DotProd(<<Forward(share[1]), Forward(share[2])>>, key.choice[shift + 1])[1])
  IN  /\ shape.noise = 0
      /\ shape.ell > 1 => \A shift \in 0 .. shape.ell - 1 : Firm(Before(shift), 0, error, shape.p)
Sure(idx) ==
  LET row == ((idx - 1) \div shape.m) + 1
      col == ((idx - 1) % shape.m) + 1
      before == IF row = 1 THEN shape.ell ELSE row - 1
  IN  \A half \in Halves :
        /\ SureColumn(half, row, col)
        /\ shape.carry => SureColumn(half, before, shape.m + col)

\* The table's entries whose products were sure are what they are to be.  Each
\* party's own reduction modulo p adds up to the same.
SelectsOnePlace ==
  (\A party \in Parties : results[party] # Refused) =>
    \A idx \in DOMAIN results["A"] : Sure(idx) =>
      /\ ReconstructEvalAll(results["A"], results["B"])[idx] = Expected(idx)
      /\ (OutputEvalAllShare(results["A"], shape.p)[idx] + OutputEvalAllShare(results["B"], shape.p)[idx]) % shape.p
           = Expected(idx)
=============================================================================
