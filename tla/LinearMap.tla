----------------------------- MODULE LinearMap -----------------------------
(***************************************************************************)
(* One product of a client's matrix with a server's: as the matrix         *)
(* protocols compute it ("numbers", "ring"), and as the private linear map *)
(* does (silent-operators, linear_map.rs): the server sets up the rows of  *)
(* its weights in blocks under one reference string, one query of the      *)
(* client serves all of them, and each side extracts its share.  A packed  *)
(* map (packed_linear_map.rs) puts a row of the client into one ring       *)
(* element, several columns of the server into another, and reads their    *)
(* products off the coefficients where no two of them meet.                *)
(***************************************************************************)
EXTENDS MatrixMul

\* A sequence of [kind, q, p, raw, degree, inner, v, u, input, weights,
\* blockSize, resultSize, secrets, noises].
CONSTANT Jobs

JobsAssumption ==
  \A n \in DOMAIN Jobs :
    /\ Jobs[n].kind \in {"numbers", "ring", "linear map", "packed"}
    /\ Jobs[n].q \in Nat \ {0} /\ Jobs[n].p \in Nat /\ Jobs[n].degree \in Nat \ {0}
    /\ Jobs[n].blockSize \in Nat \ {0}

VARIABLES
  task,     \* the job
  query,    \* what the client keeps and publishes
  blocks,   \* what the server keeps and publishes, a block at a time
  drawn,    \* the noise in both, for the property
  shares,   \* of the client and the server
  refused,  \* a call returned an error
  result    \* <<>> until reconstructed, as the others until computed

linearMapVars == <<task, query, blocks, drawn, shares, refused, result>>
-----------------------------------------------------------------------------
Mapped(t) == t.kind = "linear map"
Packed(t) == t.kind = "packed"
InnerDim(t) == IF Packed(t) THEN t.inner ELSE Len(t.v[1])
Gadgets(t) == Len(t.u[1])
Lanes(t) == Len(t.input) \div InnerDim(t)

PackedRefuses(t) == t.inner = 0 \/ t.degree < t.inner \/ t.p < 2 \/ t.q <= t.p
SetupRefuses(t) ==
  \/ Mapped(t) /\ (t.q < t.p \/ t.q % t.p # 0 \/ Len(t.v) < InnerDim(t))
  \/ Packed(t) /\ PackedRefuses(t)

\* A lane of the input is a coefficient, a weight a constant.
ClientInput(t) ==
  << [j \in 1 .. InnerDim(t) |->
        [k \in 1 .. t.degree |->
           IF k <= Lanes(t) THEN t.input[(k - 1) * InnerDim(t) + j] % t.p ELSE 0]] >>
ServerInput(t, rows) ==
  [j \in 1 .. Len(rows[1]) |->
     [i \in DOMAIN rows |-> Constant(rows[i][j] % t.p, t.degree, t.q)]]

\* A packed row fills the first coefficients; the columns of a block follow one
\* another, each upside down, so that a column's product with the row comes to
\* lie on its last coefficient.
PackedRow(t, row) ==
  [k \in 1 .. t.degree |->
     IF k <= t.inner THEN t.input[(row - 1) * t.inner + k] % t.q ELSE 0]
PackedBlock(t, columns) ==
  [k \in 1 .. t.degree |->
     IF (k - 1) \div t.inner < Len(columns)
     THEN columns[(k - 1) \div t.inner + 1][t.inner - ((k - 1) % t.inner)] % t.p
     ELSE 0]

PackedQuery(t, noise) ==
  IF \/ t.input = <<>> \/ Len(t.input) % t.inner # 0 \/ Lanes(t) > t.degree
     \/ \E i \in DOMAIN t.input : t.input[i] >= t.p
  THEN Refused
  ELSE RingEncodeA(RingSetup(t.v, t.u, t.q), [row \in 1 .. Lanes(t) |-> <<PackedRow(t, row)>>], noise, t.q)
PackedSetup(t, columns, s, noise, noise2) ==
  IF Len(t.weights) # t.inner THEN Refused
  ELSE RingEncodeB(RingSetup(t.v, t.u, t.q), << <<PackedBlock(t, columns)>> >>, s, noise, noise2, t.q, t.p)

ClientQuery(t, noise) ==
  IF Packed(t) THEN PackedQuery(t, noise)
  ELSE IF ~Mapped(t) THEN
    IF t.kind = "ring" THEN RingEncodeA(RingSetup(t.v, t.u, t.q), t.input, noise, t.q)
    ELSE EncodeA(Setup(t.v, t.u, t.q), t.input, noise, t.q)
  ELSE IF Len(t.input) % InnerDim(t) # 0 \/ Lanes(t) > t.degree \/ t.input = <<>> THEN Refused
  ELSE RingEncodeA(RingSetup(t.v, t.u, t.q), ClientInput(t), noise, t.q)

\* Scaled by q / p where p is given and the encoding is not the raw one.
ServerSetup(t, rows, s, noise, noise2) ==
  LET scale == IF t.raw THEN 0 ELSE t.p
  IN  IF Packed(t) THEN PackedSetup(t, rows, s, noise, noise2)
      ELSE IF ~Mapped(t) THEN
        IF t.kind = "ring" THEN
          RingEncodeB(RingSetup(t.v, t.u, t.q), rows, s, noise, noise2, t.q, scale)
        ELSE EncodeB(Setup(t.v, t.u, t.q), rows, s, noise, noise2, t.q, scale)
      ELSE RingEncodeB(RingSetup(t.v, t.u, t.q), ServerInput(t, rows), s, noise, noise2, t.q, scale)

\* As many columns as a packed element has room for.
MaxBlockOutputs(t) == IF t.degree < 2 * t.inner THEN 1 ELSE t.degree \div t.inner

\* The rows, or the columns of a packed map, in blocks.
InBlocks(rows, size) ==
  LET Upto(k) == k * size
  IN  [k \in 1 .. (Len(rows) + size - 1) \div size |->
         SubSeq(rows, Upto(k - 1) + 1, IF Upto(k) < Len(rows) THEN Upto(k) ELSE Len(rows))]

\* The other protocols have one block.
BlockRows(t) ==
  IF Mapped(t) THEN InBlocks(t.weights, t.blockSize)
  ELSE IF Packed(t) THEN
    InBlocks([j \in Columns(t.weights) |-> Column(t.weights, j)], MaxBlockOutputs(t))
  ELSE <<t.weights>>
Outputs(t, rows) == IF Mapped(t) THEN Len(rows) ELSE IF Packed(t) THEN 1 ELSE Len(rows[1])
Secrecy(t) == IF Packed(t) THEN 1 ELSE InnerDim(t)
-----------------------------------------------------------------------------
\* The client's shares of the first rows of its one output row, lane by lane.
Extracted(t, z, size) ==
  FlattenSeq([i \in 1 .. size |-> [lane \in 1 .. Lanes(t) |-> z[1][i][lane]]])

\* Of a packed block, column by column and in each the rows.
PackedExtracted(t, z, width) ==
  FlattenSeq([l \in 1 .. width |-> [row \in DOMAIN z |-> z[row][1][l * t.inner]]])
PackedClientShares(t, q, served) ==
  LET Of(k) == PackedExtracted(t, RingDecodeA(served[k].e, q, t.q), Len(BlockRows(t)[k]))
  IN  FlattenSeq([k \in DOMAIN served |-> Of(k)])
PackedServerShares(t, q, served) ==
  LET Of(k) == PackedExtracted(t, RingDecodeB(q.d, served[k], t.q), Len(BlockRows(t)[k]))
  IN  FlattenSeq([k \in DOMAIN served |-> NegateElement(Of(k), t.q)])

ClientExtract(t, q, served) ==
  LET Taken(k) == k * t.blockSize
      left(k) == t.resultSize - Taken(k - 1)
      take(k) == IF left(k) < Len(served[k].s) THEN left(k) ELSE Len(served[k].s)
  IN  IF Packed(t) THEN PackedClientShares(t, q, served)
      ELSE IF t.kind = "numbers" THEN DecodeA(served[1].e, q, t.q)
      ELSE IF t.kind = "ring" THEN RingDecodeA(served[1].e, q, t.q)
      ELSE IF t.resultSize = 0 \/ t.resultSize > Len(t.weights) THEN Refused
      ELSE FlattenSeq([k \in {k \in DOMAIN served : left(k) > 0} |->
                         Extracted(t, RingDecodeA(served[k].e, q, t.q), take(k))])

\* The server negates its share, for the other side to add.
ServerExtractPositive(t, q, served) ==
  LET part(k) ==
        LET z == RingDecodeB(q.d, served[k], t.q)
        IN  Extracted(t, z, Len(served[k].s))
  IN  IF Packed(t) THEN PackedServerShares(t, q, served)
      ELSE IF t.kind = "numbers" THEN DecodeB(q.d, served[1], t.q)
      ELSE IF t.kind = "ring" THEN RingDecodeB(q.d, served[1], t.q)
      ELSE FlattenSeq([k \in DOMAIN served |-> part(k)])
ServerExtract(t, q, served) ==
  LET part(k) ==
        LET z == RingDecodeB(q.d, served[k], t.q)
        IN  NegateElement(Extracted(t, z, Len(served[k].s)), t.q)
  IN  IF Packed(t) THEN PackedServerShares(t, q, served)
      ELSE IF t.kind = "numbers" THEN DecodeB(q.d, served[1], t.q)
      ELSE IF t.kind = "ring" THEN RingDecodeB(q.d, served[1], t.q)
      ELSE FlattenSeq([k \in DOMAIN served |-> part(k)])

ReconstructQ(server, client, q) ==
  IF Len(server) # Len(client) \/ (\E i \in DOMAIN server : server[i] >= q \/ client[i] >= q)
  THEN Refused ELSE AddVectors(server, client, q)
DecodeQToP(v, q, p) == [i \in DOMAIN v |-> ((v[i] * p + q \div 2) \div q) % p]
-----------------------------------------------------------------------------
LinearMapInit ==
  /\ \E n \in DOMAIN Jobs : task = Jobs[n]
  /\ query = <<>> /\ blocks = <<>> /\ drawn = [r |-> <<>>, w |-> <<>>]
  /\ shares = [client |-> <<>>, server |-> <<>>] /\ result = <<>>
  /\ refused = SetupRefuses(task)

EncodeQuery ==
  /\ query = <<>>
  /\ LET rows == IF Mapped(task) THEN 1 ELSE IF Packed(task) THEN Lanes(task) ELSE Len(task.input)
     IN  \E r \in [1 .. rows -> [1 .. Gadgets(task) -> task.noises]] :
           /\ query' = ClientQuery(task, r)
           /\ drawn' = [drawn EXCEPT !.r = r]
  /\ refused' = (query' = Refused)
  /\ UNCHANGED <<task, blocks, shares, result>>

\* Every block draws its own secrets and noise, one for each output.
SetupBlock ==
  /\ Len(blocks) < Len(BlockRows(task))
  /\ LET rows == BlockRows(task)[Len(blocks) + 1]
         outputs == 1 .. Outputs(task, rows)
     IN  \E s \in [outputs -> [1 .. Len(task.v) -> task.secrets]],
            w \in [outputs -> [1 .. Secrecy(task) -> task.noises]],
            w2 \in [outputs -> [1 .. Gadgets(task) -> task.noises]] :
           /\ blocks' = Append(blocks, ServerSetup(task, rows, s, w, w2))
           /\ drawn' = [drawn EXCEPT !.w = @ \o [k \in outputs |-> <<w[k], w2[k]>>]]
           /\ refused' = (blocks'[Len(blocks')] = Refused)
  /\ UNCHANGED <<task, query, shares, result>>

Ready == query # <<>> /\ Len(blocks) = Len(BlockRows(task))
ExtractClient ==
  /\ Ready /\ shares.client = <<>>
  /\ shares' = [shares EXCEPT !.client = ClientExtract(task, query, blocks)]
  /\ refused' = (shares'.client = Refused)
  /\ UNCHANGED <<task, query, blocks, drawn, result>>
ExtractServer ==
  /\ Ready /\ shares.server = <<>>
  /\ shares' = [shares EXCEPT !.server = ServerExtract(task, query, blocks)]
  /\ UNCHANGED <<task, query, blocks, drawn, refused, result>>

\* The matrix protocols subtract, the linear maps add.
Reconstruct ==
  /\ shares.client # <<>> /\ shares.server # <<>>
  /\ result' =
       CASE task.kind = "numbers" -> ReconstructSub(shares.client, shares.server, task.q)
         [] task.kind = "ring" -> RingReconstructSub(shares.client, shares.server, task.q)
         [] task.kind \in {"linear map", "packed"} -> ReconstructQ(shares.server, shares.client, task.q)
  /\ refused' = (result' = Refused)
  /\ UNCHANGED <<task, query, blocks, drawn, shares>>

LinearMapNext ==
  ~refused /\ result = <<>> /\ (EncodeQuery \/ SetupBlock \/ ExtractClient \/ ExtractServer \/ Reconstruct)
-----------------------------------------------------------------------------
(* What the product is to be, and the noise in it.                         *)
NumberOf(x) == IF task.kind = "numbers" THEN <<x>> ELSE x
Times(x, y) ==
  LET pairs == (0 .. task.degree - 1) \X (0 .. task.degree - 1)
      term(w) == (IF w[1] + w[2] < task.degree THEN 1 ELSE -1)
                 * NumberOf(x)[w[1] + 1] * NumberOf(y)[w[2] + 1]
  IN  [k \in 1 .. task.degree |->
         SumOver({w \in pairs : (w[1] + w[2] + 1 - k) % task.degree = 0}, LAMBDA w : term(w)) % task.q]
Total(S, Op(_)) ==
  [k \in 1 .. task.degree |-> LET Of(i) == Op(i)[k] IN SumOver(S, Of) % task.q]
Centered(x) == IF 2 * x > task.q THEN x - task.q ELSE x
Magnitude(x) == IF x < 0 THEN 0 - x ELSE x

\* Entry i, k of the product of the plain matrices, exactly.
Clear(i, k) ==
  IF Packed(task) THEN Times(PackedRow(task, i), PackedBlock(task, BlockRows(task)[k])) ELSE
  LET a(j) == IF Mapped(task) THEN ClientInput(task)[1][j] ELSE task.input[i][j]
      b(j) ==
        IF Mapped(task) THEN Constant(task.weights[k][j] % task.p, task.degree, task.q)
        ELSE task.weights[j][k]
      Term(j) == Times(a(j), b(j))
  IN  Total(1 .. InnerDim(task), Term)
NoiseIn(i, k) ==
  LET a(j) == IF Mapped(task) THEN ClientInput(task)[1][j]
              ELSE IF Packed(task) THEN PackedRow(task, i) ELSE task.input[i][j]
      w == drawn.w[k]
      OfB(j) == Times(w[1][j], a(j))
      OfA(j) == Times(w[2][j], drawn.r[i][j])
  IN  AddVectors(Total(1 .. Secrecy(task), OfB), Total(1 .. Gadgets(task), OfA), task.q)

\* Entry i, k of what the parties hold together.
Entry(i, k) ==
  IF Packed(task) THEN
    [n \in {l * task.inner : l \in DOMAIN BlockRows(task)[k]} |->
       result[((k - 1) * MaxBlockOutputs(task) + n \div task.inner - 1) * Lanes(task) + i]]
  ELSE IF Mapped(task) THEN [lane \in 1 .. Lanes(task) |-> result[(k - 1) * Lanes(task) + lane]]
  ELSE NumberOf(result[i][k])

\* What is reconstructed is the product, scaled, plus the noise. Where that is
\* small, the product is what it decodes to, and shares rounded one by one are
\* off by at most one; a packed map whose p does not divide q has, next to the
\* noise, q % p for each unit of the product.
MultipliesExactly ==
  result # <<>> =>
    LET rows == IF Mapped(task) THEN 1 ELSE IF Packed(task) THEN Lanes(task) ELSE Len(task.input)
        cols == IF Mapped(task) THEN task.resultSize
                ELSE IF Packed(task) THEN Len(blocks) ELSE Len(task.weights[1])
        scale == Delta(task.q, IF task.raw THEN 0 ELSE task.p)
        exact(v, c, e) == v = (scale * c + e) % task.q
        shareOf(share, i, k, n) == NumberOf(share[i][k])[n]
    IN  \A i \in 1 .. rows, k \in 1 .. cols : \A n \in DOMAIN Entry(i, k) :
          LET v == Entry(i, k)[n]
              c == Clear(i, k)[n]
              e == NoiseIn(i, k)[n]
          IN  /\ exact(v, c, e)
              /\ Packed(task) /\ Magnitude(Centered(e) * task.p - (task.q % task.p) * c) * 2 < task.q =>
                   DecodeQToP(<<v>>, task.q, task.p)[1] = c % task.p
              /\ ~Packed(task) /\ ~task.raw /\ task.q % task.p = 0 =>
                   IF Mapped(task) THEN
                     (DecodeQToP(<<v>>, task.q, task.p)[1] = c % task.p) <=>
                     (\E wraps \in {0, task.q} :
                        LET noise == (e - wraps) * task.p + task.q \div 2
                        IN  0 <= noise /\ noise < task.q)
                   ELSE 2 * task.p * Magnitude(Centered(e)) < task.q =>
                     /\ RoundCentered(v, task.q, task.p) = c % task.p
                     /\ \E off \in {-1, 0, 1} :
                          (RoundCentered(shareOf(shares.client, i, k, n), task.q, task.p)
                           - RoundCentered(shareOf(shares.server, i, k, n), task.q, task.p)
                           - c - off) % task.p = 0

\* A linear map refuses what it cannot serve, and a truncated answer.
RefusesOnlyMisfits ==
  refused =>
    \/ SetupRefuses(task)
    \/ Mapped(task) /\ (Len(task.input) % InnerDim(task) # 0 \/ Lanes(task) > task.degree)
    \/ Packed(task) /\ \/ Lanes(task) \notin 1 .. task.degree \/ Len(task.input) % task.inner # 0
                        \/ \E n \in DOMAIN task.input : task.input[n] >= task.p
                        \/ Len(task.weights) # task.inner
    \/ ~Mapped(task) /\ ~Packed(task) /\ (Len(task.input[1]) # InnerDim(task) \/ Len(task.weights) # InnerDim(task))
    \/ Mapped(task) /\ (task.resultSize \notin 1 .. Len(task.weights) \/ task.resultSize < Len(task.weights))
=============================================================================
