----------------------------- MODULE MCOperators -----------------------------
(***************************************************************************)
(* The two-party operators on additive shares that keep nothing between    *)
(* calls, one call of one of them in each behaviour: comparing with many   *)
(* thresholds, truncating, converting from modulus q to modulus p,         *)
(* rounding a product, evaluating by opening a masked input, the nonlinear *)
(* operators, tokens, private linear maps, products from noisy encodings,  *)
(* programs of two servers, point functions and certified states.  What is *)
(* not called has its variables None.                                      *)
(***************************************************************************)
EXTENDS RnsTool, RadixComparison, Truncation, ShareConversion, Hat

VARIABLES
  operator, \* the operator called
  fixed, mode, large, product, roundPhase, wrap, sign, cpos, cneg, rounded,
  call, values, input, pack, opens, out, phase,
  job, numbers, given, coin, answer,
  task, query, blocks, drawn, mapShares, refused, mapResult,
  lpnJob, lpnPhase, at, code, keys, client, sums, stats,
  par, sk, pk, evalKeys, inputs, memory, done,
  shape, places, published, secrets, results,
  fullState, bridgeState, productPair, reloadReport, certifiedTree, ahssCalls

roundVars == <<fixed, mode, large, product, roundPhase, wrap, sign, cpos, cneg, rounded>>
maskedVars == <<call, values, input, pack, opens, out, phase>>
nonlinearVars == <<job, numbers, given, coin, answer>>
mapVars == <<task, query, blocks, drawn, mapShares, refused, mapResult>>
lpnVars == <<lpnJob, lpnPhase, at, code, keys, client, sums, stats>>
hssVars == <<par, sk, pk, evalKeys, inputs, memory, done>>
pointVars == <<shape, places, published, secrets, results>>
ahssVars == <<fullState, bridgeState, productPair, reloadReport, certifiedTree, ahssCalls>>

None == 0 - 1
CompareUnused ==
  /\ compareFormat = None /\ value = None /\ thresholds = None
  /\ comparePhase = "unused" /\ digit = None /\ carry = None
  /\ eq = None /\ lt = None /\ prefix = None
  /\ less = None
TruncateUnused ==
  /\ truncateFormat = None /\ held = None /\ truncatePhase = "unused"
  /\ lowCarry = None /\ modularWrap = None /\ truncated = None
ConvertUnused ==
  /\ moduli = None /\ shares = None /\ mask = None
  /\ masked = None /\ converted = [i \in Parties |-> NoShare]
RoundUnused ==
  /\ fixed = None /\ mode = None /\ large = None
  /\ product = None /\ roundPhase = None
  /\ wrap = None /\ sign = None /\ cpos = None
  /\ cneg = None /\ rounded = None
MaskedUnused ==
  /\ call = None /\ values = None /\ input = None
  /\ pack = None /\ opens = None /\ out = None
  /\ phase = None
NonlinearUnused ==
  /\ job = None /\ numbers = None /\ given = None
  /\ coin = None /\ answer = None
HatUnused ==
  /\ op = None /\ token = NoToken /\ outcome = NoToken
  /\ opened = 0 /\ calls = 0 /\ failed = 0
MapUnused ==
  /\ task = None /\ query = None /\ blocks = None /\ drawn = None
  /\ mapShares = None /\ refused = None /\ mapResult = None
LpnUnused ==
  /\ lpnJob = None /\ lpnPhase = None /\ at = None /\ code = None
  /\ keys = None /\ client = None /\ sums = None /\ stats = None
HssUnused ==
  /\ par = None /\ sk = None /\ pk = None /\ evalKeys = None
  /\ inputs = None /\ memory = None /\ done = None
PointUnused ==
  /\ shape = None /\ places = None /\ published = None
  /\ secrets = None /\ results = None
AhssUnused ==
  /\ fullState = None /\ bridgeState = None /\ productPair = None
  /\ reloadReport = None /\ certifiedTree = None /\ ahssCalls = None
-----------------------------------------------------------------------------
\* Three bits: in three digits at the smallest output modulus in which the
\* digits may be looked up (4), in a short and a long digit in the narrow
\* modulus, with answers converted from it; every pair of shares, 8 being not
\* reduced, and every threshold, alone or with another.
CompareTried ==
  { [bitWidth |-> 3, radixBits |-> 1, outputModulus |-> 4],
    [bitWidth |-> 3, radixBits |-> 2, outputModulus |-> 5] }
CompareThresholds ==
  {{t} : t \in 0 .. 9} \cup {{2, 7}, {0, 5}, {3, 8}}

CompareHeld == 0 .. 8

\* Four bits shifted by one in an output modulus smaller than the quotient,
\* by all four, where nothing is left, and by more, which is refused; every
\* pair of shares, some of them not reduced.
TruncateTried ==
  { [bitWidth |-> 4, shift |-> 1, outputModulus |-> 3],
    [bitWidth |-> 4, shift |-> 4, outputModulus |-> 5],
    [bitWidth |-> 4, shift |-> 5, outputModulus |-> 5] }

TruncateHeld == 0 .. 17

\* q a multiple of p, two primes q as the packed linear map has them, q = p,
\* and q smaller than p, which is refused; every sharing and every mask.
ConvertModuli ==
  { [q |-> 12, p |-> 3], [q |-> 29, p |-> 3], [q |-> 17, p |-> 5], [q |-> 4, p |-> 4],
    [q |-> 3, p |-> 4] }
-----------------------------------------------------------------------------
\* Every pair of shares for four moduli, with an even scale, odd ones of which
\* one fills the index up to p - 1, and one too large for the tables.
FixedPoints ==
  {[modulus |-> 17, scale |-> 4], [modulus |-> 19, scale |-> 5], [modulus |-> 11, scale |-> 3],
   [modulus |-> 7, scale |-> 3]}

Round ==
  INSTANCE Rescale WITH
    MaxChanges <- 5, Draws <- {0, 3},
    input <- product, phase <- roundPhase, out <- rounded
-----------------------------------------------------------------------------
Base ==
  [kind |-> "polynomial", moduli |-> <<7, 11>>, source |-> "direct", coeffs |-> <<1>>,
   inputBits |-> 1, margin |-> 1, signed |-> TRUE, shift |-> 0, maskBits |-> 0, security |-> 0,
   chunk |-> 0, slots |-> 1, operands |-> {<<v>> : v \in -4 .. 4}, draws |-> {0, 3, 8}]

\* Polynomials whose bound just fits 77 with its margin and sign, up to degree
\* 3, one whose terms fit alone but not together, and that one without sign;
\* inputs up to twice the bound.
Sources ==
  {"direct", "pads", "encrypted pads", "hss", "cross terms", "encrypted cross terms"}
Polynomials ==
  {[Base EXCEPT !.coeffs = c, !.source = s] :
     c \in {<<1, -2, 1>>, <<-1, 0, 0, 1>>, <<15, 7, 3>>}, s \in Sources}
  \cup {[Base EXCEPT !.coeffs = <<15, 7, 3>>, !.signed = FALSE],
        [Base EXCEPT !.coeffs = <<5>>, !.source = "pads"]}

\* Plain shares, where the audit is strict: one bit too few, and enough.
PlainPolynomials ==
  {[Base EXCEPT !.coeffs = <<1, -2, 1>>, !.source = "fixed", !.moduli = <<m>>] : m \in {113, 251}}

\* Two chunks of one slot, and three slots in chunks of two.
Streams ==
  {[Base EXCEPT !.coeffs = <<1, -2, 1>>, !.source = s, !.chunk = 1, !.slots = 2,
                !.operands = {<<-2>>, <<1>>}, !.draws = {0, 5}] : s \in {"direct", "cross terms"}}
  \cup
  {[Base EXCEPT !.coeffs = <<1, -2, 1>>, !.source = "pads", !.chunk = 2, !.slots = 3,
                !.operands = {<<-1>>, <<0>>, <<2>>}, !.draws = {5}]}

Products ==
  {[Base EXCEPT !.kind = "product", !.source = s,
                !.operands = {<<v, w>> : v \in {-3, 0, 4}, w \in {-2, 1, 5}}] : s \in Sources}
  \cup
  {[Base EXCEPT !.kind = "product", !.chunk = 2, !.slots = 3, !.source = "pads",
                !.operands = {<<-3, 5>>, <<4, 2>>}, !.draws = {5}]}

\* Divisions of every number below the product of the moduli: one limb; three,
\* all or only two of which determine a number within the bound; a mask too
\* wide, a margin too small, and no shift at all.
Divide ==
  [Base EXCEPT !.kind = "rescale", !.moduli = <<5, 7, 3>>, !.shift = 2, !.maskBits = 4,
               !.inputBits = 3, !.security = 1, !.operands = {<<v>> : v \in -52 .. 52},
               !.draws = {0, 4}]
Divisions ==
  {[Divide EXCEPT !.source = s, !.moduli = m] :
     s \in {"direct", "coins"}, m \in {<<5, 7, 3>>, <<101>>}}
  \cup
  {[Divide EXCEPT !.inputBits = 2, !.maskBits = 3, !.shift = 1],
   [Divide EXCEPT !.inputBits = 2, !.maskBits = 3, !.source = "coins"],
   [Divide EXCEPT !.maskBits = 5], [Divide EXCEPT !.source = "coins", !.security = 2],
   [Divide EXCEPT !.shift = 0]}

Masked ==
  INSTANCE MaskedEvaluation WITH
    Calls <- Polynomials \cup PlainPolynomials \cup Streams \cup Products \cup Divisions,
    ShareDraws <- {0, 8}

Format ==
  [op |-> "gelu", modulus |-> 1009, scale |-> 4, rows |-> 1, cols |-> 1, large |-> FALSE,
   operands |-> -20 .. 20, approximate |-> FALSE, poly |-> <<1, 2, 1, 1>>, t1 |-> -12, t2 |-> 12,
   inRange |-> FALSE, clip |-> 12, thresholds |-> <<-4, 4>>,
   coeffs |-> << <<1, -1, 0>>, <<0, 2, 1>>, <<2, 3, -1>> >>, centers |-> <<0, 0, 0>>,
   exp |-> [v \in -8 .. 2 |-> <<1, 1, 1, 1, 1, 2, 2, 3, 4, 5, 7>>[v + 9]], expMin |-> -8,
   expMax |-> 0, useRowMax |-> TRUE, shift |-> 0, squarings |-> 1, inputBits |-> 2, expBits |-> 2,
   denominatorBits |-> 2, outputBits |-> 2, gamma |-> <<>>, beta |-> <<>>, epsilon |-> 1,
   varianceMax |-> 16, seeds |-> <<>>, chunk |-> 0]

\* A GeLU on both sides of its table, one polynomial or three with the argument
\* moved to a center, thresholds that do not increase (refused); comparisons of
\* every number with thresholds on both sides of 0 and at the end.
Fast == [Format EXCEPT !.op = "fast gelu"]
InRange ==
  [Fast EXCEPT !.inRange = TRUE, !.thresholds = <<>>, !.coeffs = << <<0, 2, 1>> >>,
               !.centers = <<0>>, !.operands = -4 .. 4]
AtMost == [Format EXCEPT !.op = "less equal", !.operands = -504 .. 504]
Gelus ==
  {Format, [Format EXCEPT !.t1 = 0, !.t2 = 14],
   Fast, [Fast EXCEPT !.approximate = TRUE], [Fast EXCEPT !.centers = <<-8, 0, 8>>],
   [Fast EXCEPT !.thresholds = <<4, -4>>],
   InRange, [InRange EXCEPT !.approximate = TRUE], [InRange EXCEPT !.centers = <<2>>]}
  \cup {[AtMost EXCEPT !.t1 = t] : t \in {-4, 0, 4}} \cup {[AtMost EXCEPT !.operands = {504, 0}, !.t1 = 504]}

\* Rows of two and three, one row and two; a range beyond the table on either
\* side; exp as a table, by squaring, by pieces, by masked evaluation.
Row == [Format EXCEPT !.op = "softmax", !.cols = 2, !.operands = {-12, -3, 0, 2, 5}]
RangeRow ==
  [Row EXCEPT !.op = "range softmax", !.thresholds = <<-4>>, !.coeffs = << <<2, 1, 0>>, <<4, 4, 1>> >>]
Softmaxes ==
  {Row, [Row EXCEPT !.cols = 3, !.operands = {-4, 1, 2}], [Row EXCEPT !.expMax = 2],
   [Row EXCEPT !.rows = 2, !.operands = {-2, 1}, !.approximate = TRUE],
   [Row EXCEPT !.op = "softmax by squaring"],
   [Row EXCEPT !.op = "softmax of-pmpe", !.poly = <<4, 4, 2>>, !.operands = {-4, 0, 4, 1}],
   RangeRow, [RangeRow EXCEPT !.cols = 3, !.operands = {-4, 1, 2}], [RangeRow EXCEPT !.cols = 1],
   [RangeRow EXCEPT !.useRowMax = FALSE, !.shift = 2], [RangeRow EXCEPT !.approximate = TRUE],
   [RangeRow EXCEPT !.useRowMax = FALSE, !.expMax = 2],
   [Row EXCEPT !.op = "dyadic softmax", !.poly = <<16, 4>>, !.expBits = 4],
   [Row EXCEPT !.op = "dyadic softmax", !.poly = <<16, 4, 1>>, !.expBits = 4, !.chunk = 2, !.cols = 3,
               !.operands = {-4, 1, 2}],
   [Row EXCEPT !.op = "dyadic softmax", !.poly = <<4, 1>>, !.outputBits = 1, !.chunk = 1]}

\* The factors of the last step for a row, for both rows and for no row; a sum
\* of squares beyond the table; a modulus without room for the Newton step.
Layer == [Format EXCEPT !.op = "layer norm", !.cols = 2, !.operands = {-6, -1, 0, 3, 7}]
Binade ==
  [Layer EXCEPT !.op = "binade layer norm", !.thresholds = <<2, 4, 8, 16>>, !.seeds = <<8, 5, 4, 3, 2>>]
Layers ==
  {Layer, [Layer EXCEPT !.approximate = TRUE, !.operands = {-1, 0, 4}],
   [Layer EXCEPT !.gamma = <<4, 8>>, !.beta = <<1, 0>>, !.epsilon = 0],
   [Layer EXCEPT !.rows = 2, !.operands = {-3, 4}, !.beta = <<1, 2, 3, 4>>],
   [Layer EXCEPT !.cols = 3, !.operands = {-2, 5}, !.gamma = <<1, 2>>],
   Binade, [Binade EXCEPT !.operands = {-15, 0, 15}], [Binade EXCEPT !.cols = 3, !.operands = {-3, 0, 4}],
   [Binade EXCEPT !.modulus = 61],
   [Layer EXCEPT !.op = "layer norm square", !.chunk = 1], [Layer EXCEPT !.op = "layer norm rsqrt"],
   [Layer EXCEPT !.op = "layer norm rsqrt", !.rows = 2, !.operands = {-3, 4}],
   [Layer EXCEPT !.op = "dot"], [Layer EXCEPT !.op = "dot", !.large = TRUE],
   [Layer EXCEPT !.op = "dot", !.modulus = 13, !.operands = {-1, 0, 1}]}

Nonlinear ==
  INSTANCE Nonlinear WITH
    Calls <- Gelus \cup Softmaxes \cup Layers, MaxChanges <- 5, ShareDraws <- {0, 100},
    call <- job, values <- numbers, input <- given, draw <- coin, out <- answer

-----------------------------------------------------------------------------
\* Every number of three bits under every mask, thresholds whose difference to
\* a number leaves the range, every shift, polynomials up to degree 3; a batch
\* of two; shifts and polynomials that are refused.
Token ==
  [name |-> "cmp", bitwidth |-> 3, backend |-> "local", batch |-> 1, threshold |-> 0, shift |-> 1,
   signed |-> FALSE, coeffs |-> <<1>>, operands |-> 0 .. 7, masks |-> 0 .. 7]
TokensOf(backend) ==
  {[Token EXCEPT !.threshold = t, !.backend = backend] : t \in {-4, -1, 0, 2}}
  \cup {[Token EXCEPT !.name = n, !.backend = backend] : n \in {"relu", "maxpool"}}
  \cup {[Token EXCEPT !.name = "trunc", !.shift = s, !.signed = g, !.backend = backend] :
          s \in 0 .. 4, g \in BOOLEAN}
  \cup {[Token EXCEPT !.name = "poly", !.coeffs = c, !.backend = backend] :
          c \in {<<>>, <<5>>, <<1, -2, 3>>, <<0, 1, 0, 1>>}}
Batch == [Token EXCEPT !.name = "maxpool", !.bitwidth = 2, !.batch = 2, !.operands = {0, 1, 3}, !.masks = {0, 2, 3}]

TokensTried == TokensOf("local") \cup TokensOf("bks") \cup {Batch}
-----------------------------------------------------------------------------
\* Two lanes, two blocks of rows, noise up to what decodes and beyond; a raw
\* encoding, a prefix of the rows, inputs and moduli that are refused; the
\* matrix protocols with a modulus that p divides and one that it does not.
RowMap ==
  [kind |-> "linear map", q |-> 12, p |-> 3, degree |-> 2, inner |-> 0, raw |-> FALSE,
   v |-> << << <<5, 7>> >> >>, u |-> << << <<11, 2>> >> >>, input |-> <<2, 1>>,
   weights |-> << <<2>>, <<1>> >>, blockSize |-> 1, resultSize |-> 2,
   secrets |-> {<<1, 7>>}, noises |-> {<<0, 0>>, <<1, -1>>, <<2, 0>>}]
LaneMap ==
  [RowMap EXCEPT !.v = << << <<5, 7>>, <<1, 9>> >>, << <<0, 3>>, <<10, 2>> >> >>,
                 !.u = << << <<1, 3>> >>, << <<0, 3>> >> >>, !.input = <<1, 2, 0, 1>>,
                 !.weights = << <<2, 1>> >>, !.resultSize = 1]
NumberProduct ==
  [RowMap EXCEPT !.kind = "numbers", !.degree = 1, !.q = 16, !.p = 4, !.v = << <<3, 7>>, <<9, 14>> >>,
                 !.u = << <<5>>, <<6>> >>, !.input = << <<2, 3>>, <<1, 0>> >>,
                 !.weights = << <<1>>, <<2>> >>, !.secrets = {0, 9}, !.noises = {-1, 0}]
RingProduct ==
  [RowMap EXCEPT !.kind = "ring", !.q = 16, !.p = 4, !.input = << << <<1, 2>> >> >>,
                 !.weights = << << <<2, 3>>, <<1, 1>> >> >>]
\* Two rows of two against three columns, two in a block; p does not divide q.
PackedMap ==
  [RowMap EXCEPT !.kind = "packed", !.degree = 4, !.q = 41, !.inner = 2, !.v = << << <<5, 7, 40, 1>> >> >>,
                 !.u = << << <<11, 2, 0, 3>> >> >>, !.input = <<1, 2, 2, 0>>,
                 !.weights = << <<1, 2, 0>>, <<2, 1, 2>> >>,
                 !.secrets = {<<1, 0, 40, 1>>}, !.noises = {<<0, 0, 0, 0>>, <<0, 1, -1, 1>>}]
MapJobs ==
  <<RowMap, LaneMap, [RowMap EXCEPT !.resultSize = 1], [RowMap EXCEPT !.blockSize = 2],
   [RowMap EXCEPT !.q = 13], [RowMap EXCEPT !.raw = TRUE], [RowMap EXCEPT !.resultSize = 3],
   [RowMap EXCEPT !.input = <<1, 2, 1>>],
   NumberProduct, [NumberProduct EXCEPT !.raw = TRUE], [NumberProduct EXCEPT !.q = 13],
   [NumberProduct EXCEPT !.weights = << <<1>> >>], RingProduct,
   PackedMap, [PackedMap EXCEPT !.degree = 2, !.q = 23, !.v = << << <<5, 7>> >> >>, !.u = << << <<11, 2>> >> >>,
                                !.secrets = {<<1, 22>>}, !.noises = {<<1, 0>>, <<-1, 1>>}],
   [PackedMap EXCEPT !.input = <<1, 2, 2>>], [PackedMap EXCEPT !.input = <<1, 3>>], [PackedMap EXCEPT !.q = 3],
   [PackedMap EXCEPT !.weights = << <<1, 2, 0>> >>], [PackedMap EXCEPT !.inner = 5]>>

Map == INSTANCE LinearMap WITH Jobs <- MapJobs, shares <- mapShares, result <- mapResult

\* No error, one, and more than the code corrects, in the encodings of the
\* input and of the mask; blocks, a triple, batches that fit and one that does
\* not, too many candidates, too heavy a mask, too wide a radius; and every
\* word of a code over a field, and over numbers modulo 6.
Quiet == [j \in 1 .. 4 |-> [x |-> <<0, 0>>, u |-> <<0, 0>>]]
Noises ==
  {Quiet, [Quiet EXCEPT ![2].x = <<3, 0>>], [Quiet EXCEPT ![4].u = <<1, 2>>],
   [Quiet EXCEPT ![1].x = <<1, 1>>, ![3].x = <<0, 2>>],
   [Quiet EXCEPT ![1].x = <<1, 4>>, ![3].u = <<2, 0>>, ![4].x = <<1, 0>>]}
LpnJob ==
  [kind |-> "product", q |-> 5, codeLen |-> 4, radius |-> 1, weight |-> 1, blockWidth |-> 2,
   lhs |-> << <<1, 2>> >>, rhs |-> << <<3, 4>>, <<1, 0>> >>,
   lhs2 |-> << <<4, 1>> >>, rhs2 |-> << <<2, 0>>, <<1, 1>> >>,
   lpn |-> << [a |-> << <<2, 3>> >>, b |-> << <<1, 4>> >>] >>,
   masks |-> {<< <<1>>, <<0>>, <<4>>, <<3>> >>}, noises |-> Noises, conversion |-> "syndrome key",
   draw |-> 3, config |-> [maxCandidates |-> 5, maxDomain |-> 5, batch |-> 2], rows |-> 2, words |-> {}]
Batched == [LpnJob EXCEPT !.kind = "batch", !.lhs = << <<1, 2>>, <<0, 3>> >>]
Distributed == [LpnJob EXCEPT !.conversion = "distributed"]
LpnJobs ==
  {[LpnJob EXCEPT !.conversion = c] : c \in {"syndrome key", "server", "plain", "distributed"}}
  \cup
  {[LpnJob EXCEPT !.blockWidth = 1, !.lpn = << [a |-> << <<2>> >>, b |-> << <<1, 4>> >>],
                                              [a |-> << <<4>> >>, b |-> << <<3, 2>> >>] >>],
   [LpnJob EXCEPT !.kind = "triple", !.lhs = << <<1, 2>>, <<0, 3>> >>, !.lhs2 = << <<4, 1>>, <<2, 2>> >>,
                  !.noises = {[Quiet EXCEPT ![3].x = <<1, 0>>]}],
   Batched, [Batched EXCEPT !.conversion = "distributed"],
   [Batched EXCEPT !.conversion = "distributed", !.config.batch = 1],
   [Distributed EXCEPT !.config.maxCandidates = 4],
   [LpnJob EXCEPT !.weight = 3], [LpnJob EXCEPT !.radius = 2],
   [LpnJob EXCEPT !.kind = "word", !.words = [1 .. 4 -> 0 .. 4]],
   [LpnJob EXCEPT !.kind = "word", !.q = 6, !.words = [1 .. 4 -> 0 .. 5]],
   [LpnJob EXCEPT !.kind = "word", !.q = 7, !.codeLen = 5, !.radius = 2, !.rows = 1,
                  !.words = [1 .. 5 -> {0, 1, 3}]]}

Lpn == INSTANCE LpnHss WITH LpnJobs <- LpnJobs
-----------------------------------------------------------------------------
\* Programs of three instructions on an input of two values and on the number
\* 1, whose raw product keeps what a further product needs; two moduli.
HssTables == [m \in {193, 197, 5} |-> NttTables(2, m)]
HssTable(m) == HssTables[m]
HssCalls ==
  INSTANCE HssServers WITH
    N <- 2, Tables <- HssTable, Parameters <- {[moduli |-> <<193, 197>>, p |-> 5]},
    Plaintexts <- {<< << <<2, 4>>, <<4, 0>> >>, << <<1, 1>> >> >>}, Factors <- {<<2, 3>>}, OutputModuli <- {4}, Seeds <- {1},
    MaxCalls <- 3, keys <- evalKeys, calls <- done

\* One row, where nothing is chosen, two and three; with and without the carry
\* from a row to the next; payloads that are reduced; halves and full jobs.
PointTables == [m \in {7001, 5} |-> NttTables(2, m)]
PointTable(m) == PointTables[m]
Shape(ell, m, carries) ==
  [ell |-> ell, m |-> m, rows |-> 2, gadget |-> 1, q |-> 7001, p |-> 5, carry |-> carries, noise |-> 0]
Both(a, b) == [party \in {"A", "B"} |-> IF party = "A" THEN a ELSE b]
Place(a, b, payloads, full, seed) == [index |-> Both(a, b), payload |-> payloads, full |-> full, seed |-> seed]
Point ==
  INSTANCE PointFunction WITH
    N <- 2, Tables <- PointTable,
    Shapes <- {Shape(1, 2, TRUE), Shape(1, 2, FALSE), Shape(2, 2, TRUE), Shape(2, 2, FALSE),
               Shape(3, 2, TRUE), Shape(3, 1, FALSE)},
    Jobs <-
      <<Place(<<0, 0>>, <<0, 0>>, Both(3, 1), FALSE, 1), Place(<<1, 1>>, <<0, 1>>, Both(2, 4), TRUE, 2),
        Place(<<0, 1>>, <<0, 1>>, Both(4, 2), TRUE, 3), Place(<<1, 0>>, <<1, 1>>, Both(7, 0), FALSE, 4),
        Place(<<1, 1>>, <<1, 1>>, Both(4, 4), TRUE, 5), Place(<<2, 0>>, <<2, 1>>, Both(3, 4), FALSE, 6),
        Place(<<2, 0>>, <<0, 0>>, Both(2, 6), FALSE, 7)>>,
    job <- places

\* Two polynomials with bounds that fit them and that exceed them; a constant
\* that uses up the margin, a step that changes the key, sums of none and of
\* more than there are, steps that are not supported; rounding that moves
\* nothing, one bit and three; and reductions of one to four numbers, that
\* rescale or not and that do or do not come down to one.
PublicStep(kind, amount, count, key) ==
  [kind |-> kind, amount |-> amount, count |-> count, levels |-> 1, rescaled |-> TRUE, key |-> key]
Tree(bounds, levels, rescales, times) ==
  [bounds |-> bounds, times |-> times,
   plan |-> [fanin |-> 2, levels |-> levels, rescaled |-> rescales, divisor |-> 2]]
Ahss ==
  INSTANCE AhssEngine WITH
    P <- 97, Degree <- 2, Bks <- [secretBound |-> 6, noise |-> 1, qBits |-> 20, lambda |-> 64],
    Plaintexts <- {<<3>>, <<2, 94>>}, Slacks <- {0, 1},
    Primitives <-
      {PublicStep("plain mul", 2, 1, "same key"), PublicStep("plain mul", 50, 1, "same key"),
       PublicStep("add", 0, 2, "other"), PublicStep("add", 0, 0, "same key"),
       PublicStep("rotate", 0, 1, "bks-ahss-default-key"), PublicStep("rescale", 2, 1, "same key")},
    PublicPolys <- {<<1, 96>>}, Matrices <- {<< <<1, 0>>, <<0, 2>> >>}, RoundingBits <- {0, 1, 3},
    Draws <- {0, 5, 60}, Misses <- {0, 3},
    Trees <- {Tree(b, l, r, t) : b \in {<<2>>, <<1, 2, 3>>, <<2, 2, 2, 1>>}, l \in {1, 2}, r \in BOOLEAN,
                                 t \in {0, 1}},
    MaxCalls <- 4, full <- fullState, bridge <- bridgeState, product <- productPair,
    report <- reloadReport, certified <- certifiedTree, calls <- ahssCalls

ASSUME InstancesAssumption == Round!FixedPointsAssumption /\ Masked!CallsAssumption /\ Map!JobsAssumption
-----------------------------------------------------------------------------
Init ==
  /\ operator \in {"compare", "truncate", "convert", "round", "masked", "nonlinear", "hat", "map", "lpn", "hss", "point",
                   "ahss"}
  /\ IF operator = "compare" THEN CompareInit ELSE CompareUnused
  /\ IF operator = "truncate" THEN TruncateInit ELSE TruncateUnused
  /\ IF operator = "convert" THEN ConvertInit ELSE ConvertUnused
  /\ IF operator = "round" THEN Round!Init ELSE RoundUnused
  /\ IF operator = "masked" THEN Masked!Init ELSE MaskedUnused
  /\ IF operator = "nonlinear" THEN Nonlinear!Init ELSE NonlinearUnused
  /\ IF operator = "hat" THEN HatInit ELSE HatUnused
  /\ IF operator = "map" THEN Map!LinearMapInit ELSE MapUnused
  /\ IF operator = "lpn" THEN Lpn!LpnInit ELSE LpnUnused
  /\ IF operator = "hss" THEN HssCalls!Init ELSE HssUnused
  /\ IF operator = "point" THEN Point!Init ELSE PointUnused
  /\ IF operator = "ahss" THEN Ahss!AhssInit ELSE AhssUnused

Next ==
  /\ UNCHANGED operator
  /\ IF operator = "compare" THEN CompareNext ELSE UNCHANGED compareVars
  /\ IF operator = "truncate" THEN TruncateNext ELSE UNCHANGED truncateVars
  /\ IF operator = "convert" THEN ConvertNext ELSE UNCHANGED convertVars
  /\ IF operator = "round" THEN Round!Next ELSE UNCHANGED roundVars
  /\ IF operator = "masked" THEN Masked!Next ELSE UNCHANGED maskedVars
  /\ IF operator = "nonlinear" THEN Nonlinear!Next ELSE UNCHANGED nonlinearVars
  /\ IF operator = "hat" THEN HatNext ELSE UNCHANGED hatVars
  /\ IF operator = "map" THEN Map!LinearMapNext ELSE UNCHANGED mapVars
  /\ IF operator = "lpn" THEN Lpn!LpnNext ELSE UNCHANGED lpnVars
  /\ IF operator = "hss" THEN HssCalls!Next ELSE UNCHANGED hssVars
  /\ IF operator = "point" THEN Point!Next ELSE UNCHANGED pointVars
  /\ IF operator = "ahss" THEN Ahss!AhssNext ELSE UNCHANGED ahssVars

Spec ==
  Init /\ [][Next]_<<operator, compareVars, truncateVars, convertVars, roundVars, maskedVars, nonlinearVars,
                    hatVars, mapVars, lpnVars, hssVars, pointVars, ahssVars>>
-----------------------------------------------------------------------------
\* MaskedEvaluation: whatever the masks, every outcome has the residues of the
\* polynomial or product, and is that integer where the audit says so; a
\* division refuses or is right up to one unit, and takes every input within
\* its bound; and no two inputs are opened under the same mask.
EvaluatesMasked ==
  operator = "masked" =>
    Masked!ComputesExactly /\ Masked!RescalesWithinOne /\ Masked!MasksOpenOnce

\* Rescale: the exact variants round as if one party held the number, and the
\* variant without corrections is within two units of them.
\* Hat: whatever the mask, the program for the opened difference computes the
\* polynomial of the number.
\* Nonlinear: whatever the shares, every operator yields what one party would
\* compute who held the numbers, up to two units a product without corrections.
\* LinearMap: what the parties reconstruct, packed or not, is the product and
\* exactly the noise drawn, which decodes where it is small. LpnHss: noise is corrected up to the
\* code's radius, and never by more; shares of blocks and of triples add up.
\* HssServers: what a program computes, unless a number was rounded apart next to
\* a half, or was multiplied when its two sums no longer differed by the key.
\* PointFunction: the payload where the indices add up to, and 0 elsewhere.
\* AhssEngine: a certificate bounds the exact integers through every step, and
\* what it admits has not wrapped; encryption and memory hold the same; two
\* shares of a reload that may each be loaded add up without a wrap; the bound
\* of a reduction is one on every outcome of it.
ComputesInClear ==
  /\ operator = "round" => Round!RescalesExactly /\ Round!ApproximatesClosely
  /\ operator = "hat" => EvaluatesPolynomial
  /\ operator = "nonlinear" => Nonlinear!ComputesInClear
  /\ operator = "map" => Map!MultipliesExactly /\ Map!RefusesOnlyMisfits
  /\ operator = "lpn" => Lpn!DecodesNearest /\ Lpn!CorrectsNoise /\ Lpn!MultipliesUnderNoise
  /\ operator = "hss" => HssCalls!ServersAgree
  /\ operator = "point" => Point!SelectsOnePlace
  /\ operator = "ahss" => Ahss!AhssCertified
=============================================================================
