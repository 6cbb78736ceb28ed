# silent-rs in TLA+

silent-rs is a Rust workspace for two-party private inference: ring and lattice
arithmetic, homomorphic schemes and homomorphic secret sharing at the bottom,
secure operators on shares above them, and a network stack with a message
runtime through which the parties talk. These modules model two kinds of code.
Where two programs, tasks or calls meet (sessions, streams, router, handshake,
drivers, loads, containers, programs) they model the control in full, with its
failures, and the behaviours TLC explores are interleavings. Where one call
computes (operators, schemes, arithmetic) they model the calculation step by
step over small moduli and rings, and the behaviours TLC explores are every
input, sharing and draw of small instances. What matters most is proved with
TLAPS for every value of the constants.

Paths below are relative to `src/`; `net` is `core/crates/silent-net/src`,
`runtime` is `protocol/crates/silent-protocol-runtime/src`, `ops` is
`protocol/crates/silent-operators/src`, `fhe` is
`core/crates/silent-fhe/src/schemes`, `bin` is
`protocol/examples/silent/src/bin`.

## Inventory

| component | state | operations | what is hard | what makes it correct |
|---|---|---|---|---|
| runtime sessions (`runtime/session.rs`, `channel.rs`, `ids.rs`) | a gate cursor per task, a channel per peer, counters | insert_peer, send_*, recv_*, recv_expected_* | a send that fails has used its gate; a receive that fails has used its frame; peers and kinds share one cursor | routes are never reused, not those of failed sends either, deliveries are in order and at most once, the counters of two ends agree |
| framing and streams (`net/frame.rs`, `net/transport/{memory,tcp}.rs`) | bytes in flight, the rest of a chunk, a call in progress at each end | send_frame, recv_frame, write_all, read_exact | futures dropped at an await, frames larger than the transport holds, oversized frames, closed ends | a FIFO of whole frames until a fault; everything written arrives |
| router (`net/routing.rs`) | a bounded channel per route | register, deregister, clear, three kinds of dispatch | a key registered again while its old receiver is still read; a dispatch waiting for room | accepted frames are kept, in order, and the end of a receiver is final |
| handshake (`net/config.rs`) | two calls, one per role | send, receive, negotiate | each side computes the result for itself; either may refuse, fail or go away | both compute the same result, within both offers; nobody waits for ever |
| drivers (`bin/*.rs`) | the call in progress, the socket's buffers | connect with retries, convert, one-way and exchange in chunks, value round trips, ping-pong, waiting for both parties | one thread runs both parties over a socket of bounded room | calls get to their end and leave nothing behind |
| BKS-AHSS engine (`ops/bks_ahss.rs`, `ahss.rs`, `he_bridge.rs`) | instruction counter, the id of a load half done; states with certificates | load_share per party; public steps, products, reloads, reductions | loads of two values interleaved or failing between the parties; certified bounds that outlive what they bound | both shares of a value have the same id; a certified state is within its certificate |
| shares and private lookup (`ops/shares.rs`, `lookup.rs`, `comparison.rs`) | none | sharing, lookup, comparison digit by digit | carries between digits, shares that are not reduced | the opened bit is that of the comparison |
| truncation, share conversion (`ops/truncation.rs`, `conversion.rs`) | none | functions on residues | the wrap of a sum of shares, the carry out of the low bits | reconstruction is exact |
| fixed-point and nonlinear operators (`ops/fixedpoint.rs`, `hss_slots.rs`, `nonlinear.rs`) | packs left by the offline phase | rescaling, masked evaluation, GeLU, softmax, layer norm, row maximum | signs and table edges, results that wrap around the moduli, masks used twice | agreement with the integers, or a refusal; a mask is opened once |
| containers (`core/crates/silent-io/src`, `runtime/io.rs`) | a running checksum, a reader's position | write_object, read_header, recv_object | one writer used twice, a reader after a refused header, magic words in payloads | nothing is returned that is not in the file in one piece; what a refusal may cost is known |
| runtime program and registry (`runtime/program.rs`, `value.rs`) | symbol table, registered operators, trace | eval, set_var, del_var, register | an evaluation that fails half-way and is run again over the table it left | the table is that of a prefix of the program; a re-run is harmless if no name is written twice |
| HAT tokens (`ops/hat.rs`) | tokens and their masks | compile, prepare, evaluate | sign and carry of the masked input | the machine's outcome is that of the function |
| short integers (`fhe/shortint`) | ciphertexts with degree and noise | 40 calls of the server key, checked, unchecked, assigning | plaintexts that leave the range the degree promises | the degree bounds the plaintext |
| TFHE (`fhe/tfhe`) | keys | encryption, bootstrap, key switch | the negated half of the torus | a bootstrap returns the table's entry |
| residue number systems, rings and transforms, RLWE keys (`silent-math`, `silent-ring`, `silent-rlwe`) | precomputed tables | conversions, divisions, transforms, key generation | centred representatives, lazy reduction, approximate conversions | division within the stated error; transforms are products |
| BFV, BGV, BGV recryption (`fhe/bfv`, `fhe/bgv`) | keys, a cache of prepared keys, levels and factors of ciphertexts | encoding to decryption, products, switching, rotations, linear maps, recryption | a cache keyed by address, factors and levels that must be carried along | decryption gives the meaning the calls have |
| matrix products, linear map, LPN products (`ops/modular`, `ops/packed_linear_map.rs`, `silent-lpn`) | none | encodings of both parties, reconstruction, decoding | rounding after noise, more errors than the code corrects | the opened product is the product, or it is refused |
| HSS programs, point functions (`silent-hss`) | a server's memory | encryption, products, rounding and lifting, output | each server rounds alone | the two outputs add up to the result |
| pool, arena, generators (`core/crates/silent-utils/src`) | cached buffers, a block and a position in it | acquire, drop, fill_bytes | dirty buffers, two read paths | no byte is used twice |
| typed codec, QUIC, framed reader, profiles and kernels, scheme bridge, parameters, scripts | | | | not modelled, see the end |

How they interact: a driver owns one or two `RuntimeSession`s. A session owns a
`RuntimeMesh`, which owns a `RuntimeChannel` per peer, which owns a boxed
`Stream` and calls `send_frame` and `recv_frame` on it. The router and the
handshake are entry points of silent-net that the runtime does not use; they
have their own modules and are composed with nothing. `RuntimeIo` reads and
writes values through a container writer or reader, and a program's values live
in a `SymbolTable` that its evaluation shares with the host. The operators on
shares compute both parties in one process, slot by slot, and their worker
threads share only read-only tables: they are modelled as one call on one slot.
The nonlinear operators are built from lookups, comparisons, rescaling and masked
evaluation; HAT machines and point functions from HSS; short integers from the
TFHE bootstrap; BFV and BGV from RLWE keys and the arithmetic in residues.

## Modules

| module | models | checked by |
|---|---|---|
| `RuntimeSession` | sessions, meshes, channels, routes and the gate cursor | `MCRuntimeSession`; proofs in `RuntimeSessionProofs` |
| `FrameFifo` | abstract: what a stream promises | refined by `FrameStream` |
| `FrameStream` | `frame.rs` over the memory and TCP transports | itself; proofs in `FrameStreamProofs` |
| `Router` | `routing.rs` | itself; proofs in `RouterProofs` |
| `Handshake` | `config.rs`, with its instance for TLC and its proofs | itself |
| `RuntimeDrivers` | the exchanges of the drivers over one socket | `MCRuntimeDrivers`; proofs in `DriverProofs` |
| `PairedLoad` | loading values into both parties' memories | `MCLocal`; proofs in `LocalProofs` |
| `RuntimeProgram` | evaluation over a symbol table | `MCLocal`; proofs in `LocalProofs` |
| `Containers` | `container.rs`, `header.rs`, `runtime/io.rs` | `MCLocal`, itself; proofs in `LocalProofs` |
| `Scratch` | pools, arenas and generators | `MCLocal` |
| `AdditiveShares` | shares and the lookup of one slot | extended by the next ones |
| `Truncation`, `ShareConversion` | one call each | `MCOperators`; proofs in `ShareProofs` |
| `RadixComparison` | comparison digit by digit | `MCOperators`; proofs in `ShareProofs` |
| `Rescale`, `MaskedEvaluation`, `Nonlinear` | rounding, masked evaluation, the nonlinear operators | `MCOperators` |
| `Hat` | tokens, compilers and the machine | `MCOperators`; proofs in `ShareProofs` |
| `MatrixMul`, `LinearMap` | products of both protocols; the row-blocked and the packed linear map | `MCOperators` |
| `LpnHss` | linear algebra, the Reed-Solomon code, LPN products | `MCOperators` |
| `Hss`, `HssServers`, `PointFunction` | HSS encodings, programs, point functions | `MCOperators` |
| `AhssEngine` | states of the BKS-AHSS engine and their certificates | `MCOperators` |
| `Shortint` | short integers | `MCSchemes`; proofs in `ShortintProofs` |
| `Bootstrap` | the torus ring and TFHE | `MCSchemes` |
| `RnsTool`, `RnsPipeline` | word arithmetic, bases, transforms; division of a product | all of the last three MC modules; `MCSchemes` |
| `Rlwe` | RLWE samples and keys | extended by the next ones |
| `BfvScheme` | BFV | `MCSchemes` |
| `BgvScheme`, `BgvBootstrap` | BGV and its recryption | `MCLevelled` |

An MC module that checks several components lets each behaviour have one of
them as its subject; the variables of the others stay as they are.

**RuntimeSession.** A frame is one element of `pipe[p][q]`; how it crosses the
stream byte by byte is `FrameStream`. `cursor` is the `GateCursor` of each task,
`peers` the keys of the mesh, `stats` the counters, `poisoned` the streams whose
frame boundaries a receiver has lost; `log`, `burned` (gates of failed sends) and
`delivered` are histories. An
action is a call with everything it changes before it returns: `Send` burns the
gate, appends and counts; `SendFails` burns the gate and nothing else;
`RecvForeign`, `RecvDiscards` and `RecvTooLarge` are the three ways of a failed
receive, which differ in what they consume and count. Payloads are names with a
length and the codec that made them. Everything goes through the session's calls:
replacing the mesh of a session (`attach_mesh`) and channels that a caller takes
through `mesh_mut` and uses with routes of its own are left out, as the cursor says
nothing of them.

**FrameStream** cuts frames into cells, writes them in two calls, moves them
through a bounded queue of chunks (memory) or single cells (socket), and reads
header and payload with `read_exact`. Which of the two it is, `wholeWrites`
chooses at the start. Either future may be dropped at its awaits. A cell knows
its frame, so a reader off the boundaries sees "no header of any frame" and a
length that may be anything. `FrameFifo` is the promise; the mapping takes
`sent` to the frames of which a byte is out and `taken` to the last frame
returned whole.

**Router** numbers frames by arrival and channels by registration. `Exclusive`
is `&mut self`: nothing else runs on the router while a dispatch waits, while
receivers go on. `home` records what each dispatch answered.

**Handshake** has one record per role: its offer, the state of its call, the
frame in flight and what it learnt. Layout of the offer is abstracted to whether
it can be encoded and whether the peer's frame is a handshake.

**RuntimeDrivers** writes each call as the code has it, a sequence of stages of
operations awaited together, over a socket with room for `capacity` units in
each direction. One task is the single-threaded executor of the runners; two
tasks are the processes of the harness, the `Connector` of which tries `MaxTries`
times before it gives up, and the orchestrator waits for both. A task may die
("crashed") at any point; one that meets an error has "failed".

**RuntimeProgram** runs one named program over the table. A value is the term
that says how it came about, so two tables are equal exactly if the same
operators were applied to the same inputs. `Bind` binds all outputs of an
instruction; `CountDiffers` is the call whose operator has run, and is in the
trace, but whose outputs are refused. Between evaluations the host registers
operators and sets or deletes variables.

**Containers** is a file of units, each of which knows its container and its
place in it. Writing may stop after any unit, units may be damaged, and a further
magic word may stand anywhere in a container, so that a payload may hold a container
or something that looks like one. The reader's calls differ in how far they get:
`ReadBadMagic` consumes the magic word only, `RefuseVersion` also the version (6 of
the 56 bytes of a header), `RefuseHeader` the header, `ReadShort` what is left,
`ReadValue` and `RefuseValue` everything. What the bytes after a magic word say is
known only if they are a container's own; otherwise it is anything that the payload
lengths allow. `hashed` is what the writer's running hasher has seen.

**PairedLoad** has an action per critical section of a load: taking the id,
making party 0's share, taking the id out of the slot, making party 1's. Any
number of loads interleave, those of the engine's own `load_full` and those of
the generic one, and each may be rejected or fail at either share.

**Scratch** has pools per thread whose buffers come back dirty, arenas that grow,
are reset and dropped on either thread, and the block generator with its buffered
and its direct read; `given` and `samples` are histories of what was handed out.

**AdditiveShares** has the arithmetic of shares and a lookup by its result: a
lookup may return any sharing of the right entry (`draw` is party 0's share).
`RadixComparison` goes up through the digits, whose carries the tables correct,
and down again folding "equal so far" and "less here"; both of its branches for
the modulus of the digits are formats to choose from. `Truncation` looks up the
carry out of the low bits and the wrap of the whole, in the order of the code.
`ShareConversion` masks, exchanges and rounds; `Rescale` has the correction
tables, in the way a small batch looks them up and in the way a large one rebuilds
them from comparisons. Each starts from a format the code's validation lets through.

**MaskedEvaluation.** A `call` has its parameters; `pack` is what the offline
phase leaves (`Prepare`): a mask of each slot with the Taylor coefficients of the
polynomial at the mask, a triple, or the quotient of the mask. `Evaluate` opens
the masked inputs of the chunk, computes each party's outcome and consumes the
pack, also when it ends in an error, after which the caller may try again; a streaming call goes on to the next chunk
with a new pack. `Refuse` is the audit that keeps a result from wrapping around the
moduli. There is one way of making a pack for each constructor of the source. One
draw makes the pads of all powers of a slot, as the shares of a product do not
depend on it. Products of moduli stay below 2^30: where real ones exceed 128 bits,
the source takes the sum of the limbs' widths for the width of the product, which is
left out. On plain shares the source marks a pack as consumed after it has opened the
input (`ops/nonlinear.rs` 5000 and 5011) and not before; what stands between repeats
comparisons of lengths and moduli that were made before line 4999 and cannot fail, so
that both are one step. `Nonlinear` has GeLU in three forms, softmax in five, layer
normalisation in two, their phases, products, comparisons and the row maximum: one
function from a `job` and its `numbers` to the `answer`, by the corrections that the
source looks up.

**Hat, MatrixMul, LinearMap, LpnHss, Hss, HssServers, PointFunction, AhssEngine.**
A token of `Hat` opens the difference of its number and its mask, compiles a program
for that difference and runs it on the parts of the mask that it holds; the bit
adder's cells are at fixed places, as the source emits four for each bit.
What is drawn is a parameter or a table of numbers; what an encryption hides is
what it decrypts to, except in `Hss` and below, where ciphertexts are ring elements
with noise and each server computes from its own key share alone. `LpnHss` has both
decoders of the Reed-Solomon code with the eliminations under them, and the four
ways to make shares of a word; with more errors than the code corrects it decodes
wrongly or refuses, as the code does. `AhssEngine` has the certificates of states as
fields, updated by the rules of the source. Three of those are looser than their
names, and the properties are stated accordingly: an approximate reload leaves
`exact` set although it rounds; its reported error is the maximum of two roundings
whose sum is the actual one; the reduction of a tree of bounds takes the maximum of
the noise and not its sum. `with_bound` replaces a bound and leaves the product
bound computed from the old one, and a rotation takes its amount modulo the degree, so
that a full turn, which negates, counts as none; both are modelled as they are.

**RnsTool, RnsPipeline, Rlwe, BfvScheme, BgvScheme, BgvBootstrap** do the
calculation of the source over word-sized moduli of a few bits (`Word` is the number
of values of a machine word, so lazy reductions and their ranges are real). `Rlwe`
takes its ring as operators, so that schemes run in a ring of degree two or four.
In `BfvScheme` prepared keys are cached by the address of their key (`fhe/bfv/ops.rs`
2814-2831): the run has `Moves` FALSE, so every key stays where it is until it is no
longer used; with `Moves` TRUE, a new key at the address of a dropped one is taken
for it and `DecryptsToMeaning` fails. No document of the repository says more than
that, so this is recorded here as the hypothesis of the property. A product for
parameters without an auxiliary base (799-843) is left out: it is not rescaled.

Left out everywhere: encodings and field layout, error texts, logging, payload
contents (a frame is told from another by its route or number), costs and timing.

The map of definitions to lines is in `PROJECT.json`. A helper whose lines are all
named by another row of its module has no row of its own.

## Runs

| run | question | instance and why it is enough |
|---|---|---|
| `runtime_two` | order, at-most-once, shape, fresh routes, with stale and rejected frames | two parties, two tasks, gates up to 2, three frames one way and one the other: a rejected frame, a wanted one, a later one, and sends beyond the end of the cursor |
| `runtime_mixed` | limits and counters, with foreign frames | three parties, one with another parameter set, one with a larger limit, both payload sizes |
| `stream` | does a stream implement the FIFO; does what is written arrive | three frames: empty, at the limit, above it; a memory stream with room for two chunks, and a socket that holds less than a frame |
| `router` | loss, order, end; does a waiting dispatch return | two keys, two registrations, four frames, channels of two places: an old and a new channel of one key, both full |
| `handshake` | agreement, limits, termination | every pair of 38 offers, either side gone at any point |
| `drivers` | do the runners get to the end, leaving nothing behind; are two processes in step | all pairs of two calls, payloads empty, whole, chunked (short last chunk) and too large, three iterations of the ping-pong, two tries to connect; sockets of 2, 3 and 5 units, smaller and larger than a frame; any program may die |
| `containers_shared` | does the checksum cover the container | one writer for all objects: a violation, see below |
| `local` | pairs of shares and fresh ids; what a reader returns after torn, damaged and refused containers; what a failed program leaves and whether it may run again; are slices and random bytes given once | three loads: two that interleave and one before, between or after; two containers, one fault at any unit, one further magic word at any place, every kind of refusal, and lengths with which the search behind a refusal comes out at the next header or misses it; every program of 1 to 3 of seven instructions over three names, two evaluations, one change by the host; two arenas on two threads; reads below and above a block |
| `operators` | is each operator on shares what it would be in the clear, and does it refuse what would wrap | every sharing of three and four bits, digits of unequal widths at the smallest modulus the guard admits, five pairs of moduli, four fixed-point formats, inputs up to twice the bound, edges of every table, errors one above what the code corrects |
| `schemes` | do short integers, TFHE bootstraps, divisions and BFV decrypt to what they mean | messages of one and two bits with up to two bits of carry, every table of two entries, three choices of bases, rings of degree two, up to three calls |
| `shortint_sub` | is a subtraction clean | one subtraction below zero: a violation, see below |
| `levelled` | do BGV ciphertexts carry the right factors, does recryption return the plaintext | two calls at the levels and factors the first one left; every way to recrypt |

Bounds are constants named in the modules and their configurations (`MaxU64`,
`MaxFrames`, `MaxReturned`, `MaxChannels`, `MaxTries`, `MaxContainers`, `MaxFaults`,
`MaxEvals`, `MaxEdits`; `MaxWords` of `Containers`; `MaxWords`, `MaxBuffers`, `MaxCalls`, `MaxBlocks` and
`MaxRedraws` of `Scratch`), the `CONSTRAINT Bound` of `MCRuntimeSession`
(`MaxSends`), and the inputs that the other MC modules list. `CHECK_DEADLOCK FALSE`
is set where the system may stop: bounded numbers of frames, closed sessions,
programs and calls that end. `local` uses the symmetry of loads, which its
invariants do not tell apart. The actions of each module are guarded by its own
bounds, and no bound is below what its hazard needs: a counter reaches its end, a
queue is full, a fault is followed by a good frame, container or load.

Histories make the properties sharp. `RouteNeverReused` looks at all frames a
party ever put on its streams, `DeliveredInSendOrder` compares what was returned
with the sender's log, `ExpectedOnce` looks at the caller's question and the
frame it got, `RerunIsFresh` at what the host has put into a table. Each property
has a mutation of a modelled definition that breaks it, listed in
`PROJECT.json`: a wrapping counter, a route comparison without the gate, a
length check that is missing or off by one, a result computed with its arguments
swapped, a receive before the send it waits for, an id that stays in its slot, a
lookup in a domain that is one bit short.

### What the runs show

- A session never puts the same task and gate on its streams twice, because the
  gate is burned before anything can fail and stays burned. The price is that a retried send has
  another route than the one the peer may be waiting for, and that a refused
  receive loses its frame.
- Two sessions whose limits are equal never lose frame boundaries; a receiver
  with a smaller limit than its sender loses them for good (`NoPoison` holds
  only under its hypothesis).
- A stream is a FIFO of frames until a send is dropped half-way, a receive is
  dropped after its first byte, a frame exceeds the limit or a socket is reset.
  A call dropped before its first byte leaves no trace. After a fault old frames
  still do not come back.
- A key that is registered again keeps its order, provided the old receiver is
  drained first; a receiver that has seen its end misses nothing.
- An initiator that agreed can rely on its responder, and not the other way
  round.
- The single-threaded runners finish exactly when every frame, header included,
  fits the socket: `try_join!` of two sends does not help, since both are joined
  before anything is read (`Completes`, second conjunct). Two processes finish
  whatever the size. Without a crash no call meets a failure or another's frame.
- A failing program leaves exactly the work of a prefix of its instructions. One
  that writes each name once, and none it has read, may be run again after any
  failure; one that updates in place may not (its update is applied twice).
- No fault makes a container reader return anything but what stands in the file in
  one piece, in order and once: accepted containers, and containers that a payload
  holds, which a reader that searches in a payload takes for its own. A refused
  container costs no later one if the search behind it comes out at the next header
  and meets no magic word before it (`Harmless`). The search moves by words of four
  bytes, and a header of a newer version is given up after six (`header.rs:92`):
  behind one, containers are found if its payload is two bytes more than a multiple
  of four, and are missed if it is a multiple, with the file intact. Behind a header
  that is refused for anything else they are found if the payload is a multiple.
- A `ContainerWriter` used for a second object computes a checksum that also
  covers the first (`containers_shared`): `container.rs:15` says that the
  checksum covers header and payload, and no reader accepts the second object.
- Two generic loads that interleave between the parties exchange their ids: the
  call returns shares that do not belong together, or fails. Masks stay fresh in
  every case, and loads that fail do no harm to later ones.
- Comparison and truncation are exact for every sharing, at the narrowest moduli
  their validation admits. Conversion decodes what opening would have decoded if
  `p` divides `q`; otherwise each unit of a mask costs `q % p`, and
  `AgreesWithOpening` says exactly when that matters.
- Every way of making a pack gives the same outcomes. A polynomial that passes
  the audit does not wrap for any input within the declared bound, whatever the
  signs of its terms. A division refuses or is at most one unit too high, also for
  inputs that are negative or above their bound; those within it are never
  refused. A pack that was used wrongly is gone, and its mask opens nothing.
- The degree of a short integer bounds its plaintext through every call but one:
  `sub_assign` below zero leaves a ciphertext that is not clean. 0 - 1 with message and
  carry modulus 2 sets the padding bit, and the bootstrap that should clean it reads
  the negated half of the table: plaintext 7 of 8 under degree 1 (`shortint_sub`;
  `fhe/shortint/server_key.rs:264`). An addition that is refused in place is done all
  the same, so that the ciphertext decrypts to the sum under its old degree
  (`overfull`, in `DegreeBoundsPlaintext`).
- BFV and BGV ciphertexts decrypt to what the calls mean, with the factors and
  levels that they carry; recryption returns the plaintext in each of its forms.
- No two users share a scratch buffer, and no byte of a generator is given twice,
  in any order of reads that use its block and go past it.

### Fairness

`FrameStream`: the executor polls a woken task (weak fairness of writing,
reading and decoding) and the receiver calls `recv_frame` again, as the
runtime's callers do in their loops; cancelling and closing are never forced, and
`Arrives` excludes a receiver that cancels for ever. `Router`: a dispatch that
can go on does, and each receiver is read by a task of its own; this is the
assumption under which the waiting dispatch is used. `Handshake`: a call that
can go on does, and a caller whose handshake failed drops its stream.
`RuntimeDrivers`: `block_on` polls its future when the socket wakes it. The other
modules assume none and state no liveness: their operations do not wait.

## Proofs

The proofs assume what the modules' named ASSUMEs say of the constants and
nothing else, unless the theorem says so: any parties, tasks, payloads, limits,
gate bound; any keys, capacity and bounds of the router; any offers; any number
of loads, programs and tables, containers of any lengths; any modulus, width,
shift and draw; any tokens, masks and calls of them; any moduli, factors and
ciphertexts of the short integers.

| theorem | statement | argument |
|---|---|---|
| `RuntimeSessionProofs!TypeCorrect` | `Spec => []TypeOK` | inductive as it stands: one step per action |
| `RuntimeSessionProofs!RoutesUnique` | `Spec => []RouteNeverReused` | strengthened by: every logged and every burned gate of a task is below the cursor of that task. A send logs or burns the cursor's value and steps it |
| `RuntimeSessionProofs!BoundariesAreKept` | `Spec => []NoPoison` | strengthened by: frames on a stream are within their sender's limit |
| `RuntimeSessionProofs!DeliveriesInOrder` | `Spec => []DeliveredInSendOrder` | `OrderInv`: frames delivered and in the pipe are in the sender's log, and their places in it increase along what was delivered followed by the pipe. A send adds a last place, a receive moves one, a discard drops one |
| `RuntimeSessionProofs!ExpectedAtMostOnce` | `Spec => []ExpectedOnce` | what an expecting receive returned has the route it asked for; two such frames would be two places of the log, which have two routes |
| `RuntimeSessionProofs!CountersAgree` | `Spec => []StatsAgree` | with: frames on a stream have their sender's parameter set. The bytes of a sequence of frames are a recursive function, whose existence and value for a longer or shorter pipe are proved by induction |
| `FrameStreamProofs!StreamIsFifo` | `Spec => ImplementsFifo` | `StreamInv`: the shape of buffers and calls; the order half (no cell of an old frame is ever behind one of a new frame, nor before what was returned), which faults do not disturb; the no-gap half (the next frame out is the next one in), until the stream is broken or the receiver gone. Every step then maps to a step of `FrameFifo` or a stutter |
| `FrameStreamProofs!StreamTypeCorrect` | `Spec => []TypeOK` | part of `StreamInv` |
| `RouterProofs!RouterTypeCorrect` | `Spec => []TypeOK` | inductive |
| `RouterProofs!AcceptedAreKept`, `ArrivalsInOrder`, `EndsAreFinal` | `Spec => []AcceptedNotLost` and so on | strengthened by: registered channels belong to their key, a key's current channel is its latest, frames in a channel were accepted by it and are older than the dispatch that waits, an ended channel has no route and an empty queue |
| `Handshake!HandshakeAgrees` | `Spec => []Agreement` | strengthened by what each state of a call knows: what was learnt is the other's offer, the responder is past its send when the initiator has learnt something, results are outcomes of the two offers |
| `Handshake!HandshakeWithinOffers` | `Spec => []WithinOffers` | the same invariant, and that `negotiate` takes minima and intersections |
| `LocalProofs!PairedLoadTypeCorrect` | `Spec => []TypeOK` | inductive: ids in use are below the counter |
| `LocalProofs!MasksAlwaysFresh` | `Spec => []MasksFresh` | strengthened by: an id that waits in the slot has masked no share of party 1 |
| `LocalProofs!PairsAlwaysCancel` | `Spec => []PairsCancel` | strengthened by: while a load waits between its calls, the slot holds its id exactly if nothing has disturbed it; afterwards its two ids record the answer |
| `LocalProofs!ReturnsWritten` | `ContainersSpec => []ReadsWhatWasWritten` | `FileOrdered`: along the file containers come in the order of the writes, and undamaged units of one container lie as far apart as they were made, whatever was torn or damaged. `Returned`: what was returned lies whole before the reader's place, so what starts there is a later one, or lies further on in a container the payload of which is being searched |
| `LocalProofs!RefusalsAreContained` | `~SharedWriter` implies `ContainersSpec => []RefusalsCostNothingElse` | `Placed`: while nothing is torn or damaged every unit lies in a container that is there in one piece. `NoneSkipped`: as long as the containers met so far are `Harmless`, a call starts where a container starts or whole words behind where a refusal left one (`OnTrack`), and the accepted ones it has passed it has returned. No magic word is met on the way, so a step of one word stays on track or comes out at the next container. The hypothesis on the writer is what `runtime/io.rs` does: a new one for every value |
| `LocalProofs!TraceAgrees`, `RerunsAreFresh`, `PrefixIsLeft` | `ProgramSpec => []TraceMatchesTable`, `[]RerunIsFresh`, `LeavesPrefix` | `ProgramInv`: the table is the one at the start with a prefix of the program applied, and the trace lists it; names written once are not read before, so applying the prefix again changes nothing. The tables after each prefix are a recursive function |
| `DriverProofs!CallsSucceed`, `CallsLeaveNothing`, `ProcessesInLockstep` | if every program in `Programs` is `Known`, `Spec => []NoMismatch` and so on | `Known` is either any sequence of the drivers' calls, of any sizes, in one task, or any number of iterations of the ping-pong in two. `Linked`: in each direction at most one frame is on its way, and it is the one of the last send. For one task that follows from how each call is laid out (`Answered`: a later stage receives what a stage sends before anything else is sent that way; proved of the four calls, chunked ones by the parity of their stages); for two from their positions, which tell what each has sent and read. Nobody meets the end of the stream because a process that has finished has written all its peer still reads |
| `ShareProofs!TruncationIsExact` | `TruncateSpec => []TruncatesExactly` | shares as congruences, division as the equation of quotient and remainder, powers of two by induction; the invariant gives what each lookup has returned by then |
| `ShareProofs!ConversionIsRight` | `ConvertSpec => []Converts` | the invariant says what each party has shown of its share; the sum of the two roundings is compared with the rounding of the sum, with and without the wrap |
| `ShareProofs!ComparisonIsExact` | `CompareSpec => []Compares` | for any number of digits, radix and shares. `CompareInv`: the carry into a digit is the wrap of the low digits of the two shares, so the corrected digits are those of the number, by induction over the digits going up; going down, "equal so far" and "less here" say how the high digits of the two numbers compare |
| `ShareProofs!TokensComputeOnce` | `HatSpec => []TokenComputesOnce` | for any bit widths, shifts, thresholds, masks, batches and sequences of calls, and every operator, except for the value of a polynomial. `HatInv`: a token holds the parts of masks that are numbers of the machine; it has opened one difference per failure of the engine, and one more for the call that consumed it; a call that was answered lacked no input and got the function. The last part is about programs: what the machine remembers, cell by cell, when it adds a public number to the bits of a mask (bits, products, carries, sums, by induction over the bits), and then the tail of each operator as a linear combination. The opened difference plus the mask is congruent to the number, so the high bit of the sum is the sign and the carry out the wrap. The shape of a program depends on the operator only, and its loads are counted by a bijection to the bits |
| `ShortintProofs!ShortintTypeCorrect` | `ShortintSpec => []ShortintTypeOK` | every call leaves the range its validation admits, a refused one the old degree; a plaintext stays below `2T` |
| `ShortintProofs!DegreeIsHonest` | `ShortintSpec => []DegreeBoundsPlaintext` | for any moduli, number of ciphertexts and calls, factors and methods. `ShortintInv` is about one ciphertext at a time: its plaintext is within its degree, which is below the padding bit, and congruent to its meaning modulo `mm`; one on which an addition was refused in place keeps the congruence. One lemma per operator (sum, difference, product, bootstrap, extraction, packed lookup), which the calls compose; a packed pair is `left * mm + right` because the right degree is below `mm` |

Induction over data enters in one way: the library's least number in a non-empty
set of naturals (from `NatLessThanWellFounded`) gives induction on a set, that
gives the existence and the equations of the recursive functions, and these are
written so that no operator is a parameter.

Only model-checked, and why:

- every liveness property (`Arrives`, `DispatchReturns`, `Concludes`, `Completes`)
  and whatever speaks of ENABLED: outside what this prover does;
- `EvaluatesMasked`, `ComputesInClear`, `Evaluates`, `Divides`, `DecryptsToMeaning`,
  `TracksFactors`, `RecryptsExactly`: statements about calculations in given rings,
  tables and codes, in modules with RECURSIVE operators, which no backend takes;
- the value of a token for a polynomial (`EvaluatesPolynomial`, in `ComputesInClear`):
  that shifting the coefficients by the difference shifts the argument is the binomial
  theorem, an induction over folds, which take an operator as a parameter;
- `ReusesCleanly`: instances of `Scratch` with their block functions filled in.

## Not modelled

Typed codecs (`net/typed.rs`, `integration.rs`): stateless encodings. QUIC: the
behaviour is the library's. The framed reader and the checksum function itself:
the runtime uses `ContainerReader`, and the checksum is modelled by what it covers.
Cost profiles, kernels and coefficient tables, parameters and presets: constants and
estimates. The bridge between schemes: conversions of parameters. Benchmark scripts.
Of components that are modelled in part: how an endpoint is reserved and the
operating system's side of connecting (after a failed bind the model's connector is
refused, while the code's, `bin/silent_runtime_net_harness.rs` 232 and 275, may reach
the program that holds the port and wait for it); cost estimates of bridges and of deferred
materialization and the baseline that mixes material in `AhssEngine`; the
allocation classes of the memory pool; floating-point approximation error beyond
what the rounding of a small format shows. `components` in `PROJECT.json` has the
list with reasons.

## What is left to do

1. `ReusesCleanly`, with the buffer and the block of the generator as constants:
   a given byte is below the reader's place, the direct read starts at a block.
2. The part of `EvaluatesMasked` about packs (no two inputs under one mask), from:
   a pack that has been consumed is gone.
