------------------------------- MODULE Scratch ------------------------------
(***************************************************************************)
(* Memory that is reused without being cleared (silent-utils).             *)
(*                                                                         *)
(* Every thread has a pool of buffers by length (memory.rs).  A scratch    *)
(* arena (arena.rs, and RnsToolScratch around it) cuts slices off one      *)
(* buffer and moves to a longer one when it is full; the old one goes into *)
(* the pool of the thread that runs.  A buffer comes with whatever it was  *)
(* left with.                                                              *)
(*                                                                         *)
(* A generator (rng.rs) expands its seed block by block and keeps the rest *)
(* of the last one for the next read; a direct read puts whole blocks past *)
(* that rest straight into the destination.                                *)
(***************************************************************************)
EXTENDS Integers, SequencesExt

CONSTANTS
  Threads, Arenas,
  Least,        \* the least capacity of an arena
  Requests,     \* capacities asked for
  Lengths,      \* of slices
  MaxWords,     \* bound on a buffer's length
  MaxBuffers,   \* bound on the buffers made
  MaxCalls,     \* bound on the operations on arenas
  Block,        \* bytes of a block
  Reads,        \* lengths of reads
  MaxBlocks,    \* bound on the blocks expanded
  MaxRedraws,   \* bound on the words drawn again for one residue
  ByteValues, WordBytes,  \* the values of a byte, the bytes of a word
  Expand(_, _), \* the byte of a block at a place
  Bases         \* sequences of moduli

ScratchAssumption ==
  /\ Least > 0 /\ MaxWords >= Least /\ Block > 0
  /\ \A base \in Bases : \A k \in DOMAIN base : base[k] > 1 /\ 2 * base[k] < ByteValues ^ WordBytes

VARIABLES
  pools,      \* thread -> length -> buffers, the last one on top
  arenas,     \* arena -> [thread, buffer, offset, capacity], or Nothing
  contents,   \* buffer -> its words
  kept,       \* history: arena -> the words its user left in its slices
  calls,
  counter,    \* the block a generator expands next
  buffer, index,    \* the block it reads from, and the place in it
  given, gifts,     \* history: the bytes it gave, as <<block, place>>, and how many
  samples     \* the last residues drawn: [base, words, values]

poolVars == <<pools, arenas, contents, kept, calls>>
streamVars == <<counter, buffer, index, given, gifts, samples>>
vars == <<poolVars, streamVars>>

Nothing == <<>>
MinOf(x, y) == IF x < y THEN x ELSE y
Live == {a \in Arenas : arenas[a] # Nothing}
-----------------------------------------------------------------------------
(* Buffers.                                                                *)

\* A buffer of a length from a thread's pool, or a new one: all three change.
Acquired(thread, size) ==
  LET bucket == pools[thread][size]
  IN  IF bucket # <<>>
      THEN [buffer |-> Last(bucket), pools |-> [pools EXCEPT ![thread][size] = Front(bucket)], contents |-> contents]
      ELSE [buffer |-> Len(contents) + 1, pools |-> pools,
            contents |-> Append(contents, [k \in 1 .. size |-> "uninitialised"])]
CanAcquire(thread, size) ==
  size <= MaxWords /\ (pools[thread][size] # <<>> \/ Len(contents) < MaxBuffers)
\* A buffer goes under its own length.
Returned(some, thread, b) == [some EXCEPT ![thread][Len(contents[b])] = Append(@, b)]

NewScratch(a, thread, request) ==
  LET size == IF request > Least THEN request ELSE Least
      got == Acquired(thread, size)
  IN  /\ a \notin Live /\ CanAcquire(thread, size)
      /\ arenas' = [arenas EXCEPT ![a] =
                      [thread |-> thread, buffer |-> got.buffer, offset |-> 0, capacity |-> size]]
      /\ pools' = got.pools /\ contents' = got.contents
      /\ kept' = [kept EXCEPT ![a] = <<>>]
      /\ UNCHANGED streamVars

Reset(a) ==
  /\ a \in Live
  /\ arenas' = [arenas EXCEPT ![a].offset = 0] /\ kept' = [kept EXCEPT ![a] = <<>>]
  /\ UNCHANGED <<pools, contents, streamVars>>

Capacity(a, len) ==
  LET end == arenas[a].offset + len
  IN  IF end <= arenas[a].capacity THEN arenas[a].capacity ELSE IF end > 2 * arenas[a].capacity THEN end ELSE 2 * arenas[a].capacity
\* Without the copy of what was in the slices.
GrownWithoutCopy(a, len) ==
  LET old == arenas[a]
      got == Acquired(old.thread, Capacity(a, len))
  IN  IF Capacity(a, len) = old.capacity THEN [arena |-> old, pools |-> pools, contents |-> contents]
      ELSE [arena |-> [old EXCEPT !.buffer = got.buffer, !.capacity = Capacity(a, len)],
            pools |-> Returned(got.pools, old.thread, old.buffer), contents |-> got.contents]
\* The arena with room for len words more: the new buffer is taken while the
\* old one is still held, and gets what was in the slices.
Grown(a, len) ==
  LET old == arenas[a]
      got == Acquired(old.thread, Capacity(a, len))
      copied == [k \in 1 .. Capacity(a, len) |->
                   IF k <= old.offset THEN contents[old.buffer][k] ELSE got.contents[got.buffer][k]]
  IN  IF Capacity(a, len) = old.capacity THEN [arena |-> old, pools |-> pools, contents |-> contents]
      ELSE [arena |-> [old EXCEPT !.buffer = got.buffer, !.capacity = Capacity(a, len)],
            pools |-> Returned(got.pools, old.thread, old.buffer),
            contents |-> [got.contents EXCEPT ![got.buffer] = copied]]
\* A slice, of which the user writes all or nothing before it takes another.
Alloc(a, len, mark) ==
  LET grown == Grown(a, len)
      start == grown.arena.offset
      words == grown.contents[grown.arena.buffer]
      written == [k \in DOMAIN words |-> IF k > start /\ k <= start + len /\ mark THEN a ELSE words[k]]
  IN  /\ a \in Live /\ len > 0
      /\ Capacity(a, len) = arenas[a].capacity \/ CanAcquire(arenas[a].thread, Capacity(a, len))
      /\ arenas' = [arenas EXCEPT ![a] = [grown.arena EXCEPT !.offset = start + len]]
      /\ pools' = grown.pools
      /\ contents' = [grown.contents EXCEPT ![grown.arena.buffer] = written]
      /\ kept' = [kept EXCEPT ![a] = @ \o SubSeq(written, start + 1, start + len)]
      /\ UNCHANGED streamVars

\* An arena may go to another thread, and end there.
Move(a, thread) ==
  /\ a \in Live /\ arenas' = [arenas EXCEPT ![a].thread = thread]
  /\ UNCHANGED <<pools, contents, kept, streamVars>>
DropScratch(a) ==
  /\ a \in Live
  /\ pools' = Returned(pools, arenas[a].thread, arenas[a].buffer)
  /\ arenas' = [arenas EXCEPT ![a] = Nothing] /\ kept' = [kept EXCEPT ![a] = <<>>]
  /\ UNCHANGED <<contents, streamVars>>
-----------------------------------------------------------------------------
(* The generator: what a read gives, and what it leaves.                   *)
State(c, b, i) == [counter |-> c, buffer |-> b, index |-> i, bytes |-> <<>>]
Bytes(block, from, to) == [k \in 1 .. to - from |-> <<block, from + k - 1>>]
Turns(n) == [k \in 1 .. n |-> k]

Refilled(g) ==
  IF g.index = Block THEN [g EXCEPT !.counter = @ + 1, !.buffer = g.counter, !.index = 0] ELSE g
\* From the rest of the block, and from a new one each time that is used up.
FillBytes(g, len) ==
  LET Copy(at) ==
        LET end == MinOf(Block, at.index + len - Len(at.bytes))
        IN  [at EXCEPT !.bytes = @ \o Bytes(at.buffer, at.index, end), !.index = end]
      Turn(at, turn) == IF Len(at.bytes) < len THEN Copy(Refilled(at)) ELSE at
  IN  FoldLeft(Turn, g, Turns(len))
FillBytesDirect(g, len) ==
  LET blocks == len \div Block
      Whole(bytes, k) == bytes \o Bytes(g.counter + k - 1, 0, Block)
      rest == FillBytes([g EXCEPT !.counter = @ + blocks], len % Block)
  IN  [rest EXCEPT !.bytes = FoldLeft(Whole, <<>>, Turns(blocks)) \o @]
Own == State(counter, buffer, index)
Take(after) ==
  /\ after.counter <= MaxBlocks
  /\ counter' = after.counter /\ buffer' = after.buffer /\ index' = after.index
  /\ given' = given \union ToSet(after.bytes) /\ gifts' = gifts + Len(after.bytes)

Read(len, direct) ==
  /\ Take(IF direct THEN FillBytesDirect(Own, len) ELSE FillBytes(Own, len))
  /\ UNCHANGED <<samples, poolVars>>

\* Words that are not below the limit are drawn again, one by one.
WordValues == ByteValues ^ WordBytes
MaxMultiple(q) == WordValues - 1 - ((WordValues - 1) % q) - 1
Word(bytes) == FoldRight(LAMBDA at, high : Expand(at[1], at[2]) + ByteValues * high, bytes, 0)
Words(bytes) ==
  [i \in 1 .. Len(bytes) \div WordBytes |-> Word(SubSeq(bytes, WordBytes * (i - 1) + 1, WordBytes * i))]
Accepted(g, word, q) ==
  LET Again(at, turn) ==
        LET next == FillBytesDirect([at.after EXCEPT !.bytes = <<>>], WordBytes)
        IN  IF at.word < MaxMultiple(q) THEN at
            ELSE [after |-> [next EXCEPT !.bytes = at.after.bytes \o @], word |-> Word(next.bytes)]
  IN  FoldLeft(Again, [after |-> g, word |-> word], Turns(MaxRedraws))
SampleUniform(base, degree) ==
  LET first == FillBytesDirect(Own, Len(base) * degree * WordBytes)
      Modulus(i) == base[((i - 1) \div degree) + 1]
      Next1(acc, word) ==
        LET at == Accepted(acc.after, word, Modulus(Len(acc.words) + 1))
        IN  [after |-> at.after, words |-> Append(acc.words, at.word)]
      all == FoldLeft(Next1, [after |-> first, words |-> <<>>], Words(first.bytes))
  IN  /\ \A i \in DOMAIN all.words : all.words[i] < MaxMultiple(Modulus(i))
      /\ Take(all.after)
      /\ samples' = [base |-> base, words |-> all.words,
                     values |-> [i \in DOMAIN all.words |-> all.words[i] % Modulus(i)]]
      /\ UNCHANGED poolVars

\* The limit of the sampler in silent-hss.
MaxMultipleHss(q) == WordValues - 1 - ((WordValues - 1) % q)
-----------------------------------------------------------------------------
Init ==
  /\ pools = [t \in Threads |-> [size \in 1 .. MaxWords |-> <<>>]]
  /\ arenas = [a \in Arenas |-> Nothing] /\ contents = <<>> /\ kept = [a \in Arenas |-> <<>>] /\ calls = 0
  /\ counter = 0 /\ buffer = 0 /\ index = Block /\ given = {} /\ gifts = 0 /\ samples = Nothing
ScratchNext ==
  /\ calls < MaxCalls /\ calls' = calls + 1
  /\ \E a \in Arenas :
       \/ \E t \in Threads, r \in Requests : NewScratch(a, t, r)
       \/ Reset(a)
       \/ \E len \in Lengths, mark \in BOOLEAN : Alloc(a, len, mark)
       \/ \E t \in Threads : Move(a, t)
       \/ DropScratch(a)
StreamNext ==
  \/ \E len \in Reads, direct \in BOOLEAN : Read(len, direct)
  \/ \E base \in Bases, degree \in {1, 3} : SampleUniform(base, degree)
-----------------------------------------------------------------------------
\* No buffer is used twice or lost: it is in one arena, or in one pool under the
\* length it has.
HeldOnce ==
  \A b \in DOMAIN contents :
    LET Holders == {a \in Live : arenas[a].buffer = b}
        Places == {<<t, size, k>> \in Threads \X (1 .. MaxWords) \X (1 .. MaxBuffers) :
                     k <= Len(pools[t][size]) /\ pools[t][size][k] = b}
    IN  /\ Cardinality(Holders) + Cardinality(Places) = 1
        /\ \A place \in Places : place[2] = Len(contents[b])

\* What a user left in its slices stays there, written or not, while its arena
\* grows or moves and while others use what comes out of the same pools.
KeepsSlices ==
  \A a \in Live :
    /\ Len(contents[arenas[a].buffer]) = arenas[a].capacity
    /\ SubSeq(contents[arenas[a].buffer], 1, arenas[a].offset) = kept[a]

\* Every byte of the blocks that were expanded was given out once, except those
\* that wait in the buffer; a direct read past them gives others than a plain one.
GivesOnce ==
  LET all == {<<b, k>> : b \in 0 .. counter - 1, k \in 0 .. Block - 1}
      waiting == ToSet(Bytes(buffer, index, Block))
  IN  /\ gifts = Cardinality(given) /\ given = all \ waiting
      /\ \A len \in Reads :
           (FillBytes(Own, len).bytes = FillBytesDirect(Own, len).bytes) <=> (index = Block \/ len < Block)

\* Residues come from accepted words; of those, every residue has equally many,
\* in silent-rlwe the last one a single word less.
DrawsFairly ==
  /\ samples # Nothing => \A i \in DOMAIN samples.words :
       LET q == samples.base[((i - 1) * Len(samples.base)) \div Len(samples.words) + 1]
       IN  samples.words[i] < q * ((WordValues - 1) \div q) /\ samples.values[i] = samples.words[i] % q
  /\ \A base \in Bases : \A q \in ToSet(base) : \A r \in 0 .. q - 1 :
       LET Of(limit) == Cardinality({v \in 0 .. limit - 1 : v % q = r})
           times == (WordValues - 1) \div q
       IN  /\ Of(MaxMultipleHss(q)) = times
           /\ Of(MaxMultiple(q)) = (IF r = q - 1 THEN times - 1 ELSE times)
=============================================================================
