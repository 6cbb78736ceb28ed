------------------------- MODULE FrameStreamProofs --------------------------
(***************************************************************************)
(* A stream of frames implements FrameFifo for any sizes, header length,   *)
(* limit and capacity, with any cancelled calls, closed ends and resets.   *)
(*                                                                         *)
(* The inductive invariant has two halves.  What is under way is always in *)
(* order: every byte that was read and kept comes before every byte still  *)
(* to be read, and all of them after the last whole frame and before what  *)
(* the sender writes next; so no frame comes out twice, or late.  As long  *)
(* as nothing has broken the stream it has no gap either, from the byte    *)
(* that the receiver waits for to the one that the sender writes next; so  *)
(* the next frame to come out is the next one that went in.                *)
(***************************************************************************)
EXTENDS FrameStream, SequenceTheorems, TLAPS

Byte == Nat \X Nat

\* The order of the bytes that were ever written.
Before(c, d) == c[1] < d[1] \/ (c[1] = d[1] /\ c[2] < d[2])
Precedes(s, t) == \A k \in DOMAIN s : \A l \in DOMAIN t : Before(s[k], t[l])

\* A byte of a frame after the last whole one that has been written.
UnderWay(c, last, lengths, unwritten) ==
  /\ c \in Byte
  /\ c[1] > last /\ c[1] <= Len(lengths)
  /\ c[2] >= 1 /\ c[2] <= HeaderCells + lengths[c[1]]
  /\ unwritten # <<>> => Before(c, unwritten[1])

AllUnderWay(s, last, lengths, unwritten) ==
  \A k \in DOMAIN s : UnderWay(s[k], last, lengths, unwritten)

\* A stretch of one frame.
Run(s) == \E i \in Nat, a \in Nat \ {0}, b \in Nat : a <= b + 1 /\ s = Cells(i, a, b)

\* A header or what is left of it, before its payload; or a payload.
Writing(last, lengths, unwritten, later) ==
  IF unwritten = <<>> THEN later = <<>>
  ELSE LET n == Len(lengths)
       IN  /\ n > last
           /\ \E a \in Nat \ {0} :
                \/ /\ a <= HeaderCells
                   /\ unwritten = Cells(n, a, HeaderCells)
                   /\ later = Cells(n, HeaderCells + 1, HeaderCells + lengths[n])
                \/ /\ a > HeaderCells /\ a <= HeaderCells + lengths[n]
                   /\ unwritten = Cells(n, a, HeaderCells + lengths[n])
                   /\ later = <<>>

Chunks(chunks, last, lengths, unwritten) ==
  \A k \in DOMAIN chunks :
    /\ chunks[k] # <<>>
    /\ Run(chunks[k])
    /\ AllUnderWay(chunks[k], last, lengths, unwritten)

\* Bytes read and kept come before those of the chunk that is being read, and
\* these before those of the chunks that follow, each before the next.
Ordered(head, got, chunk, chunks) ==
  /\ Precedes(head, chunk) /\ Precedes(got, chunk)
  /\ \A k \in DOMAIN chunks :
       Precedes(head, chunks[k]) /\ Precedes(got, chunks[k]) /\ Precedes(chunk, chunks[k])
  /\ \A k, l \in DOMAIN chunks : k < l => Precedes(chunks[k], chunks[l])

InOrder ==
  /\ AllUnderWay(reader.head, LastWhole, sizes, pending)
  /\ AllUnderWay(reader.got, LastWhole, sizes, pending)
  /\ AllUnderWay(buffer, LastWhole, sizes, pending)
  /\ Run(buffer)
  /\ Chunks(queue, LastWhole, sizes, pending)
  /\ Ordered(reader.head, reader.got, buffer, queue)

Reads ==
  /\ reader \in [phase : {"idle", "header", "payload"}, head : Seq(Byte), got : Seq(Byte), need : Nat]
  /\ reader.phase = "idle" => reader = Idle
  /\ reader.phase = "header" => reader.head = <<>> /\ reader.need = HeaderCells

Shape ==
  /\ TypeOK
  /\ pending \in Seq(Byte) /\ payload \in Seq(Byte) /\ buffer \in Seq(Byte)
  /\ queue \in Seq(Seq(Byte))
  /\ ~wholeWrites => \A k \in DOMAIN queue : Len(queue[k]) = 1
  /\ Reads
  /\ Writing(LastWhole, sizes, pending, payload)
  /\ ~senderOpen => pending = <<>>
  /\ ~receiverOpen => queue = <<>> /\ buffer = <<>> /\ reader = Idle

\* The last whole frame is the highest one, and was begun.
Highest(last, frames) ==
  /\ last \in ToSet(frames) \cup {Mixed}
  /\ \A i \in ToSet(frames) \cup {Mixed} : i <= last
Latest == Highest(LastWhole, received) /\ LastWhole <= Len(sizes)

\* The byte at a place, which may be the first of the next frame; and the one
\* after a chunk.
At(i, q, lengths) ==
  IF i <= Len(lengths) /\ q = HeaderCells + lengths[i] + 1 THEN <<i + 1, 1>> ELSE <<i, q>>
After(s, lengths) == At(s[Len(s)][1], s[Len(s)][2] + 1, lengths)

\* What the receiver waits for, and what comes after the buffer and the queue.
Taken == IF reader.phase = "payload" THEN HeaderCells + Len(reader.got) ELSE Len(reader.got)
Awaited == At(LastWhole + 1, Taken + 1, sizes)
AfterBuffer == IF buffer = <<>> THEN Awaited ELSE After(buffer, sizes)
AfterQueue == IF queue = <<>> THEN AfterBuffer ELSE After(queue[Len(queue)], sizes)

\* The receiver has a header or a payload, or the beginning of one.
OnFrame ==
  /\ reader.phase = "header" => reader.got = Cells(LastWhole + 1, 1, Len(reader.got))
  /\ reader.phase = "payload" =>
       /\ LastWhole + 1 <= Len(sizes)
       /\ reader.head = Header(LastWhole + 1)
       /\ reader.need = sizes[LastWhole + 1]
       /\ reader.got = Cells(LastWhole + 1, HeaderCells + 1, HeaderCells + Len(reader.got))

NoGap ==
  /\ OnFrame
  /\ buffer # <<>> => buffer[1] = Awaited
  /\ queue # <<>> => queue[1][1] = AfterBuffer
  /\ \A k \in 1 .. Len(queue) - 1 : queue[k + 1][1] = After(queue[k], sizes)
  /\ senderOpen => AfterQueue = IF pending = <<>> THEN <<Len(sizes) + 1, 1>> ELSE pending[1]

StreamInv ==
  /\ Shape
  /\ Latest
  /\ InOrder
  /\ ~broken /\ receiverOpen => NoGap
-----------------------------------------------------------------------------
(* Sequences and stretches.                                                *)

LEMMA CellsAre ==
  ASSUME NEW i \in Nat, NEW a \in Nat \ {0}, NEW b \in Nat, a <= b + 1
  PROVE  /\ Cells(i, a, b) \in Seq(Byte)
         /\ Len(Cells(i, a, b)) = b + 1 - a
         /\ DOMAIN Cells(i, a, b) = 1 .. b + 1 - a
         /\ \A k \in 1 .. b + 1 - a : Cells(i, a, b)[k] = <<i, a + k - 1>>
<1>1. \A k \in 1 .. b + 1 - a : <<i, a + k - 1>> \in Byte
  BY DEF Byte
<1>2. b + 1 - a \in Nat
  OBVIOUS
<1>. QED  BY <1>1, <1>2, SMT DEF Cells

LEMMA SameCells ==
  ASSUME NEW i \in Nat, NEW a \in Nat \ {0}, NEW b \in Nat, a <= b + 1,
         NEW s \in Seq(Byte), Len(s) = b + 1 - a,
         \A k \in 1 .. b + 1 - a : s[k] = <<i, a + k - 1>>
  PROVE  s = Cells(i, a, b)
<1>1. DOMAIN s = 1 .. b + 1 - a /\ s = [k \in DOMAIN s |-> s[k]]
  OBVIOUS
<1>. QED  BY <1>1 DEF Cells

LEMMA PartOfCells ==
  ASSUME NEW i \in Nat, NEW a \in Nat \ {0}, NEW b \in Nat, a <= b + 1
  PROVE  \A m \in Nat \ {0}, n \in Nat :
           m <= n + 1 /\ n <= b + 1 - a =>
             SubSeq(Cells(i, a, b), m, n) = Cells(i, a + m - 1, a + n - 1)
<1>. TAKE m \in Nat \ {0}, n \in Nat
<1>. HAVE m <= n + 1 /\ n <= b + 1 - a
<1> DEFINE s == Cells(i, a, b)
<1>1. /\ s \in Seq(Byte) /\ Len(s) = b + 1 - a
      /\ \A k \in 1 .. b + 1 - a : s[k] = <<i, a + k - 1>>
  BY CellsAre
<1>2. \A k \in m .. n : s[k] \in Byte
  BY <1>1 DEF Byte
<1> HIDE DEF s
<1> DEFINE p == SubSeq(s, m, n)
<1>3. /\ p \in Seq(Byte) /\ Len(p) = IF m <= n THEN n - m + 1 ELSE 0
      /\ \A k \in 1 .. n - m + 1 : p[k] = s[m + k - 1]
  BY <1>2, SubSeqProperties
<1>4. Len(p) = (a + n - 1) + 1 - (a + m - 1)
  BY <1>3
<1>5. \A k \in 1 .. (a + n - 1) + 1 - (a + m - 1) : p[k] = <<i, (a + m - 1) + k - 1>>
  BY <1>1, <1>3
<1> HIDE DEF p
<1>6. a + m - 1 \in Nat \ {0} /\ a + n - 1 \in Nat /\ a + m - 1 <= (a + n - 1) + 1
  OBVIOUS
<1>7. p = Cells(i, a + m - 1, a + n - 1)
  BY <1>3, <1>4, <1>5, <1>6, SameCells
<1>. QED  BY <1>7 DEF p, s

LEMMA OneCell ==
  ASSUME NEW i \in Nat, NEW a \in Nat \ {0}, NEW b \in Nat, a <= b
  PROVE  /\ SubSeq(Cells(i, a, b), 1, 1) = Cells(i, a, a)
         /\ SubSeq(Cells(i, a, b), 2, b + 1 - a) = Cells(i, a + 1, b)
<1>1. a <= b + 1
  OBVIOUS
<1>2. \A m \in Nat \ {0}, n \in Nat :
        m <= n + 1 /\ n <= b + 1 - a =>
          SubSeq(Cells(i, a, b), m, n) = Cells(i, a + m - 1, a + n - 1)
  BY <1>1, PartOfCells
<1>3. SubSeq(Cells(i, a, b), 1, 1) = Cells(i, a + 1 - 1, a + 1 - 1)
  <2>1. 1 \in Nat \ {0} /\ 1 \in Nat /\ 1 <= 1 + 1 /\ 1 <= b + 1 - a
    OBVIOUS
  <2>. QED  BY <1>2, <2>1, Zenon
<1>4. SubSeq(Cells(i, a, b), 2, b + 1 - a) = Cells(i, a + 2 - 1, a + (b + 1 - a) - 1)
  <2>1. 2 \in Nat \ {0} /\ b + 1 - a \in Nat /\ 2 <= (b + 1 - a) + 1 /\ b + 1 - a <= b + 1 - a
    OBVIOUS
  <2>. QED  BY <1>2, <2>1, Zenon
<1>5. a + 1 - 1 = a /\ a + 2 - 1 = a + 1 /\ a + (b + 1 - a) - 1 = b
  OBVIOUS
<1>. QED  BY <1>3, <1>4, <1>5

LEMMA JoinedCells ==
  ASSUME NEW i \in Nat, NEW a \in Nat \ {0}, NEW b \in Nat, NEW c \in Nat, a <= b + 1, b <= c
  PROVE  Cells(i, a, b) \o Cells(i, b + 1, c) = Cells(i, a, c)
<1> DEFINE s == Cells(i, a, b)
           t == Cells(i, b + 1, c)
<1>1. /\ s \in Seq(Byte) /\ Len(s) = b + 1 - a
      /\ \A k \in 1 .. b + 1 - a : s[k] = <<i, a + k - 1>>
  BY CellsAre
<1>2. /\ t \in Seq(Byte) /\ Len(t) = c - b
      /\ \A k \in 1 .. c - b : t[k] = <<i, b + k>>
  <2>1. b + 1 \in Nat \ {0} /\ b + 1 <= c + 1 /\ c + 1 - (b + 1) = c - b
    OBVIOUS
  <2>2. /\ t \in Seq(Byte) /\ Len(t) = c + 1 - (b + 1)
        /\ \A k \in 1 .. c + 1 - (b + 1) : t[k] = <<i, (b + 1) + k - 1>>
    BY <2>1, CellsAre
  <2> HIDE DEF t
  <2>. QED  BY <2>1, <2>2
<1> HIDE DEF s, t
<1>3. /\ s \o t \in Seq(Byte) /\ Len(s \o t) = c + 1 - a
      /\ \A k \in 1 .. c + 1 - a : (s \o t)[k] = IF k <= b + 1 - a THEN s[k] ELSE t[k - (b + 1 - a)]
  <2>1. Len(s) + Len(t) = c + 1 - a
    BY <1>1, <1>2
  <2>2. /\ s \o t \in Seq(Byte) /\ Len(s \o t) = Len(s) + Len(t)
        /\ \A k \in 1 .. Len(s) + Len(t) : (s \o t)[k] = IF k <= Len(s) THEN s[k] ELSE t[k - Len(s)]
    BY <1>1, <1>2, ConcatProperties
  <2>. QED  BY <1>1, <2>1, <2>2
<1>4. ASSUME NEW k \in 1 .. c + 1 - a PROVE (s \o t)[k] = <<i, a + k - 1>>
  <2>1. CASE k <= b + 1 - a
    BY <1>1, <1>3, <2>1
  <2>2. CASE ~(k <= b + 1 - a)
    <3>1. k - (b + 1 - a) \in 1 .. c - b /\ b + (k - (b + 1 - a)) = a + k - 1
      BY <2>2
    <3>2. t[k - (b + 1 - a)] = <<i, b + (k - (b + 1 - a))>>
      BY <1>2, <3>1
    <3>. QED  BY <1>3, <2>2, <3>1, <3>2
  <2>. QED  BY <2>1, <2>2
<1> DEFINE u == s \o t
<1>5. u \in Seq(Byte) /\ Len(u) = c + 1 - a /\ \A k \in 1 .. c + 1 - a : u[k] = <<i, a + k - 1>>
  BY <1>3, <1>4
<1> HIDE DEF u
<1>6. u = Cells(i, a, c)
  <2>1. a <= c + 1
    OBVIOUS
  <2>. QED  BY <1>5, <2>1, SameCells
<1>. QED  BY <1>6 DEF u, s, t

LEMMA NoCells ==
  ASSUME NEW i \in Nat, NEW a \in Nat \ {0}, NEW b \in Nat, a <= b + 1
  PROVE  /\ Cells(i, a, b) = <<>> <=> a = b + 1
         /\ a <= b => Cells(i, a, b)[1] = <<i, a>> /\ Cells(i, a, b)[Len(Cells(i, a, b))] = <<i, b>>
<1> DEFINE s == Cells(i, a, b)
<1>1. /\ s \in Seq(Byte) /\ Len(s) = b + 1 - a
      /\ \A k \in 1 .. b + 1 - a : s[k] = <<i, a + k - 1>>
  BY CellsAre
<1>2. a <= b => s[1] = <<i, a>> /\ s[Len(s)] = <<i, b>>
  <2>1. ASSUME a <= b PROVE 1 \in 1 .. b + 1 - a /\ b + 1 - a \in 1 .. b + 1 - a
    BY <2>1
  <2>2. ASSUME a <= b PROVE a + 1 - 1 = a /\ a + (b + 1 - a) - 1 = b
    OBVIOUS
  <2>. QED  BY <1>1, <2>1, <2>2
<1> HIDE DEF s
<1>3. s = <<>> <=> a = b + 1
  BY <1>1
<1>. QED  BY <1>2, <1>3 DEF s

\* A stretch goes forward.
LEMMA RunsForward ==
  ASSUME NEW s, Run(s), NEW k \in DOMAIN s, NEW l \in DOMAIN s, k < l
  PROVE  Before(s[k], s[l])
<1>1. PICK i \in Nat, a \in Nat \ {0}, b \in Nat : a <= b + 1 /\ s = Cells(i, a, b)
  BY DEF Run
<1>2. a <= b + 1
  BY <1>1
<1>3. /\ DOMAIN Cells(i, a, b) = 1 .. b + 1 - a
      /\ \A j \in 1 .. b + 1 - a : Cells(i, a, b)[j] = <<i, a + j - 1>>
  BY <1>2, CellsAre
<1>4. DOMAIN s = 1 .. b + 1 - a /\ \A j \in 1 .. b + 1 - a : s[j] = <<i, a + j - 1>>
  BY <1>1, <1>3
<1>. QED  BY <1>4 DEF Before

LEMMA BeforeGoesOn ==
  ASSUME NEW c \in Byte, NEW d \in Byte, NEW e \in Byte, Before(c, d), Before(d, e)
  PROVE  Before(c, e)
BY DEF Before, Byte

LEMMA PartOfRun ==
  ASSUME NEW s, Run(s), NEW m \in Nat \ {0}, NEW n \in Nat, m <= n + 1, n <= Len(s)
  PROVE  Run(SubSeq(s, m, n))
<1>1. PICK i \in Nat, a \in Nat \ {0}, b \in Nat : a <= b + 1 /\ s = Cells(i, a, b)
  BY DEF Run
<1>2. a <= b + 1
  BY <1>1
<1>5. Len(s) = b + 1 - a
  <2>1. Len(Cells(i, a, b)) = b + 1 - a
    BY <1>2, CellsAre
  <2>. QED  BY <1>1, <2>1
<1>6. n <= b + 1 - a
  BY <1>5
<1>7. SubSeq(Cells(i, a, b), m, n) = Cells(i, a + m - 1, a + n - 1)
  <2>1. \A m1 \in Nat \ {0}, n1 \in Nat :
          m1 <= n1 + 1 /\ n1 <= b + 1 - a
            => SubSeq(Cells(i, a, b), m1, n1) = Cells(i, a + m1 - 1, a + n1 - 1)
    BY <1>2, PartOfCells
  <2>. QED  BY <1>6, <2>1, Zenon
<1>3. SubSeq(s, m, n) = Cells(i, a + m - 1, a + n - 1)
  BY <1>1, <1>7
<1>4. a + m - 1 \in Nat \ {0} /\ a + n - 1 \in Nat /\ a + m - 1 <= (a + n - 1) + 1
  OBVIOUS
<1>. QED  BY <1>3, <1>4 DEF Run

\* A chunk is read up to some place: what was read stays before what is left.
LEMMA ReadInOrder ==
  ASSUME NEW h \in Seq(Byte), NEW g \in Seq(Byte), NEW b \in Seq(Byte), NEW q \in Seq(Seq(Byte)),
         Ordered(h, g, b, q),
         NEW s \in Seq(Byte), Run(s), NEW t \in 1 .. Len(s), NEW r,
         (s = b /\ r = q) \/ (b = <<>> /\ q # <<>> /\ s = Head(q) /\ r = Tail(q))
  PROVE  Ordered(h, g \o SubSeq(s, 1, t), SubSeq(s, t + 1, Len(s)), r)
<1> DEFINE p == SubSeq(s, 1, t)
           l == SubSeq(s, t + 1, Len(s))
           f == g \o p
<1>1. /\ p \in Seq(Byte) /\ Len(p) = t /\ DOMAIN p = 1 .. t /\ \A k \in 1 .. t : p[k] = s[k]
      /\ l \in Seq(Byte) /\ Len(l) = Len(s) - t /\ DOMAIN l = 1 .. Len(s) - t
      /\ \A k \in 1 .. Len(s) - t : l[k] = s[t + k]
      /\ DOMAIN g = 1 .. Len(g) /\ Len(g) \in Nat /\ DOMAIN s = 1 .. Len(s) /\ Len(s) \in Nat
  OBVIOUS
<1> HIDE DEF p, l
<1>2. /\ f \in Seq(Byte) /\ Len(f) = Len(g) + t
      /\ \A k \in 1 .. Len(f) : f[k] = IF k <= Len(g) THEN g[k] ELSE p[k - Len(g)]
  <2>1. /\ f \in Seq(Byte) /\ Len(f) = Len(g) + Len(p)
        /\ \A k \in 1 .. Len(g) + Len(p) : f[k] = IF k <= Len(g) THEN g[k] ELSE p[k - Len(g)]
    BY <1>1, ConcatProperties
  <2> HIDE DEF f
  <2>. QED  BY <1>1, <2>1
<1> HIDE DEF f
<1>3. /\ Precedes(h, s) /\ Precedes(g, s)
      /\ \A k \in DOMAIN r : Precedes(h, r[k]) /\ Precedes(g, r[k]) /\ Precedes(s, r[k])
      /\ \A k, n \in DOMAIN r : k < n => Precedes(r[k], r[n])
  <2>1. CASE s = b /\ r = q
    BY <2>1 DEF Ordered
  <2>2. CASE b = <<>> /\ q # <<>> /\ s = Head(q) /\ r = Tail(q)
    <3>1. /\ 1 \in DOMAIN q /\ s = q[1] /\ DOMAIN r = 1 .. Len(q) - 1
          /\ \A k \in DOMAIN r : r[k] = q[k + 1] /\ k + 1 \in DOMAIN q /\ 1 < k + 1
      BY <2>2, HeadTailProperties
    <3>2. \A k, n \in DOMAIN r : k < n => k + 1 < n + 1
      BY <3>1
    <3>. QED  BY <3>1, <3>2 DEF Ordered
  <2>. QED  BY <2>1, <2>2
<1>10. DOMAIN f = 1 .. Len(g) + t /\ DOMAIN g = 1 .. Len(g)
  BY <1>2
<1>4. ASSUME NEW k \in DOMAIN f
      PROVE  (k \in DOMAIN g /\ f[k] = g[k]) \/ \E n \in 1 .. t : f[k] = s[n]
  <2>1. CASE k <= Len(g)
    BY <1>2, <1>10, <2>1
  <2>2. CASE ~(k <= Len(g))
    <3>1. k - Len(g) \in 1 .. t
      BY <1>1, <1>2, <1>10, <2>2
    <3>2. f[k] = s[k - Len(g)]
      BY <1>1, <1>2, <1>10, <2>2, <3>1
    <3>. QED  BY <3>1, <3>2
  <2>. QED  BY <2>1, <2>2
<1>5. \A n \in DOMAIN l : l[n] = s[t + n] /\ t + n \in DOMAIN s /\ t < t + n
  BY <1>1
<1>6. \A n \in 1 .. t : n \in DOMAIN s
  OBVIOUS
<1>7. Precedes(h, l)
  BY <1>3, <1>5 DEF Precedes
<1>8. Precedes(f, l)
  <2>1. SUFFICES ASSUME NEW k \in DOMAIN f, NEW n \in DOMAIN l PROVE Before(f[k], l[n])
    BY DEF Precedes
  <2>2. CASE k \in DOMAIN g /\ f[k] = g[k]
    BY <1>3, <1>5, <2>2 DEF Precedes
  <2>3. ASSUME NEW j \in 1 .. t, f[k] = s[j] PROVE Before(f[k], l[n])
    <3>1. j < t + n /\ j \in DOMAIN s /\ t + n \in DOMAIN s
      BY <1>1, <1>5, <1>6
    <3>. QED  BY <1>5, <2>3, <3>1, RunsForward
  <2>. QED  BY <1>4, <2>2, <2>3
<1>9. ASSUME NEW k \in DOMAIN r
      PROVE  Precedes(h, r[k]) /\ Precedes(f, r[k]) /\ Precedes(l, r[k])
  BY <1>3, <1>4, <1>5, <1>6 DEF Precedes
<1>11. Ordered(h, f, l, r)
  BY <1>3, <1>7, <1>8, <1>9 DEF Ordered
<1>. QED  BY <1>11 DEF f, p, l

LEMMA ReadUnderWay ==
  ASSUME NEW g \in Seq(Byte), NEW s \in Seq(Byte), NEW t \in 1 .. Len(s),
         NEW last, NEW lengths, NEW unwritten,
         AllUnderWay(g, last, lengths, unwritten), AllUnderWay(s, last, lengths, unwritten)
  PROVE  /\ AllUnderWay(g \o SubSeq(s, 1, t), last, lengths, unwritten)
         /\ AllUnderWay(SubSeq(s, t + 1, Len(s)), last, lengths, unwritten)
<1> DEFINE p == SubSeq(s, 1, t)
           l == SubSeq(s, t + 1, Len(s))
           f == g \o p
<1>1. /\ p \in Seq(Byte) /\ Len(p) = t /\ DOMAIN p = 1 .. t /\ \A k \in 1 .. t : p[k] = s[k]
      /\ l \in Seq(Byte) /\ Len(l) = Len(s) - t /\ DOMAIN l = 1 .. Len(s) - t
      /\ \A k \in 1 .. Len(s) - t : l[k] = s[t + k]
      /\ DOMAIN g = 1 .. Len(g) /\ Len(g) \in Nat /\ DOMAIN s = 1 .. Len(s) /\ Len(s) \in Nat
  OBVIOUS
<1> HIDE DEF p, l
<1>2. /\ f \in Seq(Byte) /\ Len(f) = Len(g) + t
      /\ \A k \in 1 .. Len(f) : f[k] = IF k <= Len(g) THEN g[k] ELSE p[k - Len(g)]
  <2>1. /\ f \in Seq(Byte) /\ Len(f) = Len(g) + Len(p)
        /\ \A k \in 1 .. Len(g) + Len(p) : f[k] = IF k <= Len(g) THEN g[k] ELSE p[k - Len(g)]
    BY <1>1, ConcatProperties
  <2> HIDE DEF f
  <2>. QED  BY <1>1, <2>1
<1> HIDE DEF f
<1>3. DOMAIN f = 1 .. Len(g) + t /\ DOMAIN g = 1 .. Len(g)
  BY <1>2
<1>4. ASSUME NEW k \in DOMAIN f
      PROVE  (k \in DOMAIN g /\ f[k] = g[k]) \/ \E n \in DOMAIN s : f[k] = s[n]
  <2>1. CASE k <= Len(g)
    BY <1>2, <1>3, <2>1
  <2>2. CASE ~(k <= Len(g))
    <3>1. k - Len(g) \in 1 .. t /\ k - Len(g) \in DOMAIN s
      BY <1>1, <1>2, <1>3, <2>2
    <3>2. f[k] = s[k - Len(g)]
      BY <1>1, <1>2, <1>3, <2>2, <3>1
    <3>. QED  BY <3>1, <3>2
  <2>. QED  BY <2>1, <2>2
<1>5. \A n \in DOMAIN l : l[n] = s[t + n] /\ t + n \in DOMAIN s
  BY <1>1
<1>6. AllUnderWay(f, last, lengths, unwritten) /\ AllUnderWay(l, last, lengths, unwritten)
  BY <1>4, <1>5 DEF AllUnderWay
<1>. QED  BY <1>6 DEF f, p, l
-----------------------------------------------------------------------------
(* Reading.                                                                *)

LEMMA HeaderIsSomething == HeaderCells \in Nat /\ HeaderCells >= 1
BY StreamConstants

LEMMA ReadsPart ==
  ASSUME StreamInv, ReadSome
  PROVE  \E s \in Seq(Byte) : \E t \in 1 .. Len(s) :
           /\ Run(s) /\ AllUnderWay(s, LastWhole, sizes, pending)
           /\ t <= reader.need - Len(reader.got)
           /\ t < Len(s) => t = reader.need - Len(reader.got)
           /\ reader' = [reader EXCEPT !.got = reader.got \o SubSeq(s, 1, t)]
           /\ buffer' = SubSeq(s, t + 1, Len(s))
           /\ \/ s = buffer /\ queue' = queue
              \/ buffer = <<>> /\ queue # <<>> /\ s = Head(queue) /\ queue' = Tail(queue)
<1> DEFINE s == Available
           t == IF Len(s) < Missing THEN Len(s) ELSE Missing
<1>1. /\ buffer \in Seq(Byte) /\ queue \in Seq(Seq(Byte))
      /\ reader \in [phase : {"idle", "header", "payload"}, head : Seq(Byte), got : Seq(Byte), need : Nat]
      /\ buffer # <<>> \/ queue # <<>>
      /\ reader.need - Len(reader.got) > 0 /\ Missing = reader.need - Len(reader.got)
  BY DEF StreamInv, Shape, Reads, ReadSome, Missing
<1>2. /\ s \in Seq(Byte) /\ s # <<>>
      /\ Run(s) /\ AllUnderWay(s, LastWhole, sizes, pending)
      /\ \/ buffer # <<>> /\ s = buffer
         \/ buffer = <<>> /\ queue # <<>> /\ s = Head(queue)
  <2>1. CASE buffer # <<>>
    BY <1>1, <2>1 DEF Available, StreamInv, InOrder
  <2>2. CASE buffer = <<>>
    <3>1. queue # <<>> /\ s = Head(queue) /\ Head(queue) = queue[1] /\ 1 \in DOMAIN queue
      BY <1>1, <2>2 DEF Available
    <3>2. queue[1] \in Seq(Byte)
      BY <1>1, <3>1
    <3> HIDE DEF s
    <3>. QED  BY <2>2, <3>1, <3>2 DEF StreamInv, InOrder, Chunks
  <2>. QED  BY <2>1, <2>2
<1>3. Missing \in Nat /\ Missing > 0
  BY <1>1
<1>4. t \in 1 .. Len(s) /\ t <= Missing /\ (t < Len(s) => t = Missing)
  <2> HIDE DEF s
  <2>. QED  BY <1>2, <1>3
<1>5. reader' = [reader EXCEPT !.got = reader.got \o SubSeq(s, 1, t)]
  BY DEF ReadSome
<1>6. buffer' = SubSeq(s, t + 1, Len(s))
  <2>1. buffer' = SubSeq(s, Missing + 1, Len(s))
    BY DEF ReadSome, Leftover
  <2> HIDE DEF s
  <2>2. CASE Len(s) < Missing
    <3>1. SubSeq(s, Missing + 1, Len(s)) = <<>>
      BY <1>2, <1>3, <2>2, SubSeqEmpty
    <3>2. SubSeq(s, t + 1, Len(s)) = <<>>
      BY <1>2, <1>3, <2>2, SubSeqEmpty
    <3>. QED  BY <2>1, <3>1, <3>2
  <2>3. CASE ~(Len(s) < Missing)
    BY <2>1, <2>3
  <2>. QED  BY <2>2, <2>3
<1>7. queue' = IF buffer # <<>> THEN queue ELSE Tail(queue)
  BY DEF ReadSome
<1> HIDE DEF s, t
<1>8. /\ t <= reader.need - Len(reader.got)
      /\ t < Len(s) => t = reader.need - Len(reader.got)
      /\ \/ s = buffer /\ queue' = queue
         \/ buffer = <<>> /\ queue # <<>> /\ s = Head(queue) /\ queue' = Tail(queue)
  BY <1>1, <1>2, <1>4, <1>7
<1>. QED  BY <1>2, <1>4, <1>5, <1>6, <1>8

\* What the receiver waits for is the next byte of its frame until it has all
\* of the header or the payload.
LEMMA Types ==
  ASSUME Shape, Latest
  PROVE  /\ LastWhole \in Nat /\ sizes \in Seq(Nat)
         /\ Len(reader.got) \in Nat /\ reader.need \in Nat
         /\ reader.phase \in {"idle", "header", "payload"}
<1>1. ToSet(received) \subseteq Nat
  <2>1. received \in Seq(0 .. MaxFrames)
    BY DEF Shape, TypeOK
  <2>. QED  BY <2>1, StreamConstants DEF ToSet
<1>2. LastWhole \in Nat
  BY <1>1 DEF Latest, Highest, Mixed
<1>3. sizes \in Seq(Nat)
  <2>1. sizes \in Seq(Sizes) /\ Sizes \subseteq Nat
    BY StreamConstants DEF Shape, TypeOK
  <2>2. Len(sizes) \in Nat /\ sizes = [k \in 1 .. Len(sizes) |-> sizes[k]]
    BY <2>1
  <2>3. \A k \in 1 .. Len(sizes) : sizes[k] \in Sizes
    BY <2>1, ElementOfSeq
  <2>4. \A k \in 1 .. Len(sizes) : sizes[k] \in Nat
    BY <2>1, <2>3
  <2>. QED  BY <2>2, <2>4
<1>. QED  BY <1>2, <1>3 DEF Shape, Reads

LEMMA AwaitsInside ==
  ASSUME StreamInv, NoGap, reader.phase # "idle", reader.need - Len(reader.got) > 0
  PROVE  Awaited = <<LastWhole + 1, Taken + 1>> /\ Taken \in Nat /\ LastWhole \in Nat
<1>1. /\ LastWhole \in Nat /\ Len(reader.got) \in Nat /\ sizes \in Seq(Nat)
      /\ reader.phase \in {"idle", "header", "payload"} /\ reader.need \in Nat
  BY Types DEF StreamInv
<1>2. HeaderCells \in Nat /\ HeaderCells >= 1
  BY HeaderIsSomething
<1>3. CASE reader.phase = "header"
  <2>1. reader.need = HeaderCells /\ Taken = Len(reader.got)
    BY <1>3 DEF StreamInv, Shape, Reads, Taken
  <2>2. Taken \in Nat /\ Taken < HeaderCells
    BY <1>1, <1>2, <2>1
  <2>3. LastWhole + 1 <= Len(sizes) => sizes[LastWhole + 1] \in Nat
    BY <1>1
  <2>. QED  BY <1>1, <1>2, <2>2, <2>3 DEF Awaited, At
<1>4. CASE reader.phase = "payload"
  <2>1. reader.need = sizes[LastWhole + 1] /\ Taken = HeaderCells + Len(reader.got)
    BY <1>4 DEF NoGap, OnFrame, Taken
  <2>2. Taken \in Nat /\ Taken < HeaderCells + sizes[LastWhole + 1]
    BY <1>1, <1>2, <2>1
  <2>. QED  BY <1>1, <1>2, <2>2 DEF Awaited, At
<1>. QED  BY <1>1, <1>3, <1>4

\* A chunk that begins with what is awaited is a stretch of the frame that is
\* read; reading from it goes on in that frame.
LEMMA ReadsOn ==
  ASSUME NEW i \in Nat \ {0}, NEW j \in Nat, NEW lengths \in Seq(Nat), NEW last, NEW unwritten,
         NEW s \in Seq(Byte), Run(s), AllUnderWay(s, last, lengths, unwritten),
         NEW t \in 1 .. Len(s), s[1] = <<i, j + 1>>
  PROVE  /\ SubSeq(s, 1, t) = Cells(i, j + 1, j + t)
         /\ t < Len(s) => /\ SubSeq(s, t + 1, Len(s)) # <<>>
                          /\ SubSeq(s, t + 1, Len(s))[1] = At(i, j + t + 1, lengths)
                          /\ After(SubSeq(s, t + 1, Len(s)), lengths) = After(s, lengths)
         /\ t = Len(s) => /\ SubSeq(s, t + 1, Len(s)) = <<>>
                          /\ After(s, lengths) = At(i, j + t + 1, lengths)
<1>1. PICK i1 \in Nat, a \in Nat \ {0}, b \in Nat : a <= b + 1 /\ s = Cells(i1, a, b)
  BY DEF Run
<1>2. /\ Len(s) = b + 1 - a
      /\ \A k \in 1 .. b + 1 - a : s[k] = <<i1, a + k - 1>>
  <2>1. /\ Len(Cells(i1, a, b)) = b + 1 - a
        /\ \A k \in 1 .. b + 1 - a : Cells(i1, a, b)[k] = <<i1, a + k - 1>>
    BY <1>1, CellsAre
  <2>. QED  BY <1>1, <2>1
<1>3. a <= b /\ i1 = i /\ a = j + 1
  <2>1. a <= b
    BY <1>2
  <2>2. s[1] = <<i1, a + 1 - 1>>
    BY <1>2, <2>1
  <2>. QED  BY <2>1, <2>2
<1>4. Len(s) = b - j /\ \A k \in 1 .. b - j : s[k] = <<i, j + k>>
  BY <1>2, <1>3
<1>5. SubSeq(s, 1, t) = Cells(i, j + 1, j + t)
  <2>1. a <= b + 1 /\ 1 \in Nat \ {0} /\ t \in Nat /\ 1 <= t + 1 /\ t <= b + 1 - a
    BY <1>1, <1>2
  <2>4. \A m \in Nat \ {0}, n \in Nat :
           m <= n + 1 /\ n <= b + 1 - a => SubSeq(Cells(i1, a, b), m, n) = Cells(i1, a + m - 1, a + n - 1)
    BY <2>1, PartOfCells
  <2>2. SubSeq(s, 1, t) = Cells(i1, a + 1 - 1, a + t - 1)
    BY <1>1, <2>1, <2>4, Zenon
  <2>3. a + 1 - 1 = j + 1 /\ a + t - 1 = j + t
    BY <1>3
  <2>. QED  BY <1>3, <2>2, <2>3
<1>6. After(s, lengths) = At(i, b + 1, lengths)
  <2>1. s[Len(s)] = <<i, b>>
    BY <1>2, <1>3, <1>4
  <2>. QED  BY <2>1 DEF After
<1>7. ASSUME t < Len(s)
      PROVE  /\ SubSeq(s, t + 1, Len(s)) # <<>>
             /\ SubSeq(s, t + 1, Len(s))[1] = At(i, j + t + 1, lengths)
             /\ After(SubSeq(s, t + 1, Len(s)), lengths) = After(s, lengths)
  <2> DEFINE l == SubSeq(s, t + 1, Len(s))
  <2>1. l \in Seq(Byte) /\ Len(l) = Len(s) - t /\ \A k \in 1 .. Len(s) - t : l[k] = s[t + k]
    OBVIOUS
  <2> HIDE DEF l
  <2>2. l # <<>> /\ l[1] = s[t + 1] /\ l[Len(l)] = s[Len(s)]
    <3>1. 1 \in 1 .. Len(s) - t /\ Len(s) - t \in 1 .. Len(s) - t /\ t + (Len(s) - t) = Len(s)
      BY <1>7
    <3>2. l[1] = s[t + 1] /\ l[Len(s) - t] = s[t + (Len(s) - t)]
      BY <2>1, <3>1
    <3>. QED  BY <1>7, <2>1, <3>1, <3>2
  <2>3. s[t + 1] = <<i, j + t + 1>>
    BY <1>4, <1>7
  <2>4. UnderWay(<<i, j + t + 1>>, last, lengths, unwritten)
    <3>1. t + 1 \in DOMAIN s
      BY <1>7
    <3>. QED  BY <2>3, <3>1 DEF AllUnderWay
  <2>6. At(i, j + t + 1, lengths) = <<i, j + t + 1>>
    <3>1. j + t + 1 <= HeaderCells + lengths[i] /\ i <= Len(lengths)
      BY <2>4 DEF UnderWay
    <3>2. lengths[i] \in Nat
      BY <3>1
    <3>. QED  BY <3>1, <3>2, HeaderIsSomething DEF At
  <2>7. After(l, lengths) = After(s, lengths)
    BY <2>2 DEF After
  <2>. QED  BY <2>2, <2>3, <2>6, <2>7 DEF l
<1>8. ASSUME t = Len(s)
      PROVE  SubSeq(s, t + 1, Len(s)) = <<>> /\ After(s, lengths) = At(i, j + t + 1, lengths)
  <2>1. b + 1 = j + t + 1
    BY <1>4, <1>8
  <2>. QED  BY <1>6, <1>8, <2>1, SubSeqEmpty
<1>. QED  BY <1>5, <1>7, <1>8

LEMMA SameLatest ==
  ASSUME received' = received
  PROVE  LastWhole' = LastWhole
BY DEF LastWhole

\* read_exact takes part of a chunk.
LEMMA ReadSomeKeeps == StreamInv /\ ReadSome => StreamInv'
<1> SUFFICES ASSUME StreamInv, ReadSome PROVE StreamInv'
  OBVIOUS
<1>16. PICK s \in Seq(Byte) : \E t \in 1 .. Len(s) :
           /\ Run(s) /\ AllUnderWay(s, LastWhole, sizes, pending)
           /\ t <= reader.need - Len(reader.got)
           /\ t < Len(s) => t = reader.need - Len(reader.got)
           /\ reader' = [reader EXCEPT !.got = reader.got \o SubSeq(s, 1, t)]
           /\ buffer' = SubSeq(s, t + 1, Len(s))
           /\ \/ s = buffer /\ queue' = queue
              \/ buffer = <<>> /\ queue # <<>> /\ s = Head(queue) /\ queue' = Tail(queue)
  BY ReadsPart
<1>1. PICK t \in 1 .. Len(s) :
           /\ Run(s) /\ AllUnderWay(s, LastWhole, sizes, pending)
           /\ t <= reader.need - Len(reader.got)
           /\ t < Len(s) => t = reader.need - Len(reader.got)
           /\ reader' = [reader EXCEPT !.got = reader.got \o SubSeq(s, 1, t)]
           /\ buffer' = SubSeq(s, t + 1, Len(s))
           /\ \/ s = buffer /\ queue' = queue
              \/ buffer = <<>> /\ queue # <<>> /\ s = Head(queue) /\ queue' = Tail(queue)
  BY <1>16
<1>2. /\ wholeWrites' = wholeWrites /\ sizes' = sizes /\ pending' = pending /\ payload' = payload
      /\ senderOpen' = senderOpen /\ receiverOpen' = receiverOpen /\ received' = received
      /\ broken' = broken /\ reader.phase # "idle" /\ reader.need - Len(reader.got) > 0
  BY DEF ReadSome, sender, Missing
<1>3. LastWhole' = LastWhole
  BY <1>2, SameLatest
<1>4. /\ Shape /\ Latest /\ InOrder /\ TypeOK
      /\ reader \in [phase : {"idle", "header", "payload"}, head : Seq(Byte), got : Seq(Byte), need : Nat]
      /\ buffer \in Seq(Byte) /\ queue \in Seq(Seq(Byte))
  BY DEF StreamInv, Shape, Reads
<1>5. receiverOpen
  BY <1>2, <1>4 DEF Shape, Idle
<1> DEFINE p == SubSeq(s, 1, t)
           l == SubSeq(s, t + 1, Len(s))
<1>6. /\ p \in Seq(Byte) /\ Len(p) = t
      /\ l \in Seq(Byte) /\ Len(l) = Len(s) - t
      /\ \A k \in 1 .. Len(l) : l[k] = s[t + k]
  OBVIOUS
<1>7. /\ reader.got \o p \in Seq(Byte) /\ Len(reader.got \o p) = Len(reader.got) + t
      /\ reader'.got = reader.got \o p /\ reader'.head = reader.head /\ reader'.phase = reader.phase
      /\ reader'.need = reader.need
      /\ reader' \in [phase : {"idle", "header", "payload"}, head : Seq(Byte), got : Seq(Byte), need : Nat]
  <2>1. reader.got \in Seq(Byte)
    BY <1>4
  <2>2. reader.got \o p \in Seq(Byte) /\ Len(reader.got \o p) = Len(reader.got) + Len(p)
    BY <1>6, <2>1, ConcatProperties
  <2> HIDE DEF p
  <2>. QED  BY <1>1, <1>4, <1>6, <2>2 DEF p
<1>8. buffer' = l
  BY <1>1
<1> HIDE DEF p, l
<1>9. /\ queue' \in Seq(Seq(Byte)) /\ Len(queue') <= Len(queue)
      /\ \A k \in DOMAIN queue' : \E n \in DOMAIN queue : queue'[k] = queue[n]
  <2>1. CASE queue' = queue
    BY <1>4, <2>1
  <2>2. CASE queue # <<>> /\ queue' = Tail(queue)
    <3>1. /\ Tail(queue) \in Seq(Seq(Byte)) /\ Len(Tail(queue)) = Len(queue) - 1
          /\ \A k \in 1 .. Len(Tail(queue)) : Tail(queue)[k] = queue[k + 1]
      BY <1>4, <2>2, HeadTailProperties
    <3>2. \A k \in DOMAIN queue' : queue'[k] = queue[k + 1] /\ k + 1 \in DOMAIN queue
      BY <1>4, <2>2, <3>1
    <3>. QED  BY <1>4, <2>2, <3>1, <3>2
  <2>. QED  BY <1>1, <2>1, <2>2
<1>10. ~wholeWrites => buffer' = <<>> /\ \A k \in DOMAIN queue' : Len(queue'[k]) = 1
  <2>1. SUFFICES ASSUME ~wholeWrites
                 PROVE  buffer' = <<>> /\ \A k \in DOMAIN queue' : Len(queue'[k]) = 1
    OBVIOUS
  <2>2. buffer = <<>> /\ \A k \in DOMAIN queue : Len(queue[k]) = 1
    BY <1>4, <2>1 DEF Shape, TypeOK
  <2>3. s # <<>>
    OBVIOUS
  <2>4. queue # <<>> /\ s = queue[1] /\ 1 \in DOMAIN queue
    BY <1>1, <1>4, <2>2, <2>3
  <2>5. Len(l) = 0
    BY <1>6, <2>2, <2>4
  <2>. QED  BY <1>6, <1>8, <1>9, <2>2, <2>5
<1>11. TypeOK'
  <2>1. Len(queue') <= Capacity
    <3>1. Len(queue) <= Capacity /\ Len(queue) \in Nat /\ Len(queue') \in Nat /\ Capacity \in Nat
      BY <1>4, <1>9, StreamConstants DEF TypeOK
    <3>. QED  BY <1>9, <3>1
  <2>2. reader'.need \in Nat /\ Len(reader'.got) <= reader'.need
    <3>1. PICK g \in Nat, m \in Nat : g = Len(reader.got) /\ m = reader.need
      BY <1>4
    <3>2. t <= m - g /\ t \in Nat
      BY <1>1, <3>1
    <3>3. g + t <= m
      BY <3>2
    <3>. QED  BY <1>7, <3>1, <3>3
  <2>. QED  BY <1>2, <1>4, <1>7, <1>10, <2>1, <2>2 DEF TypeOK
<1>12. Shape'
  <2>1. Reads'
    BY <1>2, <1>4, <1>7 DEF Shape, Reads
  <2>2. Writing(LastWhole, sizes, pending, payload)'
    BY <1>2, <1>3, <1>4 DEF Shape
  <2>. QED  BY <1>2, <1>4, <1>5, <1>6, <1>8, <1>9, <1>10, <1>11, <2>1, <2>2 DEF Shape
<1>13. Latest'
  BY <1>2, <1>3, <1>4 DEF Latest
<1>14. InOrder'
  <2>1. Ordered(reader.head, reader.got, buffer, queue)
    BY <1>4 DEF InOrder
  <2>2. Ordered(reader.head, reader.got \o p, l, queue')
    BY <1>1, <1>4, <2>1, ReadInOrder DEF p, l
  <2>3. /\ AllUnderWay(reader.got \o p, LastWhole, sizes, pending)
        /\ AllUnderWay(l, LastWhole, sizes, pending)
    BY <1>1, <1>4, ReadUnderWay DEF InOrder, p, l
  <2>4. Run(l)
    <3>1. t + 1 \in Nat \ {0} /\ Len(s) \in Nat /\ t + 1 <= Len(s) + 1
      OBVIOUS
    <3>. QED  BY <1>1, <3>1, PartOfRun DEF l
  <2>5. Chunks(queue', LastWhole, sizes, pending)
    BY <1>4, <1>9 DEF InOrder, Chunks
  <2>6. AllUnderWay(reader.head, LastWhole, sizes, pending)
    BY <1>4 DEF InOrder
  <2>. QED  BY <1>2, <1>3, <1>7, <1>8, <2>2, <2>3, <2>4, <2>5, <2>6 DEF InOrder
<1>15. ASSUME ~broken', receiverOpen' PROVE NoGap'
  <2>1. NoGap
    BY <1>2, <1>15 DEF StreamInv
  <2>12. /\ Awaited = <<LastWhole + 1, Taken + 1>> /\ Taken \in Nat /\ LastWhole \in Nat
         /\ sizes \in Seq(Nat)
    BY <1>2, <1>4, <2>1, AwaitsInside, Types
  <2>13. PICK i \in Nat \ {0}, j \in Nat : i = LastWhole + 1 /\ j = Taken
    BY <2>12
  <2>2. Awaited = <<i, j + 1>> /\ sizes \in Seq(Nat)
    BY <2>12, <2>13
  <2>3. s[1] = <<i, j + 1>>
    <3>1. CASE s = buffer
      <4>1. buffer # <<>>
        BY <3>1
      <4>. QED  BY <2>1, <2>2, <3>1, <4>1 DEF NoGap
    <3>2. CASE buffer = <<>> /\ queue # <<>> /\ s = Head(queue)
      BY <1>4, <2>1, <2>2, <3>2 DEF NoGap, AfterBuffer
    <3>. QED  BY <1>1, <3>1, <3>2
  <2>4. Taken' = j + t
    <3>1. Len(reader.got) \in Nat /\ Len(reader'.got) = Len(reader.got) + t
      BY <1>4, <1>7
    <3>2. (HeaderCells + Len(reader.got)) + t = HeaderCells + (Len(reader.got) + t)
      BY <3>1, HeaderIsSomething
    <3>. QED  BY <1>7, <2>13, <3>1, <3>2 DEF Taken
  <2>5. /\ p = Cells(i, j + 1, j + t)
        /\ t < Len(s) => l # <<>> /\ l[1] = At(i, j + t + 1, sizes) /\ After(l, sizes) = After(s, sizes)
        /\ t = Len(s) => l = <<>> /\ After(s, sizes) = At(i, j + t + 1, sizes)
    <3>1. Run(s)
      BY <1>1
    <3>2. AllUnderWay(s, LastWhole, sizes, pending)
      BY <1>1
    <3>3. sizes \in Seq(Nat)
      BY <2>2
    <3>4. /\ SubSeq(s, 1, t) = Cells(i, j + 1, j + t)
          /\ t < Len(s) => /\ SubSeq(s, t + 1, Len(s)) # <<>>
                           /\ SubSeq(s, t + 1, Len(s))[1] = At(i, j + t + 1, sizes)
                           /\ After(SubSeq(s, t + 1, Len(s)), sizes) = After(s, sizes)
          /\ t = Len(s) => /\ SubSeq(s, t + 1, Len(s)) = <<>>
                           /\ After(s, sizes) = At(i, j + t + 1, sizes)
      BY <2>3, <3>1, <3>2, <3>3, ReadsOn
    <3>. QED  BY <3>4 DEF p, l
  <2>6. Awaited' = At(i, j + t + 1, sizes)
    BY <1>2, <1>3, <2>4, <2>13 DEF Awaited
  <2>7. t < Len(s) \/ t = Len(s)
    OBVIOUS
  <2>8. (buffer # <<>> => buffer[1] = Awaited)'
    BY <1>8, <2>5, <2>6, <2>7
  <2>9. AfterBuffer' = After(s, sizes)
    BY <1>2, <1>8, <2>5, <2>6, <2>7 DEF AfterBuffer
  <2>10. OnFrame'
    <3>1. CASE reader.phase = "header"
      <4>1. j = Len(reader.got) /\ reader.got = Cells(i, 1, j)
        BY <2>1, <2>13, <3>1 DEF NoGap, OnFrame, Taken
      <4>2. Cells(i, 1, j) \o Cells(i, j + 1, j + t) = Cells(i, 1, j + t)
        <5>1. 1 \in Nat \ {0} /\ 1 <= j + 1 /\ j + t \in Nat /\ j <= j + t
          OBVIOUS
        <5>. QED  BY <5>1, JoinedCells
      <4>3. Len(reader'.got) = j + t
        BY <1>7, <4>1
      <4>. QED  BY <1>2, <1>3, <1>7, <2>5, <2>13, <3>1, <4>1, <4>2, <4>3 DEF OnFrame
    <3>2. CASE reader.phase = "payload"
      <4>1. /\ j = HeaderCells + Len(reader.got)
            /\ reader.got = Cells(i, HeaderCells + 1, j)
            /\ i <= Len(sizes) /\ reader.head = Header(i) /\ reader.need = sizes[i]
        BY <2>1, <2>13, <3>2 DEF NoGap, OnFrame, Taken
      <4>2. Cells(i, HeaderCells + 1, j) \o Cells(i, j + 1, j + t) = Cells(i, HeaderCells + 1, j + t)
        <5>1. PICK h \in Nat \ {0}, c \in Nat : h = HeaderCells + 1 /\ c = j + t
          BY HeaderIsSomething
        <5>2. h <= j + 1
          BY <1>4, <2>2, <4>1, <5>1, HeaderIsSomething
        <5>3. j <= c
          BY <5>1
        <5>4. Cells(i, h, j) \o Cells(i, j + 1, c) = Cells(i, h, c)
          BY <5>2, <5>3, JoinedCells
        <5>. QED  BY <5>1, <5>4
      <4>3. HeaderCells + Len(reader'.got) = j + t
        <5>1. Len(reader.got) \in Nat /\ Len(reader'.got) = Len(reader.got) + t
          BY <1>4, <1>7
        <5>. QED  BY <4>1, <5>1, HeaderIsSomething
      <4>. QED  BY <1>2, <1>3, <1>7, <2>5, <2>13, <3>2, <4>1, <4>2, <4>3 DEF OnFrame, Header
    <3>. QED  BY <1>2, <1>4, <3>1, <3>2
  <2>11. /\ (queue # <<>> => queue[1][1] = AfterBuffer)'
         /\ (\A k \in 1 .. Len(queue) - 1 : queue[k + 1][1] = After(queue[k], sizes))'
         /\ AfterQueue' = AfterQueue
    <3>1. CASE s = buffer /\ queue' = queue
      <4>1. AfterBuffer' = AfterBuffer
        <5>1. buffer # <<>>
          BY <3>1
        <5>. QED  BY <2>9, <3>1, <5>1 DEF AfterBuffer
      <4>. QED  BY <1>2, <2>1, <3>1, <4>1 DEF NoGap, AfterQueue
    <3>2. CASE buffer = <<>> /\ queue # <<>> /\ s = Head(queue) /\ queue' = Tail(queue)
      <4>1. /\ Len(queue') = Len(queue) - 1 /\ s = queue[1] /\ Len(queue) \in Nat /\ Len(queue) >= 1
            /\ \A k \in 1 .. Len(queue) - 1 : queue'[k] = queue[k + 1]
            /\ queue' \in Seq(Seq(Byte))
        BY <1>4, <3>2, HeadTailProperties
      <4>2. \A k \in 1 .. Len(queue) - 1 : queue[k + 1][1] = After(queue[k], sizes)
        BY <2>1 DEF NoGap
      <4>3. ASSUME queue' # <<>> PROVE queue'[1][1] = AfterBuffer'
        <5>1. 1 \in 1 .. Len(queue) - 1
          BY <4>1, <4>3
        <5>2. queue'[1] = queue[1 + 1] /\ queue[1 + 1][1] = After(queue[1], sizes)
          BY <4>1, <4>2, <5>1
        <5>. QED  BY <2>9, <4>1, <5>2
      <4>4. ASSUME NEW k \in 1 .. Len(queue') - 1
            PROVE  queue'[k + 1][1] = After(queue'[k], sizes')
        <5>1. k \in 1 .. Len(queue) - 1 /\ k + 1 \in 1 .. Len(queue) - 1
          BY <4>1
        <5>. QED  BY <1>2, <4>1, <4>2, <5>1
      <4>5. AfterQueue' = AfterQueue
        <5>1. CASE queue' = <<>>
          <6>1. Len(queue) = 1
            BY <4>1, <5>1
          <6>. QED  BY <2>9, <3>2, <4>1, <5>1, <6>1 DEF AfterQueue
        <5>2. CASE queue' # <<>>
          <6>1. Len(queue) - 1 \in 1 .. Len(queue) - 1
            BY <4>1, <5>2
          <6>2. queue'[Len(queue')] = queue[Len(queue)]
            BY <4>1, <6>1
          <6>. QED  BY <1>2, <3>2, <5>2, <6>2 DEF AfterQueue
        <5>. QED  BY <5>1, <5>2
      <4>. QED  BY <4>3, <4>4, <4>5
    <3>. QED  BY <1>1, <3>1, <3>2
  <2>. QED  BY <1>2, <2>1, <2>8, <2>10, <2>11 DEF NoGap
<1>. QED  BY <1>12, <1>13, <1>14, <1>15 DEF StreamInv

LEMMA EmptyPrecedes == \A s : Precedes(<<>>, s) /\ Precedes(s, <<>>)
BY DEF Precedes

\* The invariant without the reader's bytes is kept when only the reader
\* changes and keeps no byte, except that what it had may become its header.
LEMMA ReaderStep ==
  ASSUME StreamInv, receiverOpen, broken' \in BOOLEAN,
         UNCHANGED <<wholeWrites, sizes, pending, payload, senderOpen, queue, buffer, received, receiverOpen>>,
         Reads', reader'.got = <<>>, reader'.head = <<>> \/ reader'.head = reader.got,
         ~broken' => NoGap'
  PROVE  StreamInv'
<1>1. LastWhole' = LastWhole
  BY SameLatest
<1>2. TypeOK'
  <2>1. reader'.phase \in {"idle", "header", "payload"} /\ reader'.need \in Nat
        /\ Len(reader'.got) <= reader'.need
    BY DEF Reads
  <2>. QED  BY <2>1 DEF StreamInv, Shape, TypeOK
<1>3. Shape'
  BY <1>1, <1>2 DEF StreamInv, Shape
<1>4. Latest'
  BY <1>1 DEF StreamInv, Latest
<1>5. InOrder'
  <2>1. /\ AllUnderWay(reader'.head, LastWhole, sizes, pending)
        /\ AllUnderWay(reader'.got, LastWhole, sizes, pending)
    BY DEF StreamInv, InOrder, AllUnderWay
  <2>2. Ordered(reader'.head, reader'.got, buffer, queue)
    <3>1. Ordered(reader.head, reader.got, buffer, queue)
      BY DEF StreamInv, InOrder
    <3>. QED  BY <3>1, EmptyPrecedes DEF Ordered
  <2>. QED  BY <1>1, <2>1, <2>2 DEF StreamInv, InOrder
<1>. QED  BY <1>3, <1>4, <1>5 DEF StreamInv

LEMMA SameAwaited ==
  ASSUME NoGap, UNCHANGED <<sizes, pending, senderOpen, queue, buffer>>, Awaited' = Awaited, OnFrame'
  PROVE  NoGap'
<1>1. AfterBuffer' = AfterBuffer
  BY DEF AfterBuffer
<1>2. AfterQueue' = AfterQueue
  BY <1>1 DEF AfterQueue
<1>. QED  BY <1>1, <1>2 DEF NoGap

LEMMA EmptyCells ==
  ASSUME NEW i \in Nat, NEW a \in Nat
  PROVE  Cells(i, a + 1, a) = <<>>
BY NoCells

LEMMA HeadersDiffer ==
  ASSUME NEW i \in Nat, NEW j \in Nat, Header(i) = Header(j)
  PROVE  i = j
<1>1. Header(i)[1] = <<i, 1>> /\ Header(j)[1] = <<j, 1>>
  <2>1. 1 \in Nat \ {0} /\ HeaderCells \in Nat /\ 1 <= HeaderCells + 1 /\ 1 <= HeaderCells
    BY HeaderIsSomething
  <2>. QED  BY <2>1, NoCells DEF Header
<1>. QED  BY <1>1

\* recv_frame begins.
LEMMA RecvFrameKeeps == StreamInv /\ RecvFrame => StreamInv'
<1> SUFFICES ASSUME StreamInv, RecvFrame PROVE StreamInv'
  OBVIOUS
<1>1. /\ UNCHANGED <<wholeWrites, sizes, pending, payload, senderOpen, queue, buffer, received, receiverOpen>>
      /\ broken' = broken /\ receiverOpen /\ reader.phase = "idle"
      /\ reader' = [phase |-> "header", head |-> <<>>, got |-> <<>>, need |-> HeaderCells]
  BY DEF RecvFrame, sender, Reading
<1>2. Reads'
  BY <1>1, HeaderIsSomething DEF Reads
<1>3. ASSUME ~broken' PROVE NoGap'
  <2>1. NoGap
    BY <1>1, <1>3 DEF StreamInv
  <2>2. LastWhole' = LastWhole /\ LastWhole \in Nat
    BY <1>1, SameLatest, Types DEF StreamInv
  <2>3. Taken = 0 /\ Taken' = 0
    <3>1. reader = Idle
      BY <1>1 DEF StreamInv, Shape, Reads
    <3>. QED  BY <1>1, <3>1 DEF Taken, Idle
  <2>4. Awaited' = Awaited
    BY <1>1, <2>2, <2>3 DEF Awaited
  <2>5. OnFrame'
    <3>1. Cells(LastWhole + 1, 0 + 1, 0) = <<>>
      BY <2>2, EmptyCells
    <3>. QED  BY <1>1, <2>2, <3>1 DEF OnFrame
  <2>. QED  BY <1>1, <2>1, <2>4, <2>5, SameAwaited
<1>4. broken' \in BOOLEAN
  BY <1>1 DEF StreamInv, Shape, TypeOK
<1>. QED  BY <1>1, <1>2, <1>3, <1>4, ReaderStep

\* The stream has ended in the middle of a frame, or before one.
LEMMA ReadEofKeeps == StreamInv /\ ReadEof => StreamInv'
<1> SUFFICES ASSUME StreamInv, ReadEof PROVE StreamInv'
  OBVIOUS
<1>1. /\ UNCHANGED <<wholeWrites, sizes, pending, payload, senderOpen, queue, buffer, received, receiverOpen>>
      /\ broken' = broken /\ reader.phase # "idle" /\ buffer = <<>> /\ queue = <<>> /\ ~senderOpen
      /\ reader' = [phase |-> "idle", head |-> <<>>, got |-> <<>>, need |-> 0]
  BY DEF ReadEof, sender, Idle
<1>2. receiverOpen /\ broken' \in BOOLEAN
  BY <1>1 DEF StreamInv, Shape, Idle, TypeOK
<1>3. Reads'
  BY <1>1 DEF Reads, Idle
<1>4. NoGap'
  <2>1. OnFrame'
    BY <1>1 DEF OnFrame
  <2>. QED  BY <1>1, <2>1 DEF NoGap
<1>. QED  BY <1>1, <1>2, <1>3, <1>4, ReaderStep

\* recv_frame is cancelled while it waits.
LEMMA CancelRecvKeeps == StreamInv /\ CancelRecv => StreamInv'
<1> SUFFICES ASSUME StreamInv, CancelRecv PROVE StreamInv'
  OBVIOUS
<1>1. /\ UNCHANGED <<wholeWrites, sizes, pending, payload, senderOpen, queue, buffer, received, receiverOpen>>
      /\ broken' = (broken \/ ~ReadNothing) /\ reader.phase # "idle"
      /\ reader' = [phase |-> "idle", head |-> <<>>, got |-> <<>>, need |-> 0]
  BY DEF CancelRecv, sender, Idle
<1>2. receiverOpen /\ broken' \in BOOLEAN
  BY <1>1 DEF StreamInv, Shape, Idle, TypeOK
<1>3. Reads'
  BY <1>1 DEF Reads, Idle
<1>4. ASSUME ~broken' PROVE NoGap'
  <2>1. NoGap /\ reader.phase = "header" /\ reader.got = <<>>
    BY <1>1, <1>2, <1>4 DEF StreamInv, ReadNothing
  <2>2. LastWhole' = LastWhole
    BY <1>1, SameLatest
  <2>3. Taken = 0 /\ Taken' = 0
    BY <1>1, <2>1 DEF Taken
  <2>4. Awaited' = Awaited
    BY <1>1, <2>2, <2>3 DEF Awaited
  <2>5. OnFrame'
    BY <1>1 DEF OnFrame
  <2>. QED  BY <1>1, <2>1, <2>4, <2>5, SameAwaited
<1>. QED  BY <1>1, <1>2, <1>3, <1>4, ReaderStep

\* The header that a reader on the boundaries has read is one of a frame.
LEMMA OwnHeader ==
  ASSUME StreamInv, NoGap, reader.phase = "header", reader.need - Len(reader.got) = 0
  PROVE  /\ reader.got = Header(LastWhole + 1)
         /\ LastWhole + 1 \in 1 .. Len(sizes)
         /\ FramesOf(reader.got) = {LastWhole + 1}
<1>1. LastWhole \in Nat /\ sizes \in Seq(Nat)
  BY Types DEF StreamInv
<1>2. Len(reader.got) = HeaderCells /\ reader.got \in Seq(Byte)
  <2>1. reader.need = HeaderCells /\ reader.got \in Seq(Byte)
    BY DEF StreamInv, Shape, Reads
  <2>. QED  BY <2>1, HeaderIsSomething
<1>3. reader.got = Header(LastWhole + 1)
  BY <1>2 DEF NoGap, OnFrame, Header
<1>4. LastWhole + 1 \in 1 .. Len(sizes)
  <2>1. 1 \in DOMAIN reader.got
    BY <1>2, HeaderIsSomething
  <2>2. UnderWay(reader.got[1], LastWhole, sizes, pending)
    BY <2>1 DEF StreamInv, InOrder, AllUnderWay
  <2>3. reader.got[1] = <<LastWhole + 1, 1>>
    <3>1. 1 \in Nat \ {0} /\ HeaderCells \in Nat /\ 1 <= HeaderCells + 1 /\ 1 <= HeaderCells
          /\ LastWhole + 1 \in Nat
      BY <1>1, HeaderIsSomething
    <3>2. Header(LastWhole + 1)[1] = <<LastWhole + 1, 1>>
      BY <3>1, NoCells DEF Header
    <3>. QED  BY <1>3, <3>2
  <2>. QED  BY <1>1, <2>2, <2>3 DEF UnderWay
<1>5. FramesOf(reader.got) = {LastWhole + 1}
  <2>1. \A i \in 1 .. Len(sizes) : Header(LastWhole + 1) = Header(i) => i = LastWhole + 1
    <3>1. \A i \in 1 .. Len(sizes) : i \in Nat
      BY <1>1
    <3>. QED  BY <1>1, <3>1, HeadersDiffer
  <2>. QED  BY <1>3, <1>4, <2>1 DEF FramesOf
<1>. QED  BY <1>3, <1>4, <1>5

\* recv_frame has read a header and accepts or refuses the length it declares.
LEMMA ReadHeaderKeeps == StreamInv /\ ReadHeader => StreamInv'
<1> SUFFICES ASSUME StreamInv, ReadHeader PROVE StreamInv'
  OBVIOUS
<1>1. PICK length \in Lengths :
        /\ FramesOf(reader.got) = {} \/ \E i \in FramesOf(reader.got) : length = LengthSeen(sizes[i])
        /\ IF Fits(length) THEN reader' = Reading("payload", reader.got, length) ELSE reader' = Idle
        /\ broken' = (broken \/ length > Limit)
  BY DEF ReadHeader
<1>2. /\ UNCHANGED <<wholeWrites, sizes, pending, payload, senderOpen, queue, buffer, received, receiverOpen>>
      /\ reader.phase = "header" /\ reader.need - Len(reader.got) = 0
  BY DEF ReadHeader, sender, Missing
<1>3. receiverOpen /\ broken' \in BOOLEAN
  BY <1>1, <1>2 DEF StreamInv, Shape, Idle, TypeOK
<1>4. length \in Nat
  BY StreamConstants DEF Lengths
<1>5. reader.got \in Seq(Byte)
  BY DEF StreamInv, Shape, Reads
<1>6. Reads' /\ reader'.got = <<>> /\ (reader'.head = <<>> \/ reader'.head = reader.got)
  <2>1. CASE Fits(length)
    <3>1. reader' = [phase |-> "payload", head |-> reader.got, got |-> <<>>, need |-> length]
      BY <1>1, <2>1 DEF Reading
    <3>. QED  BY <1>4, <1>5, <3>1 DEF Reads
  <2>2. CASE ~Fits(length)
    <3>1. reader' = [phase |-> "idle", head |-> <<>>, got |-> <<>>, need |-> 0]
      BY <1>1, <2>2 DEF Idle
    <3>. QED  BY <3>1 DEF Reads, Idle
  <2>. QED  BY <2>1, <2>2
<1>7. ASSUME ~broken' PROVE NoGap'
  <2>0. ~broken /\ ~(length > Limit)
    BY <1>1, <1>7, Zenon
  <2>9. length <= Limit
    BY <1>4, <2>0, StreamConstants
  <2>1. NoGap /\ length <= Limit
    BY <1>3, <2>0, <2>9 DEF StreamInv
  <2>2. /\ reader.got = Header(LastWhole + 1)
        /\ LastWhole + 1 \in 1 .. Len(sizes)
        /\ FramesOf(reader.got) = {LastWhole + 1}
    BY <1>2, <2>1, OwnHeader
  <2>3. length = sizes[LastWhole + 1]
    <3>1. length = LengthSeen(sizes[LastWhole + 1])
      BY <1>1, <2>2
    <3>2. sizes[LastWhole + 1] \in Nat
      BY <2>2, Types DEF StreamInv
    <3>. QED  BY <2>1, <3>1, <3>2, StreamConstants DEF LengthSeen
  <2>4. reader' = [phase |-> "payload", head |-> reader.got, got |-> <<>>, need |-> length]
    BY <1>1, <2>1 DEF Fits, Reading
  <2>5. LastWhole' = LastWhole /\ LastWhole \in Nat
    BY <1>2, SameLatest, Types DEF StreamInv
  <2>6. Taken = HeaderCells /\ Taken' = HeaderCells
    <3>1. Len(reader.got) = HeaderCells
      <4>1. reader.need = HeaderCells
        BY <1>2 DEF StreamInv, Shape, Reads
      <4>. QED  BY <1>2, <1>5, <4>1, HeaderIsSomething
    <3>. QED  BY <1>2, <2>4, <3>1, HeaderIsSomething DEF Taken
  <2>7. Awaited' = Awaited
    BY <1>2, <2>5, <2>6 DEF Awaited
  <2>8. OnFrame'
    <3>1. Cells(LastWhole + 1, HeaderCells + 1, HeaderCells) = <<>> /\ HeaderCells + 0 = HeaderCells
      BY <2>5, EmptyCells, HeaderIsSomething
    <3>. QED  BY <1>2, <2>2, <2>3, <2>4, <2>5, <3>1 DEF OnFrame, Header
  <2>. QED  BY <1>2, <2>1, <2>7, <2>8, SameAwaited
<1>. QED  BY <1>2, <1>3, <1>6, <1>7, ReaderStep

\* recv_frame refuses bytes that are no header.
LEMMA DecodeFailsKeeps == StreamInv /\ DecodeFails => StreamInv'
<1> SUFFICES ASSUME StreamInv, DecodeFails PROVE StreamInv'
  OBVIOUS
<1>1. /\ UNCHANGED <<wholeWrites, sizes, pending, payload, senderOpen, queue, buffer, received, receiverOpen>>
      /\ broken' = broken /\ reader.phase = "payload" /\ FramesOf(reader.head) = {}
      /\ reader' = [phase |-> "idle", head |-> <<>>, got |-> <<>>, need |-> 0]
  BY DEF DecodeFails, sender, Idle
<1>2. receiverOpen /\ broken' \in BOOLEAN
  BY <1>1 DEF StreamInv, Shape, Idle, TypeOK
<1>3. Reads'
  BY <1>1 DEF Reads, Idle
<1>4. broken'
  <2>1. SUFFICES ASSUME ~broken PROVE FALSE
    BY <1>1
  <2>2. LastWhole + 1 <= Len(sizes) /\ reader.head = Header(LastWhole + 1)
    BY <1>1, <1>2, <2>1 DEF StreamInv, NoGap, OnFrame
  <2>3. LastWhole + 1 \in 1 .. Len(sizes)
    BY <2>2, Types DEF StreamInv
  <2>. QED  BY <1>1, <2>2, <2>3 DEF FramesOf
<1>. QED  BY <1>1, <1>2, <1>3, <1>4, ReaderStep

\* The receiver goes away with what it had not read.
LEMMA CloseReceiverKeeps == StreamInv /\ CloseReceiver => StreamInv'
<1> SUFFICES ASSUME StreamInv, CloseReceiver PROVE StreamInv'
  OBVIOUS
<1>1. /\ UNCHANGED <<wholeWrites, sizes, pending, payload, senderOpen, received, broken>>
      /\ receiverOpen' = FALSE /\ buffer' = <<>> /\ queue' = <<>> /\ reader' = Idle
      /\ reader' = [phase |-> "idle", head |-> <<>>, got |-> <<>>, need |-> 0]
  BY DEF CloseReceiver, sender, Idle
<1>2. LastWhole' = LastWhole
  BY <1>1, SameLatest
<1>3. Reads'
  BY <1>1 DEF Reads
<1>4. Shape'
  <2>1. TypeOK'
    <3>1. /\ reader'.phase \in {"idle", "header", "payload"} /\ reader'.need \in Nat
          /\ Len(reader'.got) <= reader'.need
      BY <1>1
    <3>2. Len(queue') <= Capacity
      BY <1>1, StreamConstants
    <3>3. receiverOpen' \in BOOLEAN
      BY <1>1
    <3>. QED  BY <1>1, <3>1, <3>2, <3>3 DEF StreamInv, Shape, TypeOK
  <2>2. <<>> \in Seq(Byte) /\ <<>> \in Seq(Seq(Byte)) /\ DOMAIN <<>> = {}
    OBVIOUS
  <2>3. Writing(LastWhole', sizes', pending', payload')
    BY <1>1, <1>2 DEF StreamInv, Shape
  <2>. QED  BY <1>1, <1>3, <2>1, <2>2, <2>3 DEF StreamInv, Shape
<1>5. Latest'
  BY <1>1, <1>2 DEF StreamInv, Latest
<1>6. InOrder'
  <2>1. /\ reader'.head = <<>> /\ reader'.got = <<>>
    BY <1>1
  <2>2. \A last, lengths, unwritten : AllUnderWay(<<>>, last, lengths, unwritten)
                                      /\ Chunks(<<>>, last, lengths, unwritten)
    BY DEF AllUnderWay, Chunks
  <2>3. Run(<<>>)
    <3>1. Cells(0, 0 + 1, 0) = <<>>
      BY EmptyCells
    <3>. QED  BY <3>1 DEF Run
  <2>4. Ordered(<<>>, <<>>, <<>>, <<>>)
    BY DEF Ordered, Precedes
  <2>. QED  BY <1>1, <2>1, <2>2, <2>3, <2>4 DEF InOrder
<1>. QED  BY <1>1, <1>4, <1>5, <1>6 DEF StreamInv

\* A reset loses what was in the socket.
LEMMA ResetKeeps == StreamInv /\ Reset => StreamInv'
<1> SUFFICES ASSUME StreamInv, Reset PROVE StreamInv'
  OBVIOUS
<1>1. /\ UNCHANGED <<wholeWrites, sizes, pending, payload, senderOpen, buffer, reader, received, receiverOpen>>
      /\ broken' = TRUE /\ queue' = <<>>
  BY DEF Reset, sender, receiver
<1>2. LastWhole' = LastWhole
  BY <1>1, SameLatest
<1>3. Reads'
  BY <1>1 DEF StreamInv, Shape, Reads
<1>4. Shape'
  <2>1. TypeOK'
    BY <1>1, StreamConstants DEF StreamInv, Shape, TypeOK
  <2>2. <<>> \in Seq(Seq(Byte)) /\ DOMAIN <<>> = {}
    OBVIOUS
  <2>3. Writing(LastWhole', sizes', pending', payload')
    BY <1>1, <1>2 DEF StreamInv, Shape
  <2>. QED  BY <1>1, <1>3, <2>1, <2>2, <2>3 DEF StreamInv, Shape
<1>5. Latest'
  BY <1>1, <1>2 DEF StreamInv, Latest
<1>6. InOrder'
  BY <1>1, <1>2 DEF StreamInv, InOrder, Chunks, Ordered
<1>. QED  BY <1>1, <1>4, <1>5, <1>6 DEF StreamInv

\* The highest of the frames.
LEMMA LatestIs ==
  ASSUME NEW f \in Seq(Nat), NEW x, Highest(x, f)
  PROVE  Max(ToSet(f) \cup {Mixed}) = x
<1> DEFINE S == ToSet(f) \cup {Mixed}
<1>1. S \subseteq Nat
  <2>1. \A k \in DOMAIN f : f[k] \in Nat
    OBVIOUS
  <2>. QED  BY <2>1 DEF ToSet, Mixed
<1>2. x \in S /\ \A y \in S : y <= x
  BY DEF Highest
<1> HIDE DEF S
<1>3. \A y \in S : x >= y
  BY <1>1, <1>2
<1>4. \A z \in S : (\A y \in S : z >= y) => z = x
  BY <1>1, <1>2
<1>5. Max(S) = x
  BY <1>2, <1>3, <1>4 DEF Max
<1>. QED  BY <1>5 DEF S

\* When a frame has been read to its end, what is still under way is of later
\* frames.
LEMMA LaterFrames ==
  ASSUME StreamInv, NEW i \in 1 .. Len(sizes),
         NEW s \in {reader.head, reader.got}, NEW k \in DOMAIN s,
         s[k] = <<i, HeaderCells + sizes[i]>>
  PROVE  /\ AllUnderWay(buffer, i, sizes, pending)
         /\ Chunks(queue, i, sizes, pending)
         /\ Writing(i, sizes, pending, payload)
<1>1. LastWhole \in Nat /\ sizes \in Seq(Nat) /\ HeaderCells \in Nat /\ HeaderCells >= 1
  BY Types, HeaderIsSomething DEF StreamInv
<1>2. sizes[i] \in Nat /\ i \in Nat
  BY <1>1
<1>3. ASSUME NEW e, UnderWay(e, LastWhole, sizes, pending), Before(s[k], e)
      PROVE  UnderWay(e, i, sizes, pending)
  <2>1. e \in Byte /\ e[1] <= Len(sizes) /\ e[2] <= HeaderCells + sizes[e[1]] /\ e[1] \in Nat /\ e[2] \in Nat
    BY <1>3 DEF UnderWay, Byte
  <2>2. e[1] > i
    <3>1. i < e[1] \/ (i = e[1] /\ HeaderCells + sizes[i] < e[2])
      BY <1>3 DEF Before
    <3>. QED  BY <1>1, <1>2, <2>1, <3>1
  <2>. QED  BY <1>3, <2>2 DEF UnderWay
<1>4. Precedes(s, buffer) /\ \A l \in DOMAIN queue : Precedes(s, queue[l])
  <2>1. Ordered(reader.head, reader.got, buffer, queue)
    BY DEF StreamInv, InOrder
  <2>. QED  BY <2>1 DEF Ordered
<1>5. AllUnderWay(buffer, i, sizes, pending)
  BY <1>3, <1>4 DEF StreamInv, InOrder, AllUnderWay, Precedes
<1>6. Chunks(queue, i, sizes, pending)
  BY <1>3, <1>4 DEF StreamInv, InOrder, AllUnderWay, Chunks, Precedes
<1>7. Writing(i, sizes, pending, payload)
  <2>1. Writing(LastWhole, sizes, pending, payload)
    BY DEF StreamInv, Shape
  <2>2. CASE pending = <<>>
    BY <2>1, <2>2 DEF Writing
  <2>3. CASE pending # <<>>
    <3>1. PICK a \in Nat \ {0} :
            \/ /\ a <= HeaderCells
               /\ pending = Cells(Len(sizes), a, HeaderCells)
               /\ payload = Cells(Len(sizes), HeaderCells + 1, HeaderCells + sizes[Len(sizes)])
            \/ /\ a > HeaderCells /\ a <= HeaderCells + sizes[Len(sizes)]
               /\ pending = Cells(Len(sizes), a, HeaderCells + sizes[Len(sizes)])
               /\ payload = <<>>
      BY <2>1, <2>3 DEF Writing
    <3>2. Len(sizes) \in Nat /\ Len(sizes) >= i /\ sizes[Len(sizes)] \in Nat
      BY <1>1
    <3>3. pending[1] = <<Len(sizes), a>> /\ a <= HeaderCells + sizes[Len(sizes)]
      <4>1. CASE a <= HeaderCells /\ pending = Cells(Len(sizes), a, HeaderCells)
        <5>1. a <= HeaderCells + 1
          BY <1>1, <4>1
        <5>2. Cells(Len(sizes), a, HeaderCells)[1] = <<Len(sizes), a>>
          BY <1>1, <3>2, <4>1, <5>1, NoCells
        <5>. QED  BY <1>1, <3>2, <4>1, <5>2
      <4>2. CASE a <= HeaderCells + sizes[Len(sizes)]
                 /\ pending = Cells(Len(sizes), a, HeaderCells + sizes[Len(sizes)])
        <5>1. HeaderCells + sizes[Len(sizes)] \in Nat /\ a <= HeaderCells + sizes[Len(sizes)] + 1
          BY <1>1, <3>2, <4>2
        <5>2. Cells(Len(sizes), a, HeaderCells + sizes[Len(sizes)])[1] = <<Len(sizes), a>>
          BY <1>1, <3>2, <4>2, <5>1, NoCells
        <5>. QED  BY <4>2, <5>2
      <4>. QED  BY <3>1, <4>1, <4>2
    <3>4. Before(s[k], pending[1])
      <4>1. UnderWay(s[k], LastWhole, sizes, pending)
        BY DEF StreamInv, InOrder, AllUnderWay
      <4>. QED  BY <2>3, <4>1 DEF UnderWay
    <3>5. Len(sizes) > i
      <4>1. i < Len(sizes) \/ (i = Len(sizes) /\ HeaderCells + sizes[i] < a)
        BY <3>3, <3>4 DEF Before
      <4>. QED  BY <1>1, <1>2, <3>2, <3>3, <4>1
    <3>. QED  BY <2>1, <2>3, <3>5 DEF Writing
  <2>. QED  BY <2>2, <2>3
<1>. QED  BY <1>5, <1>6, <1>7

LEMMA HeaderBegins == \A i \in Nat : 1 \in DOMAIN Header(i) /\ Header(i)[1] = <<i, 1>>
<1>. TAKE i \in Nat
<1>1. /\ HeaderCells \in Nat /\ 1 \in Nat \ {0} /\ 1 <= HeaderCells + 1 /\ 1 <= HeaderCells
      /\ 1 \in 1 .. HeaderCells + 1 - 1
  BY HeaderIsSomething
<1>2. DOMAIN Cells(i, 1, HeaderCells) = 1 .. HeaderCells + 1 - 1
  BY <1>1, CellsAre
<1>3. Cells(i, 1, HeaderCells)[1] = <<i, 1>>
  BY <1>1, NoCells
<1>. QED  BY <1>1, <1>2, <1>3 DEF Header

\* What recv_frame returns: a mixture, once the stream is broken; or a frame
\* after the last one.
LEMMA DecodedIs ==
  ASSUME StreamInv, reader.phase = "payload", reader.need - Len(reader.got) = 0
  PROVE  \/ Decoded = Mixed /\ broken
         \/ /\ Decoded \in LastWhole + 1 .. Len(sizes)
            /\ reader.head = Header(Decoded) /\ reader.got = Payload(Decoded)
            /\ Decoded = LastWhole + 1 \/ broken
<1> DEFINE whole == {i \in FramesOf(reader.head) : reader.got = Payload(i)}
<1>1. /\ LastWhole \in Nat /\ sizes \in Seq(Nat) /\ HeaderCells \in Nat /\ HeaderCells >= 1
      /\ reader.need \in Nat /\ Len(reader.got) \in Nat
  BY Types, HeaderIsSomething DEF StreamInv
<1>2. receiverOpen /\ broken \in BOOLEAN
  BY DEF StreamInv, Shape, TypeOK, Idle
<1>3. ASSUME ~broken
      PROVE  LastWhole + 1 \in whole /\ whole \subseteq {LastWhole + 1}
  <2>1. /\ LastWhole + 1 <= Len(sizes) /\ reader.head = Header(LastWhole + 1)
        /\ reader.need = sizes[LastWhole + 1]
        /\ reader.got = Cells(LastWhole + 1, HeaderCells + 1, HeaderCells + Len(reader.got))
    BY <1>2, <1>3 DEF StreamInv, NoGap, OnFrame
  <2>2. LastWhole + 1 \in 1 .. Len(sizes)
    BY <1>1, <2>1
  <2>3. reader.got = Payload(LastWhole + 1)
    <3>1. Len(reader.got) = sizes[LastWhole + 1]
      BY <1>1, <2>1
    <3>. QED  BY <2>1, <3>1 DEF Payload
  <2>4. LastWhole + 1 \in whole
    BY <2>1, <2>2, <2>3 DEF FramesOf
  <2>5. whole \subseteq {LastWhole + 1}
    <3>1. \A i \in 1 .. Len(sizes) : Header(LastWhole + 1) = Header(i) => i = LastWhole + 1
      <4>1. \A i \in 1 .. Len(sizes) : i \in Nat
        BY <1>1
      <4>. QED  BY <1>1, <4>1, HeadersDiffer
    <3>. QED  BY <2>1, <3>1 DEF FramesOf
  <2>. QED  BY <2>4, <2>5
<1>4. CASE whole = {}
  <2>1. Decoded = Mixed
    BY <1>4 DEF Decoded
  <2>2. broken
    BY <1>3, <1>4
  <2>. QED  BY <2>1, <2>2
<1>5. CASE whole # {}
  <2>1. Decoded \in whole
    BY <1>5 DEF Decoded
  <2> HIDE DEF whole
  <2>2. Decoded \in 1 .. Len(sizes) /\ reader.head = Header(Decoded) /\ reader.got = Payload(Decoded)
    BY <2>1 DEF FramesOf, whole
  <2>3. Decoded > LastWhole
    <3>1. 1 \in DOMAIN Header(Decoded) /\ Header(Decoded)[1] = <<Decoded, 1>>
      <4>1. Decoded \in Nat
        BY <1>1, <2>2
      <4>. QED  BY <4>1, HeaderBegins
    <3>2. UnderWay(Header(Decoded)[1], LastWhole, sizes, pending)
      BY <2>2, <3>1 DEF StreamInv, InOrder, AllUnderWay
    <3>. QED  BY <3>1, <3>2 DEF UnderWay
  <2>4. Decoded = LastWhole + 1 \/ broken
    BY <1>3, <2>1
  <2>5. Decoded \in LastWhole + 1 .. Len(sizes)
    BY <1>1, <2>2, <2>3
  <2>. QED  BY <2>2, <2>4, <2>5
<1>. QED  BY <1>4, <1>5

LEMMA LastCell ==
  \A i \in Nat, a \in Nat \ {0}, b \in Nat, l \in Nat :
    a <= b /\ l = b + 1 - a => l \in DOMAIN Cells(i, a, b) /\ Cells(i, a, b)[l] = <<i, b>>
<1>1. ASSUME NEW i \in Nat, NEW a \in Nat \ {0}, NEW b \in Nat, a <= b + 1
      PROVE  /\ DOMAIN Cells(i, a, b) = 1 .. b + 1 - a
             /\ \A k \in 1 .. b + 1 - a : Cells(i, a, b)[k] = <<i, a + k - 1>>
  BY <1>1, CellsAre
<1>. TAKE i \in Nat, a \in Nat \ {0}, b \in Nat, l \in Nat
<1>. HAVE a <= b /\ l = b + 1 - a
<1>2. a <= b + 1 /\ l \in 1 .. b + 1 - a /\ a + l - 1 = b
  OBVIOUS
<1>3. l \in DOMAIN Cells(i, a, b) /\ Cells(i, a, b)[l] = <<i, a + l - 1>>
  BY <1>1, <1>2, Zenon
<1>. QED  BY <1>2, <1>3

\* What comes out is a mixture, or becomes the last whole frame.
LEMMA DecodesLatest ==
  ASSUME StreamInv, Decode
  PROVE  \E d \in 0 .. MaxFrames :
           /\ d = Decoded /\ received' \in Seq(0 .. MaxFrames)
           /\ \/ d = 0 /\ broken
              \/ /\ d \in LastWhole + 1 .. Len(sizes)
                 /\ reader.head = Header(d) /\ reader.got = Payload(d)
                 /\ d = LastWhole + 1 \/ broken
           /\ LastWhole' = IF d = 0 THEN LastWhole ELSE d
           /\ LastWhole' \in Nat /\ LastWhole' <= Len(sizes) /\ Highest(LastWhole', received')
<1>1. /\ reader.phase = "payload" /\ reader.need - Len(reader.got) = 0
      /\ received' = Append(received, Decoded)
  BY DEF Decode, Missing
<1>2. /\ LastWhole \in Nat /\ sizes \in Seq(Nat) /\ HeaderCells \in Nat /\ HeaderCells >= 1
      /\ reader.need \in Nat /\ Len(reader.got) \in Nat /\ Len(sizes) \in Nat
      /\ received \in Seq(0 .. MaxFrames) /\ Len(sizes) <= MaxFrames /\ MaxFrames \in Nat
      /\ Highest(LastWhole, received) /\ LastWhole <= Len(sizes)
  BY Types, HeaderIsSomething, StreamConstants DEF StreamInv, Shape, TypeOK, Latest
<1>3. PICK d : d = Decoded
  OBVIOUS
<1>4. \/ d = 0 /\ broken
      \/ /\ d \in LastWhole + 1 .. Len(sizes)
         /\ reader.head = Header(d) /\ reader.got = Payload(d)
         /\ d = LastWhole + 1 \/ broken
  BY <1>1, <1>3, DecodedIs DEF Mixed
<1>5. d \in 0 .. MaxFrames /\ received' \in Seq(0 .. MaxFrames) /\ received' \in Seq(Nat)
  <2>1. d \in 0 .. MaxFrames
    BY <1>2, <1>4
  <2>2. received \in Seq(Nat) /\ d \in Nat
    BY <1>2, <2>1
  <2>. QED  BY <1>1, <1>2, <1>3, <2>1, <2>2
<1>6. ToSet(received') = ToSet(received) \cup {d}
  <2>1. /\ Len(received') = Len(received) + 1 /\ Len(received) \in Nat
        /\ received'[Len(received) + 1] = d
        /\ \A k \in 1 .. Len(received) : received'[k] = received[k]
        /\ DOMAIN received' = 1 .. Len(received) + 1 /\ DOMAIN received = 1 .. Len(received)
    BY <1>1, <1>2, <1>3, <1>5
  <2>2. 1 .. Len(received) + 1 = (1 .. Len(received)) \cup {Len(received) + 1}
    BY <2>1
  <2>. QED  BY <2>1, <2>2 DEF ToSet
<1> DEFINE last == IF d = 0 THEN LastWhole ELSE d
<1>7. last \in Nat /\ last <= Len(sizes) /\ Highest(last, received') /\ LastWhole' = last
  <2>1. last \in Nat /\ last <= Len(sizes)
    BY <1>2, <1>4
  <2>2. Highest(last, received')
    <3>1. CASE d = 0
      BY <1>2, <1>6, <3>1 DEF Highest, Mixed
    <3>2. CASE d # 0
      <4>1. d > LastWhole /\ d \in Nat
        BY <1>2, <1>4, <3>2
      <4>2. \A i \in ToSet(received) \cup {Mixed} : i <= LastWhole /\ i \in Nat
        BY <1>2 DEF Highest, ToSet, Mixed
      <4>3. \A i \in ToSet(received) \cup {Mixed} : i <= d
        BY <1>2, <4>1, <4>2
      <4>. QED  BY <1>6, <3>2, <4>1, <4>3 DEF Highest
    <3>. QED  BY <3>1, <3>2
  <2> HIDE DEF last
  <2>3. PICK x : x = last
    OBVIOUS
  <2>4. PICK f \in Seq(Nat) : f = received'
    BY <1>5
  <2>5. Highest(x, f)
    BY <2>2, <2>3, <2>4
  <2>6. Max(ToSet(f) \cup {Mixed}) = x
    BY <2>5, LatestIs
  <2>. QED  BY <2>1, <2>2, <2>3, <2>4, <2>6 DEF LastWhole
<1>. QED  BY <1>3, <1>4, <1>5, <1>7

\* Nothing of a frame is left when recv_frame returns.
LEMMA DecodeKeeps == StreamInv /\ Decode => StreamInv'
<1> SUFFICES ASSUME StreamInv, Decode PROVE StreamInv'
  OBVIOUS
<1>1. /\ UNCHANGED <<wholeWrites, sizes, pending, payload, senderOpen, queue, buffer, receiverOpen>>
      /\ broken' = broken /\ reader.phase = "payload" /\ reader.need - Len(reader.got) = 0
      /\ received' = Append(received, Decoded)
      /\ reader' = Idle
      /\ reader' = [phase |-> "idle", head |-> <<>>, got |-> <<>>, need |-> 0]
  BY DEF Decode, sender, Missing, Idle
<1>2. /\ LastWhole \in Nat /\ sizes \in Seq(Nat) /\ HeaderCells \in Nat /\ HeaderCells >= 1
      /\ reader.need \in Nat /\ Len(reader.got) \in Nat /\ Len(sizes) \in Nat
  BY Types, HeaderIsSomething DEF StreamInv
<1>3. PICK d \in 0 .. MaxFrames :
           /\ d = Decoded /\ received' \in Seq(0 .. MaxFrames)
           /\ \/ d = 0 /\ broken
              \/ /\ d \in LastWhole + 1 .. Len(sizes)
                 /\ reader.head = Header(d) /\ reader.got = Payload(d)
                 /\ d = LastWhole + 1 \/ broken
           /\ LastWhole' = IF d = 0 THEN LastWhole ELSE d
           /\ LastWhole' \in Nat /\ LastWhole' <= Len(sizes) /\ Highest(LastWhole', received')
  BY DecodesLatest
<1> DEFINE last == IF d = 0 THEN LastWhole ELSE d
<1>4. \/ d = 0 /\ broken
      \/ /\ d \in LastWhole + 1 .. Len(sizes)
         /\ reader.head = Header(d) /\ reader.got = Payload(d)
         /\ d = LastWhole + 1 \/ broken
  BY <1>3
<1>5. received' \in Seq(0 .. MaxFrames)
  BY <1>3
<1>7. last \in Nat /\ last <= Len(sizes) /\ Highest(last, received') /\ LastWhole' = last
  BY <1>3
<1>8. /\ AllUnderWay(buffer, last, sizes, pending)
      /\ Chunks(queue, last, sizes, pending)
      /\ Writing(last, sizes, pending, payload)
  <2>1. CASE d = 0
    BY <2>1 DEF StreamInv, InOrder, Shape
  <2>2. CASE d # 0
    <3>1. d \in 1 .. Len(sizes) /\ reader.head = Header(d) /\ reader.got = Payload(d)
      BY <1>2, <1>4, <2>2
    <3>2. sizes[d] \in Nat /\ d \in Nat
      BY <1>2, <3>1
    <3>3. \E s \in {reader.head, reader.got} : \E k \in DOMAIN s : s[k] = <<d, HeaderCells + sizes[d]>>
      <4>1. CASE sizes[d] = 0
        <5>1. HeaderCells \in DOMAIN Cells(d, 1, HeaderCells) /\ Cells(d, 1, HeaderCells)[HeaderCells] = <<d, HeaderCells>>
          <6>1. 1 <= HeaderCells /\ 1 \in Nat \ {0} /\ HeaderCells = HeaderCells + 1 - 1
                /\ d \in Nat /\ HeaderCells \in Nat
            BY <1>2, <3>2
          <6>. QED  BY <6>1, LastCell, Zenon
        <5>2. HeaderCells \in DOMAIN reader.head /\ reader.head[HeaderCells] = <<d, HeaderCells + sizes[d]>>
          BY <1>2, <3>1, <4>1, <5>1 DEF Header
        <5>. QED  BY <5>2
      <4>2. CASE sizes[d] # 0
        <5>1. PICK n \in Nat : n = sizes[d]
          BY <3>2
        <5>2. n # 0 /\ reader.got = Cells(d, HeaderCells + 1, HeaderCells + n)
          BY <3>1, <4>2, <5>1 DEF Payload
        <5>3. /\ HeaderCells + 1 \in Nat \ {0} /\ HeaderCells + n \in Nat /\ HeaderCells + 1 <= HeaderCells + n
              /\ n = HeaderCells + n + 1 - (HeaderCells + 1)
          BY <1>2, <5>2
        <5>4. n \in DOMAIN reader.got /\ reader.got[n] = <<d, HeaderCells + n>>
          BY <3>2, <5>2, <5>3, LastCell
        <5>. QED  BY <5>1, <5>4
      <4>. QED  BY <4>1, <4>2
    <3>4. PICK s \in {reader.head, reader.got} : \E k \in DOMAIN s : s[k] = <<d, HeaderCells + sizes[d]>>
      BY <3>3
    <3>5. PICK k \in DOMAIN s : s[k] = <<d, HeaderCells + sizes[d]>>
      BY <3>4
    <3>6. /\ AllUnderWay(buffer, d, sizes, pending)
          /\ Chunks(queue, d, sizes, pending)
          /\ Writing(d, sizes, pending, payload)
      BY <3>1, <3>5, LaterFrames
    <3>. QED  BY <2>2, <3>6
  <2>. QED  BY <2>1, <2>2
<1> HIDE DEF last
<1>9. Shape'
  <2>1. Reads'
    BY <1>1 DEF Reads
  <2>2. TypeOK'
    <3>1. /\ reader'.phase \in {"idle", "header", "payload"} /\ reader'.need \in Nat
          /\ Len(reader'.got) <= reader'.need
      BY <1>1
    <3>. QED  BY <1>1, <1>5, <3>1 DEF StreamInv, Shape, TypeOK
  <2>. QED  BY <1>1, <1>7, <1>8, <2>1, <2>2 DEF StreamInv, Shape
<1>10. Latest'
  BY <1>1, <1>7 DEF Latest
<1>11. InOrder'
  <2>1. reader'.head = <<>> /\ reader'.got = <<>>
    BY <1>1
  <2>2. \A l, lengths, unwritten : AllUnderWay(<<>>, l, lengths, unwritten)
    BY DEF AllUnderWay
  <2>3. Ordered(<<>>, <<>>, buffer, queue)
    <3>1. Ordered(reader.head, reader.got, buffer, queue)
      BY DEF StreamInv, InOrder
    <3>. QED  BY <3>1, EmptyPrecedes DEF Ordered
  <2>. QED  BY <1>1, <1>7, <1>8, <2>1, <2>2, <2>3 DEF StreamInv, InOrder
<1>12. ASSUME ~broken', receiverOpen' PROVE NoGap'
  <2>0. NoGap /\ ~broken
    BY <1>1, <1>12 DEF StreamInv
  <2>1. d = LastWhole + 1 /\ LastWhole + 1 <= Len(sizes) /\ LastWhole' = LastWhole + 1
    <3>1. d = LastWhole + 1 /\ d \in LastWhole + 1 .. Len(sizes)
      BY <1>4, <2>0
    <3>2. d # 0 /\ LastWhole + 1 <= Len(sizes)
      BY <1>2, <3>1
    <3>. QED  BY <1>7, <3>1, <3>2 DEF last
  <2>2. Taken = HeaderCells + sizes[LastWhole + 1] /\ sizes[LastWhole + 1] \in Nat
    <3>1. reader.need = sizes[LastWhole + 1]
      BY <1>1, <2>0 DEF NoGap, OnFrame
    <3>2. Len(reader.got) = reader.need
      BY <1>1, <1>2
    <3>. QED  BY <1>1, <1>2, <3>1, <3>2 DEF Taken
  <2>3. Awaited = <<LastWhole + 1 + 1, 1>>
    BY <1>2, <2>1, <2>2 DEF Awaited, At
  <2>4. Taken' = 0
    BY <1>1 DEF Taken
  <2>5. Awaited' = <<LastWhole + 1 + 1, 1>>
    <3>1. PICK n \in Nat : n = LastWhole + 1 + 1
      BY <1>2
    <3>2. n <= Len(sizes) => sizes[n] \in Nat /\ n \in 1 .. Len(sizes)
      BY <1>2, <3>1
    <3>3. ~(n <= Len(sizes) /\ 1 = HeaderCells + sizes[n] + 1)
      BY <1>2, <3>2
    <3>4. Awaited' = At(n, 0 + 1, sizes)
      BY <1>1, <2>1, <2>4, <3>1 DEF Awaited
    <3>5. At(n, 0 + 1, sizes) = <<n, 1>>
      BY <3>3 DEF At
    <3>. QED  BY <3>1, <3>4, <3>5
  <2>6. OnFrame'
    BY <1>1 DEF OnFrame
  <2>. QED  BY <1>1, <2>0, <2>3, <2>5, <2>6, SameAwaited
<1>. QED  BY <1>9, <1>10, <1>11, <1>12 DEF StreamInv
-----------------------------------------------------------------------------
(* Sending.                                                                *)

LEMMA SenderStep ==
  ASSUME StreamInv, TypeOK',
         UNCHANGED <<wholeWrites, queue, buffer, reader, received, receiverOpen>>,
         pending' \in Seq(Byte), payload' \in Seq(Byte),
         \A c : UnderWay(c, LastWhole, sizes, pending) => UnderWay(c, LastWhole, sizes', pending'),
         Writing(LastWhole, sizes', pending', payload'),
         ~senderOpen' => pending' = <<>>,
         LastWhole <= Len(sizes'),
         ~broken' /\ receiverOpen => NoGap'
  PROVE  StreamInv'
<1>1. LastWhole' = LastWhole
  BY SameLatest
<1>2. Reads'
  BY DEF StreamInv, Shape, Reads
<1>3. Shape'
  BY <1>1, <1>2 DEF StreamInv, Shape
<1>4. Latest'
  BY <1>1 DEF StreamInv, Latest
<1>5. InOrder'
  <2>1. \A s : AllUnderWay(s, LastWhole, sizes, pending) => AllUnderWay(s, LastWhole, sizes', pending')
    BY DEF AllUnderWay
  <2>2. Chunks(queue, LastWhole, sizes', pending')
    BY <2>1 DEF StreamInv, InOrder, Chunks
  <2>. QED  BY <1>1, <2>1, <2>2 DEF StreamInv, InOrder
<1>. QED  BY <1>3, <1>4, <1>5 DEF StreamInv

\* The first byte of the write in progress is one of the last frame.
LEMMA WritingFrom ==
  ASSUME StreamInv, pending # <<>>
  PROVE  \E a \in Nat \ {0} :
           /\ pending[1] = <<Len(sizes), a>> /\ a <= HeaderCells + sizes[Len(sizes)]
           /\ Len(sizes) > LastWhole /\ Len(sizes) \in Nat /\ sizes[Len(sizes)] \in Nat
           /\ \/ /\ a <= HeaderCells
                 /\ pending = Cells(Len(sizes), a, HeaderCells)
                 /\ payload = Cells(Len(sizes), HeaderCells + 1, HeaderCells + sizes[Len(sizes)])
              \/ /\ a > HeaderCells
                 /\ pending = Cells(Len(sizes), a, HeaderCells + sizes[Len(sizes)])
                 /\ payload = <<>>
<1>1. LastWhole \in Nat /\ sizes \in Seq(Nat) /\ HeaderCells \in Nat /\ HeaderCells >= 1
  BY Types, HeaderIsSomething DEF StreamInv
<1>2. /\ Len(sizes) > LastWhole
      /\ \E a \in Nat \ {0} :
           \/ /\ a <= HeaderCells
              /\ pending = Cells(Len(sizes), a, HeaderCells)
              /\ payload = Cells(Len(sizes), HeaderCells + 1, HeaderCells + sizes[Len(sizes)])
           \/ /\ a > HeaderCells /\ a <= HeaderCells + sizes[Len(sizes)]
              /\ pending = Cells(Len(sizes), a, HeaderCells + sizes[Len(sizes)])
              /\ payload = <<>>
  BY DEF StreamInv, Shape, Writing
<1>3. PICK n \in Nat : n = Len(sizes)
  BY <1>1
<1>4. PICK z \in Nat : z = sizes[n]
  BY <1>1, <1>2, <1>3
<1>5. PICK a \in Nat \ {0} :
           \/ /\ a <= HeaderCells
              /\ pending = Cells(n, a, HeaderCells)
              /\ payload = Cells(n, HeaderCells + 1, HeaderCells + z)
           \/ /\ a > HeaderCells /\ a <= HeaderCells + z
              /\ pending = Cells(n, a, HeaderCells + z)
              /\ payload = <<>>
  BY <1>2, <1>3, <1>4
<1>6. pending[1] = <<n, a>> /\ a <= HeaderCells + z
  <2>1. CASE a <= HeaderCells /\ pending = Cells(n, a, HeaderCells)
    <3>1. a <= HeaderCells + 1 /\ a <= HeaderCells + z
      BY <1>1, <2>1
    <3>2. a <= HeaderCells + 1
      BY <3>1
    <3>3. Cells(n, a, HeaderCells)[1] = <<n, a>>
      BY <1>1, <2>1, <3>2, NoCells
    <3>. QED  BY <2>1, <3>1, <3>3
  <2>2. CASE a <= HeaderCells + z /\ pending = Cells(n, a, HeaderCells + z)
    <3>1. PICK y \in Nat : y = HeaderCells + z
      BY <1>1
    <3>2. a <= y + 1 /\ a <= y
      BY <2>2, <3>1
    <3>3. Cells(n, a, y)[1] = <<n, a>>
      <4>1. a <= y + 1
        BY <3>2
      <4>. QED  BY <3>2, <4>1, NoCells
    <3>. QED  BY <2>2, <3>1, <3>3
  <2>. QED  BY <1>5, <2>1, <2>2
<1>. QED  BY <1>2, <1>3, <1>4, <1>5, <1>6

\* A frame more or less at the end, when nothing of it is under way, leaves
\* the places of the others.
LEMMA SamePlaces ==
  ASSUME StreamInv, NoGap, NEW m \in Nat, sizes' \in Seq(Nat),
         m <= Len(sizes), m <= Len(sizes'), \A i \in 1 .. m : sizes'[i] = sizes[i],
         UNCHANGED <<queue, buffer, reader, received>>,
         \A c : UnderWay(c, LastWhole, sizes, pending) => c[1] <= m
  PROVE  /\ OnFrame' /\ Awaited' = Awaited /\ AfterQueue' = AfterQueue
         /\ (buffer # <<>> => buffer[1] = Awaited)'
         /\ (queue # <<>> => queue[1][1] = AfterBuffer)'
         /\ (\A k \in 1 .. Len(queue) - 1 : queue[k + 1][1] = After(queue[k], sizes))'
<1>1. /\ LastWhole \in Nat /\ sizes \in Seq(Nat) /\ HeaderCells \in Nat /\ HeaderCells >= 1
      /\ Len(reader.got) \in Nat /\ reader.phase \in {"idle", "header", "payload"}
  BY Types, HeaderIsSomething DEF StreamInv
<1>2. LastWhole' = LastWhole
  BY SameLatest
<1>3. \A i, q \in Nat : i \in 1 .. m \/ (i # 0 /\ q = 1) => At(i, q, sizes') = At(i, q, sizes)
  <2>1. SUFFICES ASSUME NEW i \in Nat, NEW q \in Nat, i \in 1 .. m \/ (i # 0 /\ q = 1)
                 PROVE  At(i, q, sizes') = At(i, q, sizes)
    OBVIOUS
  <2>2. CASE i \in 1 .. m
    <3>1. i <= Len(sizes) /\ i <= Len(sizes')
      BY <1>1, <2>2
    <3>. QED  BY <2>2, <3>1 DEF At
  <2>3. CASE i # 0 /\ q = 1
    <3>1. /\ i <= Len(sizes) => sizes[i] \in Nat
          /\ i <= Len(sizes') => sizes'[i] \in Nat
      BY <1>1, <2>3
    <3>2. At(i, q, sizes) = <<i, q>>
      BY <1>1, <2>3, <3>1 DEF At
    <3>3. At(i, q, sizes') = <<i, q>>
      BY <1>1, <2>3, <3>1 DEF At
    <3>. QED  BY <3>2, <3>3
  <2>. QED  BY <2>1, <2>2, <2>3
<1>4. \A s \in Seq(Byte) : s # <<>> /\ AllUnderWay(s, LastWhole, sizes, pending)
                             => After(s, sizes') = After(s, sizes) /\ LastWhole + 1 <= m
  <2>1. SUFFICES ASSUME NEW s \in Seq(Byte), s # <<>>, AllUnderWay(s, LastWhole, sizes, pending)
                 PROVE  After(s, sizes') = After(s, sizes) /\ LastWhole + 1 <= m
    OBVIOUS
  <2>2. Len(s) \in DOMAIN s
    BY <2>1
  <2>3. PICK c \in Byte : c = s[Len(s)]
    BY <2>2
  <2>4. UnderWay(c, LastWhole, sizes, pending)
    BY <2>1, <2>2, <2>3 DEF AllUnderWay
  <2>5. c[1] \in Nat /\ c[2] \in Nat /\ c[1] > LastWhole /\ c[1] <= m
    BY <2>4 DEF UnderWay, Byte
  <2>8. PICK x \in Nat, y \in Nat : x = c[1] /\ y = c[2] + 1
    BY <2>5
  <2>6. x \in 1 .. m /\ LastWhole + 1 <= m
    BY <1>1, <2>5, <2>8
  <2>7. At(x, y, sizes') = At(x, y, sizes)
    BY <1>3, <2>6
  <2>. QED  BY <2>3, <2>6, <2>7, <2>8 DEF After
<1>5. /\ reader.head \in Seq(Byte) /\ reader.got \in Seq(Byte) /\ buffer \in Seq(Byte)
      /\ queue \in Seq(Seq(Byte))
      /\ AllUnderWay(reader.head, LastWhole, sizes, pending)
      /\ AllUnderWay(reader.got, LastWhole, sizes, pending)
      /\ AllUnderWay(buffer, LastWhole, sizes, pending)
      /\ \A k \in DOMAIN queue : /\ queue[k] \in Seq(Byte) /\ queue[k] # <<>>
                                 /\ AllUnderWay(queue[k], LastWhole, sizes, pending)
  BY DEF StreamInv, Shape, Reads, InOrder, Chunks
<1>6. reader.phase = "payload" => LastWhole + 1 <= m
  <2>1. SUFFICES ASSUME reader.phase = "payload" PROVE LastWhole + 1 <= m
    OBVIOUS
  <2>2. reader.head = Header(LastWhole + 1)
    BY <2>1 DEF NoGap, OnFrame
  <2>3. PICK n \in Nat : n = LastWhole + 1
    BY <1>1
  <2>4. 1 \in DOMAIN Header(n)
    BY HeaderBegins
  <2>5. reader.head # <<>>
    BY <2>2, <2>3, <2>4
  <2>. QED  BY <1>4, <1>5, <2>5
<1>7. Taken \in Nat /\ (Taken = 0 \/ LastWhole + 1 <= m)
  <2>1. CASE reader.phase = "payload"
    BY <1>1, <1>6, <2>1 DEF Taken
  <2>2. CASE reader.phase # "payload"
    <3>1. Taken = Len(reader.got)
      BY <2>2 DEF Taken
    <3>2. reader.got # <<>> => LastWhole + 1 <= m
      BY <1>4, <1>5
    <3>. QED  BY <1>1, <1>5, <3>1, <3>2
  <2>. QED  BY <2>1, <2>2
<1>8. Awaited' = Awaited
  <2>1. PICK n \in Nat : n = LastWhole + 1
    BY <1>1
  <2>2. PICK q \in Nat : q = Taken + 1
    BY <1>7
  <2>3. n \in 1 .. m \/ (n # 0 /\ q = 1)
    BY <1>1, <1>7, <2>1, <2>2
  <2>4. At(n, q, sizes') = At(n, q, sizes)
    BY <1>3, <2>3
  <2>5. Taken' = Taken
    BY DEF Taken
  <2>. QED  BY <1>2, <2>1, <2>2, <2>4, <2>5 DEF Awaited
<1>9. AfterBuffer' = AfterBuffer
  BY <1>4, <1>5, <1>8 DEF AfterBuffer
<1>10. \A k \in DOMAIN queue : After(queue[k], sizes') = After(queue[k], sizes)
  BY <1>4, <1>5
<1>11. AfterQueue' = AfterQueue
  <2>1. queue # <<>> => Len(queue) \in DOMAIN queue
    BY <1>5
  <2>. QED  BY <1>9, <1>10, <2>1 DEF AfterQueue
<1>12. OnFrame'
  <2>1. reader.phase = "payload" => LastWhole + 1 \in 1 .. m /\ LastWhole + 1 <= Len(sizes')
    BY <1>1, <1>6
  <2>. QED  BY <1>2, <2>1 DEF NoGap, OnFrame, Header
<1>13. \A k \in 1 .. Len(queue) - 1 : queue[k + 1][1] = After(queue[k], sizes')
  <2>1. \A k \in 1 .. Len(queue) - 1 : k \in DOMAIN queue
    BY <1>5
  <2>. QED  BY <1>10, <2>1 DEF NoGap
<1>. QED  BY <1>8, <1>9, <1>11, <1>12, <1>13 DEF NoGap

\* send_frame begins.
LEMMA SendFrameKeeps == ASSUME NEW n \in Sizes PROVE StreamInv /\ SendFrame(n) => StreamInv'
<1> SUFFICES ASSUME StreamInv, SendFrame(n) PROVE StreamInv'
  OBVIOUS
<1>1. /\ UNCHANGED <<wholeWrites, queue, buffer, reader, received, receiverOpen>>
      /\ senderOpen' = senderOpen /\ senderOpen /\ broken' = broken /\ pending = <<>> /\ Len(sizes) < MaxFrames
      /\ sizes' = Append(sizes, n)
      /\ pending' = Cells(Len(sizes) + 1, 1, HeaderCells)
      /\ payload' = Cells(Len(sizes) + 1, HeaderCells + 1, HeaderCells + n)
  BY DEF SendFrame, receiver, Header
<1>2. /\ LastWhole \in Nat /\ sizes \in Seq(Nat) /\ HeaderCells \in Nat /\ HeaderCells >= 1
      /\ n \in Nat /\ LastWhole <= Len(sizes) /\ Len(sizes) \in Nat
  BY Types, HeaderIsSomething, StreamConstants DEF StreamInv, Latest
<1>3. PICK m \in Nat : m = Len(sizes)
  BY <1>2
<1>4. /\ sizes' \in Seq(Nat) /\ Len(sizes') = m + 1 /\ sizes'[m + 1] = n
      /\ \A i \in 1 .. m : sizes'[i] = sizes[i]
  BY <1>1, <1>2, <1>3
<1>5. TypeOK'
  <2>1. sizes \in Seq(Sizes)
    BY DEF StreamInv, Shape, TypeOK
  <2>2. sizes' \in Seq(Sizes) /\ Len(sizes') <= MaxFrames
    BY <1>1, <1>2, <1>3, <1>4, <2>1, StreamConstants
  <2>. QED  BY <1>1, <2>2 DEF StreamInv, Shape, TypeOK
<1>6. pending' \in Seq(Byte) /\ payload' \in Seq(Byte) /\ pending' # <<>> /\ pending'[1] = <<m + 1, 1>>
  <2>1. PICK i \in Nat : i = m + 1
    OBVIOUS
  <2>2. 1 \in DOMAIN Header(i) /\ Header(i)[1] = <<i, 1>>
    BY HeaderBegins
  <2>3. Header(i) \in Seq(Byte)
    <3>1. 1 <= HeaderCells + 1 /\ 1 \in Nat \ {0}
      BY <1>2
    <3>. QED  BY <1>2, <3>1, CellsAre DEF Header
  <2>4. PICK a \in Nat \ {0}, b \in Nat : a = HeaderCells + 1 /\ b = HeaderCells + n
    BY <1>2
  <2>5. a <= b + 1
    BY <1>2, <2>4
  <2>6. Cells(i, a, b) \in Seq(Byte)
    BY <2>5, CellsAre
  <2>. QED  BY <1>1, <1>3, <2>1, <2>2, <2>3, <2>4, <2>6 DEF Header
<1>7. ASSUME NEW c, UnderWay(c, LastWhole, sizes, pending)
      PROVE  UnderWay(c, LastWhole, sizes', pending') /\ c[1] <= m
  <2>1. c[1] \in Nat /\ c[1] > LastWhole /\ c[1] <= m
    BY <1>3, <1>7 DEF UnderWay, Byte
  <2>2. c[1] \in 1 .. m /\ c[1] <= m + 1 /\ c[1] < m + 1
    BY <1>2, <2>1
  <2>3. sizes'[c[1]] = sizes[c[1]]
    BY <1>4, <2>2
  <2>4. Before(c, pending'[1])
    BY <1>6, <2>2 DEF Before
  <2>. QED  BY <1>4, <1>7, <2>1, <2>2, <2>3, <2>4 DEF UnderWay
<1>8. Writing(LastWhole, sizes', pending', payload')
  <2>1. m + 1 > LastWhole /\ 1 \in Nat \ {0} /\ 1 <= HeaderCells
    BY <1>2, <1>3
  <2>. QED  BY <1>1, <1>3, <1>4, <1>6, <2>1 DEF Writing
<1>9. ASSUME ~broken', receiverOpen PROVE NoGap'
  <2>1. NoGap
    BY <1>1, <1>9 DEF StreamInv
  <2>2. m <= Len(sizes) /\ m <= Len(sizes')
    BY <1>3, <1>4
  <2>3. /\ OnFrame' /\ AfterQueue' = AfterQueue
        /\ (buffer # <<>> => buffer[1] = Awaited)'
        /\ (queue # <<>> => queue[1][1] = AfterBuffer)'
        /\ (\A k \in 1 .. Len(queue) - 1 : queue[k + 1][1] = After(queue[k], sizes))'
    BY <1>1, <1>4, <1>7, <2>1, <2>2, SamePlaces
  <2>4. AfterQueue = <<m + 1, 1>>
    BY <1>1, <1>3, <2>1 DEF NoGap
  <2>. QED  BY <1>6, <2>3, <2>4 DEF NoGap
<1>10. LastWhole <= Len(sizes')
  BY <1>2, <1>3, <1>4
<1>. QED  BY <1>1, <1>5, <1>6, <1>7, <1>8, <1>9, <1>10, SenderStep

\* Nothing is written to a peer that is gone.
LEMMA WriteFailsKeeps == StreamInv /\ WriteFails => StreamInv'
<1> SUFFICES ASSUME StreamInv, WriteFails PROVE StreamInv'
  OBVIOUS
<1>1. /\ UNCHANGED <<wholeWrites, queue, buffer, reader, received, receiverOpen>>
      /\ senderOpen' = senderOpen /\ sizes' = sizes /\ broken' = broken /\ ~receiverOpen
      /\ pending' = <<>> /\ payload' = <<>>
  BY DEF WriteFails, receiver
<1>2. TypeOK'
  BY <1>1 DEF StreamInv, Shape, TypeOK
<1>3. \A c : UnderWay(c, LastWhole, sizes, pending) => UnderWay(c, LastWhole, sizes', pending')
  BY <1>1 DEF UnderWay
<1>4. Writing(LastWhole, sizes', pending', payload')
  BY <1>1 DEF Writing
<1>5. LastWhole <= Len(sizes')
  BY <1>1 DEF StreamInv, Latest
<1>6. pending' \in Seq(Byte) /\ payload' \in Seq(Byte)
  BY <1>1
<1>. QED  BY <1>1, <1>2, <1>3, <1>4, <1>5, <1>6, SenderStep

\* A call dropped before its first byte takes its frame back.
LEMMA TakesBack ==
  ASSUME StreamInv, Unwritten,
         UNCHANGED <<wholeWrites, queue, buffer, reader, received, receiverOpen, broken>>,
         senderOpen, senderOpen' \in BOOLEAN,
         pending' = <<>>, payload' = <<>>, sizes' = Front(sizes)
  PROVE  StreamInv'
<1>1. /\ LastWhole \in Nat /\ sizes \in Seq(Nat) /\ HeaderCells \in Nat /\ HeaderCells >= 1
      /\ Len(sizes) \in Nat
  BY Types, HeaderIsSomething DEF StreamInv
<1>2. Len(sizes) > LastWhole /\ pending[1] = <<Len(sizes), 1>> /\ pending # <<>>
  <2>1. pending # <<>> /\ pending = Header(Len(sizes))
    BY DEF Unwritten
  <2>2. PICK n \in Nat : n = Len(sizes)
    BY <1>1
  <2>3. Header(n)[1] = <<n, 1>>
    BY HeaderBegins
  <2>4. Len(sizes) > LastWhole
    BY <2>1 DEF StreamInv, Shape, Writing
  <2>. QED  BY <2>1, <2>2, <2>3, <2>4
<1>3. PICK m \in Nat : m + 1 = Len(sizes)
  <2>1. Len(sizes) - 1 \in Nat /\ (Len(sizes) - 1) + 1 = Len(sizes)
    BY <1>1, <1>2
  <2>. QED  BY <2>1
<1>4. /\ sizes' \in Seq(Nat) /\ Len(sizes') = m
      /\ \A i \in 1 .. m : sizes'[i] = sizes[i]
  <2>1. sizes' = SubSeq(sizes, 1, m)
    BY <1>1, <1>3 DEF Front
  <2>2. m <= Len(sizes)
    BY <1>1, <1>3
  <2>. QED  BY <1>1, <2>1, <2>2
<1>5. TypeOK'
  <2>1. sizes \in Seq(Sizes) /\ Len(sizes) <= MaxFrames
    BY DEF StreamInv, Shape, TypeOK
  <2>2. \A i \in 1 .. m : sizes[i] \in Sizes
    <3>1. \A i \in 1 .. m : i \in 1 .. Len(sizes)
      BY <1>1, <1>3
    <3>. QED  BY <2>1, <3>1, ElementOfSeq
  <2>3. sizes' \in Seq(Sizes)
    <3>1. sizes' = [i \in 1 .. m |-> sizes'[i]]
      BY <1>4
    <3>2. \A i \in 1 .. m : sizes'[i] \in Sizes
      BY <1>4, <2>2
    <3>. QED  BY <3>1, <3>2
  <2>4. Len(sizes') <= MaxFrames
    BY <1>1, <1>3, <1>4, <2>1, StreamConstants
  <2>. QED  BY <2>3, <2>4 DEF StreamInv, Shape, TypeOK
<1>6. pending' \in Seq(Byte) /\ payload' \in Seq(Byte)
  OBVIOUS
<1>7. ASSUME NEW c, UnderWay(c, LastWhole, sizes, pending)
      PROVE  UnderWay(c, LastWhole, sizes', pending') /\ c[1] <= m
  <2>1. c[1] \in Nat /\ c[2] \in Nat /\ c[2] >= 1 /\ c[1] > LastWhole /\ Before(c, <<m + 1, 1>>)
    BY <1>2, <1>3, <1>7 DEF UnderWay, Byte
  <2>2. c[1] < m + 1
    BY <2>1 DEF Before
  <2>3. c[1] \in 1 .. m /\ c[1] <= m
    BY <1>1, <2>1, <2>2
  <2>4. sizes'[c[1]] = sizes[c[1]]
    BY <1>4, <2>3
  <2>. QED  BY <1>4, <1>7, <2>3, <2>4 DEF UnderWay
<1>8. Writing(LastWhole, sizes', pending', payload')
  BY DEF Writing
<1>9. ASSUME ~broken', receiverOpen PROVE NoGap'
  <2>1. NoGap
    BY <1>9 DEF StreamInv
  <2>2. m <= Len(sizes) /\ m <= Len(sizes')
    BY <1>1, <1>3, <1>4
  <2>3. /\ OnFrame' /\ AfterQueue' = AfterQueue
        /\ (buffer # <<>> => buffer[1] = Awaited)'
        /\ (queue # <<>> => queue[1][1] = AfterBuffer)'
        /\ (\A k \in 1 .. Len(queue) - 1 : queue[k + 1][1] = After(queue[k], sizes))'
    BY <1>4, <1>7, <2>1, <2>2, SamePlaces
  <2>4. AfterQueue = <<m + 1, 1>>
    BY <1>2, <1>3, <2>1 DEF NoGap
  <2>. QED  BY <1>4, <2>3, <2>4 DEF NoGap
<1>10. LastWhole <= Len(sizes')
  BY <1>1, <1>2, <1>3, <1>4
<1>. QED  BY <1>5, <1>6, <1>7, <1>8, <1>9, <1>10, SenderStep

\* What is out of a frame stays out.
LEMMA CutsShort ==
  ASSUME StreamInv,
         UNCHANGED <<wholeWrites, sizes, queue, buffer, reader, received, receiverOpen>>,
         senderOpen' \in BOOLEAN, broken' \in BOOLEAN, broken \/ broken' = TRUE \/ ~senderOpen',
         ~broken' => ~broken,
         pending' = <<>>, payload' = <<>>
  PROVE  StreamInv'
<1>1. TypeOK'
  BY DEF StreamInv, Shape, TypeOK
<1>2. \A c : UnderWay(c, LastWhole, sizes, pending) => UnderWay(c, LastWhole, sizes', pending')
  BY DEF UnderWay
<1>3. Writing(LastWhole, sizes', pending', payload')
  BY DEF Writing
<1>4. LastWhole <= Len(sizes')
  BY DEF StreamInv, Latest
<1>5. ASSUME ~broken', receiverOpen PROVE NoGap'
  <2>1. NoGap /\ ~senderOpen'
    BY <1>5 DEF StreamInv
  <2>2. LastWhole' = LastWhole
    BY SameLatest
  <2>3. Awaited' = Awaited
    BY <2>2 DEF Awaited, Taken
  <2>4. AfterBuffer' = AfterBuffer
    BY <2>3 DEF AfterBuffer
  <2>5. OnFrame'
    BY <2>1, <2>2 DEF NoGap, OnFrame, Header
  <2>. QED  BY <2>1, <2>3, <2>4, <2>5 DEF NoGap
<1>6. pending' \in Seq(Byte) /\ payload' \in Seq(Byte)
  OBVIOUS
<1>. QED  BY <1>1, <1>2, <1>3, <1>4, <1>5, <1>6, SenderStep

LEMMA CancelSendKeeps == StreamInv /\ CancelSend => StreamInv'
<1> SUFFICES ASSUME StreamInv, CancelSend PROVE StreamInv'
  OBVIOUS
<1>1. /\ UNCHANGED <<wholeWrites, queue, buffer, reader, received, receiverOpen>>
      /\ senderOpen' = senderOpen /\ senderOpen /\ pending' = <<>> /\ payload' = <<>>
      /\ senderOpen' \in BOOLEAN
  BY DEF CancelSend, receiver, StreamInv, Shape, TypeOK
<1>2. CASE Unwritten
  <2>1. sizes' = Front(sizes) /\ broken' = broken
    BY <1>2 DEF CancelSend
  <2>. QED  BY <1>1, <1>2, <2>1, TakesBack
<1>3. CASE ~Unwritten
  <2>1. sizes' = sizes /\ broken' = TRUE
    BY <1>3 DEF CancelSend
  <2>. QED  BY <1>1, <2>1, CutsShort
<1>. QED  BY <1>2, <1>3

LEMMA CloseSenderKeeps == StreamInv /\ CloseSender => StreamInv'
<1> SUFFICES ASSUME StreamInv, CloseSender PROVE StreamInv'
  OBVIOUS
<1>1. /\ UNCHANGED <<wholeWrites, queue, buffer, reader, received, receiverOpen>>
      /\ senderOpen' = FALSE /\ senderOpen /\ pending' = <<>> /\ payload' = <<>>
      /\ broken' = broken /\ broken \in BOOLEAN
      /\ sizes' = IF Unwritten THEN Front(sizes) ELSE sizes
  BY DEF CloseSender, receiver, StreamInv, Shape, TypeOK
<1>2. CASE Unwritten
  BY <1>1, <1>2, TakesBack
<1>3. CASE ~Unwritten
  BY <1>1, <1>3, CutsShort
<1>. QED  BY <1>2, <1>3

LEMMA CellsEnds ==
  \A i \in Nat, a \in Nat \ {0}, b \in Nat :
    a <= b + 1 => /\ Cells(i, a, b) = <<>> <=> a = b + 1
                  /\ a <= b => Cells(i, a, b)[1] = <<i, a>>
BY NoCells

\* A stretch of the frame in progress goes into the transport; the write goes on
\* after it, in the frame.
LEMMA WrittenIs ==
  ASSUME StreamInv, WriteSome
  PROVE  \E a \in Nat \ {0}, e \in Nat :
           /\ a <= e /\ e <= HeaderCells + sizes[Len(sizes)]
           /\ pending[1] = <<Len(sizes), a>>
           /\ WrittenNext = Cells(Len(sizes), a, e)
           /\ ~wholeWrites => e = a
           /\ pending' = <<>> <=> e = HeaderCells + sizes[Len(sizes)]
           /\ pending' # <<>> => pending'[1] = <<Len(sizes), e + 1>>
           /\ pending' \in Seq(Byte) /\ payload' \in Seq(Byte)
           /\ Writing(LastWhole, sizes, pending', payload')
<1>1. PICK a \in Nat \ {0} :
           /\ pending[1] = <<Len(sizes), a>> /\ a <= HeaderCells + sizes[Len(sizes)]
           /\ Len(sizes) > LastWhole /\ Len(sizes) \in Nat /\ sizes[Len(sizes)] \in Nat
           /\ \/ /\ a <= HeaderCells
                 /\ pending = Cells(Len(sizes), a, HeaderCells)
                 /\ payload = Cells(Len(sizes), HeaderCells + 1, HeaderCells + sizes[Len(sizes)])
              \/ /\ a > HeaderCells
                 /\ pending = Cells(Len(sizes), a, HeaderCells + sizes[Len(sizes)])
                 /\ payload = <<>>
  BY WritingFrom DEF WriteSome
<1>2. HeaderCells \in Nat /\ HeaderCells >= 1 /\ wholeWrites \in BOOLEAN
  BY HeaderIsSomething, StreamConstants DEF StreamInv, Shape, TypeOK
<1>3. PICK n \in Nat, z \in Nat : n = Len(sizes) /\ z = HeaderCells + sizes[Len(sizes)]
  BY <1>1, <1>2
<1>4. PICK b \in Nat : /\ a <= b /\ b <= z /\ pending = Cells(n, a, b)
                       /\ \/ b = HeaderCells /\ payload = Cells(n, HeaderCells + 1, z)
                          \/ b = z /\ a > HeaderCells /\ payload = <<>>
  BY <1>1, <1>2, <1>3
<1>5. pending \in Seq(Byte) /\ payload \in Seq(Byte) /\ Len(pending) = b + 1 - a
  <2>1. a <= b + 1
    BY <1>4
  <2>2. Len(Cells(n, a, b)) = b + 1 - a
    BY <2>1, CellsAre
  <2>. QED  BY <1>4, <2>2 DEF StreamInv, Shape
<1>6. PICK e \in Nat : /\ a <= e /\ e <= b /\ WrittenNext = Cells(n, a, e)
                       /\ SubSeq(pending, Len(WrittenNext) + 1, Len(pending)) = Cells(n, e + 1, b)
                       /\ ~wholeWrites => e = a
  <2>1. CASE wholeWrites
    <3>1. WrittenNext = pending
      BY <2>1 DEF WrittenNext
    <3>2. SubSeq(pending, Len(pending) + 1, Len(pending)) = <<>>
      BY <1>5, SubSeqEmpty
    <3>3. Cells(n, b + 1, b) = <<>>
      BY EmptyCells
    <3>4. SubSeq(pending, Len(WrittenNext) + 1, Len(pending)) = <<>>
      BY <3>1, <3>2
    <3>5. SubSeq(pending, Len(WrittenNext) + 1, Len(pending)) = Cells(n, b + 1, b)
      BY <3>3, <3>4
    <3>6. WrittenNext = Cells(n, a, b) /\ a <= b /\ b <= b
      BY <1>4, <3>1
    <3>. QED  BY <2>1, <3>5, <3>6
  <2>2. CASE ~wholeWrites
    <3>1. a <= b
      BY <1>4
    <3>2. /\ SubSeq(Cells(n, a, b), 1, 1) = Cells(n, a, a)
          /\ SubSeq(Cells(n, a, b), 2, b + 1 - a) = Cells(n, a + 1, b)
      BY <3>1, OneCell
    <3>7. a <= a
      OBVIOUS
    <3>8. WrittenNext = Cells(n, a, a) /\ WrittenNext = SubSeq(pending, 1, 1)
      BY <1>4, <2>2, <3>2 DEF WrittenNext
    <3>3. 1 <= Len(pending) /\ Len(pending) \in Nat
      BY <1>4, <1>5
    <3>9. Len(WrittenNext) + 1 = 2
      BY <1>5, <3>3, <3>8
    <3>10. SubSeq(pending, Len(WrittenNext) + 1, Len(pending)) = Cells(n, a + 1, b)
      BY <1>4, <1>5, <3>2, <3>9
    <3>. QED  BY <1>4, <3>7, <3>8, <3>10
  <2>. QED  BY <1>2, <2>1, <2>2
<1>7. /\ pending' = IF Cells(n, e + 1, b) = <<>> THEN payload ELSE Cells(n, e + 1, b)
      /\ payload' = IF Cells(n, e + 1, b) = <<>> THEN <<>> ELSE payload
  <2>1. /\ pending' = NextWrite(Cells(n, e + 1, b))[1]
        /\ payload' = NextWrite(Cells(n, e + 1, b))[2]
    BY <1>6 DEF WriteSome
  <2>. QED  BY <2>1 DEF NextWrite
<1>8. /\ Cells(n, e + 1, b) \in Seq(Byte)
      /\ Cells(n, e + 1, b) = <<>> <=> e = b
      /\ e < b => Cells(n, e + 1, b)[1] = <<n, e + 1>>
  <2>1. PICK d \in Nat \ {0} : d = e + 1
    OBVIOUS
  <2>2. d <= b + 1
    BY <1>6, <2>1
  <2>3. Cells(n, d, b) \in Seq(Byte)
    BY <2>2, CellsAre
  <2>4. (Cells(n, d, b) = <<>> <=> d = b + 1) /\ (d <= b => Cells(n, d, b)[1] = <<n, d>>)
    BY <2>2, CellsEnds, Zenon
  <2>5. (d = b + 1 <=> e = b) /\ (e < b => d <= b)
    BY <1>6, <2>1
  <2>. QED  BY <2>1, <2>3, <2>4, <2>5, Zenon
<1>9. CASE e < b
  <2>1. pending' = Cells(n, e + 1, b) /\ payload' = payload /\ pending' # <<>>
    BY <1>7, <1>8, <1>9
  <2>2. e # z /\ pending'[1] = <<n, e + 1>>
    BY <1>4, <1>8, <1>9, <2>1
  <2>3. Writing(LastWhole, sizes, pending', payload')
    <3>1. PICK d \in Nat \ {0} : d = e + 1
      OBVIOUS
    <3>2. CASE b = HeaderCells /\ payload = Cells(n, HeaderCells + 1, z)
      <4>1. d <= HeaderCells
        BY <1>9, <3>1, <3>2
      <4>. QED  BY <1>1, <1>3, <2>1, <3>1, <3>2, <4>1 DEF Writing
    <3>3. CASE b = z /\ a > HeaderCells /\ payload = <<>>
      <4>1. d > HeaderCells /\ d <= z
        BY <1>2, <1>6, <1>9, <3>1, <3>3
      <4>. QED  BY <1>1, <1>3, <2>1, <3>1, <3>3, <4>1 DEF Writing
    <3>. QED  BY <1>4, <3>2, <3>3
  <2>4. e <= z
    BY <1>4, <1>9
  <2>. QED  BY <1>1, <1>3, <1>5, <1>6, <1>8, <2>1, <2>2, <2>3, <2>4
<1>10. CASE e = b
  <2>1. pending' = payload /\ payload' = <<>>
    BY <1>7, <1>8, <1>10
  <2>2. CASE b = HeaderCells /\ payload = Cells(n, HeaderCells + 1, z)
    <3>1. PICK d \in Nat \ {0} : d = HeaderCells + 1
      BY <1>2
    <3>2. d <= z + 1
      BY <1>2, <1>4, <2>2, <3>1
    <3>3. (Cells(n, d, z) = <<>> <=> d = z + 1) /\ (d <= z => Cells(n, d, z)[1] = <<n, d>>)
      BY <3>2, CellsEnds, Zenon
    <3>4. (pending' = <<>> <=> e = z) /\ (pending' # <<>> => pending'[1] = <<n, e + 1>> /\ d <= z)
      BY <1>2, <1>4, <1>10, <2>1, <2>2, <3>1, <3>2, <3>3
    <3>5. Writing(LastWhole, sizes, pending', payload')
      <4>1. d > HeaderCells
        BY <1>2, <3>1
      <4>2. pending' # <<>> => d <= HeaderCells + sizes[Len(sizes)]
                               /\ pending' = Cells(Len(sizes), d, HeaderCells + sizes[Len(sizes)])
        BY <1>3, <2>1, <2>2, <3>1, <3>4
      <4>3. CASE pending' = <<>>
        BY <2>1, <4>3 DEF Writing
      <4>4. CASE pending' # <<>>
        BY <1>1, <2>1, <4>1, <4>2, <4>4 DEF Writing
      <4>. QED  BY <4>3, <4>4
    <3>6. e <= z /\ payload' \in Seq(Byte) /\ pending' \in Seq(Byte)
      BY <1>4, <1>5, <1>10, <2>1
    <3>7. /\ a <= e /\ WrittenNext = Cells(n, a, e) /\ (~wholeWrites => e = a)
          /\ pending[1] = <<n, a>>
      BY <1>1, <1>3, <1>6
    <3>. QED  BY <1>3, <3>4, <3>5, <3>6, <3>7
  <2>3. CASE b = z /\ payload = <<>>
    <3>1. Writing(LastWhole, sizes, pending', payload')
      BY <2>1, <2>3 DEF Writing
    <3>. QED  BY <1>1, <1>3, <1>4, <1>5, <1>6, <1>10, <2>1, <2>3, <3>1
  <2>. QED  BY <1>4, <2>2, <2>3
<1>11. e < b \/ e = b
  BY <1>6
<1>. QED  BY <1>9, <1>10, <1>11

\* The bytes that go into the transport come after all that are under way.
LEMMA WriteSomeKeeps == StreamInv /\ WriteSome => StreamInv'
<1> SUFFICES ASSUME StreamInv, WriteSome PROVE StreamInv'
  OBVIOUS
<1>1. /\ UNCHANGED <<wholeWrites, sizes, senderOpen, buffer, reader, received, receiverOpen, broken>>
      /\ receiverOpen /\ Len(queue) < Capacity /\ pending # <<>>
      /\ queue' = Append(queue, WrittenNext)
  BY DEF WriteSome, receiver, HasRoom
<1>2. /\ LastWhole \in Nat /\ sizes \in Seq(Nat) /\ HeaderCells \in Nat /\ HeaderCells >= 1
      /\ Len(sizes) \in Nat /\ LastWhole' = LastWhole
  BY <1>1, Types, HeaderIsSomething, SameLatest DEF StreamInv
<1>3. PICK a \in Nat \ {0}, e \in Nat :
           /\ a <= e /\ e <= HeaderCells + sizes[Len(sizes)]
           /\ pending[1] = <<Len(sizes), a>>
           /\ WrittenNext = Cells(Len(sizes), a, e)
           /\ ~wholeWrites => e = a
           /\ pending' = <<>> <=> e = HeaderCells + sizes[Len(sizes)]
           /\ pending' # <<>> => pending'[1] = <<Len(sizes), e + 1>>
           /\ pending' \in Seq(Byte) /\ payload' \in Seq(Byte)
           /\ Writing(LastWhole, sizes, pending', payload')
  BY WrittenIs
<1>4. PICK n \in Nat : n = Len(sizes)
  BY <1>2
<1>5. n > LastWhole /\ n \in 1 .. Len(sizes) /\ sizes[n] \in Nat
  <2>1. n > LastWhole
    BY <1>1, <1>4 DEF StreamInv, Shape, Writing
  <2>. QED  BY <1>2, <1>4, <2>1
<1>6. PICK w \in Seq(Byte) : w = WrittenNext /\ w = Cells(n, a, e)
                             /\ Len(w) = e + 1 - a /\ \A k \in 1 .. e + 1 - a : w[k] = <<n, a + k - 1>>
                             /\ DOMAIN w = 1 .. e + 1 - a
  <2>1. a <= e + 1
    BY <1>3
  <2>2. /\ DOMAIN Cells(n, a, e) = 1 .. e + 1 - a
        /\ Cells(n, a, e) \in Seq(Byte) /\ Len(Cells(n, a, e)) = e + 1 - a
        /\ \A k \in 1 .. e + 1 - a : Cells(n, a, e)[k] = <<n, a + k - 1>>
    BY <2>1, CellsAre
  <2>. QED  BY <1>3, <1>4, <2>2
<1>7. w # <<>> /\ Run(w) /\ w[1] = <<n, a>> /\ w[Len(w)] = <<n, e>> /\ (~wholeWrites => Len(w) = 1)
  <2>1. Len(w) \in 1 .. e + 1 - a /\ 1 \in 1 .. e + 1 - a /\ a + Len(w) - 1 = e /\ a + 1 - 1 = a
    BY <1>3, <1>6
  <2>2. w[1] = <<n, a + 1 - 1>> /\ w[Len(w)] = <<n, a + Len(w) - 1>>
    BY <1>6, <2>1
  <2>3. a <= e + 1
    BY <1>3
  <2>4. Run(w)
    BY <1>6, <2>3 DEF Run
  <2>5. ~wholeWrites => Len(w) = 1
    BY <1>3, <1>6
  <2>. QED  BY <2>1, <2>2, <2>4, <2>5
<1>8. AllUnderWay(w, LastWhole, sizes, pending')
  <2>1. SUFFICES ASSUME NEW k \in DOMAIN w PROVE UnderWay(w[k], LastWhole, sizes, pending')
    BY DEF AllUnderWay
  <2>7. k \in 1 .. e + 1 - a
    BY <1>6
  <2>2. w[k] = <<n, a + k - 1>>
    BY <1>6, <2>7
  <2>3. PICK p \in Nat : p = a + k - 1 /\ p >= 1 /\ p <= e
    BY <2>7
  <2>4. p <= HeaderCells + sizes[n]
    BY <1>2, <1>3, <1>4, <1>5, <2>3
  <2>5. pending' # <<>> => Before(<<n, p>>, pending'[1])
    <3>1. p < e + 1
      BY <2>3
    <3>. QED  BY <1>3, <1>4, <3>1 DEF Before
  <2>6. n > LastWhole /\ n <= Len(sizes) /\ <<n, p>> \in Byte /\ w[k] = <<n, p>>
    BY <1>2, <1>5, <2>2, <2>3 DEF Byte
  <2>. QED  BY <2>3, <2>4, <2>5, <2>6 DEF UnderWay
<1>9. ASSUME NEW c, UnderWay(c, LastWhole, sizes, pending)
      PROVE  UnderWay(c, LastWhole, sizes, pending') /\ \A k \in DOMAIN w : Before(c, w[k])
  <2>1. c \in Byte /\ Before(c, <<n, a>>)
    BY <1>1, <1>3, <1>4, <1>9 DEF UnderWay
  <2>2. c[1] < n \/ (c[1] = n /\ c[2] < a)
    BY <2>1 DEF Before
  <2>3. c[1] \in Nat /\ c[2] \in Nat
    BY <2>1 DEF Byte
  <2>4. \A p \in Nat : a <= p => Before(c, <<n, p>>)
    BY <2>2, <2>3 DEF Before
  <2>5. pending' # <<>> => Before(c, pending'[1])
    <3>1. e + 1 \in Nat /\ a <= e + 1
      BY <1>3
    <3>. QED  BY <1>3, <1>4, <2>4, <3>1
  <2>6. ASSUME NEW k \in DOMAIN w PROVE Before(c, w[k])
    <3>3. k \in 1 .. e + 1 - a
      BY <1>6
    <3>1. k \in 1 .. e + 1 - a /\ w[k] = <<n, a + k - 1>>
      BY <1>6, <3>3
    <3>2. a + k - 1 \in Nat /\ a <= a + k - 1
      BY <3>1
    <3>. QED  BY <2>4, <3>1, <3>2
  <2>. QED  BY <1>9, <2>5, <2>6 DEF UnderWay
<1>10. /\ queue \in Seq(Seq(Byte)) /\ Len(queue) \in Nat /\ queue' \in Seq(Seq(Byte))
       /\ Len(queue') = Len(queue) + 1 /\ queue'[Len(queue) + 1] = w
       /\ \A k \in 1 .. Len(queue) : queue'[k] = queue[k]
       /\ DOMAIN queue = 1 .. Len(queue) /\ DOMAIN queue' = 1 .. Len(queue) + 1
       /\ queue' # <<>>
  <2>1. queue \in Seq(Seq(Byte)) /\ queue' = Append(queue, w)
    BY <1>1, <1>6 DEF StreamInv, Shape
  <2>2. /\ queue' \in Seq(Seq(Byte)) /\ Len(queue') = Len(queue) + 1
        /\ \A k \in 1 .. Len(queue) : queue'[k] = queue[k]
        /\ queue'[Len(queue) + 1] = w
    BY <2>1, AppendProperties
  <2>3. Len(queue) \in Nat /\ DOMAIN queue = 1 .. Len(queue) /\ DOMAIN queue' = 1 .. Len(queue')
    BY <2>1, <2>2
  <2>. QED  BY <2>1, <2>2, <2>3
<1>11. \A k \in DOMAIN queue' : (k \in DOMAIN queue /\ queue'[k] = queue[k])
                                \/ (k = Len(queue) + 1 /\ queue'[k] = w)
  BY <1>10
<1>12. Shape'
  <2>1. Reads'
    BY <1>1 DEF StreamInv, Shape, Reads
  <2>2. Len(queue') <= Capacity
    BY <1>1, <1>10, StreamConstants
  <2>3. TypeOK'
    BY <1>1, <2>2 DEF StreamInv, Shape, TypeOK
  <2>4. ~wholeWrites => \A k \in DOMAIN queue' : Len(queue'[k]) = 1
    BY <1>7, <1>11 DEF StreamInv, Shape
  <2>5. ~senderOpen => pending = <<>>
    BY DEF StreamInv, Shape
  <2>. QED  BY <1>1, <1>2, <1>3, <1>10, <2>1, <2>3, <2>4, <2>5 DEF StreamInv, Shape
<1>13. Latest'
  BY <1>1, <1>2 DEF StreamInv, Latest
<1>14. InOrder'
  <2>1. \A s : AllUnderWay(s, LastWhole, sizes, pending)
                 => AllUnderWay(s, LastWhole, sizes, pending') /\ Precedes(s, w)
    BY <1>9 DEF AllUnderWay, Precedes
  <2>2. Chunks(queue', LastWhole, sizes, pending')
    BY <1>7, <1>8, <1>11, <2>1 DEF StreamInv, InOrder, Chunks
  <2>3. Ordered(reader.head, reader.got, buffer, queue')
    <3>1. Ordered(reader.head, reader.got, buffer, queue)
      BY DEF StreamInv, InOrder
    <3>2. /\ Precedes(reader.head, w) /\ Precedes(reader.got, w) /\ Precedes(buffer, w)
          /\ \A k \in DOMAIN queue : Precedes(queue[k], w)
      BY <2>1 DEF StreamInv, InOrder, Chunks
    <3>3. \A k \in DOMAIN queue' : /\ Precedes(reader.head, queue'[k]) /\ Precedes(reader.got, queue'[k])
                                   /\ Precedes(buffer, queue'[k])
      BY <1>11, <3>1, <3>2 DEF Ordered
    <3>4. ASSUME NEW k \in DOMAIN queue', NEW l \in DOMAIN queue', k < l
          PROVE  Precedes(queue'[k], queue'[l])
      <4>1. k \in DOMAIN queue /\ queue'[k] = queue[k]
        BY <1>10, <3>4
      <4>2. CASE l \in DOMAIN queue /\ queue'[l] = queue[l]
        BY <3>1, <3>4, <4>1, <4>2 DEF Ordered
      <4>3. CASE queue'[l] = w
        BY <3>2, <4>1, <4>3
      <4>. QED  BY <1>11, <4>2, <4>3
    <3>. QED  BY <3>1, <3>3, <3>4 DEF Ordered
  <2>. QED  BY <1>1, <1>2, <2>1, <2>2, <2>3 DEF StreamInv, InOrder
<1>15. ASSUME ~broken', receiverOpen' PROVE NoGap'
  <2>1. NoGap
    BY <1>1, <1>15 DEF StreamInv
  <2>2. Awaited' = Awaited /\ OnFrame'
    BY <1>1, <1>2, <2>1 DEF Awaited, Taken, NoGap, OnFrame, Header
  <2>3. AfterBuffer' = AfterBuffer
    BY <1>1, <2>2 DEF AfterBuffer
  <2>4. AfterQueue = w[1]
    <3>1. senderOpen
      BY <1>1 DEF StreamInv, Shape
    <3>. QED  BY <1>1, <1>3, <1>4, <1>7, <2>1, <3>1 DEF NoGap
  <2>5. queue'[1][1] = AfterBuffer
    <3>1. CASE queue = <<>>
      <4>1. queue'[1] = w
        BY <1>10, <3>1
      <4>. QED  BY <2>4, <3>1, <4>1 DEF AfterQueue
    <3>2. CASE queue # <<>>
      <4>1. queue'[1] = queue[1]
        BY <1>10, <3>2
      <4>. QED  BY <2>1, <3>2, <4>1 DEF NoGap
    <3>. QED  BY <3>1, <3>2
  <2>6. ASSUME NEW k \in 1 .. Len(queue') - 1
        PROVE  queue'[k + 1][1] = After(queue'[k], sizes')
    <3>1. k \in 1 .. Len(queue) /\ queue'[k] = queue[k]
      BY <1>10
    <3>2. CASE k = Len(queue)
      <4>1. queue # <<>> /\ queue'[k + 1] = w
        BY <1>10, <3>1, <3>2
      <4>. QED  BY <1>1, <2>4, <3>1, <3>2, <4>1 DEF AfterQueue
    <3>3. CASE k # Len(queue)
      <4>1. k \in 1 .. Len(queue) - 1 /\ k + 1 \in 1 .. Len(queue)
        <5>1. k \in 1 .. Len(queue) /\ Len(queue) \in Nat
          BY <1>10, <3>1
        <5>. QED  BY <3>3, <5>1
      <4>2. queue'[k + 1] = queue[k + 1]
        BY <1>10, <4>1
      <4>. QED  BY <1>1, <2>1, <3>1, <4>1, <4>2 DEF NoGap
    <3>. QED  BY <3>2, <3>3
  <2>7. AfterQueue' = At(n, e + 1, sizes)
    <3>1. queue'[Len(queue')] = w
      BY <1>10
    <3>. QED  BY <1>1, <1>7, <1>10, <3>1 DEF AfterQueue, After
  <2>8. AfterQueue' = IF pending' = <<>> THEN <<Len(sizes) + 1, 1>> ELSE pending'[1]
    <3>1. PICK z \in Nat : z = HeaderCells + sizes[n]
      BY <1>2, <1>5
    <3>2. CASE e = z
      <4>1. pending' = <<>> /\ e + 1 = HeaderCells + sizes[n] + 1 /\ n <= Len(sizes)
        BY <1>3, <1>4, <1>5, <3>1, <3>2
      <4>. QED  BY <1>4, <2>7, <4>1 DEF At
    <3>3. CASE e # z
      <4>1. pending' # <<>> /\ pending'[1] = <<n, e + 1>>
        BY <1>3, <1>4, <3>1, <3>3
      <4>2. e + 1 # HeaderCells + sizes[n] + 1
        BY <1>2, <1>5, <3>1, <3>3
      <4>. QED  BY <2>7, <4>1, <4>2 DEF At
    <3>. QED  BY <3>2, <3>3
  <2>. QED  BY <1>1, <2>1, <2>2, <2>3, <2>5, <2>6, <2>8 DEF NoGap
<1>. QED  BY <1>12, <1>13, <1>14, <1>15 DEF StreamInv
-----------------------------------------------------------------------------
(* All of it.                                                              *)

LEMMA InitHolds == Init => StreamInv
<1> SUFFICES ASSUME Init PROVE StreamInv
  OBVIOUS
<1>1. /\ sizes = <<>> /\ pending = <<>> /\ payload = <<>> /\ queue = <<>> /\ buffer = <<>>
      /\ received = <<>> /\ senderOpen = TRUE /\ receiverOpen = TRUE /\ broken = FALSE
      /\ wholeWrites \in Transports
      /\ reader = Idle /\ reader = [phase |-> "idle", head |-> <<>>, got |-> <<>>, need |-> 0]
  BY DEF Init, Idle
<1>2. LastWhole = 0 /\ Highest(0, received)
  <2>1. Highest(0, <<>>)
    BY DEF Highest, ToSet, Mixed
  <2>2. <<>> \in Seq(Nat)
    OBVIOUS
  <2>3. Max(ToSet(<<>>) \cup {Mixed}) = 0
    BY <2>1, <2>2, LatestIs
  <2>. QED  BY <1>1, <2>1, <2>3 DEF LastWhole
<1>3. Shape
  <2>1. Reads
    BY <1>1 DEF Reads
  <2>2. /\ reader.phase \in {"idle", "header", "payload"} /\ reader.need \in Nat
        /\ Len(reader.got) <= reader.need
    BY <1>1
  <2>3. Len(queue) <= Capacity /\ Len(sizes) <= MaxFrames
    BY <1>1, StreamConstants
  <2>4. sizes \in Seq(Sizes) /\ received \in Seq(0 .. MaxFrames)
    BY <1>1
  <2>5. TypeOK
    BY <1>1, <2>2, <2>3, <2>4 DEF TypeOK
  <2>6. Writing(LastWhole, sizes, pending, payload)
    BY <1>1 DEF Writing
  <2>7. queue \in Seq(Seq(Byte)) /\ buffer \in Seq(Byte) /\ DOMAIN queue = {}
    BY <1>1
  <2>. QED  BY <1>1, <2>1, <2>5, <2>6, <2>7 DEF Shape
<1>4. Latest
  BY <1>1, <1>2 DEF Latest
<1>5. InOrder
  <2>1. reader.head = <<>> /\ reader.got = <<>>
    BY <1>1
  <2>2. \A last, lengths, unwritten : AllUnderWay(<<>>, last, lengths, unwritten)
                                      /\ Chunks(<<>>, last, lengths, unwritten)
    BY DEF AllUnderWay, Chunks
  <2>3. Run(<<>>)
    <3>1. Cells(0, 0 + 1, 0) = <<>>
      BY EmptyCells
    <3>. QED  BY <3>1 DEF Run
  <2>4. Ordered(<<>>, <<>>, <<>>, <<>>)
    BY DEF Ordered, Precedes
  <2>. QED  BY <1>1, <2>1, <2>2, <2>3, <2>4 DEF InOrder
<1>6. NoGap
  <2>1. Taken = 0 /\ Len(sizes) = 0
    BY <1>1 DEF Taken
  <2>2. Awaited = <<1, 1>>
    BY <1>2, <2>1 DEF Awaited, At
  <2>3. OnFrame
    BY <1>1 DEF OnFrame
  <2>4. AfterQueue = <<Len(sizes) + 1, 1>>
    BY <1>1, <2>1, <2>2 DEF AfterQueue, AfterBuffer
  <2>5. 1 .. Len(queue) - 1 = {}
    BY <1>1
  <2>. QED  BY <1>1, <2>3, <2>4, <2>5 DEF NoGap
<1>. QED  BY <1>3, <1>4, <1>5, <1>6 DEF StreamInv

LEMMA StutterKeeps == StreamInv /\ UNCHANGED vars => StreamInv'
<1> SUFFICES ASSUME StreamInv, UNCHANGED vars PROVE StreamInv'
  OBVIOUS
<1>1. UNCHANGED <<wholeWrites, sizes, pending, payload, senderOpen, queue, buffer, reader,
                  received, receiverOpen, broken>>
  BY DEF vars, sender, receiver
<1>2. LastWhole' = LastWhole
  BY <1>1, SameLatest
<1>3. Shape'
  BY <1>1, <1>2 DEF StreamInv, Shape, TypeOK, Reads
<1>4. Latest' /\ InOrder'
  BY <1>1, <1>2 DEF StreamInv, Latest, InOrder
<1>5. Awaited' = Awaited
  BY <1>1, <1>2 DEF Awaited, Taken
<1>6. NoGap => NoGap'
  <2>1. OnFrame => OnFrame'
    BY <1>1, <1>2 DEF OnFrame, Header
  <2>. QED  BY <1>1, <1>5, <2>1, SameAwaited DEF NoGap
<1>. QED  BY <1>1, <1>3, <1>4, <1>6 DEF StreamInv

LEMMA StreamInvHolds == Spec => []StreamInv
<1>1. StreamInv /\ [Next]_vars => StreamInv'
  <2> SUFFICES ASSUME StreamInv, [Next]_vars PROVE StreamInv'
    OBVIOUS
  <2>1. ASSUME NEW n \in Sizes, SendFrame(n) PROVE StreamInv'
    BY <2>1, SendFrameKeeps
  <2>2. ASSUME WriteSome \/ WriteFails \/ CancelSend \/ CloseSender \/ Reset PROVE StreamInv'
    BY <2>2, WriteSomeKeeps, WriteFailsKeeps, CancelSendKeeps, CloseSenderKeeps, ResetKeeps
  <2>3. ASSUME RecvFrame \/ ReadSome \/ ReadEof \/ ReadHeader PROVE StreamInv'
    BY <2>3, RecvFrameKeeps, ReadSomeKeeps, ReadEofKeeps, ReadHeaderKeeps
  <2>4. ASSUME Decode \/ DecodeFails \/ CancelRecv \/ CloseReceiver PROVE StreamInv'
    BY <2>4, DecodeKeeps, DecodeFailsKeeps, CancelRecvKeeps, CloseReceiverKeeps
  <2>5. CASE UNCHANGED vars
    BY <2>5, StutterKeeps
  <2>. QED  BY <2>1, <2>2, <2>3, <2>4, <2>5 DEF Next
<1>. QED  BY InitHolds, <1>1, PTL DEF Spec
-----------------------------------------------------------------------------
(* The abstract stream.                                                    *)

\* A frame of which nothing is written is the last one, and only its header
\* is being written.
LEMMA UnwrittenIs ==
  ASSUME StreamInv, Unwritten
  PROVE  /\ pending # <<>> /\ pending[1] = <<Len(sizes), 1>> /\ Len(sizes) \in Nat /\ Len(sizes) >= 1
         /\ sizes[Len(sizes)] \in Sizes
         /\ sizes = Append(Front(sizes), sizes[Len(sizes)])
<1>1. LastWhole \in Nat /\ Len(sizes) \in Nat /\ sizes \in Seq(Sizes)
  BY Types DEF StreamInv, Shape, TypeOK
<1>2. pending # <<>> /\ pending = Header(Len(sizes))
  BY DEF Unwritten
<1>3. PICK n \in Nat : n = Len(sizes)
  BY <1>1
<1>4. Header(n)[1] = <<n, 1>>
  BY HeaderBegins
<1>5. Len(sizes) > LastWhole
  BY <1>2 DEF StreamInv, Shape, Writing
<1>6. n >= 1 /\ n \in 1 .. Len(sizes)
  BY <1>1, <1>3, <1>5
<1>7. sizes[n] \in Sizes
  BY <1>1, <1>6, ElementOfSeq
<1>8. sizes = Append(Front(sizes), sizes[n])
  <2>1. PICK m \in Nat : m + 1 = n
    <3>1. n - 1 \in Nat /\ (n - 1) + 1 = n
      BY <1>6
    <3>. QED  BY <3>1
  <2>2. Front(sizes) = SubSeq(sizes, 1, m)
    BY <1>3, <2>1 DEF Front
  <2>3. \A i \in 1 .. m : sizes[i] \in Sizes
    <3>1. \A i \in 1 .. m : i \in 1 .. Len(sizes)
      BY <1>3, <2>1
    <3>. QED  BY <1>1, <3>1, ElementOfSeq
  <2>4. SubSeq(sizes, 1, m) \in Seq(Sizes) /\ Len(SubSeq(sizes, 1, m)) = m
        /\ \A i \in 1 .. m : SubSeq(sizes, 1, m)[i] = sizes[i]
    <3>1. m <= Len(sizes)
      BY <1>3, <2>1
    <3>. QED  BY <1>1, <2>3, <3>1
  <2> DEFINE f == Append(SubSeq(sizes, 1, m), sizes[n])
  <2>5. f \in Seq(Sizes) /\ Len(f) = n /\ f[n] = sizes[n] /\ \A i \in 1 .. m : f[i] = sizes[i]
    <3>1. /\ f \in Seq(Sizes) /\ Len(f) = m + 1
          /\ \A i \in 1 .. m : f[i] = SubSeq(sizes, 1, m)[i]
          /\ f[m + 1] = sizes[n]
      BY <1>7, <2>4, AppendProperties
    <3> HIDE DEF f
    <3>. QED  BY <2>1, <2>4, <3>1
  <2> HIDE DEF f
  <2>6. \A i \in 1 .. n : f[i] = sizes[i]
    <3>1. \A i \in 1 .. n : i = n \/ i \in 1 .. m
      BY <2>1
    <3>. QED  BY <2>5, <3>1
  <2>7. f = sizes
    <3>1. f = [i \in 1 .. n |-> f[i]] /\ sizes = [i \in 1 .. n |-> sizes[i]]
      BY <1>1, <1>3, <2>5
    <3>. QED  BY <2>6, <3>1
  <2>. QED  BY <2>2, <2>7 DEF f
<1>. QED  BY <1>2, <1>3, <1>4, <1>6, <1>7, <1>8

LEMMA SameBegun ==
  ASSUME sizes' = sizes, pending' = pending
  PROVE  Begun' = Begun
BY DEF Begun, Unwritten, Header

\* A write puts its frame in with the first byte; and a write that fails before
\* it, too.
LEMMA Puts ==
  ASSUME StreamInv, sizes' = sizes, ~Unwritten', UNCHANGED <<received, broken>>
  PROVE  Fifo!Put \/ UNCHANGED Fifo!fifoVars
<1>1. LastWhole' = LastWhole
  BY SameLatest
<1>2. Begun' = sizes
  BY DEF Begun
<1>3. CASE Unwritten
  <2>1. Begun = Front(sizes)
    BY <1>3 DEF Begun
  <2>2. sizes = Append(Front(sizes), sizes[Len(sizes)]) /\ sizes[Len(sizes)] \in Sizes
    BY <1>3, UnwrittenIs
  <2>. QED  BY <1>1, <1>2, <2>1, <2>2 DEF Fifo!Put
<1>4. CASE ~Unwritten
  BY <1>1, <1>2, <1>4 DEF Begun, Fifo!fifoVars
<1>. QED  BY <1>3, <1>4

LEMMA StepIsFifoStep ==
  ASSUME StreamInv, [Next]_vars
  PROVE  [Fifo!FifoNext]_(Fifo!fifoVars)
<1> DEFINE Goal == Fifo!FifoNext \/ UNCHANGED Fifo!fifoVars
<1>0. SUFFICES Goal
  OBVIOUS
<1>1. ASSUME NEW n \in Sizes, SendFrame(n) PROVE Goal
  <2>1. pending = <<>> /\ sizes' = Append(sizes, n) /\ received' = received /\ broken' = broken
        /\ pending' = Header(Len(sizes) + 1)
    BY <1>1 DEF SendFrame, receiver
  <2>2. Begun = sizes
    BY <2>1 DEF Begun, Unwritten
  <2>3. sizes \in Seq(Sizes) /\ Len(sizes) \in Nat
    BY DEF StreamInv, Shape, TypeOK
  <2>4. sizes' \in Seq(Sizes) /\ Len(sizes') = Len(sizes) + 1 /\ SubSeq(sizes', 1, Len(sizes)) = sizes
    BY <2>1, <2>3
  <2>5. Unwritten'
    <3>1. PICK m \in Nat : m = Len(sizes) + 1
      BY <2>3
    <3>2. 1 \in DOMAIN Header(m)
      BY HeaderBegins
    <3>3. Header(m) # <<>>
      BY <3>2
    <3>. QED  BY <2>1, <2>4, <3>1, <3>3 DEF Unwritten, Header
  <2>6. Begun' = sizes
    <3>1. Begun' = Front(sizes')
      BY <2>5 DEF Begun
    <3>2. Len(sizes') - 1 = Len(sizes)
      BY <2>3, <2>4
    <3>. QED  BY <2>4, <3>1, <3>2 DEF Front
  <2>7. LastWhole' = LastWhole
    BY <2>1, SameLatest
  <2>. QED  BY <2>1, <2>2, <2>6, <2>7 DEF Fifo!fifoVars
<1>2. ASSUME WriteSome PROVE Goal
  <2>1. sizes' = sizes /\ received' = received /\ broken' = broken
    BY <1>2 DEF WriteSome, receiver
  <2>2. PICK a \in Nat \ {0}, e \in Nat :
          a <= e /\ (pending' # <<>> => pending'[1] = <<Len(sizes), e + 1>>)
    BY <1>2, WrittenIs
  <2>3. ~Unwritten'
    <3>1. PICK n \in Nat : n = Len(sizes)
      BY DEF StreamInv, Shape, TypeOK
    <3>2. Header(n)[1] = <<n, 1>>
      BY HeaderBegins
    <3>3. e + 1 # 1
      BY <2>2
    <3>. QED  BY <2>1, <2>2, <3>1, <3>2, <3>3 DEF Unwritten, Header
  <2>. QED  BY <2>1, <2>3, Puts DEF Fifo!FifoNext
<1>3. ASSUME WriteFails PROVE Goal
  <2>1. sizes' = sizes /\ received' = received /\ broken' = broken /\ pending' = <<>>
    BY <1>3 DEF WriteFails, receiver
  <2>2. ~Unwritten'
    BY <2>1 DEF Unwritten
  <2>. QED  BY <2>1, <2>2, Puts DEF Fifo!FifoNext
<1>4. ASSUME CancelSend \/ CloseSender PROVE Goal
  <2>1. received' = received /\ pending' = <<>>
    BY <1>4 DEF CancelSend, CloseSender, receiver
  <2>2. LastWhole' = LastWhole /\ Begun' = sizes'
    BY <2>1, SameLatest DEF Begun, Unwritten
  <2>3. sizes' = Begun
    BY <1>4 DEF CancelSend, CloseSender, Begun
  <2>4. broken' = broken \/ broken' = TRUE
    BY <1>4 DEF CancelSend, CloseSender
  <2>. QED  BY <2>1, <2>2, <2>3, <2>4 DEF Fifo!FifoNext, Fifo!Break, Fifo!fifoVars
<1>5. ASSUME Reset \/ RecvFrame \/ ReadSome \/ ReadEof \/ ReadHeader \/ DecodeFails \/ CancelRecv
             \/ CloseReceiver \/ UNCHANGED vars
      PROVE  Goal
  <2>1. received' = received /\ sizes' = sizes /\ pending' = pending
    BY <1>5 DEF Reset, RecvFrame, ReadSome, ReadEof, ReadHeader, DecodeFails, CancelRecv, CloseReceiver,
                sender, receiver, vars
  <2>2. LastWhole' = LastWhole /\ Begun' = Begun
    BY <2>1, SameLatest, SameBegun
  <2>3. broken \in BOOLEAN
    BY DEF StreamInv, Shape, TypeOK
  <2>4. broken' = broken \/ broken' = TRUE
    <3>1. CASE Reset \/ RecvFrame \/ ReadSome \/ ReadEof \/ DecodeFails \/ CloseReceiver \/ UNCHANGED vars
      BY <3>1 DEF Reset, RecvFrame, ReadSome, ReadEof, DecodeFails, CloseReceiver, vars
    <3>2. CASE ReadHeader
      <4>1. PICK length : broken' = (broken \/ length > Limit)
        BY <3>2 DEF ReadHeader
      <4>. QED  BY <2>3, <4>1
    <3>3. CASE CancelRecv
      <4>1. broken' = (broken \/ ~ReadNothing)
        BY <3>3 DEF CancelRecv
      <4>. QED  BY <2>3, <4>1
    <3>. QED  BY <1>5, <3>1, <3>2, <3>3
  <2>. QED  BY <2>1, <2>2, <2>4 DEF Fifo!FifoNext, Fifo!Break, Fifo!fifoVars
<1>6. ASSUME Decode PROVE Goal
  <2>1. sizes' = sizes /\ pending' = pending /\ broken' = broken /\ received' = Append(received, Decoded)
    BY <1>6 DEF Decode, sender
  <2>2. Begun' = Begun
    BY <2>1, SameBegun
  <2>3. PICK d \in 0 .. MaxFrames :
           /\ d = Decoded
           /\ \/ d = 0 /\ broken
              \/ /\ d \in LastWhole + 1 .. Len(sizes)
                 /\ reader.head = Header(d)
                 /\ d = LastWhole + 1 \/ broken
           /\ LastWhole' = IF d = 0 THEN LastWhole ELSE d
    BY <1>6, DecodesLatest
  <2>4. CASE d = 0 /\ broken
    BY <2>1, <2>2, <2>3, <2>4 DEF Fifo!FifoNext, Fifo!TakeMixed, Fifo!Mixed
  <2>5. CASE /\ d \in LastWhole + 1 .. Len(sizes)
             /\ reader.head = Header(d)
             /\ d = LastWhole + 1 \/ broken
    <3>1. LastWhole \in Nat /\ Len(sizes) \in Nat /\ sizes \in Seq(Sizes)
      BY Types DEF StreamInv, Shape, TypeOK
    <3>2. d \in Nat /\ d # 0 /\ d <= Len(sizes)
      BY <2>5, <3>1
    <3>3. Len(Begun) \in Nat /\ d <= Len(Begun)
      <4>1. CASE ~Unwritten
        BY <3>1, <3>2, <4>1 DEF Begun
      <4>2. CASE Unwritten
        <5>1. pending # <<>> /\ pending[1] = <<Len(sizes), 1>> /\ Len(sizes) >= 1
          BY <4>2, UnwrittenIs
        <5>2. 1 \in DOMAIN reader.head /\ reader.head[1] = <<d, 1>>
          BY <2>5, <3>2, HeaderBegins
        <5>3. UnderWay(<<d, 1>>, LastWhole, sizes, pending)
          BY <5>2 DEF StreamInv, InOrder, AllUnderWay
        <5>4. Before(<<d, 1>>, <<Len(sizes), 1>>)
          BY <5>1, <5>3 DEF UnderWay
        <5>5. d < Len(sizes)
          BY <3>1, <3>2, <5>4 DEF Before
        <5>6. Begun = SubSeq(sizes, 1, Len(sizes) - 1)
          BY <4>2 DEF Begun, Front
        <5>7. Len(Begun) = Len(sizes) - 1
          <6>1. PICK m \in Nat : m = Len(sizes) - 1
            BY <3>1, <5>1
          <6>2. m <= Len(sizes)
            BY <3>1, <6>1
          <6>. QED  BY <3>1, <5>6, <6>1, <6>2
        <5>. QED  BY <3>1, <3>2, <5>1, <5>5, <5>7
      <4>. QED  BY <4>1, <4>2
    <3>4. d \in LastWhole + 1 .. Len(Begun)
      BY <2>5, <3>1, <3>2, <3>3
    <3>. QED  BY <2>1, <2>2, <2>3, <2>5, <3>2, <3>4 DEF Fifo!FifoNext, Fifo!Take
  <2>. QED  BY <2>3, <2>4, <2>5
<1>. QED  BY <1>1, <1>2, <1>3, <1>4, <1>5, <1>6 DEF Next

\* However frames are cut into writes, chunks and reads, a stream is a FIFO of
\* whole frames until something breaks it, and never returns an old frame:
\* send_frame and recv_frame over MemoryStream and TcpStream, with their calls
\* dropped and their ends closed at any point.
THEOREM StreamIsFifo == Spec => ImplementsFifo
<1>1. Init => Fifo!FifoInit
  <2> SUFFICES ASSUME Init PROVE Fifo!FifoInit
    OBVIOUS
  <2>1. sizes = <<>> /\ pending = <<>> /\ received = <<>> /\ broken = FALSE
    BY DEF Init
  <2>2. Begun = <<>>
    BY <2>1 DEF Begun, Unwritten
  <2>3. LastWhole = 0
    <3>1. StreamInv
      BY InitHolds
    <3>2. LastWhole \in Nat /\ LastWhole <= 0
      BY <2>1, <3>1, Types DEF StreamInv, Latest
    <3>. QED  BY <3>2
  <2>. QED  BY <2>1, <2>2, <2>3 DEF Fifo!FifoInit
<1>2. StreamInv /\ [Next]_vars => [Fifo!FifoNext]_(Fifo!fifoVars)
  BY StepIsFifoStep
<1>. QED  BY <1>1, <1>2, StreamInvHolds, PTL DEF Spec, ImplementsFifo, Fifo!FifoSpec

\* The stream and the calls at its two ends (frame.rs:309-361 over either
\* transport) never leave their declared shape: the queue never holds more than
\* the transport has room for, a socket has no chunk of which a rest would be
\* kept, and a receiver never reads more bytes than its call has asked for.
THEOREM StreamTypeCorrect == Spec => []TypeOK
<1>1. StreamInv => TypeOK
  BY DEF StreamInv, Shape
<1>. QED  BY <1>1, StreamInvHolds, PTL
=============================================================================
