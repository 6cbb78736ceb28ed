---------------------------- MODULE DriverProofs ----------------------------
(***************************************************************************)
(* The programs of the drivers, for any number of calls of any size and    *)
(* any capacity of the socket: no call fails unless a payload is too large *)
(* or a process has died, a call leaves nothing on the socket for the next *)
(* one, and the two sides of the ping-pong are never more than a frame     *)
(* apart.                                                                  *)
(*                                                                         *)
(* In each direction at most one frame is on its way.  For one thread that *)
(* follows from how every call is laid out: what a stage sends, a later    *)
(* stage of the call receives before anything else is sent that way.  For  *)
(* two processes it follows from their positions, each of which tells what *)
(* the process has sent and received.                                      *)
(***************************************************************************)
EXTENDS RuntimeDrivers, SequenceTheorems, FiniteSetTheorems, WellFoundedInduction, TLAPS

LEMMA LeastNumber ==
  ASSUME NEW T, T \subseteq Nat, T # {}
  PROVE  \E m \in T : \A n \in T : ~(n < m)
<1>1. PICK m \in T : \A n \in T : ~(<<n, m>> \in OpToRel(<, Nat))
  BY NatLessThanWellFounded, WFMin
<1>. QED  BY <1>1 DEF OpToRel

\* Induction on numbers, for the set of those that have the property.
LEMMA Induction ==
  ASSUME NEW S, 0 \in S, \A n \in Nat : n \in S => n + 1 \in S
  PROVE  \A n \in Nat : n \in S
<1>1. SUFFICES ASSUME NEW T, T = Nat \ S, T # {} PROVE FALSE
  OBVIOUS
<1>2. PICK m \in T : \A n \in T : ~(n < m)
  BY <1>1, LeastNumber
<1>3. m \in Nat /\ m # 0 /\ m - 1 \in Nat /\ m - 1 < m /\ (m - 1) + 1 = m
  BY <1>1, <1>2
<1>4. m - 1 \in S
  BY <1>1, <1>2, <1>3
<1>. QED  BY <1>1, <1>2, <1>3, <1>4
-----------------------------------------------------------------------------
(* Units of a direction.                                                   *)

WireFrames == [gate : Nat, size : Nat]
Sums(s, f, K) == f = [k \in 0 .. K |-> IF k = 0 THEN 0 ELSE f[k - 1] + s[k].size]

LEMMA SumsExist ==
  ASSUME NEW s, NEW K \in Nat
  PROVE  \E f : Sums(s, f, K)
<1> DEFINE S == {n \in Nat : \E f : Sums(s, f, n)}
<1>1. 0 \in S
  <2> DEFINE f == [j \in 0 .. 0 |-> 0]
  <2>1. f = [j \in 0 .. 0 |-> IF j = 0 THEN 0 ELSE f[j - 1] + s[j].size]
    OBVIOUS
  <2>. QED  BY <2>1 DEF Sums
<1>2. ASSUME NEW n \in Nat, n \in S PROVE n + 1 \in S
  <2>1. PICK f : Sums(s, f, n)
    BY <1>2
  <2> DEFINE g == [j \in 0 .. n + 1 |-> IF j = n + 1 THEN f[n] + s[n + 1].size ELSE f[j]]
  <2>2. \A j \in 0 .. n : f[j] = IF j = 0 THEN 0 ELSE f[j - 1] + s[j].size
    BY <2>1 DEF Sums
  <2>3. \A j \in 0 .. n + 1 : g[j] = IF j = 0 THEN 0 ELSE g[j - 1] + s[j].size
    <3>1. TAKE j \in 0 .. n + 1
    <3>2. CASE j = n + 1
      BY <3>2
    <3>3. CASE j # n + 1
      <4>1. j \in 0 .. n /\ (j # 0 => j - 1 \in 0 .. n)
        BY <3>3
      <4>2. g[j] = f[j] /\ (j # 0 => g[j - 1] = f[j - 1])
        BY <4>1
      <4>. QED  BY <2>2, <4>1, <4>2
    <3>. QED  BY <3>2, <3>3
  <2>4. g = [j \in 0 .. n + 1 |-> IF j = 0 THEN 0 ELSE g[j - 1] + s[j].size]
    BY <2>3
  <2>5. Sums(s, g, n + 1)
    BY <2>4 DEF Sums
  <2> HIDE DEF g
  <2>. QED  BY <2>5
<1>3. \A n \in Nat : n \in S
  <2> HIDE DEF S
  <2>. QED  BY <1>1, <1>2, Induction
<1>. QED  BY <1>3

\* The units of the first frames, one frame at a time.
LEMMA UnitSumsStep ==
  ASSUME NEW s \in Seq(WireFrames)
  PROVE  /\ UnitSums(s)[0] = 0
         /\ \A j \in 1 .. Len(s) : UnitSums(s)[j] = UnitSums(s)[j - 1] + s[j].size
         /\ \A j \in 0 .. Len(s) : UnitSums(s)[j] \in Nat
<1>1. Len(s) \in Nat /\ \A j \in 1 .. Len(s) : s[j] \in WireFrames
  OBVIOUS
<1> DEFINE f == UnitSums(s)
<1>2. f = CHOOSE g : Sums(s, g, Len(s))
  BY DEF UnitSums, Sums
<1>3. Sums(s, f, Len(s))
  BY <1>1, <1>2, SumsExist
<1> HIDE DEF f
<1>4. \A j \in 0 .. Len(s) : f[j] = IF j = 0 THEN 0 ELSE f[j - 1] + s[j].size
  BY <1>3 DEF Sums
<1>5. f[0] = 0
  BY <1>1, <1>4
<1> DEFINE S == {n \in Nat : n <= Len(s) => f[n] \in Nat}
<1>6. 0 \in S
  BY <1>5
<1>7. \A j \in 1 .. Len(s) : s[j].size \in Nat
  BY <1>1 DEF WireFrames
<1>8. ASSUME NEW n \in Nat, n \in S PROVE n + 1 \in S
  <2>1. CASE n + 1 <= Len(s)
    <3>1. n + 1 \in 0 .. Len(s) /\ n + 1 \in 1 .. Len(s) /\ n + 1 # 0 /\ (n + 1) - 1 = n /\ f[n] \in Nat
      BY <1>1, <1>8, <2>1
    <3>2. f[n + 1] = f[n] + s[n + 1].size
      BY <1>4, <3>1
    <3>. QED  BY <1>7, <3>1, <3>2
  <2>2. CASE ~(n + 1 <= Len(s))
    BY <2>2
  <2>. QED  BY <2>1, <2>2
<1>9. \A n \in Nat : n \in S
  <2> HIDE DEF S
  <2>. QED  BY <1>6, <1>8, Induction
<1>10. \A j \in 0 .. Len(s) : f[j] \in Nat
  BY <1>1, <1>9
<1>11. ASSUME NEW j \in 1 .. Len(s) PROVE f[j] = f[j - 1] + s[j].size
  <2>1. j \in 0 .. Len(s) /\ j # 0
    BY <1>1
  <2>. QED  BY <1>4, <2>1
<1>. QED  BY <1>5, <1>10, <1>11 DEF f

\* All the units of some frames.
Total(frames) == UnitSums(frames)[Len(frames)]

LEMMA TotalOfNone == Total(<<>>) = 0
<1>1. <<>> \in Seq(WireFrames) /\ Len(<<>>) = 0
  OBVIOUS
<1>. QED  BY <1>1, UnitSumsStep DEF Total

LEMMA TotalType == ASSUME NEW s \in Seq(WireFrames) PROVE Total(s) \in Nat
<1>1. Len(s) \in 0 .. Len(s)
  OBVIOUS
<1>. QED  BY <1>1, UnitSumsStep DEF Total

LEMMA TotalAppend ==
  ASSUME NEW s \in Seq(WireFrames), NEW x \in WireFrames
  PROVE  Total(Append(s, x)) = Total(s) + x.size
<1> DEFINE n == Len(s)
           t == Append(s, x)
           f == UnitSums(s)
           g == UnitSums(t)
           S == {j \in Nat : j <= n => g[j] = f[j]}
<1>1. /\ n \in Nat /\ t \in Seq(WireFrames) /\ Len(t) = n + 1 /\ t[n + 1] = x
      /\ \A i \in 1 .. n : t[i] = s[i]
  BY AppendProperties
<1>2. /\ f[0] = 0 /\ \A j \in 1 .. n : f[j] = f[j - 1] + s[j].size
      /\ \A j \in 0 .. n : f[j] \in Nat
  BY UnitSumsStep
<1>3. g[0] = 0 /\ \A j \in 1 .. n + 1 : g[j] = g[j - 1] + t[j].size
  <2> HIDE DEF t
  <2>. QED  BY <1>1, UnitSumsStep
<1>4. Total(s) = f[n] /\ Total(t) = g[n + 1]
  BY <1>1 DEF Total
<1> HIDE DEF n, t, f, g
<1>5. 0 \in S
  BY <1>2, <1>3
<1>6. ASSUME NEW j \in Nat, j \in S PROVE j + 1 \in S
  <2>1. SUFFICES ASSUME j + 1 <= n PROVE g[j + 1] = f[j + 1]
    OBVIOUS
  <2>2. j + 1 \in 1 .. n /\ j + 1 \in 1 .. n + 1 /\ (j + 1) - 1 = j /\ j <= n
    BY <1>1, <2>1
  <2>3. t[j + 1] = s[j + 1] /\ g[j] = f[j]
    BY <1>1, <1>6, <2>2
  <2>. QED  BY <1>2, <1>3, <2>2, <2>3
<1>7. \A j \in Nat : j \in S
  <2> HIDE DEF S
  <2>. QED  BY <1>5, <1>6, Induction
<1>8. g[n] = f[n]
  BY <1>1, <1>7
<1>9. n + 1 \in 1 .. n + 1 /\ (n + 1) - 1 = n
  BY <1>1
<1>10. g[n + 1] = g[n] + x.size
  BY <1>1, <1>3, <1>9
<1>. QED  BY <1>4, <1>8, <1>10 DEF t
-----------------------------------------------------------------------------
(* How calls are laid out.                                                 *)

Ops == [kind : {"send", "recv", "recv any"}, party : Parties, size : Nat]

\* The receives of a stage that read what p sends.
Reads(stage, p) == {op \in stage : op.kind # "send" /\ op.party = Other(p)}

\* A stage sends at most one frame in each direction and receives at most one.
Sober(stage) ==
  /\ stage \subseteq Ops
  /\ \A p \in Parties : \A a, b \in Sends(stage, p) : a = b
  /\ \A p \in Parties : \A a, b \in Reads(stage, p) : a = b
SoberCalls == {c \in Seq(SUBSET Ops) : \A s \in 1 .. Len(c) : Sober(c[s])}

\* After s stages, a frame of p has been sent that no stage has received.
Due(c, s, p) ==
  \E j \in 1 .. s : Sends(c[j], p) # {} /\ \A k \in j .. s : Reads(c[k], p) = {}

\* A stage receives what is due, nothing is sent while a frame of that
\* direction is due, and nothing is due at the end.
Answered(c) ==
  /\ \A s \in 1 .. Len(c) : \A p \in Parties :
       /\ Sends(c[s], p) # {} => Reads(c[s], p) = {} /\ ~Due(c, s - 1, p)
       /\ Reads(c[s], p) # {} => Due(c, s - 1, p)
  /\ \A p \in Parties : ~Due(c, Len(c), p)

LEMMA OtherParty ==
  /\ Client \in Parties /\ Server \in Parties /\ Client # Server
  /\ \A p \in Parties : Other(p) \in Parties /\ Other(p) # p /\ Other(Other(p)) = p
  /\ Other(Client) = Server /\ Other(Server) = Client
BY DriverConstants DEF Parties, Other

LEMMA OpTypes ==
  ASSUME NEW p \in Parties
  PROVE  Recv(p) \in Ops /\ RecvAny(p) \in Ops /\ \A n \in Nat : Send(p, n) \in Ops
BY DEF Send, Recv, RecvAny, Ops

LEMMA OneSend ==
  ASSUME NEW q \in Parties, NEW n \in Nat
  PROVE  /\ {Send(q, n)} \subseteq Ops /\ Sober({Send(q, n)})
         /\ \A p \in Parties : Sends({Send(q, n)}, p) # {} <=> p = q
         /\ \A p \in Parties : Reads({Send(q, n)}, p) = {}
<1>1. Send(q, n) \in Ops
  BY OpTypes
<1>2. Send(q, n).kind = "send" /\ Send(q, n).party = q
  BY DEF Send
<1>3. \A p \in Parties : Sends({Send(q, n)}, p) = IF p = q THEN {Send(q, n)} ELSE {}
  BY <1>2 DEF Sends
<1>4. \A p \in Parties : Reads({Send(q, n)}, p) = {}
  BY <1>2 DEF Reads
<1>. QED  BY <1>1, <1>3, <1>4 DEF Sober

LEMMA OneRead ==
  ASSUME NEW op \in Ops, op.kind # "send"
  PROVE  /\ Sober({op})
         /\ \A p \in Parties : Sends({op}, p) = {}
         /\ \A p \in Parties : Reads({op}, p) # {} <=> p = Other(op.party)
<1>1. op.party \in Parties
  BY DEF Ops
<1>2. \A p \in Parties : op.party = Other(p) <=> p = Other(op.party)
  BY <1>1, OtherParty
<1>3. \A p \in Parties : Reads({op}, p) = IF p = Other(op.party) THEN {op} ELSE {}
  BY <1>2 DEF Reads
<1>4. \A p \in Parties : Sends({op}, p) = {}
  BY DEF Sends
<1>. QED  BY <1>3, <1>4 DEF Sober

LEMMA RecvAlone ==
  ASSUME NEW q \in Parties
  PROVE  /\ {Recv(q)} \subseteq Ops /\ Sober({Recv(q)})
         /\ \A p \in Parties : Sends({Recv(q)}, p) = {}
         /\ \A p \in Parties : Reads({Recv(q)}, p) # {} <=> p = Other(q)
<1>1. Recv(q) \in Ops /\ Recv(q).kind # "send" /\ Recv(q).party = q
  BY OpTypes DEF Recv
<1>. QED  BY <1>1, OneRead

LEMMA RecvAnyAlone ==
  ASSUME NEW q \in Parties
  PROVE  /\ {RecvAny(q)} \subseteq Ops /\ Sober({RecvAny(q)})
         /\ \A p \in Parties : Sends({RecvAny(q)}, p) = {}
         /\ \A p \in Parties : Reads({RecvAny(q)}, p) # {} <=> p = Other(q)
<1>1. RecvAny(q) \in Ops /\ RecvAny(q).kind # "send" /\ RecvAny(q).party = q
  BY OpTypes DEF RecvAny
<1>. QED  BY <1>1, OneRead

LEMMA TwoSends ==
  ASSUME NEW n \in Nat
  PROVE  LET stage == {Send(Client, n), Send(Server, n)}
         IN  /\ Sober(stage)
             /\ \A p \in Parties : Sends(stage, p) # {} /\ Reads(stage, p) = {}
<1> DEFINE stage == {Send(Client, n), Send(Server, n)}
<1>1. stage \subseteq Ops
  BY OpTypes, OtherParty
<1>2. \A p \in Parties : Send(p, n).kind = "send" /\ Send(p, n).party = p
  BY DEF Send
<1>3. \A p \in Parties : Sends(stage, p) = {Send(p, n)}
  BY <1>2, OtherParty DEF Sends, Parties
<1>4. \A p \in Parties : Reads(stage, p) = {}
  BY <1>2, OtherParty DEF Reads
<1>. QED  BY <1>1, <1>3, <1>4 DEF Sober

LEMMA TwoReads ==
  LET stage == {Recv(Client), Recv(Server)}
  IN  /\ Sober(stage)
      /\ \A p \in Parties : Sends(stage, p) = {} /\ Reads(stage, p) # {}
<1> DEFINE stage == {Recv(Client), Recv(Server)}
<1>1. stage \subseteq Ops
  BY OpTypes, OtherParty
<1>2. \A p \in Parties : Recv(p).kind # "send" /\ Recv(p).party = p
  BY DEF Recv
<1>3. \A p \in Parties : Reads(stage, p) = {Recv(Other(p))}
  BY <1>2, OtherParty DEF Reads, Parties
<1>4. \A p \in Parties : Sends(stage, p) = {}
  BY <1>2, OtherParty DEF Sends
<1>. QED  BY <1>1, <1>3, <1>4 DEF Sober

LEMMA DueStep ==
  ASSUME NEW c, NEW s \in Nat, NEW p \in Parties
  PROVE  /\ ~Due(c, 0, p)
         /\ Due(c, s + 1, p) <=> Reads(c[s + 1], p) = {} /\ (Sends(c[s + 1], p) # {} \/ Due(c, s, p))
<1>1. ~Due(c, 0, p)
  BY DEF Due
<1>2. ASSUME Due(c, s + 1, p)
      PROVE  Reads(c[s + 1], p) = {} /\ (Sends(c[s + 1], p) # {} \/ Due(c, s, p))
  <2>1. PICK j \in 1 .. s + 1 : Sends(c[j], p) # {} /\ \A k \in j .. s + 1 : Reads(c[k], p) = {}
    BY <1>2 DEF Due
  <2>2. s + 1 \in j .. s + 1 /\ \A k \in j .. s : k \in j .. s + 1
    BY <2>1
  <2>3. CASE j = s + 1
    BY <2>1, <2>2, <2>3
  <2>4. CASE j # s + 1
    <3>1. j \in 1 .. s
      BY <2>4
    <3>. QED  BY <2>1, <2>2, <3>1 DEF Due
  <2>. QED  BY <2>3, <2>4
<1>3. ASSUME Reads(c[s + 1], p) = {}, Sends(c[s + 1], p) # {} \/ Due(c, s, p)
      PROVE  Due(c, s + 1, p)
  <2>1. CASE Sends(c[s + 1], p) # {}
    <3>1. s + 1 \in 1 .. s + 1 /\ \A k \in s + 1 .. s + 1 : k = s + 1
      OBVIOUS
    <3>. QED  BY <1>3, <2>1, <3>1 DEF Due
  <2>2. CASE Due(c, s, p)
    <3>1. PICK j \in 1 .. s : Sends(c[j], p) # {} /\ \A k \in j .. s : Reads(c[k], p) = {}
      BY <2>2 DEF Due
    <3>2. j \in 1 .. s + 1 /\ \A k \in j .. s + 1 : k = s + 1 \/ k \in j .. s
      BY <3>1
    <3>. QED  BY <1>3, <3>1, <3>2 DEF Due
  <2>. QED  BY <1>3, <2>1, <2>2
<1>. QED  BY <1>1, <1>2, <1>3

\* Odd stages only send, and each is followed by one that receives just that.
Paired(c) ==
  /\ \A s \in 1 .. Len(c) : \A p \in Parties :
       IF s % 2 = 1 THEN Reads(c[s], p) = {}
                    ELSE Sends(c[s], p) = {} /\ (Reads(c[s], p) # {} <=> Sends(c[s - 1], p) # {})
  /\ Len(c) % 2 = 0

LEMMA PairedIsAnswered ==
  ASSUME NEW c \in SoberCalls, Paired(c)
  PROVE  Answered(c)
<1>1. Len(c) \in Nat
  BY DEF SoberCalls
<1>2. ASSUME NEW s \in 0 .. Len(c), NEW p \in Parties
      PROVE  Due(c, s, p) <=> s % 2 = 1 /\ Sends(c[s], p) # {}
  <2>1. ASSUME Due(c, s, p) PROVE s % 2 = 1 /\ Sends(c[s], p) # {}
    <3>1. PICK j \in 1 .. s : Sends(c[j], p) # {} /\ \A k \in j .. s : Reads(c[k], p) = {}
      BY <2>1 DEF Due
    <3>2. j \in 1 .. Len(c)
      BY <1>1
    <3>3. j % 2 = 1
      BY <3>1, <3>2 DEF Paired
    <3>4. j = s
      <4>1. SUFFICES ASSUME j # s PROVE FALSE
        OBVIOUS
      <4>2. j + 1 \in j .. s /\ j + 1 \in 1 .. Len(c) /\ (j + 1) - 1 = j
        BY <1>1, <4>1
      <4>3. ~((j + 1) % 2 = 1)
        BY <3>3
      <4>4. Reads(c[j + 1], p) # {}
        BY <3>1, <4>2, <4>3 DEF Paired
      <4>. QED  BY <3>1, <4>2, <4>4
    <3>. QED  BY <3>1, <3>3, <3>4
  <2>2. ASSUME s % 2 = 1, Sends(c[s], p) # {} PROVE Due(c, s, p)
    <3>1. s \in 1 .. Len(c) /\ s \in 1 .. s /\ \A k \in s .. s : k = s
      BY <1>1, <2>2
    <3>2. Reads(c[s], p) = {}
      BY <2>2, <3>1 DEF Paired
    <3>. QED  BY <2>2, <3>1, <3>2 DEF Due
  <2>. QED  BY <2>1, <2>2
<1>3. ASSUME NEW s \in 1 .. Len(c), NEW p \in Parties
      PROVE  /\ Sends(c[s], p) # {} => Reads(c[s], p) = {} /\ ~Due(c, s - 1, p)
             /\ Reads(c[s], p) # {} => Due(c, s - 1, p)
  <2>1. s - 1 \in 0 .. Len(c)
    BY <1>1
  <2>2. CASE s % 2 = 1
    <3>1. ~((s - 1) % 2 = 1)
      BY <2>2
    <3>2. Reads(c[s], p) = {}
      BY <2>2 DEF Paired
    <3>. QED  BY <1>2, <2>1, <3>1, <3>2
  <2>3. CASE ~(s % 2 = 1)
    <3>1. (s - 1) % 2 = 1
      BY <2>3
    <3>2. Sends(c[s], p) = {} /\ (Reads(c[s], p) # {} <=> Sends(c[s - 1], p) # {})
      BY <2>3 DEF Paired
    <3>. QED  BY <1>2, <2>1, <3>1, <3>2
  <2>. QED  BY <2>2, <2>3
<1>4. ASSUME NEW p \in Parties PROVE ~Due(c, Len(c), p)
  <2>1. Len(c) \in 0 .. Len(c) /\ ~(Len(c) % 2 = 1)
    BY <1>1 DEF Paired
  <2>. QED  BY <1>2, <2>1
<1>. QED  BY <1>3, <1>4 DEF Answered
-----------------------------------------------------------------------------
(* The calls of the drivers.                                               *)

DriverCalls ==
  {Convert(n) : n \in Nat} \cup {SendClientToServer(n) : n \in Nat}
  \cup {ExchangeOneflow(n) : n \in Nat} \cup {ValueRoundtrip(n) : n \in Nat}

\* Payloads are cut into chunks that are not longer than they are.
LEMMA ChunkSizes ==
  ASSUME NEW n \in Nat
  PROVE  /\ Len(Chunks(n)) \in Nat
         /\ \A s \in ChunkStages(n) : ChunkOf(n, s) \in Nat
<1> DEFINE q == (n + MaxChunk - 1) \div MaxChunk
<1>1. MaxChunk \in Nat /\ MaxChunk > 0
  BY DriverConstants
<1>2. q \in Nat /\ q * MaxChunk <= n + MaxChunk - 1
  BY <1>1
<1>3. /\ Chunks(n) = [i \in 1 .. q |-> Smaller(MaxChunk, n - (i - 1) * MaxChunk)]
  BY DEF Chunks
<1> HIDE DEF q
<1>4. ASSUME NEW i \in 1 .. q PROVE Smaller(MaxChunk, n - (i - 1) * MaxChunk) \in Nat
  <2>1. i * MaxChunk <= q * MaxChunk
    <3>1. q - i \in Nat
      BY <1>2
    <3>2. (q - i) * MaxChunk \in Nat
      BY <1>1, <3>1
    <3>3. (q - i) * MaxChunk = q * MaxChunk - i * MaxChunk
      BY <1>1, <1>2
    <3>4. q * MaxChunk \in Int /\ i * MaxChunk \in Int
      BY <1>1, <1>2
    <3>. QED  BY <3>2, <3>3, <3>4
  <2>2. (i - 1) * MaxChunk = i * MaxChunk - MaxChunk
    BY <1>1
  <2>3. i * MaxChunk \in Int /\ q * MaxChunk \in Int
    BY <1>1, <1>2
  <2>4. n - (i - 1) * MaxChunk \in Nat
    BY <1>1, <1>2, <2>1, <2>2, <2>3
  <2>. QED  BY <1>1, <2>4 DEF Smaller
<1>5. Chunks(n) \in Seq(Nat) /\ Len(Chunks(n)) = q
  <2>1. Chunks(n) \in [1 .. q -> Nat]
    BY <1>3, <1>4
  <2>. QED  BY <1>2, <2>1
<1>6. ASSUME NEW s \in ChunkStages(n) PROVE ChunkOf(n, s) \in Nat
  <2>1. s \in 1 .. 2 * q
    BY <1>5 DEF ChunkStages
  <2>2. (s + 1) \div 2 \in 1 .. q
    BY <1>2, <2>1
  <2>. QED  BY <1>5, <2>2 DEF ChunkOf
<1>. QED  BY <1>2, <1>5, <1>6

\* A call in stages that are odd, and send, and even, and receive.
LEMMA StagesArePaired ==
  ASSUME NEW c, NEW m \in Nat, Len(c) = 2 * m, c \in Seq(SUBSET Ops),
         \A s \in 1 .. Len(c) : Sober(c[s]),
         \A s \in 1 .. Len(c) : \A p \in Parties :
           s % 2 = 1 => /\ Reads(c[s], p) = {}
                        /\ Sends(c[s + 1], p) = {}
                        /\ Reads(c[s + 1], p) # {} <=> Sends(c[s], p) # {}
  PROVE  c \in SoberCalls /\ Answered(c)
<1>1. c \in SoberCalls
  BY DEF SoberCalls
<1>2. Len(c) % 2 = 0
  OBVIOUS
<1>3. ASSUME NEW s \in 1 .. Len(c), NEW p \in Parties, ~(s % 2 = 1)
      PROVE  Sends(c[s], p) = {} /\ (Reads(c[s], p) # {} <=> Sends(c[s - 1], p) # {})
  <2>1. PICK r \in 1 .. Len(c) : s = r + 1 /\ r % 2 = 1 /\ r = s - 1
    <3>1. s - 1 \in 1 .. Len(c) /\ s = (s - 1) + 1 /\ (s - 1) % 2 = 1
      BY <1>3
    <3>. QED  BY <3>1
  <2>. QED  BY <2>1
<1>4. Paired(c)
  BY <1>2, <1>3 DEF Paired
<1>. QED  BY <1>1, <1>4, PairedIsAnswered

LEMMA SendClientToServerIsAnswered ==
  ASSUME NEW n \in Nat
  PROVE  SendClientToServer(n) \in SoberCalls /\ Answered(SendClientToServer(n))
<1> DEFINE c == SendClientToServer(n)
           m == Len(Chunks(n))
<1>1. m \in Nat /\ \A s \in 1 .. 2 * m : ChunkOf(n, s) \in Nat
  BY ChunkSizes DEF ChunkStages
<1>2. c = [s \in 1 .. 2 * m |-> IF s % 2 = 1 THEN {Send(Client, ChunkOf(n, s))} ELSE {Recv(Server)}]
  BY DEF SendClientToServer, ChunkStages
<1> HIDE DEF c, m
<1>3. ASSUME NEW s \in 1 .. 2 * m
      PROVE  /\ c[s] \subseteq Ops /\ Sober(c[s])
             /\ s % 2 = 1 => \A p \in Parties : Reads(c[s], p) = {} /\ (Sends(c[s], p) # {} <=> p = Client)
             /\ ~(s % 2 = 1) => \A p \in Parties : Sends(c[s], p) = {} /\ (Reads(c[s], p) # {} <=> p = Client)
  <2>1. CASE s % 2 = 1
    <3>1. PICK k \in Nat : c[s] = {Send(Client, k)}
      BY <1>1, <1>2, <2>1
    <3>2. Client \in Parties
      BY OtherParty
    <3>3. /\ {Send(Client, k)} \subseteq Ops /\ Sober({Send(Client, k)})
          /\ \A p \in Parties : Sends({Send(Client, k)}, p) # {} <=> p = Client
          /\ \A p \in Parties : Reads({Send(Client, k)}, p) = {}
      BY <3>2, OneSend
    <3>. QED  BY <2>1, <3>1, <3>3
  <2>2. CASE ~(s % 2 = 1)
    <3>1. c[s] = {Recv(Server)}
      BY <1>2, <2>2
    <3>2. Server \in Parties /\ Other(Server) = Client
      BY OtherParty
    <3>3. /\ {Recv(Server)} \subseteq Ops /\ Sober({Recv(Server)})
          /\ \A p \in Parties : Sends({Recv(Server)}, p) = {}
          /\ \A p \in Parties : Reads({Recv(Server)}, p) # {} <=> p = Client
      BY <3>2, RecvAlone
    <3>. QED  BY <2>2, <3>1, <3>3
  <2>. QED  BY <2>1, <2>2
<1>4. c \in Seq(SUBSET Ops) /\ Len(c) = 2 * m
  <2>1. 2 * m \in Nat
    BY <1>1
  <2>2. \A s \in 1 .. 2 * m : c[s] \in SUBSET Ops
    BY <1>3
  <2>3. c \in [1 .. 2 * m -> SUBSET Ops]
    BY <1>2, <2>2
  <2>. QED  BY <2>1, <2>3
<1>5. ASSUME NEW s \in 1 .. Len(c), NEW p \in Parties, s % 2 = 1
      PROVE  /\ Reads(c[s], p) = {} /\ Sends(c[s + 1], p) = {}
             /\ Reads(c[s + 1], p) # {} <=> Sends(c[s], p) # {}
  <2>1. s \in 1 .. 2 * m /\ s + 1 \in 1 .. 2 * m /\ ~((s + 1) % 2 = 1)
    BY <1>1, <1>4, <1>5
  <2>. QED  BY <1>3, <1>5, <2>1
<1>6. \A s \in 1 .. Len(c) : Sober(c[s])
  BY <1>3, <1>4
<1>. QED  BY <1>1, <1>4, <1>5, <1>6, StagesArePaired DEF c

LEMMA ExchangeOneflowIsAnswered ==
  ASSUME NEW n \in Nat
  PROVE  ExchangeOneflow(n) \in SoberCalls /\ Answered(ExchangeOneflow(n))
<1> DEFINE c == ExchangeOneflow(n)
           m == Len(Chunks(n))
<1>1. m \in Nat /\ \A s \in 1 .. 2 * m : ChunkOf(n, s) \in Nat
  BY ChunkSizes DEF ChunkStages
<1>2. c = [s \in 1 .. 2 * m |->
             IF s % 2 = 1 THEN {Send(Client, ChunkOf(n, s)), Send(Server, ChunkOf(n, s))}
                          ELSE {Recv(Client), Recv(Server)}]
  BY DEF ExchangeOneflow, ChunkStages
<1> HIDE DEF c, m
<1>3. ASSUME NEW s \in 1 .. 2 * m
      PROVE  /\ c[s] \subseteq Ops /\ Sober(c[s])
             /\ s % 2 = 1 => \A p \in Parties : Reads(c[s], p) = {} /\ Sends(c[s], p) # {}
             /\ ~(s % 2 = 1) => \A p \in Parties : Sends(c[s], p) = {} /\ Reads(c[s], p) # {}
  <2>1. CASE s % 2 = 1
    <3>1. c[s] = {Send(Client, ChunkOf(n, s)), Send(Server, ChunkOf(n, s))} /\ ChunkOf(n, s) \in Nat
      BY <1>1, <1>2, <2>1
    <3>. QED  BY <2>1, <3>1, TwoSends DEF Sober
  <2>2. CASE ~(s % 2 = 1)
    <3>1. c[s] = {Recv(Client), Recv(Server)}
      BY <1>2, <2>2
    <3>. QED  BY <2>2, <3>1, TwoReads DEF Sober
  <2>. QED  BY <2>1, <2>2
<1>4. c \in Seq(SUBSET Ops) /\ Len(c) = 2 * m
  <2>1. 2 * m \in Nat
    BY <1>1
  <2>2. \A s \in 1 .. 2 * m : c[s] \in SUBSET Ops
    BY <1>3
  <2>3. c \in [1 .. 2 * m -> SUBSET Ops]
    BY <1>2, <2>2
  <2>. QED  BY <2>1, <2>3
<1>5. ASSUME NEW s \in 1 .. Len(c), NEW p \in Parties, s % 2 = 1
      PROVE  /\ Reads(c[s], p) = {} /\ Sends(c[s + 1], p) = {}
             /\ Reads(c[s + 1], p) # {} <=> Sends(c[s], p) # {}
  <2>1. s \in 1 .. 2 * m /\ s + 1 \in 1 .. 2 * m /\ ~((s + 1) % 2 = 1)
    BY <1>1, <1>4, <1>5
  <2>. QED  BY <1>3, <1>5, <2>1
<1>6. \A s \in 1 .. Len(c) : Sober(c[s])
  BY <1>3, <1>4
<1>. QED  BY <1>1, <1>4, <1>5, <1>6, StagesArePaired DEF c

LEMMA ValueRoundtripIsAnswered ==
  ASSUME NEW n \in Nat
  PROVE  ValueRoundtrip(n) \in SoberCalls /\ Answered(ValueRoundtrip(n))
<1> DEFINE c == ValueRoundtrip(n)
           c1 == {Send(Client, n)}
           c2 == {Recv(Server)}
<1>1. c = <<c1, c2>>
  BY DEF ValueRoundtrip
<1>2. Client \in Parties /\ Server \in Parties /\ Other(Server) = Client
  BY OtherParty
<1>3. /\ c1 \subseteq Ops /\ Sober(c1) /\ c2 \subseteq Ops /\ Sober(c2)
      /\ \A p \in Parties : Reads(c1, p) = {} /\ (Sends(c1, p) # {} <=> p = Client)
      /\ \A p \in Parties : Sends(c2, p) = {} /\ (Reads(c2, p) # {} <=> p = Client)
  <2>1. /\ c1 \subseteq Ops /\ Sober(c1)
        /\ \A p \in Parties : Sends(c1, p) # {} <=> p = Client
        /\ \A p \in Parties : Reads(c1, p) = {}
    BY <1>2, OneSend
  <2>2. /\ c2 \subseteq Ops /\ Sober(c2)
        /\ \A p \in Parties : Sends(c2, p) = {}
        /\ \A p \in Parties : Reads(c2, p) # {} <=> p = Client
    BY <1>2, RecvAlone
  <2> HIDE DEF c1, c2
  <2>. QED  BY <2>1, <2>2
<1> HIDE DEF c1, c2, c
<1>4. c \in Seq(SUBSET Ops) /\ Len(c) = 2 /\ c[1] = c1 /\ c[2] = c2
  BY <1>1, <1>3
<1>5. /\ Sober(c[1]) /\ Sober(c[2])
      /\ \A p \in Parties : Reads(c[1], p) = {} /\ (Sends(c[1], p) # {} <=> p = Client)
      /\ \A p \in Parties : Sends(c[2], p) = {} /\ (Reads(c[2], p) # {} <=> p = Client)
  BY <1>3, <1>4
<1>6. Len(c) = 2 * 1 /\ \A s \in 1 .. Len(c) : s = 1 \/ s = 2
  BY <1>4
<1>7. \A s \in 1 .. Len(c) : Sober(c[s])
  BY <1>5, <1>6
<1>8. ASSUME NEW s \in 1 .. Len(c), NEW p \in Parties, s % 2 = 1
      PROVE  /\ Reads(c[s], p) = {} /\ Sends(c[s + 1], p) = {}
             /\ Reads(c[s + 1], p) # {} <=> Sends(c[s], p) # {}
  <2>1. s = 1 /\ s + 1 = 2
    BY <1>6, <1>8
  <2>. QED  BY <1>5, <2>1
<1>. QED  BY <1>4, <1>6, <1>7, <1>8, StagesArePaired DEF c

LEMMA ConvertIsAnswered ==
  ASSUME NEW n \in Nat
  PROVE  Convert(n) \in SoberCalls /\ Answered(Convert(n))
<1> DEFINE c == Convert(n)
           c1 == {Send(Client, n)}
           c2 == {Send(Server, n)}
           c3 == {Recv(Client)}
           c4 == {Recv(Server)}
<1>1. c = <<c1, c2, c3, c4>>
  BY DEF Convert
<1>2. Client \in Parties /\ Server \in Parties /\ Other(Server) = Client /\ Other(Client) = Server
  BY OtherParty
<1>3. /\ c1 \subseteq Ops /\ Sober(c1) /\ c2 \subseteq Ops /\ Sober(c2)
      /\ \A p \in Parties : Reads(c1, p) = {} /\ (Sends(c1, p) # {} <=> p = Client)
      /\ \A p \in Parties : Reads(c2, p) = {} /\ (Sends(c2, p) # {} <=> p = Server)
  <2>1. /\ c1 \subseteq Ops /\ Sober(c1)
        /\ \A p \in Parties : Sends(c1, p) # {} <=> p = Client
        /\ \A p \in Parties : Reads(c1, p) = {}
    BY <1>2, OneSend
  <2>2. /\ c2 \subseteq Ops /\ Sober(c2)
        /\ \A p \in Parties : Sends(c2, p) # {} <=> p = Server
        /\ \A p \in Parties : Reads(c2, p) = {}
    BY <1>2, OneSend
  <2> HIDE DEF c1, c2
  <2>. QED  BY <2>1, <2>2
<1>4. /\ c3 \subseteq Ops /\ Sober(c3) /\ c4 \subseteq Ops /\ Sober(c4)
      /\ \A p \in Parties : Sends(c3, p) = {} /\ (Reads(c3, p) # {} <=> p = Server)
      /\ \A p \in Parties : Sends(c4, p) = {} /\ (Reads(c4, p) # {} <=> p = Client)
  <2>1. /\ c3 \subseteq Ops /\ Sober(c3)
        /\ \A p \in Parties : Sends(c3, p) = {}
        /\ \A p \in Parties : Reads(c3, p) # {} <=> p = Server
    BY <1>2, RecvAlone
  <2>2. /\ c4 \subseteq Ops /\ Sober(c4)
        /\ \A p \in Parties : Sends(c4, p) = {}
        /\ \A p \in Parties : Reads(c4, p) # {} <=> p = Client
    BY <1>2, RecvAlone
  <2> HIDE DEF c3, c4
  <2>. QED  BY <2>1, <2>2
<1> HIDE DEF c1, c2, c3, c4, c
<1>5. /\ c \in Seq(SUBSET Ops) /\ Len(c) = 4
      /\ c[1] = c1 /\ c[2] = c2 /\ c[3] = c3 /\ c[4] = c4
  BY <1>1, <1>3, <1>4
<1>6. /\ Sober(c[1]) /\ Sober(c[2]) /\ Sober(c[3]) /\ Sober(c[4])
      /\ \A p \in Parties : Reads(c[1], p) = {} /\ (Sends(c[1], p) # {} <=> p = Client)
      /\ \A p \in Parties : Reads(c[2], p) = {} /\ (Sends(c[2], p) # {} <=> p = Server)
      /\ \A p \in Parties : Sends(c[3], p) = {} /\ (Reads(c[3], p) # {} <=> p = Server)
      /\ \A p \in Parties : Sends(c[4], p) = {} /\ (Reads(c[4], p) # {} <=> p = Client)
  BY <1>3, <1>4, <1>5
<1>7. \A s \in 1 .. Len(c) : s = 1 \/ s = 2 \/ s = 3 \/ s = 4
  BY <1>5
<1>8. ASSUME NEW p \in Parties
      PROVE  /\ ~Due(c, 0, p) /\ (Due(c, 1, p) <=> p = Client) /\ Due(c, 2, p)
             /\ (Due(c, 3, p) <=> p = Client) /\ ~Due(c, 4, p)
  <2>1. 0 + 1 = 1 /\ 1 + 1 = 2 /\ 2 + 1 = 3 /\ 3 + 1 = 4
    OBVIOUS
  <2>2. p = Client \/ p = Server
    BY DEF Parties
  <2>3. \A k \in Nat : Due(c, k + 1, p) <=> Reads(c[k + 1], p) = {} /\ (Sends(c[k + 1], p) # {} \/ Due(c, k, p))
    BY DueStep
  <2>4. ~Due(c, 0, p)
    BY DueStep
  <2>5. Due(c, 1, p) <=> Reads(c[1], p) = {} /\ (Sends(c[1], p) # {} \/ Due(c, 0, p))
    BY <2>1, <2>3
  <2>6. Due(c, 2, p) <=> Reads(c[2], p) = {} /\ (Sends(c[2], p) # {} \/ Due(c, 1, p))
    BY <2>1, <2>3
  <2>7. Due(c, 3, p) <=> Reads(c[3], p) = {} /\ (Sends(c[3], p) # {} \/ Due(c, 2, p))
    BY <2>1, <2>3
  <2>8. Due(c, 4, p) <=> Reads(c[4], p) = {} /\ (Sends(c[4], p) # {} \/ Due(c, 3, p))
    BY <2>1, <2>3
  <2>9. Due(c, 1, p) <=> p = Client
    BY <1>6, <2>4, <2>5
  <2>10. Due(c, 2, p)
    BY <1>6, <2>2, <2>6, <2>9
  <2>11. Due(c, 3, p) <=> p = Client
    BY <1>6, <2>2, <2>7, <2>10, OtherParty
  <2>12. ~Due(c, 4, p)
    BY <1>6, <2>2, <2>8, <2>11
  <2>. QED  BY <2>4, <2>9, <2>10, <2>11, <2>12
<1>9. ASSUME NEW s \in 1 .. Len(c), NEW p \in Parties
      PROVE  /\ Sends(c[s], p) # {} => Reads(c[s], p) = {} /\ ~Due(c, s - 1, p)
             /\ Reads(c[s], p) # {} => Due(c, s - 1, p)
  <2>1. 1 - 1 = 0 /\ 2 - 1 = 1 /\ 3 - 1 = 2 /\ 4 - 1 = 3
    OBVIOUS
  <2>2. CASE s = 1
    BY <1>6, <1>8, <2>1, <2>2
  <2>3. CASE s = 2
    BY <1>6, <1>8, <2>1, <2>3, OtherParty
  <2>4. CASE s = 3
    BY <1>6, <1>8, <2>1, <2>4
  <2>5. CASE s = 4
    BY <1>6, <1>8, <2>1, <2>5
  <2>. QED  BY <1>7, <2>2, <2>3, <2>4, <2>5
<1>10. \A p \in Parties : ~Due(c, Len(c), p)
  BY <1>5, <1>8
<1>11. Answered(c)
  BY <1>9, <1>10 DEF Answered
<1>12. c \in SoberCalls
  BY <1>5, <1>6, <1>7 DEF SoberCalls
<1>. QED  BY <1>11, <1>12 DEF c

LEMMA DriverCallsAreAnswered ==
  \A c \in DriverCalls : c \in SoberCalls /\ Answered(c)
BY SendClientToServerIsAnswered, ExchangeOneflowIsAnswered, ValueRoundtripIsAnswered,
   ConvertIsAnswered DEF DriverCalls
-----------------------------------------------------------------------------
(* The programs.                                                           *)

\* One executor makes any of the calls, for both parties.
OneThread(prog) ==
  \E t : t \notin {Listener, Connector} /\ DOMAIN prog = {t} /\ prog[t] \in Seq(DriverCalls)

\* Party 0 listens and starts each iteration of the ping-pong.
PingPong(n, k) ==
  [t \in {Listener, Connector} |-> [i \in 1 .. k |-> IF t = Listener THEN Ping(n) ELSE Pong(n)]]
TwoProcesses(prog) == \E n, k \in Nat : prog = PingPong(n, k)

Known(prog) == OneThread(prog) \/ TwoProcesses(prog)

\* The two stages of an iteration, for either party.
Pings(c) ==
  /\ Len(c) = 2
  /\ \A p \in Parties : Reads(c[1], p) = {} /\ (Sends(c[1], p) # {} <=> p = Client)
  /\ \A p \in Parties : Sends(c[2], p) = {} /\ (Reads(c[2], p) # {} <=> p = Server)
Pongs(c) ==
  /\ Len(c) = 2
  /\ \A p \in Parties : Sends(c[1], p) = {} /\ (Reads(c[1], p) # {} <=> p = Client)
  /\ \A p \in Parties : Reads(c[2], p) = {} /\ (Sends(c[2], p) # {} <=> p = Server)

LEMMA PingPings ==
  ASSUME NEW n \in Nat
  PROVE  Ping(n) \in SoberCalls /\ Pings(Ping(n))
<1> DEFINE c == Ping(n)
           c1 == {Send(Client, n)}
           c2 == {RecvAny(Client)}
<1>1. c = <<c1, c2>>
  BY DEF Ping
<1>2. Client \in Parties /\ Other(Client) = Server
  BY OtherParty
<1>3. /\ c1 \subseteq Ops /\ Sober(c1)
      /\ \A p \in Parties : Sends(c1, p) # {} <=> p = Client
      /\ \A p \in Parties : Reads(c1, p) = {}
  BY <1>2, OneSend
<1>4. /\ c2 \subseteq Ops /\ Sober(c2)
      /\ \A p \in Parties : Sends(c2, p) = {}
      /\ \A p \in Parties : Reads(c2, p) # {} <=> p = Server
  BY <1>2, RecvAnyAlone
<1> HIDE DEF c1, c2, c
<1>5. c \in Seq(SUBSET Ops) /\ Len(c) = 2 /\ c[1] = c1 /\ c[2] = c2
  BY <1>1, <1>3, <1>4
<1>6. \A s \in 1 .. Len(c) : s = 1 \/ s = 2
  BY <1>5
<1>7. c \in SoberCalls
  BY <1>3, <1>4, <1>5, <1>6 DEF SoberCalls
<1>8. Pings(c)
  BY <1>3, <1>4, <1>5 DEF Pings
<1>. QED  BY <1>7, <1>8 DEF c

LEMMA PongPongs ==
  ASSUME NEW n \in Nat
  PROVE  Pong(n) \in SoberCalls /\ Pongs(Pong(n))
<1> DEFINE c == Pong(n)
           c1 == {RecvAny(Server)}
           c2 == {Send(Server, n)}
<1>1. c = <<c1, c2>>
  BY DEF Pong
<1>2. Server \in Parties /\ Other(Server) = Client
  BY OtherParty
<1>3. /\ c1 \subseteq Ops /\ Sober(c1)
      /\ \A p \in Parties : Sends(c1, p) = {}
      /\ \A p \in Parties : Reads(c1, p) # {} <=> p = Client
  BY <1>2, RecvAnyAlone
<1>4. /\ c2 \subseteq Ops /\ Sober(c2)
      /\ \A p \in Parties : Sends(c2, p) # {} <=> p = Server
      /\ \A p \in Parties : Reads(c2, p) = {}
  BY <1>2, OneSend
<1> HIDE DEF c1, c2, c
<1>5. c \in Seq(SUBSET Ops) /\ Len(c) = 2 /\ c[1] = c1 /\ c[2] = c2
  BY <1>1, <1>3, <1>4
<1>6. \A s \in 1 .. Len(c) : s = 1 \/ s = 2
  BY <1>5
<1>7. c \in SoberCalls
  BY <1>3, <1>4, <1>5, <1>6 DEF SoberCalls
<1>8. Pongs(c)
  BY <1>3, <1>4, <1>5 DEF Pongs
<1>. QED  BY <1>7, <1>8 DEF c

LEMMA OneLayout ==
  ASSUME NEW prog, OneThread(prog)
  PROVE  /\ Cardinality(DOMAIN prog) = 1
         /\ \A t \in DOMAIN prog :
              /\ DOMAIN prog = {t} /\ t # Listener /\ t # Connector /\ Len(prog[t]) \in Nat
              /\ \A i \in 1 .. Len(prog[t]) : prog[t][i] \in SoberCalls /\ Answered(prog[t][i])
<1>1. PICK t : t \notin {Listener, Connector} /\ DOMAIN prog = {t} /\ prog[t] \in Seq(DriverCalls)
  BY DEF OneThread
<1>2. Cardinality({t}) = 1
  BY FS_Singleton
<1>3. Len(prog[t]) \in Nat /\ \A i \in 1 .. Len(prog[t]) : prog[t][i] \in DriverCalls
  BY <1>1
<1>4. \A i \in 1 .. Len(prog[t]) : prog[t][i] \in SoberCalls /\ Answered(prog[t][i])
  BY <1>3, DriverCallsAreAnswered
<1>5. \A u \in DOMAIN prog : u = t
  BY <1>1
<1>. QED  BY <1>1, <1>2, <1>3, <1>4, <1>5

LEMMA TwoLayout ==
  ASSUME NEW prog, TwoProcesses(prog)
  PROVE  /\ Cardinality(DOMAIN prog) = 2 /\ DOMAIN prog = {Listener, Connector}
         /\ \E k \in Nat :
              /\ \A t \in DOMAIN prog : Len(prog[t]) = k
              /\ \A t \in DOMAIN prog : \A i \in 1 .. k : prog[t][i] \in SoberCalls
              /\ \A i \in 1 .. k : Pings(prog[Listener][i]) /\ Pongs(prog[Connector][i])
<1>1. PICK n \in Nat, k \in Nat : prog = PingPong(n, k)
  BY DEF TwoProcesses
<1>2. Listener # Connector
  BY DriverConstants
<1>3. DOMAIN prog = {Listener, Connector}
  BY <1>1 DEF PingPong
<1>4. Cardinality({Listener, Connector}) = 2
  <2>1. Cardinality({Listener}) = 1 /\ IsFiniteSet({Listener})
    BY FS_Singleton
  <2>2. Cardinality({Listener} \cup {Connector}) = Cardinality({Listener}) + 1
    BY <1>2, <2>1, FS_AddElement
  <2>3. {Listener} \cup {Connector} = {Listener, Connector}
    OBVIOUS
  <2>. QED  BY <2>1, <2>2, <2>3
<1> DEFINE ping == Ping(n)
           pong == Pong(n)
<1>5. ping \in SoberCalls /\ Pings(ping) /\ pong \in SoberCalls /\ Pongs(pong)
  BY PingPings, PongPongs
<1>6. /\ prog[Listener] = [i \in 1 .. k |-> ping]
      /\ prog[Connector] = [i \in 1 .. k |-> pong]
  BY <1>1, <1>2 DEF PingPong
<1> HIDE DEF ping, pong
<1>7. /\ Len(prog[Listener]) = k /\ Len(prog[Connector]) = k
      /\ \A i \in 1 .. k : prog[Listener][i] = ping /\ prog[Connector][i] = pong
  BY <1>6
<1>. QED  BY <1>3, <1>4, <1>5, <1>7

LEMMA KnownCalls ==
  ASSUME NEW prog, Known(prog), NEW t \in DOMAIN prog
  PROVE  /\ Len(prog[t]) \in Nat
         /\ \A i \in 1 .. Len(prog[t]) : prog[t][i] \in SoberCalls
<1>1. CASE OneThread(prog)
  BY <1>1, OneLayout
<1>2. CASE TwoProcesses(prog)
  <2>1. PICK k \in Nat : /\ \A u \in DOMAIN prog : Len(prog[u]) = k
                         /\ \A u \in DOMAIN prog : \A i \in 1 .. k : prog[u][i] \in SoberCalls
    BY <1>2, TwoLayout
  <2>. QED  BY <2>1
<1>. QED  BY <1>1, <1>2 DEF Known
-----------------------------------------------------------------------------
(* The inductive invariant.                                                *)

Statuses == {"starting", "accepting", "running", "done", "failed", "crashed", "alone"}
Counts == [Parties -> Nat]
Types ==
  /\ Known(program)
  /\ at \in [Tasks -> [call : Nat, stage : Nat]]
  /\ doing \in [Tasks -> SUBSET Ops]
  /\ status \in [Tasks -> Statuses]
  /\ joined \in BOOLEAN
  /\ gate \in Counts /\ put \in Counts /\ taken \in Counts /\ got \in Counts /\ route \in Counts
  /\ sent \in [Parties -> Seq(WireFrames)]

Lives(t) == status[t] \notin {"failed", "crashed"}

\* A task is in a stage of a call, or at its end.
Place(t) ==
  /\ at[t].call \in 1 .. Len(program[t]) + 1
  /\ at[t].stage > 0 =>
       /\ at[t].call <= Len(program[t]) /\ at[t].stage <= Len(Call(t))
       /\ doing[t] \subseteq Call(t)[at[t].stage]
  /\ doing[t] # {} => at[t].stage > 0 /\ status[t] = "running"
  /\ status[t] = "done" => at[t].call = Len(program[t]) + 1
Placed == \A t \in Tasks : Place(t)

\* At most one frame of p is on its way, and it is the one of its last send.
Link(p) ==
  /\ Len(sent[p]) = got[p] \/ Len(sent[p]) = got[p] + 1
  /\ taken[p] <= put[p] /\ put[p] <= Total(sent[p])
  /\ got[p] = Len(sent[p]) => taken[p] = Total(sent[p])
  /\ got[p] < Len(sent[p]) => taken[p] < Total(sent[p]) /\ sent[p][got[p] + 1].gate = route[p]
  /\ gate[p] = Len(sent[p])
Linked ==
  /\ \A p \in Parties : Link(p)
  /\ \A t \in Tasks : \A p \in Parties : Sends(doing[t], p) # {} => put[p] < Total(sent[p])

\* A frame is on its way exactly when the call still has to receive it.
OneInv ==
  OneThread(program) => \A t \in Tasks :
    /\ status[t] \notin {"starting", "accepting", "alone"}
    /\ Lives(t) => \A p \in Parties :
         got[p] < Len(sent[p]) <=> Due(Call(t), at[t].stage, p) \/ Reads(doing[t], p) # {}

\* The positions of the two processes tell what each has sent and received.
Positions ==
  /\ Lives(Listener) =>
       /\ Len(sent[Client]) = at[Listener].call - (IF at[Listener].stage = 0 THEN 1 ELSE 0)
       /\ got[Server] =
            at[Listener].call - (IF at[Listener].stage = 2 /\ doing[Listener] = {} THEN 0 ELSE 1)
       /\ Sends(doing[Listener], Client) = {} => put[Client] = Total(sent[Client])
  /\ Lives(Connector) =>
       /\ got[Client] =
            at[Connector].call
              - (IF at[Connector].stage = 2 \/ (at[Connector].stage = 1 /\ doing[Connector] = {}) THEN 0 ELSE 1)
       /\ Len(sent[Server]) = at[Connector].call - (IF at[Connector].stage = 2 THEN 0 ELSE 1)
       /\ Sends(doing[Connector], Server) = {} => put[Server] = Total(sent[Server])
  /\ Len(sent[Client]) = got[Server] \/ Len(sent[Client]) = got[Server] + 1
  /\ got[Client] = Len(sent[Server]) \/ got[Client] = Len(sent[Server]) + 1

\* The two processes have met once one of them runs.
Met ==
  /\ \A t \in Tasks : status[t] \in {"running", "done"} => joined
  /\ joined => \A t \in Tasks : status[t] # "alone"
  /\ joined => status[Listener] # "starting" /\ status[Connector] # "starting"
TwoInv == TwoProcesses(program) => Positions /\ Met

IInv == Types /\ Placed /\ Linked /\ OneInv /\ TwoInv /\ NoMismatch

\* What the programs look like, as the proofs below use it.
LEMMA Programs1 ==
  ASSUME OneThread(program)
  PROVE  \A t \in Tasks :
           /\ Tasks = {t} /\ t # Listener /\ t # Connector
           /\ \A i \in 1 .. Len(program[t]) : Answered(program[t][i])
BY OneLayout DEF Tasks

LEMMA Programs2 ==
  ASSUME TwoProcesses(program)
  PROVE  /\ Tasks = {Listener, Connector} /\ Listener # Connector
         /\ Len(program[Connector]) = Len(program[Listener])
         /\ \A i \in 1 .. Len(program[Listener]) :
              Pings(program[Listener][i]) /\ Pongs(program[Connector][i])
<1>1. Tasks = {Listener, Connector} /\ Listener # Connector
  BY TwoLayout, DriverConstants DEF Tasks
<1>2. PICK k \in Nat :
        /\ \A t \in Tasks : Len(program[t]) = k
        /\ \A i \in 1 .. k : Pings(program[Listener][i]) /\ Pongs(program[Connector][i])
  BY TwoLayout DEF Tasks
<1>. QED  BY <1>1, <1>2

LEMMA ProgramCalls ==
  ASSUME Types, NEW t \in Tasks
  PROVE  /\ Len(program[t]) \in Nat
         /\ \A i \in 1 .. Len(program[t]) : program[t][i] \in SoberCalls
BY KnownCalls DEF Types, Tasks

LEMMA NothingIsDue == \A c : \A p \in Parties : ~Due(c, 0, p)
BY DEF Due

LEMMA EmptyStage == \A p \in Parties : Sends({}, p) = {} /\ Reads({}, p) = {}
BY DEF Sends, Reads

THEOREM InitIInv ==
  ASSUME Known(program), Init PROVE IInv
<1>1. Types
  <2>1. <<>> \in Seq(WireFrames)
    OBVIOUS
  <2>2. sent \in [Parties -> Seq(WireFrames)]
    BY <2>1 DEF Init
  <2>3. status \in [Tasks -> Statuses]
    BY DEF Init, Statuses
  <2>4. at \in [Tasks -> [call : Nat, stage : Nat]] /\ doing \in [Tasks -> SUBSET Ops]
    BY DEF Init
  <2>5. gate \in Counts /\ put \in Counts /\ taken \in Counts /\ got \in Counts /\ route \in Counts
    BY DEF Init, Counts
  <2>6. joined \in BOOLEAN
    BY DEF Init
  <2>. QED  BY <2>2, <2>3, <2>4, <2>5, <2>6 DEF Types
<1>2. \A t \in Tasks : /\ at[t].call = 1 /\ at[t].stage = 0 /\ doing[t] = {}
                       /\ status[t] = IF t \in {Listener, Connector} THEN "starting" ELSE "running"
  BY DEF Init
<1>3. \A p \in Parties : sent[p] = <<>> /\ gate[p] = 0 /\ put[p] = 0 /\ taken[p] = 0 /\ got[p] = 0
  BY DEF Init
<1>4. Len(<<>>) = 0 /\ Total(<<>>) = 0
  BY TotalOfNone
<1>5. Placed
  <2>1. \A t \in Tasks : Len(program[t]) \in Nat
    BY <1>1, ProgramCalls
  <2>. QED  BY <1>2, <2>1 DEF Placed, Place
<1>6. Linked
  <2>1. \A p \in Parties : Link(p)
    BY <1>3, <1>4 DEF Link
  <2>. QED  BY <1>2, <2>1, EmptyStage DEF Linked
<1>7. OneInv
  <2>1. SUFFICES ASSUME OneThread(program), NEW t \in Tasks
                 PROVE  /\ status[t] \notin {"starting", "accepting", "alone"}
                        /\ \A p \in Parties :
                             got[p] < Len(sent[p]) <=> Due(Call(t), at[t].stage, p) \/ Reads(doing[t], p) # {}
    BY DEF OneInv
  <2>2. status[t] = "running"
    BY <1>2, <2>1, Programs1
  <2>3. \A p \in Parties : ~(got[p] < Len(sent[p]))
    BY <1>3, <1>4
  <2>4. \A p \in Parties : ~Due(Call(t), at[t].stage, p)
    BY <1>2, NothingIsDue
  <2>5. \A p \in Parties : Reads(doing[t], p) = {}
    BY <1>2, EmptyStage
  <2>. QED  BY <2>2, <2>3, <2>4, <2>5
<1>8. TwoInv
  <2>1. SUFFICES ASSUME TwoProcesses(program) PROVE Positions /\ Met
    BY DEF TwoInv
  <2>2. Listener \in Tasks /\ Connector \in Tasks /\ Client \in Parties /\ Server \in Parties
    BY <2>1, Programs2, OtherParty
  <2>3. Positions
    BY <1>2, <1>3, <1>4, <2>2 DEF Positions
  <2>4. Met
    BY <1>2, <2>1, Programs2 DEF Met, Init
  <2>. QED  BY <2>3, <2>4
<1>9. NoMismatch
  BY <1>2 DEF NoMismatch
<1>. QED  BY <1>1, <1>5, <1>6, <1>7, <1>8, <1>9 DEF IInv
-----------------------------------------------------------------------------
(* Steps that only change what a task is doing.                            *)

\* A program that is within the limit stays so, and who has crashed stays so.
LEMMA StillNoMismatch ==
  ASSUME NoMismatch, Types, NEW t \in Tasks, NEW x, status' = [status EXCEPT ![t] = x],
         program' = program, status[t] # "crashed",
         x = "failed" => ~(WithinLimit /\ NoCrash)
  PROVE  NoMismatch'
<1>1. Tasks' = Tasks
  BY DEF Tasks
<1>2. WithinLimit' <=> WithinLimit
  BY <1>1 DEF WithinLimit, Frames
<1>3. /\ status'[t] = x
      /\ \A u \in Tasks : u # t => status'[u] = status[u]
  BY DEF Types
<1>4. SUFFICES ASSUME WithinLimit, NoCrash', NEW u \in Tasks, status'[u] = "failed" PROVE FALSE
  BY <1>1, <1>2 DEF NoMismatch
<1>5. NoCrash
  BY <1>1, <1>3, <1>4 DEF NoCrash
<1>6. status[u] # "failed"
  BY <1>4, <1>5 DEF NoMismatch
<1>. QED  BY <1>3, <1>4, <1>5, <1>6

LEMMA LinkUnchanged ==
  ASSUME Types, Linked, UNCHANGED <<program, link>>,
         \A t \in Tasks : doing'[t] = doing[t] \/ doing'[t] = {}
  PROVE  Linked'
<1>1. Tasks' = Tasks
  BY DEF Tasks
<1>2. \A p \in Parties : Link(p)'
  BY DEF Linked, Link, link
<1>3. ASSUME NEW t \in Tasks, NEW p \in Parties, Sends(doing'[t], p) # {}
      PROVE  put'[p] < Total(sent'[p])
  <2>1. doing'[t] = doing[t]
    BY <1>3, EmptyStage
  <2>. QED  BY <1>3, <2>1 DEF Linked, link
<1>. QED  BY <1>1, <1>2, <1>3 DEF Linked, Sends

\* A task that is not in a stage goes on, and no frame moves.
LEMMA QuietStep ==
  ASSUME IInv, UNCHANGED <<program, at, doing, link>>, joined' \in BOOLEAN,
         NEW t \in Tasks, NEW x \in Statuses \ {"failed", "crashed"},
         status' = [status EXCEPT ![t] = x], doing[t] = {}, Lives(t),
         x = "done" => at[t].call = Len(program[t]) + 1,
         OneThread(program) => x \notin {"starting", "accepting", "alone"},
         TwoProcesses(program) => Met'
  PROVE  IInv'
<1>1. Tasks' = Tasks
  BY DEF Tasks
<1>2. Types /\ Placed /\ Linked /\ OneInv /\ TwoInv /\ NoMismatch
  BY DEF IInv
<1>3. /\ status'[t] = x
      /\ \A u \in Tasks : u # t => status'[u] = status[u]
      /\ status' \in [Tasks -> Statuses]
  BY <1>2 DEF Types
<1>4. \A u \in Tasks : Lives(u)' <=> Lives(u)
  BY <1>3 DEF Lives
<1>5. Types'
  BY <1>1, <1>2, <1>3 DEF Types, link
<1>6. Placed'
  BY <1>1, <1>2, <1>3 DEF Placed, Place, Call
<1>7. Linked'
  BY <1>2, LinkUnchanged
<1>8. OneInv'
  BY <1>1, <1>2, <1>3, <1>4 DEF OneInv, Call, link
<1>9. TwoInv'
  <2>1. SUFFICES ASSUME TwoProcesses(program) PROVE Positions'
    BY DEF TwoInv
  <2>2. Listener \in Tasks /\ Connector \in Tasks
    BY <2>1, Programs2
  <2>3. (Lives(Listener)' <=> Lives(Listener)) /\ (Lives(Connector)' <=> Lives(Connector))
    BY <1>4, <2>2
  <2>4. Positions
    BY <1>2, <2>1 DEF TwoInv
  <2>. QED  BY <2>3, <2>4 DEF Positions, link
<1>10. NoMismatch'
  BY <1>2, StillNoMismatch DEF Lives
<1>. QED  BY <1>5, <1>6, <1>7, <1>8, <1>9, <1>10 DEF IInv

\* A task fails or crashes.
LEMMA DyingStep ==
  ASSUME IInv, UNCHANGED <<program, at, joining, link>>,
         NEW t \in Tasks, NEW x \in {"failed", "crashed"},
         status' = [status EXCEPT ![t] = x], doing' = [doing EXCEPT ![t] = {}],
         status[t] # "crashed",
         x = "failed" => ~(WithinLimit /\ NoCrash)
  PROVE  IInv'
<1>1. Tasks' = Tasks
  BY DEF Tasks
<1>2. Types /\ Placed /\ Linked /\ OneInv /\ TwoInv /\ NoMismatch
  BY DEF IInv
<1>3. /\ status'[t] = x
      /\ \A u \in Tasks : u # t => status'[u] = status[u] /\ doing'[u] = doing[u]
      /\ doing'[t] = {}
      /\ status' \in [Tasks -> Statuses] /\ doing' \in [Tasks -> SUBSET Ops]
  BY <1>2 DEF Types, Statuses
<1>4. \A u \in Tasks : Lives(u)' => Lives(u) /\ u # t
  BY <1>3 DEF Lives
<1>5. Types'
  BY <1>1, <1>2, <1>3 DEF Types, link, joining
<1>6. Placed'
  BY <1>1, <1>2, <1>3 DEF Placed, Place, Call
<1>7. Linked'
  BY <1>2, <1>3, LinkUnchanged
<1>8. OneInv'
  BY <1>1, <1>2, <1>3, <1>4 DEF OneInv, Call, link
<1>9. TwoInv'
  <2>1. SUFFICES ASSUME TwoProcesses(program) PROVE Positions' /\ Met'
    BY DEF TwoInv
  <2>2. Listener \in Tasks /\ Connector \in Tasks
    BY <2>1, Programs2
  <2>3. /\ Lives(Listener)' => Lives(Listener) /\ doing'[Listener] = doing[Listener]
        /\ Lives(Connector)' => Lives(Connector) /\ doing'[Connector] = doing[Connector]
    BY <1>3, <1>4, <2>2
  <2>4. Positions /\ Met
    BY <1>2, <2>1 DEF TwoInv
  <2>5. Positions'
    BY <2>3, <2>4 DEF Positions, link, Sends
  <2>6. Met'
    BY <1>1, <1>3, <2>2, <2>4 DEF Met, joining
  <2>. QED  BY <2>5, <2>6
<1>10. NoMismatch'
  BY <1>2, StillNoMismatch
<1>. QED  BY <1>5, <1>6, <1>7, <1>8, <1>9, <1>10 DEF IInv

LEMMA BindStep ==
  ASSUME IInv, NEW t \in Tasks, Bind(t) PROVE IInv'
<1>1. t = Listener /\ status[t] = "starting" /\ UNCHANGED joining
  BY DEF Bind
<1>2. PICK x \in {"accepting", "alone"} : Becomes(t, x)
  BY DEF Bind
<1>3. status' = [status EXCEPT ![t] = x] /\ UNCHANGED <<program, at, doing, link>>
  BY <1>2 DEF Becomes
<1>4. Types /\ Placed /\ TwoInv
  BY DEF IInv
<1>5. x \in Statuses \ {"failed", "crashed"} /\ joined' \in BOOLEAN /\ Lives(t) /\ doing[t] = {}
  BY <1>1, <1>4 DEF Statuses, Types, joining, Lives, Placed, Place
<1>6. ~OneThread(program)
  BY <1>1, Programs1
<1>7. ASSUME TwoProcesses(program) PROVE Met'
  <2>1. Met
    BY <1>4, <1>7 DEF TwoInv
  <2>2. ~joined /\ ~joined'
    BY <1>1, <2>1 DEF Met, joining
  <2>3. Tasks' = Tasks /\ \A u \in Tasks : u # t => status'[u] = status[u]
    BY <1>3, <1>4 DEF Types, Tasks
  <2>4. status'[t] = x
    BY <1>3, <1>4 DEF Types
  <2>. QED  BY <2>1, <2>2, <2>3, <2>4 DEF Met
<1>8. x = "done" => at[t].call = Len(program[t]) + 1
  OBVIOUS
<1>. QED  BY <1>3, <1>5, <1>6, <1>7, <1>8, QuietStep

LEMMA ConnectStep ==
  ASSUME IInv, NEW t \in Tasks, Connect(t) PROVE IInv'
<1>1. t = Connector /\ status[t] = "starting" /\ joined' = (status[Listener] = "accepting")
  BY DEF Connect
<1>2. PICK x \in {"running", "alone", "starting"} :
        Becomes(t, x) /\ (x = "running" <=> status[Listener] = "accepting")
  BY DEF Connect
<1>3. status' = [status EXCEPT ![t] = x] /\ UNCHANGED <<program, at, doing, link>>
  BY <1>2 DEF Becomes
<1>4. Types /\ Placed /\ TwoInv
  BY DEF IInv
<1>5. x \in Statuses \ {"failed", "crashed"} /\ joined' \in BOOLEAN /\ Lives(t) /\ doing[t] = {}
  BY <1>1, <1>4 DEF Statuses, Lives, Placed, Place
<1>6. ~OneThread(program)
  BY <1>1, Programs1
<1>7. ASSUME TwoProcesses(program) PROVE Met'
  <2>1. Met
    BY <1>4, <1>7 DEF TwoInv
  <2>2. Tasks = {Listener, Connector} /\ Listener # Connector
    BY <1>7, Programs2
  <2>3. ~joined
    BY <1>1, <2>1 DEF Met
  <2>4. /\ Tasks' = Tasks /\ status'[Connector] = x
        /\ status'[Listener] = status[Listener] /\ status[Listener] \notin {"running", "done"}
    BY <1>1, <1>3, <1>4, <2>1, <2>2, <2>3 DEF Types, Tasks, Met
  <2>. QED  BY <1>1, <1>2, <2>2, <2>4 DEF Met
<1>8. x = "done" => at[t].call = Len(program[t]) + 1
  OBVIOUS
<1>. QED  BY <1>3, <1>5, <1>6, <1>7, <1>8, QuietStep

LEMMA AcceptStep ==
  ASSUME IInv, NEW t \in Tasks, Accept(t) PROVE IInv'
<1>1. t = Listener /\ status[t] = "accepting" /\ joined /\ Becomes(t, "running") /\ UNCHANGED joining
  BY DEF Accept
<1>2. status' = [status EXCEPT ![t] = "running"] /\ UNCHANGED <<program, at, doing, link>>
  BY <1>1 DEF Becomes
<1>3. Types /\ Placed /\ TwoInv
  BY DEF IInv
<1>4. "running" \in Statuses \ {"failed", "crashed"} /\ joined' \in BOOLEAN /\ Lives(t) /\ doing[t] = {}
  BY <1>1, <1>3 DEF Statuses, Types, joining, Lives, Placed, Place
<1>5. ASSUME TwoProcesses(program) PROVE Met'
  <2>1. Met
    BY <1>3, <1>5 DEF TwoInv
  <2>2. Tasks = {Listener, Connector} /\ Listener # Connector
    BY <1>5, Programs2
  <2>3. /\ Tasks' = Tasks /\ joined' = joined /\ status'[Listener] = "running"
        /\ status'[Connector] = status[Connector]
    BY <1>1, <1>2, <1>3, <2>2 DEF Types, Tasks, joining
  <2>. QED  BY <1>1, <2>1, <2>2, <2>3 DEF Met
<1>. QED  BY <1>2, <1>4, <1>5, QuietStep

LEMMA FinishStep ==
  ASSUME IInv, NEW t \in Tasks, Finish(t) PROVE IInv'
<1>1. /\ status[t] = "running" /\ doing[t] = {} /\ at[t].call > Len(program[t])
      /\ status' = [status EXCEPT ![t] = "done"]
      /\ UNCHANGED <<program, at, doing, link>> /\ joined' = joined
  BY DEF Finish, Idle, joining
<1>2. Types /\ Placed /\ TwoInv
  BY DEF IInv
<1>3. "done" \in Statuses \ {"failed", "crashed"} /\ joined' \in BOOLEAN /\ Lives(t)
  BY <1>1, <1>2 DEF Statuses, Types, Lives
<1>4. at[t].call = Len(program[t]) + 1
  <2>1. Len(program[t]) \in Nat /\ at[t].call \in 1 .. Len(program[t]) + 1
    BY <1>2, ProgramCalls DEF Placed, Place
  <2>. QED  BY <1>1, <2>1
<1>5. ASSUME TwoProcesses(program) PROVE Met'
  <2>1. Met
    BY <1>2, <1>5 DEF TwoInv
  <2>2. /\ Tasks' = Tasks /\ status'[t] = "done"
        /\ \A u \in Tasks : u # t => status'[u] = status[u]
    BY <1>1, <1>2 DEF Types, Tasks
  <2>3. Listener \in Tasks /\ Connector \in Tasks
    BY <1>5, Programs2
  <2>. QED  BY <1>1, <2>1, <2>2, <2>3 DEF Met
<1>. QED  BY <1>1, <1>3, <1>4, <1>5, QuietStep

LEMMA CrashStep ==
  ASSUME IInv, NEW t \in Tasks, Crash(t) PROVE IInv'
<1>1. /\ status' = [status EXCEPT ![t] = "crashed"] /\ doing' = [doing EXCEPT ![t] = {}]
      /\ UNCHANGED <<program, at, joining, link>> /\ status[t] # "crashed"
  BY DEF Crash, Ended
<1>2. "crashed" \in {"failed", "crashed"}
  OBVIOUS
<1>. QED  BY <1>1, <1>2, DyingStep

LEMMA SendTooLargeStep ==
  ASSUME IInv, NEW t \in Tasks, SendTooLarge(t) PROVE IInv'
<1>1. /\ status' = [status EXCEPT ![t] = "failed"] /\ doing' = [doing EXCEPT ![t] = {}]
      /\ UNCHANGED <<program, at, joining, link>> /\ status[t] = "running"
      /\ at[t].call <= Len(program[t]) /\ at[t].stage < Len(Call(t))
  BY DEF SendTooLarge, Fail, Idle
<1>2. PICK op \in Call(t)[at[t].stage + 1] : op.size > MaxPayload
  BY DEF SendTooLarge
<1>3. Types /\ Placed
  BY DEF IInv
<1>4. /\ at[t].call \in DOMAIN program[t] /\ at[t].stage + 1 \in DOMAIN program[t][at[t].call]
  <2>1. Len(program[t]) \in Nat /\ at[t].call \in 1 .. Len(program[t]) /\ at[t].stage \in Nat
    BY <1>1, <1>3, ProgramCalls DEF Types, Placed, Place
  <2>2. program[t][at[t].call] \in SoberCalls
    BY <1>3, <2>1, ProgramCalls
  <2>3. at[t].call \in DOMAIN program[t]
    <3>1. OneThread(program) \/ TwoProcesses(program)
      BY <1>3 DEF Types, Known
    <3>2. CASE OneThread(program)
      <4>1. \E c : program[t] \in Seq(c)
        BY <3>2 DEF OneThread, Tasks
      <4>. QED  BY <2>1, <4>1
    <3>3. CASE TwoProcesses(program)
      <4>1. PICK n, k \in Nat : program = PingPong(n, k)
        BY <3>3 DEF TwoProcesses
      <4>2. program[t] = [i \in 1 .. k |-> IF t = Listener THEN Ping(n) ELSE Pong(n)]
        BY <4>1 DEF PingPong, Tasks
      <4>. QED  BY <2>1, <4>2
    <3>. QED  BY <3>1, <3>2, <3>3
  <2>4. at[t].stage + 1 \in 1 .. Len(program[t][at[t].call])
    BY <1>1, <2>1, <2>2 DEF Call, SoberCalls
  <2>. QED  BY <2>2, <2>3, <2>4 DEF SoberCalls
<1>5. op \in Frames(t)
  BY <1>2, <1>4 DEF Frames, Call, ToSet
<1>6. op.size \in Nat /\ MaxPayload \in Nat
  <2>1. Call(t) \in SoberCalls /\ at[t].stage + 1 \in 1 .. Len(Call(t))
    <3>1. Len(program[t]) \in Nat /\ at[t].call \in 1 .. Len(program[t]) /\ at[t].stage \in Nat
      BY <1>1, <1>3, ProgramCalls DEF Types, Placed, Place
    <3>2. Call(t) \in SoberCalls
      BY <1>3, <3>1, ProgramCalls DEF Call
    <3>. QED  BY <1>1, <3>1, <3>2 DEF SoberCalls
  <2>2. op \in Ops
    BY <1>2, <2>1 DEF SoberCalls
  <2>. QED  BY <2>2, DriverConstants DEF Ops
<1>7. ~WithinLimit
  BY <1>2, <1>5, <1>6 DEF WithinLimit
<1>8. "failed" \in {"failed", "crashed"}
  OBVIOUS
<1>. QED  BY <1>1, <1>7, <1>8, DyingStep

LEMMA WaitForStep ==
  ASSUME IInv, NEW t \in Tasks, WaitFor(t) PROVE IInv'
<1>1. UNCHANGED <<program, at, doing, status, joined, link>>
  BY DEF WaitFor
<1>2. Tasks' = Tasks
  BY <1>1 DEF Tasks
<1>3. Types /\ Placed /\ Linked /\ OneInv /\ TwoInv /\ NoMismatch
  BY DEF IInv
<1>4. Types'
  BY <1>1, <1>2, <1>3 DEF Types, link
<1>5. Placed'
  BY <1>1, <1>2, <1>3 DEF Placed, Place, Call
<1>6. Linked'
  BY <1>1, <1>3, LinkUnchanged
<1>7. OneInv'
  BY <1>1, <1>2, <1>3 DEF OneInv, Call, Lives, link
<1>8. TwoInv'
  BY <1>1, <1>2, <1>3 DEF TwoInv, Positions, Met, Lives, Sends, link
<1>9. NoMismatch'
  BY <1>1, <1>2, <1>3 DEF NoMismatch, WithinLimit, NoCrash, Frames
<1>. QED  BY <1>4, <1>5, <1>6, <1>7, <1>8, <1>9 DEF IInv

LEMMA NextCallStep ==
  ASSUME IInv, NEW t \in Tasks, NextCall(t) PROVE IInv'
<1>1. /\ status[t] = "running" /\ doing[t] = {}
      /\ at[t].call <= Len(program[t]) /\ at[t].stage = Len(Call(t))
      /\ at' = [at EXCEPT ![t] = [call |-> at[t].call + 1, stage |-> 0]]
      /\ UNCHANGED <<program, doing, status, joining, link>>
  BY DEF NextCall, Idle
<1>2. Tasks' = Tasks
  BY <1>1 DEF Tasks
<1>3. Types /\ Placed /\ Linked /\ OneInv /\ TwoInv /\ NoMismatch
  BY DEF IInv
<1>4. /\ Len(program[t]) \in Nat /\ at[t].call \in 1 .. Len(program[t])
      /\ at[t] \in [call : Nat, stage : Nat]
  BY <1>1, <1>3, ProgramCalls DEF Types, Placed, Place
<1>5. /\ at'[t].call = at[t].call + 1 /\ at'[t].stage = 0
      /\ \A u \in Tasks : u # t => at'[u] = at[u]
      /\ at' \in [Tasks -> [call : Nat, stage : Nat]]
  BY <1>1, <1>3, <1>4 DEF Types
<1>6. Types'
  BY <1>1, <1>2, <1>3, <1>5 DEF Types, link, joining
<1>7. Placed'
  <2>1. SUFFICES ASSUME NEW u \in Tasks PROVE Place(u)'
    BY <1>2 DEF Placed
  <2>2. CASE u = t
    BY <1>1, <1>4, <1>5, <2>2 DEF Place
  <2>3. CASE u # t
    BY <1>1, <1>3, <1>5, <2>3 DEF Placed, Place, Call
  <2>. QED  BY <2>2, <2>3
<1>8. Linked'
  BY <1>1, <1>3, LinkUnchanged
<1>9. OneInv'
  <2>1. SUFFICES ASSUME OneThread(program) PROVE
          /\ status[t] \notin {"starting", "accepting", "alone"}
          /\ \A p \in Parties : ~(got[p] < Len(sent[p]))
          /\ \A p \in Parties : ~Due(Call(t)', 0, p) /\ Reads(doing[t], p) = {}
    <3>1. ASSUME OneThread(program) PROVE \A u \in Tasks : u = t
      BY <3>1, Programs1
    <3>. QED  BY <1>1, <1>2, <1>5, <3>1 DEF OneInv, link
  <2>2. \A p \in Parties : ~Due(Call(t), Len(Call(t)), p)
    BY <1>4, <2>1, Programs1 DEF Call, Answered
  <2>3. \A p \in Parties : Reads(doing[t], p) = {}
    BY <1>1, EmptyStage
  <2>4. \A p \in Parties : ~(got[p] < Len(sent[p]))
    BY <1>1, <1>3, <2>1, <2>2, <2>3 DEF OneInv, Lives
  <2>. QED  BY <1>1, <2>3, <2>4, NothingIsDue
<1>10. TwoInv'
  <2>1. SUFFICES ASSUME TwoProcesses(program) PROVE Positions' /\ Met'
    BY <1>1 DEF TwoInv
  <2>2. Tasks = {Listener, Connector} /\ Listener # Connector
    BY <2>1, Programs2
  <2>3. Len(Call(t)) = 2
    BY <1>4, <2>1, <2>2, Programs2 DEF Call, Pings, Pongs
  <2>4. Positions /\ Met
    BY <1>3, <2>1 DEF TwoInv
  <2>5. Positions'
    <3>1. CASE t = Listener
      BY <1>1, <1>4, <1>5, <2>2, <2>3, <2>4, <3>1 DEF Positions, Lives, Sends, link
    <3>2. CASE t = Connector
      BY <1>1, <1>4, <1>5, <2>2, <2>3, <2>4, <3>2 DEF Positions, Lives, Sends, link
    <3>. QED  BY <2>2, <3>1, <3>2
  <2>6. Met'
    BY <1>1, <1>2, <2>4 DEF Met, joining
  <2>. QED  BY <2>5, <2>6
<1>11. NoMismatch'
  BY <1>1, <1>2, <1>3 DEF NoMismatch, WithinLimit, NoCrash, Frames
<1>. QED  BY <1>6, <1>7, <1>8, <1>9, <1>10, <1>11 DEF IInv
-----------------------------------------------------------------------------
(* The next stage.                                                         *)

LEMMA StageType ==
  ASSUME Types, Placed, NEW t \in Tasks, at[t].call <= Len(program[t]),
         NEW s \in 1 .. Len(Call(t))
  PROVE  /\ Sober(Call(t)[s]) /\ Len(Call(t)) \in Nat
         /\ at[t].call \in 1 .. Len(program[t])
<1>1. at[t].call \in 1 .. Len(program[t])
  BY ProgramCalls DEF Types, Placed, Place
<1>2. Call(t) \in SoberCalls
  BY <1>1, ProgramCalls DEF Call
<1>. QED  BY <1>1, <1>2 DEF SoberCalls

\* What a stage sends, it sends when nothing is on its way there.
LEMMA NothingOnItsWay ==
  ASSUME IInv, NEW t \in Tasks, status[t] = "running", doing[t] = {},
         at[t].call <= Len(program[t]), at[t].stage < Len(Call(t)),
         NEW p \in Parties, Sends(Call(t)[at[t].stage + 1], p) # {}
  PROVE  got[p] = Len(sent[p])
<1>1. Types /\ Placed /\ Linked /\ OneInv /\ TwoInv
  BY DEF IInv
<1>2. at[t].stage \in Nat /\ at[t].call \in 1 .. Len(program[t])
  BY <1>1, ProgramCalls DEF Types, Placed, Place
<1>3. Call(t) \in SoberCalls
  BY <1>1, <1>2, ProgramCalls DEF Call
<1>4. Len(Call(t)) \in Nat /\ at[t].stage + 1 \in 1 .. Len(Call(t)) /\ (at[t].stage + 1) - 1 = at[t].stage
  BY <1>2, <1>3 DEF SoberCalls
<1>5. /\ \A q \in Parties : got[q] \in Nat /\ Len(sent[q]) \in Nat
      /\ \A q \in Parties : Len(sent[q]) = got[q] \/ Len(sent[q]) = got[q] + 1
  BY <1>1 DEF Types, Counts, Linked, Link
<1>6. CASE OneThread(program)
  <2>1. Answered(Call(t))
    BY <1>2, <1>6, Programs1 DEF Call
  <2>2. ~Due(Call(t), at[t].stage, p)
    BY <1>4, <2>1 DEF Answered
  <2>3. Reads(doing[t], p) = {}
    BY EmptyStage
  <2>4. ~(got[p] < Len(sent[p]))
    BY <1>1, <1>6, <2>2, <2>3 DEF OneInv, Lives
  <2>. QED  BY <1>5, <2>4
<1>7. CASE TwoProcesses(program)
  <2>1. Tasks = {Listener, Connector} /\ Listener # Connector
    BY <1>7, Programs2
  <2>2. Positions
    BY <1>1, <1>7 DEF TwoInv
  <2>3. Client \in Parties /\ Server \in Parties /\ Client # Server
    BY OtherParty
  <2>4. CASE t = Listener
    <3>1. Pings(Call(t))
      BY <1>2, <1>7, <2>4, Programs2 DEF Call
    <3>2. at[t].stage = 0 /\ p = Client
      BY <1>2, <1>4, <3>1 DEF Pings
    <3>3. Len(sent[Client]) = at[t].call - 1 /\ got[Server] = at[t].call - 1
      BY <2>2, <2>4, <3>2 DEF Positions, Lives
    <3>4. got[Server] <= Len(sent[Server]) /\ Len(sent[Server]) <= got[Client]
      BY <1>5, <2>2, <2>3 DEF Positions
    <3>. QED  BY <1>2, <1>5, <2>3, <3>2, <3>3, <3>4
  <2>5. CASE t = Connector
    <3>1. Pongs(Call(t))
      BY <1>2, <1>7, <2>1, <2>5, Programs2 DEF Call
    <3>2. at[t].stage = 1 /\ p = Server
      BY <1>2, <1>4, <3>1 DEF Pongs
    <3>3. Len(sent[Server]) = at[t].call - 1 /\ got[Client] = at[t].call
      BY <1>2, <2>2, <2>5, <3>2 DEF Positions, Lives
    <3>4. got[Client] <= Len(sent[Client]) /\ Len(sent[Client]) <= got[Server] + 1
      BY <1>5, <2>2, <2>3 DEF Positions
    <3>. QED  BY <1>2, <1>5, <2>3, <3>2, <3>3, <3>4
  <2>. QED  BY <2>1, <2>4, <2>5
<1>. QED  BY <1>1, <1>6, <1>7 DEF Types, Known

\* What the first poll of a stage does: a frame is begun for every send.
LEMMA BeginEffect ==
  ASSUME IInv, NEW t \in Tasks, BeginStage(t)
  PROVE  /\ status[t] = "running" /\ doing[t] = {} /\ at[t].call \in 1 .. Len(program[t])
         /\ at[t].stage \in Nat /\ at[t].stage + 1 \in 1 .. Len(Call(t)) /\ Len(Call(t)) \in Nat
         /\ Sober(Call(t)[at[t].stage + 1])
         /\ UNCHANGED <<program, status, joining, put, taken, got>>
         /\ at'[t].call = at[t].call /\ at'[t].stage = at[t].stage + 1
         /\ doing'[t] = Call(t)[at[t].stage + 1]
         /\ \A u \in Tasks : u # t => at'[u] = at[u] /\ doing'[u] = doing[u]
         /\ at' \in [Tasks -> [call : Nat, stage : Nat]] /\ doing' \in [Tasks -> SUBSET Ops]
         /\ gate' \in Counts /\ route' \in Counts /\ sent' \in [Parties -> Seq(WireFrames)]
         /\ \A p \in Parties :
              IF Sends(Call(t)[at[t].stage + 1], p) = {}
                THEN gate'[p] = gate[p] /\ sent'[p] = sent[p] /\ route'[p] = route[p]
                ELSE /\ gate'[p] = gate[p] + 1 /\ route'[p] = gate[p]
                     /\ \E x \in WireFrames : /\ x.gate = gate[p] /\ x.size > 0
                                              /\ sent'[p] = Append(sent[p], x)
<1> DEFINE stage == Call(t)[at[t].stage + 1]
<1>1. /\ status[t] = "running" /\ doing[t] = {}
      /\ at[t].call <= Len(program[t]) /\ at[t].stage < Len(Call(t))
      /\ at' = [at EXCEPT ![t].stage = @ + 1]
      /\ doing' = [doing EXCEPT ![t] = stage]
      /\ gate' = [p \in Parties |-> gate[p] + (IF Sends(stage, p) = {} THEN 0 ELSE 1)]
      /\ sent' = [p \in Parties |->
           IF Sends(stage, p) = {} THEN sent[p]
           ELSE Append(sent[p], [gate |-> gate[p],
                                 size |-> Header + (CHOOSE op \in Sends(stage, p) : TRUE).size])]
      /\ route' = [p \in Parties |-> IF Sends(stage, p) = {} THEN route[p] ELSE gate[p]]
      /\ UNCHANGED <<program, status, joining, put, taken, got>>
  BY DEF BeginStage, Idle
<1>2. Types /\ Placed
  BY DEF IInv
<1>3. at[t].call \in 1 .. Len(program[t]) /\ at[t] \in [call : Nat, stage : Nat] /\ at[t].stage \in Nat
  BY <1>1, <1>2, ProgramCalls DEF Types, Placed, Place
<1>4. Call(t) \in SoberCalls
  BY <1>2, <1>3, ProgramCalls DEF Call
<1>5. Len(Call(t)) \in Nat /\ at[t].stage + 1 \in 1 .. Len(Call(t)) /\ Sober(stage)
  BY <1>1, <1>3, <1>4 DEF SoberCalls
<1> HIDE DEF stage
<1>6. /\ at'[t].call = at[t].call /\ at'[t].stage = at[t].stage + 1
      /\ \A u \in Tasks : u # t => at'[u] = at[u]
      /\ at' \in [Tasks -> [call : Nat, stage : Nat]]
  <2> DEFINE r == [at[t] EXCEPT !.stage = @ + 1]
  <2>1. at' = [at EXCEPT ![t] = r]
    BY <1>1
  <2>2. r \in [call : Nat, stage : Nat] /\ r.call = at[t].call /\ r.stage = at[t].stage + 1
    BY <1>3
  <2> HIDE DEF r
  <2>. QED  BY <1>2, <2>1, <2>2 DEF Types
<1>7. /\ doing'[t] = stage
      /\ \A u \in Tasks : u # t => doing'[u] = doing[u]
      /\ doing' \in [Tasks -> SUBSET Ops]
  BY <1>1, <1>2, <1>5 DEF Types, Sober
<1>8. gate' \in Counts /\ route' \in Counts
  BY <1>1, <1>2 DEF Types, Counts
<1>9. ASSUME NEW p \in Parties, Sends(stage, p) # {}
      PROVE  /\ gate'[p] = gate[p] + 1 /\ route'[p] = gate[p]
             /\ \E x \in WireFrames : /\ x.gate = gate[p] /\ x.size > 0
                                      /\ sent'[p] = Append(sent[p], x)
  <2>1. PICK op \in Sends(stage, p) : op = CHOOSE o \in Sends(stage, p) : TRUE
    BY <1>9
  <2>2. op.size \in Nat
    BY <1>5, <2>1 DEF Sober, Sends, Ops
  <2> DEFINE x == [gate |-> gate[p], size |-> Header + op.size]
  <2>3. x \in WireFrames /\ x.gate = gate[p] /\ x.size > 0
    BY <1>2, <2>2 DEF Types, Counts, WireFrames, Header
  <2>4. sent'[p] = Append(sent[p], x)
    BY <1>1, <1>9, <2>1
  <2>5. gate'[p] = gate[p] + 1 /\ route'[p] = gate[p]
    BY <1>1, <1>9
  <2> HIDE DEF x
  <2>. QED  BY <2>3, <2>4, <2>5
<1>10. ASSUME NEW p \in Parties, Sends(stage, p) = {}
       PROVE  gate'[p] = gate[p] /\ sent'[p] = sent[p] /\ route'[p] = route[p]
  BY <1>1, <1>2, <1>10 DEF Types, Counts
<1>11. sent' \in [Parties -> Seq(WireFrames)]
  <2>1. ASSUME NEW p \in Parties PROVE sent'[p] \in Seq(WireFrames)
    <3>1. sent[p] \in Seq(WireFrames)
      BY <1>2 DEF Types
    <3>. QED  BY <1>9, <1>10, <3>1, AppendProperties
  <2>2. DOMAIN sent' = Parties /\ sent' = [p \in Parties |-> sent'[p]]
    BY <1>1
  <2>. QED  BY <2>1, <2>2
<1>. QED  BY <1>1, <1>3, <1>5, <1>6, <1>7, <1>8, <1>9, <1>10, <1>11 DEF stage

LEMMA BeginStep ==
  ASSUME IInv, NEW t \in Tasks, BeginStage(t) PROVE IInv'
<1>1. Types /\ Placed /\ Linked /\ OneInv /\ TwoInv /\ NoMismatch
  BY DEF IInv
<1> DEFINE stage == Call(t)[at[t].stage + 1]
<1>2. /\ status[t] = "running" /\ doing[t] = {} /\ at[t].call \in 1 .. Len(program[t])
      /\ at[t].stage \in Nat /\ at[t].stage + 1 \in 1 .. Len(Call(t)) /\ Len(Call(t)) \in Nat
      /\ Sober(stage)
      /\ UNCHANGED <<program, status, joining, put, taken, got>>
      /\ at'[t].call = at[t].call /\ at'[t].stage = at[t].stage + 1
      /\ doing'[t] = stage
      /\ \A u \in Tasks : u # t => at'[u] = at[u] /\ doing'[u] = doing[u]
  BY BeginEffect
<1>3. /\ at' \in [Tasks -> [call : Nat, stage : Nat]] /\ doing' \in [Tasks -> SUBSET Ops]
      /\ gate' \in Counts /\ route' \in Counts /\ sent' \in [Parties -> Seq(WireFrames)]
  BY BeginEffect
<1>4. \A p \in Parties :
        IF Sends(stage, p) = {}
          THEN gate'[p] = gate[p] /\ sent'[p] = sent[p] /\ route'[p] = route[p]
          ELSE /\ gate'[p] = gate[p] + 1 /\ route'[p] = gate[p]
               /\ \E x \in WireFrames : /\ x.gate = gate[p] /\ x.size > 0
                                        /\ sent'[p] = Append(sent[p], x)
  BY BeginEffect
<1>5. \A p \in Parties : Sends(stage, p) # {} => got[p] = Len(sent[p])
  <2>1. at[t].call <= Len(program[t]) /\ at[t].stage < Len(Call(t))
    BY <1>1, <1>2, ProgramCalls
  <2>. QED  BY <1>2, <2>1, NothingOnItsWay
<1> HIDE DEF stage
<1>6. Tasks' = Tasks /\ Call(t)' = Call(t) /\ \A u \in Tasks : u # t => Call(u)' = Call(u)
  BY <1>2 DEF Tasks, Call
<1>7. Types'
  BY <1>1, <1>2, <1>3, <1>6 DEF Types, joining
<1>8. Placed'
  <2>1. SUFFICES ASSUME NEW u \in Tasks PROVE Place(u)'
    BY <1>6 DEF Placed
  <2>2. CASE u = t
    <3>1. doing'[t] \subseteq Call(t)'[at'[t].stage]
      BY <1>2, <1>6 DEF stage
    <3>2. Len(program[t]) \in Nat
      BY <1>1, ProgramCalls
    <3>. QED  BY <1>2, <1>6, <2>2, <3>1, <3>2 DEF Place
  <2>3. CASE u # t
    BY <1>1, <1>2, <1>6, <2>3 DEF Placed, Place
  <2>. QED  BY <2>2, <2>3
<1>9. ASSUME NEW p \in Parties, Sends(stage, p) # {}
      PROVE  /\ Link(p)' /\ Len(sent'[p]) = Len(sent[p]) + 1
             /\ put[p] < Total(sent'[p]) /\ Total(sent[p]) <= Total(sent'[p])
  <2>1. PICK x \in WireFrames : x.gate = gate[p] /\ x.size > 0 /\ sent'[p] = Append(sent[p], x)
    BY <1>4, <1>9
  <2>2. PICK s \in Seq(WireFrames) : s = sent[p]
    BY <1>1 DEF Types
  <2>3. /\ Len(sent'[p]) = Len(s) + 1 /\ sent'[p][Len(s) + 1] = x
        /\ Total(sent'[p]) = Total(s) + x.size /\ Total(s) \in Nat /\ Len(s) \in Nat
    BY <2>1, <2>2, AppendProperties, TotalAppend, TotalType
  <2>4. x.size \in Nat
    BY DEF WireFrames
  <2>5. /\ got[p] = Len(s) /\ taken[p] = Total(s) /\ put[p] = Total(s) /\ gate[p] = Len(s)
    <3>1. put[p] \in Nat /\ taken[p] \in Nat
      BY <1>1 DEF Types, Counts
    <3>. QED  BY <1>1, <1>5, <1>9, <2>2, <2>3, <3>1 DEF Linked, Link
  <2>6. gate'[p] = Len(s) + 1 /\ route'[p] = Len(s)
    BY <1>4, <1>9, <2>5
  <2>. QED  BY <1>2, <2>1, <2>2, <2>3, <2>4, <2>5, <2>6 DEF Link
<1>10. ASSUME NEW p \in Parties, Sends(stage, p) = {}
       PROVE  Link(p)' /\ Len(sent'[p]) = Len(sent[p]) /\ Total(sent'[p]) = Total(sent[p])
  BY <1>1, <1>2, <1>4, <1>10 DEF Linked, Link
<1>11. Linked'
  <2>1. \A p \in Parties : Link(p)'
    BY <1>9, <1>10
  <2>2. ASSUME NEW u \in Tasks, NEW p \in Parties, Sends(doing'[u], p) # {}
        PROVE  put'[p] < Total(sent'[p])
    <3>1. CASE u = t
      BY <1>2, <1>9, <2>2, <3>1
    <3>2. CASE u # t
      <4>1. put[p] < Total(sent[p])
        BY <1>1, <1>2, <2>2, <3>2 DEF Linked
      <4>2. put[p] \in Nat /\ Total(sent[p]) \in Nat /\ Total(sent'[p]) \in Nat
        BY <1>1, <1>3, TotalType DEF Types, Counts
      <4>. QED  BY <1>2, <1>9, <1>10, <4>1, <4>2
    <3>. QED  BY <3>1, <3>2
  <2>. QED  BY <1>6, <2>1, <2>2 DEF Linked, Sends
<1>12. OneInv'
  <2>1. SUFFICES ASSUME OneThread(program), NEW p \in Parties
                 PROVE  got[p] < Len(sent'[p])
                          <=> Due(Call(t), at[t].stage + 1, p) \/ Reads(stage, p) # {}
    <3>1. ASSUME OneThread(program) PROVE \A u \in Tasks : u = t
      BY <3>1, Programs1
    <3>. QED  BY <1>2, <1>6, <3>1 DEF OneInv
  <2>2. Answered(Call(t))
    BY <1>2, <2>1, Programs1 DEF Call
  <2>3. (at[t].stage + 1) - 1 = at[t].stage
    BY <1>2
  <2>4. /\ Sends(stage, p) # {} => Reads(stage, p) = {} /\ ~Due(Call(t), at[t].stage, p)
        /\ Reads(stage, p) # {} => Due(Call(t), at[t].stage, p)
    BY <1>2, <2>2, <2>3 DEF Answered, stage
  <2>5. got[p] < Len(sent[p]) <=> Due(Call(t), at[t].stage, p)
    BY <1>1, <1>2, <2>1, EmptyStage DEF OneInv, Lives
  <2>6. Due(Call(t), at[t].stage + 1, p)
          <=> Reads(stage, p) = {} /\ (Sends(stage, p) # {} \/ Due(Call(t), at[t].stage, p))
    <3>1. PICK c : c = Call(t)
      OBVIOUS
    <3>2. PICK n \in Nat : n = at[t].stage
      BY <1>2
    <3>3. Due(c, n + 1, p) <=> Reads(c[n + 1], p) = {} /\ (Sends(c[n + 1], p) # {} \/ Due(c, n, p))
      BY DueStep
    <3>. QED  BY <3>1, <3>2, <3>3 DEF stage
  <2>7. CASE Sends(stage, p) # {}
    <3>1. got[p] = Len(sent[p]) /\ Len(sent'[p]) = Len(sent[p]) + 1 /\ got[p] \in Nat
      BY <1>1, <1>5, <1>9, <2>7 DEF Types, Counts
    <3>. QED  BY <2>4, <2>6, <2>7, <3>1
  <2>8. CASE Sends(stage, p) = {}
    BY <1>10, <2>4, <2>5, <2>6, <2>8
  <2>. QED  BY <2>7, <2>8
<1>13. TwoInv'
  <2>1. SUFFICES ASSUME TwoProcesses(program) PROVE Positions' /\ Met'
    BY <1>2 DEF TwoInv
  <2>2. Tasks = {Listener, Connector} /\ Listener # Connector
    BY <2>1, Programs2
  <2>3. Positions /\ Met
    BY <1>1, <2>1 DEF TwoInv
  <2>4. Client \in Parties /\ Server \in Parties /\ Client # Server
    BY OtherParty
  <2>5. /\ \A u \in Tasks : Lives(u)' <=> Lives(u)
        /\ Lives(t)
    BY <1>2 DEF Lives
  <2>6. CASE t = Listener
    <3>1. Pings(Call(t))
      BY <1>2, <2>1, <2>6, Programs2 DEF Call
    <3>2. CASE at[t].stage = 0
      <4>1. Sends(stage, Client) # {} /\ Sends(stage, Server) = {}
        BY <2>4, <3>1, <3>2 DEF Pings, stage
      <4>2. Len(sent'[Client]) = Len(sent[Client]) + 1 /\ sent'[Server] = sent[Server]
        BY <1>4, <1>9, <2>4, <4>1
      <4>3. Sends(doing'[Listener], Client) # {} /\ doing'[Listener] # {}
        BY <1>2, <2>6, <4>1 DEF Sends
      <4>4. at'[Listener].stage = 1 /\ at'[Listener].call = at[Listener].call /\ at[Listener].call \in Nat
        BY <1>2, <2>6, <3>2
      <4>5. at'[Connector] = at[Connector] /\ doing'[Connector] = doing[Connector]
        BY <1>2, <2>2, <2>6
      <4>6. Lives(Listener)' /\ Lives(Listener) /\ (Lives(Connector)' <=> Lives(Connector))
        BY <2>2, <2>5, <2>6
      <4>7. Len(sent[Client]) = at[Listener].call - 1 /\ got[Server] = at[Listener].call - 1
        BY <2>3, <2>6, <3>2, <4>6 DEF Positions
      <4>8. Positions'
        BY <1>2, <2>3, <4>2, <4>3, <4>4, <4>5, <4>6, <4>7 DEF Positions, Sends
      <4>. QED  BY <1>2, <1>6, <2>3, <4>8 DEF Met, joining
    <3>3. CASE at[t].stage = 1
      <4>1. Sends(stage, Client) = {} /\ Sends(stage, Server) = {} /\ Reads(stage, Server) # {}
        BY <2>4, <3>1, <3>3 DEF Pings, stage
      <4>2. sent'[Client] = sent[Client] /\ sent'[Server] = sent[Server]
        BY <1>4, <2>4, <4>1
      <4>3. doing'[Listener] # {}
        BY <1>2, <2>6, <4>1 DEF Reads
      <4>4. /\ at'[Listener].stage = 2 /\ at[Listener].stage = 1
            /\ at'[Listener].call = at[Listener].call /\ at[Listener].call \in Nat
        BY <1>2, <2>6, <3>3
      <4>5. at'[Connector] = at[Connector] /\ doing'[Connector] = doing[Connector]
        BY <1>2, <2>2, <2>6
      <4>6. Lives(Listener)' /\ Lives(Listener) /\ (Lives(Connector)' <=> Lives(Connector))
        BY <2>2, <2>5, <2>6
      <4>7. put[Client] = Total(sent[Client])
        <5>1. Sends(doing[Listener], Client) = {}
          BY <1>2, <2>4, <2>6, EmptyStage
        <5>. QED  BY <2>3, <4>6, <5>1 DEF Positions
      <4>8. Positions'
        BY <1>2, <2>3, <4>2, <4>3, <4>4, <4>5, <4>6, <4>7 DEF Positions, Sends
      <4>. QED  BY <1>2, <1>6, <2>3, <4>8 DEF Met, joining
    <3>. QED  BY <1>2, <3>1, <3>2, <3>3 DEF Pings
  <2>7. CASE t = Connector
    <3>1. Pongs(Call(t))
      BY <1>2, <2>1, <2>2, <2>7, Programs2 DEF Call
    <3>2. CASE at[t].stage = 0
      <4>1. Sends(stage, Client) = {} /\ Sends(stage, Server) = {} /\ Reads(stage, Client) # {}
        BY <2>4, <3>1, <3>2 DEF Pongs, stage
      <4>2. sent'[Client] = sent[Client] /\ sent'[Server] = sent[Server]
        BY <1>4, <2>4, <4>1
      <4>3. doing'[Connector] # {}
        BY <1>2, <2>7, <4>1 DEF Reads
      <4>4. /\ at'[Connector].stage = 1 /\ at[Connector].stage = 0
            /\ at'[Connector].call = at[Connector].call /\ at[Connector].call \in Nat
        BY <1>2, <2>7, <3>2
      <4>5. at'[Listener] = at[Listener] /\ doing'[Listener] = doing[Listener]
        BY <1>2, <2>2, <2>7
      <4>6. Lives(Connector)' /\ Lives(Connector) /\ (Lives(Listener)' <=> Lives(Listener))
        BY <2>2, <2>5, <2>7
      <4>7. put[Server] = Total(sent[Server])
        <5>1. Sends(doing[Connector], Server) = {}
          BY <1>2, <2>4, <2>7, EmptyStage
        <5>. QED  BY <2>3, <4>6, <5>1 DEF Positions
      <4>8. Positions'
        BY <1>2, <2>3, <4>2, <4>3, <4>4, <4>5, <4>6, <4>7 DEF Positions, Sends
      <4>. QED  BY <1>2, <1>6, <2>3, <4>8 DEF Met, joining
    <3>3. CASE at[t].stage = 1
      <4>1. Sends(stage, Server) # {} /\ Sends(stage, Client) = {}
        BY <2>4, <3>1, <3>3 DEF Pongs, stage
      <4>2. Len(sent'[Server]) = Len(sent[Server]) + 1 /\ sent'[Client] = sent[Client]
        BY <1>4, <1>9, <2>4, <4>1
      <4>3. Sends(doing'[Connector], Server) # {}
        BY <1>2, <2>7, <4>1
      <4>4. /\ at'[Connector].stage = 2 /\ at[Connector].stage = 1
            /\ at'[Connector].call = at[Connector].call /\ at[Connector].call \in Nat
        BY <1>2, <2>7, <3>3
      <4>5. at'[Listener] = at[Listener] /\ doing'[Listener] = doing[Listener]
        BY <1>2, <2>2, <2>7
      <4>6. Lives(Connector)' /\ Lives(Connector) /\ (Lives(Listener)' <=> Lives(Listener))
        BY <2>2, <2>5, <2>7
      <4>7. Len(sent[Server]) = at[Connector].call - 1 /\ got[Client] = at[Connector].call - 0
        BY <1>2, <2>3, <2>7, <4>4, <4>6 DEF Positions
      <4>8. Positions'
        BY <1>2, <2>3, <4>2, <4>3, <4>4, <4>5, <4>6, <4>7 DEF Positions, Sends
      <4>. QED  BY <1>2, <1>6, <2>3, <4>8 DEF Met, joining
    <3>. QED  BY <1>2, <3>1, <3>2, <3>3 DEF Pongs
  <2>. QED  BY <2>2, <2>6, <2>7
<1>14. NoMismatch'
  BY <1>1, <1>2, <1>6 DEF NoMismatch, WithinLimit, NoCrash, Frames
<1>. QED  BY <1>7, <1>8, <1>11, <1>12, <1>13, <1>14 DEF IInv
-----------------------------------------------------------------------------
(* Units written and read.                                                 *)

\* The processes of the ping-pong do one thing at a time.
LEMMA TwoDoing ==
  ASSUME IInv, TwoProcesses(program), NEW t \in Tasks, NEW op \in doing[t]
  PROVE  /\ doing[t] = {op} /\ at[t].call \in 1 .. Len(program[t])
         /\ t = Listener /\ op.kind = "send" => op.party = Client /\ at[t].stage = 1
         /\ t = Listener /\ op.kind # "send" => Other(op.party) = Server /\ at[t].stage = 2
         /\ t = Connector /\ op.kind = "send" => op.party = Server /\ at[t].stage = 2
         /\ t = Connector /\ op.kind # "send" => Other(op.party) = Client /\ at[t].stage = 1
<1>1. Types /\ Placed
  BY DEF IInv
<1>2. /\ at[t].stage > 0 /\ at[t].call <= Len(program[t]) /\ at[t].stage <= Len(Call(t))
      /\ doing[t] \subseteq Call(t)[at[t].stage] /\ at[t].stage \in Nat
  BY <1>1 DEF Placed, Place, Types
<1>3. Len(program[t]) \in Nat /\ at[t].call \in 1 .. Len(program[t])
  BY <1>1, <1>2, ProgramCalls DEF Placed, Place
<1>4. Tasks = {Listener, Connector} /\ Listener # Connector
  BY Programs2
<1>5. /\ t = Listener => Pings(Call(t))
      /\ t = Connector => Pongs(Call(t))
  BY <1>3, <1>4, Programs2 DEF Call
<1>6. Len(Call(t)) = 2
  BY <1>4, <1>5 DEF Pings, Pongs
<1>7. at[t].stage = 1 \/ at[t].stage = 2
  BY <1>2, <1>6
<1> DEFINE stage == Call(t)[at[t].stage]
<1>8. Sober(stage)
  <2>1. at[t].stage \in 1 .. Len(Call(t))
    BY <1>6, <1>7
  <2>. QED  BY <1>1, <1>2, <2>1, StageType
<1>9. ASSUME NEW o \in stage
      PROVE  /\ o.party \in Parties
             /\ o.kind = "send" => o \in Sends(stage, o.party)
             /\ o.kind # "send" => o \in Reads(stage, Other(o.party))
  <2>1. o.party \in Parties
    BY <1>8 DEF Sober, Ops
  <2>. QED  BY <2>1, OtherParty DEF Sends, Reads
<1>10. \A o \in stage : Other(o.party) \in Parties
  BY <1>9, OtherParty
<1>11. \A o \in stage :
         /\ t = Listener /\ o.kind = "send" => o.party = Client /\ at[t].stage = 1
         /\ t = Listener /\ o.kind # "send" => Other(o.party) = Server /\ at[t].stage = 2
         /\ t = Connector /\ o.kind = "send" => o.party = Server /\ at[t].stage = 2
         /\ t = Connector /\ o.kind # "send" => Other(o.party) = Client /\ at[t].stage = 1
  BY <1>5, <1>7, <1>9, <1>10 DEF Pings, Pongs
<1>12. ASSUME NEW o \in stage, NEW r \in stage PROVE o = r
  <2>1. o.kind = "send" <=> r.kind = "send"
    BY <1>4, <1>11
  <2>2. CASE o.kind = "send"
    <3>1. o \in Sends(stage, o.party) /\ r \in Sends(stage, o.party)
      BY <1>4, <1>9, <1>11, <2>1, <2>2
    <3>. QED  BY <1>8, <1>9, <3>1 DEF Sober
  <2>3. CASE o.kind # "send"
    <3>1. o \in Reads(stage, Other(o.party)) /\ r \in Reads(stage, Other(o.party))
      BY <1>4, <1>9, <1>11, <2>1, <2>3
    <3>. QED  BY <1>8, <1>10, <3>1 DEF Sober
  <2>. QED  BY <2>2, <2>3
<1> HIDE DEF stage
<1>13. doing[t] \subseteq stage
  BY <1>2 DEF stage
<1>. QED  BY <1>3, <1>11, <1>12, <1>13

\* Two tasks do not write in one direction, and one has one frame to write there.
LEMMA OneWriter ==
  ASSUME IInv, NEW t \in Tasks, NEW op \in doing[t], op.kind = "send"
  PROVE  /\ op.party \in Parties /\ op \in Sends(doing[t], op.party)
         /\ Sends(doing[t] \ {op}, op.party) = {}
         /\ \A u \in Tasks : u # t => Sends(doing[u], op.party) = {}
<1>1. Types /\ Placed
  BY DEF IInv
<1>2. /\ at[t].stage > 0 /\ at[t].call <= Len(program[t]) /\ at[t].stage <= Len(Call(t))
      /\ doing[t] \subseteq Call(t)[at[t].stage] /\ at[t].stage \in Nat /\ op \in Ops
  BY <1>1 DEF Placed, Place, Types
<1>3. op.party \in Parties /\ op \in Sends(doing[t], op.party)
  BY <1>2 DEF Ops, Sends
<1>4. Sober(Call(t)[at[t].stage])
  <2>1. at[t].stage \in 1 .. Len(Call(t))
    <3>1. Call(t) \in SoberCalls
      BY <1>1, <1>2, ProgramCalls DEF Call, Placed, Place
    <3>. QED  BY <1>2, <3>1 DEF SoberCalls
  <2>. QED  BY <1>1, <1>2, <2>1, StageType
<1>5. Sends(doing[t] \ {op}, op.party) = {}
  <2>1. \A o \in Sends(doing[t], op.party) : o = op
    BY <1>2, <1>3, <1>4 DEF Sober, Sends
  <2>. QED  BY <2>1 DEF Sends
<1>6. ASSUME NEW u \in Tasks, u # t PROVE Sends(doing[u], op.party) = {}
  <2>1. ~OneThread(program)
    BY <1>6, Programs1
  <2>2. TwoProcesses(program)
    BY <1>1, <2>1 DEF Types, Known
  <2>3. Tasks = {Listener, Connector}
    BY <2>2, Programs2
  <2>4. SUFFICES ASSUME NEW o \in Sends(doing[u], op.party) PROVE FALSE
    OBVIOUS
  <2>5. o \in doing[u] /\ o.kind = "send" /\ o.party = op.party
    BY <2>4 DEF Sends
  <2>6. op.party = (IF t = Listener THEN Client ELSE Server)
    BY <2>2, <2>3, TwoDoing
  <2>7. o.party = (IF u = Listener THEN Client ELSE Server)
    BY <2>2, <2>3, <2>5, TwoDoing
  <2>. QED  BY <1>6, <2>3, <2>5, <2>6, <2>7, OtherParty
<1>. QED  BY <1>3, <1>5, <1>6

LEMMA WriteStep ==
  ASSUME IInv, NEW t \in Tasks, Write(t) PROVE IInv'
<1>1. PICK op \in doing[t] : WriteUnit(t, op)
  BY DEF Write
<1>2. PICK p \in Parties : p = op.party
  BY OneWriter, <1>1 DEF WriteUnit
<1>3. /\ op.kind = "send"
      /\ put' = [put EXCEPT ![p] = @ + 1]
      /\ doing' = [doing EXCEPT ![t] = IF Written(p, put[p] + 1) THEN @ \ {op} ELSE @]
      /\ UNCHANGED <<program, at, status, joining, gate, sent, taken, got, route>>
  BY <1>1, <1>2 DEF WriteUnit
<1>4. Types /\ Placed /\ Linked /\ OneInv /\ TwoInv /\ NoMismatch
  BY DEF IInv
<1>5. Tasks' = Tasks /\ \A u \in Tasks : Call(u)' = Call(u)
  BY <1>3 DEF Tasks, Call
<1>6. /\ op \in Sends(doing[t], p) /\ Sends(doing[t] \ {op}, p) = {}
      /\ \A u \in Tasks : u # t => Sends(doing[u], p) = {}
  BY <1>2, <1>3, OneWriter
<1>7. Written(p, put[p] + 1) <=> put[p] + 1 = Total(sent[p])
  BY DEF Written, Units, Total
<1>8. put[p] \in Nat /\ Total(sent[p]) \in Nat /\ taken[p] \in Nat /\ put[p] < Total(sent[p])
  <2>1. put[p] < Total(sent[p])
    BY <1>4, <1>6 DEF Linked
  <2>. QED  BY <1>4, <2>1, TotalType DEF Types, Counts
<1>9. /\ put'[p] = put[p] + 1 /\ put' \in Counts
      /\ \A q \in Parties : q # p => put'[q] = put[q]
  BY <1>3, <1>4 DEF Types, Counts
<1>10. /\ doing' \in [Tasks -> SUBSET Ops]
       /\ \A u \in Tasks : u # t => doing'[u] = doing[u]
       /\ doing'[t] = IF put[p] + 1 = Total(sent[p]) THEN doing[t] \ {op} ELSE doing[t]
  <2>1. doing[t] \ {op} \in SUBSET Ops /\ doing[t] \in SUBSET Ops
    BY <1>4 DEF Types
  <2>. QED  BY <1>3, <1>4, <1>7, <2>1 DEF Types
<1>11. Types'
  BY <1>3, <1>4, <1>5, <1>9, <1>10 DEF Types, joining
<1>12. Placed'
  <2>1. SUFFICES ASSUME NEW u \in Tasks PROVE Place(u)'
    BY <1>5 DEF Placed
  <2>2. doing'[u] \subseteq doing[u]
    BY <1>10
  <2>. QED  BY <1>3, <1>4, <1>5, <2>2 DEF Placed, Place
<1>13. Linked'
  <2>1. ASSUME NEW q \in Parties PROVE Link(q)'
    <3>1. CASE q = p
      BY <1>3, <1>4, <1>8, <1>9, <3>1 DEF Linked, Link
    <3>2. CASE q # p
      BY <1>3, <1>4, <1>9, <3>2 DEF Linked, Link
    <3>. QED  BY <3>1, <3>2
  <2>2. ASSUME NEW u \in Tasks, NEW q \in Parties, Sends(doing'[u], q) # {}
        PROVE  put'[q] < Total(sent'[q])
    <3>1. CASE q = p
      <4>1. u = t /\ put[p] + 1 # Total(sent[p])
        BY <1>6, <1>10, <2>2, <3>1
      <4>. QED  BY <1>3, <1>8, <1>9, <3>1, <4>1
    <3>2. CASE q # p
      <4>1. Sends(doing[u], q) # {}
        BY <1>10, <2>2 DEF Sends
      <4>. QED  BY <1>3, <1>4, <1>9, <3>2, <4>1 DEF Linked
    <3>. QED  BY <3>1, <3>2
  <2>. QED  BY <1>5, <2>1, <2>2 DEF Linked, Sends
<1>14. \A u \in Tasks : \A q \in Parties : Reads(doing'[u], q) = Reads(doing[u], q)
  BY <1>3, <1>10 DEF Reads
<1>15. OneInv'
  BY <1>3, <1>4, <1>5, <1>14 DEF OneInv, Lives, Reads
<1>16. TwoInv'
  <2>1. SUFFICES ASSUME TwoProcesses(program) PROVE Positions' /\ Met'
    BY <1>3 DEF TwoInv
  <2>2. Tasks = {Listener, Connector} /\ Listener # Connector
    BY <2>1, Programs2
  <2>3. Positions /\ Met
    BY <1>4, <2>1 DEF TwoInv
  <2>4. Client \in Parties /\ Server \in Parties /\ Client # Server
    BY OtherParty
  <2>5. Sends(doing'[t], p) = {} => put'[p] = Total(sent[p])
    BY <1>6, <1>9, <1>10
  <2>6. CASE t = Listener
    <3>1. p = Client /\ at[Listener].stage = 1
      BY <1>2, <1>3, <2>1, <2>6, TwoDoing
    <3>2. doing'[Connector] = doing[Connector] /\ put'[Server] = put[Server]
      BY <1>9, <1>10, <2>2, <2>4, <2>6, <3>1
    <3>. QED  BY <1>3, <1>5, <2>3, <2>5, <2>6, <3>1, <3>2 DEF Positions, Met, Lives, Sends, joining
  <2>7. CASE t = Connector
    <3>1. p = Server /\ at[Connector].stage = 2
      BY <1>2, <1>3, <2>1, <2>7, TwoDoing
    <3>2. doing'[Listener] = doing[Listener] /\ put'[Client] = put[Client]
      BY <1>9, <1>10, <2>2, <2>4, <2>7, <3>1
    <3>. QED  BY <1>3, <1>5, <2>3, <2>5, <2>7, <3>1, <3>2 DEF Positions, Met, Lives, Sends, joining
  <2>. QED  BY <2>2, <2>6, <2>7
<1>17. NoMismatch'
  BY <1>3, <1>4, <1>5 DEF NoMismatch, WithinLimit, NoCrash, Frames
<1>. QED  BY <1>11, <1>12, <1>13, <1>15, <1>16, <1>17 DEF IInv

\* What a receive finds: the frame of the last send, and it is whole exactly
\* when nothing of that direction is left.
LEMMA ReadFinds ==
  ASSUME IInv, NEW t \in Tasks, NEW op \in doing[t], op.kind # "send",
         NEW q \in Parties, q = Other(op.party), taken[q] < put[q]
  PROVE  /\ op.party \in Parties /\ op \in Reads(doing[t], q)
         /\ Reads(doing[t] \ {op}, q) = {}
         /\ got[q] < Len(sent[q]) /\ Len(sent[q]) = got[q] + 1
         /\ Units(q, got[q] + 1) = Total(sent[q])
         /\ RouteMatches(op, sent[q][got[q] + 1].gate)
<1>1. Types /\ Placed /\ Linked
  BY DEF IInv
<1>2. /\ at[t].stage > 0 /\ at[t].call <= Len(program[t]) /\ at[t].stage <= Len(Call(t))
      /\ doing[t] \subseteq Call(t)[at[t].stage] /\ at[t].stage \in Nat /\ op \in Ops
  BY <1>1 DEF Placed, Place, Types
<1>3. op.party \in Parties /\ op.party = Other(q)
  BY <1>2, OtherParty DEF Ops
<1>4. op \in Reads(doing[t], q)
  BY <1>3 DEF Reads
<1>5. Sober(Call(t)[at[t].stage])
  <2>1. at[t].stage \in 1 .. Len(Call(t))
    <3>1. Call(t) \in SoberCalls
      BY <1>1, <1>2, ProgramCalls DEF Call, Placed, Place
    <3>. QED  BY <1>2, <3>1 DEF SoberCalls
  <2>. QED  BY <1>1, <1>2, <2>1, StageType
<1>6. Reads(doing[t] \ {op}, q) = {}
  <2>1. \A o \in Reads(doing[t], q) : o = op
    BY <1>2, <1>4, <1>5 DEF Sober, Reads
  <2>. QED  BY <2>1 DEF Reads
<1>7. /\ taken[q] \in Nat /\ put[q] \in Nat /\ got[q] \in Nat
      /\ Len(sent[q]) \in Nat /\ Total(sent[q]) \in Nat
  BY <1>1, TotalType DEF Types, Counts
<1>8. got[q] < Len(sent[q]) /\ Len(sent[q]) = got[q] + 1
  BY <1>1, <1>7 DEF Linked, Link
<1>9. Units(q, got[q] + 1) = Total(sent[q])
  BY <1>8 DEF Units, Total
<1>10. RouteMatches(op, sent[q][got[q] + 1].gate)
  BY <1>1, <1>8 DEF Linked, Link, RouteMatches
<1>. QED  BY <1>3, <1>4, <1>6, <1>8, <1>9, <1>10

LEMMA ReadStep ==
  ASSUME IInv, NEW t \in Tasks, Read(t) PROVE IInv'
<1>1. PICK op \in doing[t] : ReadUnit(t, op)
  BY DEF Read
<1>2. Types /\ Placed /\ Linked /\ OneInv /\ TwoInv /\ NoMismatch
  BY DEF IInv
<1>3. PICK q \in Parties : q = Other(op.party)
  <2>1. op \in Ops
    BY <1>2 DEF Types
  <2>2. op.party \in Parties
    BY <2>1 DEF Ops
  <2>. QED  BY <2>2, OtherParty
<1> DEFINE whole == taken[q] + 1 = Total(sent[q])
<1>4. /\ op.kind # "send" /\ taken[q] < put[q]
      /\ taken' = [taken EXCEPT ![q] = @ + 1]
      /\ UNCHANGED <<program, at, joining, gate, sent, put, route>>
  BY <1>1, <1>3 DEF ReadUnit
<1>5. /\ op \in Reads(doing[t], q) /\ Reads(doing[t] \ {op}, q) = {}
      /\ got[q] < Len(sent[q]) /\ Len(sent[q]) = got[q] + 1
      /\ Units(q, got[q] + 1) = Total(sent[q])
      /\ RouteMatches(op, sent[q][got[q] + 1].gate)
  BY <1>3, <1>4, ReadFinds
<1>6. /\ got' = [got EXCEPT ![q] = IF whole THEN @ + 1 ELSE @]
      /\ status' = status
      /\ doing' = IF whole THEN [doing EXCEPT ![t] = @ \ {op}] ELSE doing
  BY <1>1, <1>3, <1>5 DEF ReadUnit
<1>7. Tasks' = Tasks /\ \A u \in Tasks : Call(u)' = Call(u)
  BY <1>4 DEF Tasks, Call
<1>8. /\ taken[q] \in Nat /\ put[q] \in Nat /\ got[q] \in Nat
      /\ Len(sent[q]) \in Nat /\ Total(sent[q]) \in Nat
      /\ put[q] <= Total(sent[q])
      /\ taken[q] < Total(sent[q]) /\ sent[q][got[q] + 1].gate = route[q] /\ gate[q] = Len(sent[q])
  BY <1>2, <1>5, TotalType DEF Types, Counts, Linked, Link
<1>9. /\ taken'[q] = taken[q] + 1 /\ taken' \in Counts
      /\ \A r \in Parties : r # q => taken'[r] = taken[r]
  BY <1>2, <1>4 DEF Types, Counts
<1>10. /\ got'[q] = (IF whole THEN got[q] + 1 ELSE got[q]) /\ got' \in Counts
       /\ \A r \in Parties : r # q => got'[r] = got[r]
  BY <1>2, <1>6 DEF Types, Counts
<1>11. /\ doing' \in [Tasks -> SUBSET Ops]
       /\ \A u \in Tasks : u # t => doing'[u] = doing[u]
       /\ doing'[t] = IF whole THEN doing[t] \ {op} ELSE doing[t]
  <2>1. doing[t] \ {op} \in SUBSET Ops /\ doing[t] \in SUBSET Ops
    BY <1>2 DEF Types
  <2>. QED  BY <1>2, <1>6, <2>1 DEF Types
<1> HIDE DEF whole
<1>12. Types'
  BY <1>2, <1>4, <1>6, <1>7, <1>9, <1>10, <1>11 DEF Types, joining
<1>13. Placed'
  <2>1. SUFFICES ASSUME NEW u \in Tasks PROVE Place(u)'
    BY <1>7 DEF Placed
  <2>2. doing'[u] \subseteq doing[u]
    BY <1>11
  <2>. QED  BY <1>2, <1>4, <1>6, <1>7, <2>2 DEF Placed, Place
<1>14. \A u \in Tasks : \A r \in Parties : Sends(doing'[u], r) = Sends(doing[u], r)
  BY <1>4, <1>11 DEF Sends
<1>15. Linked'
  <2>1. ASSUME NEW r \in Parties PROVE Link(r)'
    <3>1. CASE r = q /\ whole
      <4>1. got'[q] = Len(sent[q]) /\ taken'[q] = Total(sent[q]) /\ put[q] = Total(sent[q])
        BY <1>4, <1>5, <1>8, <1>9, <1>10, <3>1 DEF whole
      <4>. QED  BY <1>4, <1>8, <3>1, <4>1 DEF Link
    <3>2. CASE r = q /\ ~whole
      <4>1. got'[q] = got[q] /\ taken'[q] < Total(sent[q]) /\ taken'[q] <= put[q]
        BY <1>4, <1>8, <1>9, <1>10, <3>2 DEF whole
      <4>. QED  BY <1>4, <1>5, <1>8, <3>2, <4>1 DEF Link
    <3>3. CASE r # q
      BY <1>2, <1>4, <1>9, <1>10, <3>3 DEF Linked, Link
    <3>. QED  BY <3>1, <3>2, <3>3
  <2>2. ASSUME NEW u \in Tasks, NEW r \in Parties, Sends(doing'[u], r) # {}
        PROVE  put'[r] < Total(sent'[r])
    BY <1>2, <1>4, <1>14, <2>2 DEF Linked
  <2>. QED  BY <1>7, <2>1, <2>2 DEF Linked, Sends
<1>16. \A r \in Parties : r # q => Reads(doing'[t], r) = Reads(doing[t], r)
  <2>1. \A r \in Parties : r # q => op \notin Reads(doing[t], r)
    BY <1>3, OtherParty DEF Reads
  <2>. QED  BY <1>11, <2>1 DEF Reads
<1>17. OneInv'
  <2>1. SUFFICES ASSUME OneThread(program), NEW r \in Parties, Lives(t)
                 PROVE  got'[r] < Len(sent[r])
                          <=> Due(Call(t), at[t].stage, r) \/ Reads(doing'[t], r) # {}
    <3>1. ASSUME OneThread(program) PROVE \A u \in Tasks : u = t
      BY <3>1, Programs1
    <3>. QED  BY <1>2, <1>4, <1>6, <1>7, <3>1 DEF OneInv, Lives, Reads
  <2>2. got[r] < Len(sent[r]) <=> Due(Call(t), at[t].stage, r) \/ Reads(doing[t], r) # {}
    BY <1>2, <2>1 DEF OneInv
  <2>3. CASE r = q /\ whole
    <3>1. ~(got'[q] < Len(sent[q])) /\ Reads(doing'[t], q) = {}
      <4>1. got'[q] = Len(sent[q])
        BY <1>5, <1>10, <2>3
      <4>2. doing'[t] = doing[t] \ {op}
        BY <1>11, <2>3
      <4>3. Reads(doing'[t], q) = {}
        BY <1>5, <4>2
      <4>. QED  BY <1>8, <4>1, <4>3
    <3>2. /\ at[t].stage - 1 \in Nat /\ (at[t].stage - 1) + 1 = at[t].stage
          /\ Reads(Call(t)[at[t].stage], q) # {}
      <4>1. at[t].stage > 0 /\ at[t].stage \in Nat /\ doing[t] \subseteq Call(t)[at[t].stage]
        BY <1>2 DEF Placed, Place, Types
      <4>. QED  BY <1>5, <4>1 DEF Reads
    <3>3. ~Due(Call(t), at[t].stage, q)
      <4>1. PICK c : c = Call(t)
        OBVIOUS
      <4>2. PICK n \in Nat : n = at[t].stage - 1
        BY <3>2
      <4>3. Due(c, n + 1, q) => Reads(c[n + 1], q) = {}
        BY DueStep
      <4>. QED  BY <3>2, <4>1, <4>2, <4>3
    <3>. QED  BY <2>3, <3>1, <3>3
  <2>4. CASE r = q /\ ~whole
    BY <1>10, <1>11, <2>2, <2>4
  <2>5. CASE r # q
    BY <1>10, <1>16, <2>2, <2>5
  <2>. QED  BY <2>3, <2>4, <2>5
<1>18. TwoInv'
  <2>1. SUFFICES ASSUME TwoProcesses(program) PROVE Positions' /\ Met'
    BY <1>4 DEF TwoInv
  <2>2. Tasks = {Listener, Connector} /\ Listener # Connector
    BY <2>1, Programs2
  <2>3. Positions /\ Met
    BY <1>2, <2>1 DEF TwoInv
  <2>4. Client \in Parties /\ Server \in Parties /\ Client # Server
    BY OtherParty
  <2>5. doing[t] = {op} /\ at[t].call \in 1 .. Len(program[t]) /\ Lives(t)
    <3>1. status[t] = "running"
      BY <1>2 DEF Placed, Place
    <3>. QED  BY <2>1, <3>1, TwoDoing DEF Lives
  <2>6. Met'
    BY <1>4, <1>6, <1>7, <2>3 DEF Met, joining
  <2>7. at[t].call \in Nat /\ doing[t] # {} /\ (whole => doing'[t] = {}) /\ (~whole => doing'[t] = doing[t])
    BY <1>11, <2>5
  <2>8. CASE t = Listener
    <3>1. q = Server /\ at[Listener].stage = 2
      BY <1>3, <1>4, <2>1, <2>8, TwoDoing
    <3>2. doing'[Connector] = doing[Connector] /\ got'[Client] = got[Client]
      BY <1>10, <1>11, <2>2, <2>4, <2>8, <3>1
    <3>3. Sends(doing'[Listener], Client) = Sends(doing[Listener], Client)
      BY <1>14, <2>4, <2>8
    <3>4. /\ got[Server] = at[Listener].call - 1 /\ Len(sent[Client]) = at[Listener].call
          /\ got'[Server] = IF whole THEN at[Listener].call ELSE at[Listener].call - 1
      <4>1. got[Server] = at[Listener].call - 1
        BY <2>3, <2>5, <2>7, <2>8, <3>1 DEF Positions
      <4>2. Len(sent[Client]) = at[Listener].call
        <5>1. Len(sent[Client]) = at[Listener].call - 0
          BY <2>3, <2>5, <2>8, <3>1 DEF Positions
        <5>. QED  BY <2>7, <2>8, <5>1
      <4>. QED  BY <1>10, <2>7, <2>8, <3>1, <4>1, <4>2
    <3>5. Positions'
      BY <1>4, <1>6, <2>3, <2>7, <2>8, <3>1, <3>2, <3>3, <3>4 DEF Positions, Lives, Sends
    <3>. QED  BY <2>6, <3>5
  <2>9. CASE t = Connector
    <3>1. q = Client /\ at[Connector].stage = 1
      BY <1>3, <1>4, <2>1, <2>9, TwoDoing
    <3>2. doing'[Listener] = doing[Listener] /\ got'[Server] = got[Server]
      BY <1>10, <1>11, <2>2, <2>4, <2>9, <3>1
    <3>3. Sends(doing'[Connector], Server) = Sends(doing[Connector], Server)
      BY <1>14, <2>4, <2>9
    <3>4. /\ got[Client] = at[Connector].call - 1 /\ Len(sent[Server]) = at[Connector].call - 1
          /\ got'[Client] = IF whole THEN at[Connector].call ELSE at[Connector].call - 1
      <4>1. got[Client] = at[Connector].call - 1
        <5>1. ~(at[Connector].stage = 2 \/ (at[Connector].stage = 1 /\ doing[Connector] = {}))
          BY <2>7, <2>9, <3>1
        <5>. QED  BY <2>3, <2>5, <2>9, <5>1 DEF Positions
      <4>2. Len(sent[Server]) = at[Connector].call - 1
        BY <2>3, <2>5, <2>9, <3>1 DEF Positions
      <4>. QED  BY <1>10, <2>7, <2>9, <3>1, <4>1, <4>2
    <3>5. Positions'
      BY <1>4, <1>6, <2>3, <2>7, <2>9, <3>1, <3>2, <3>3, <3>4 DEF Positions, Lives, Sends
    <3>. QED  BY <2>6, <3>5
  <2>. QED  BY <2>2, <2>8, <2>9
<1>19. NoMismatch'
  BY <1>2, <1>4, <1>6, <1>7 DEF NoMismatch, WithinLimit, NoCrash, Frames
<1>. QED  BY <1>12, <1>13, <1>15, <1>17, <1>18, <1>19 DEF IInv
-----------------------------------------------------------------------------
(* The end of the stream.                                                  *)

\* In a program within the limit, and with nobody dead, a task that is in a stage
\* has a peer that is there or has written all that the task still reads.
LEMMA NobodyHangsUp ==
  ASSUME IInv, WithinLimit, NoCrash, NEW t \in Tasks, NEW op \in doing[t], PeerGone(t),
         op.kind # "send" => taken[Other(op.party)] = put[Other(op.party)]
  PROVE  FALSE
<1>1. Types /\ Placed /\ Linked /\ TwoInv /\ NoMismatch
  BY DEF IInv
<1>2. PICK u \in Tasks : u # t /\ status[u] \in {"done", "failed", "crashed", "alone"}
  BY DEF PeerGone, Ended
<1>3. TwoProcesses(program)
  <2>1. ~OneThread(program)
    BY <1>2, Programs1
  <2>. QED  BY <1>1, <2>1 DEF Types, Known
<1>4. Tasks = {Listener, Connector} /\ Listener # Connector
  BY <1>3, Programs2
<1>5. Positions /\ Met
  BY <1>1, <1>3 DEF TwoInv
<1>6. status[t] = "running" /\ joined
  BY <1>1, <1>5 DEF Placed, Place, Met
<1>7. status[u] = "done"
  BY <1>1, <1>2, <1>5, <1>6 DEF NoMismatch, NoCrash, Met
<1>8. at[u].call = Len(program[u]) + 1 /\ at[u].stage = 0 /\ doing[u] = {}
  <2>1. at[u].call = Len(program[u]) + 1 /\ Len(program[u]) \in Nat
    BY <1>1, <1>7, ProgramCalls DEF Placed, Place
  <2>2. ~(at[u].stage > 0) /\ at[u].stage \in Nat
    BY <1>1, <2>1 DEF Placed, Place, Types
  <2>. QED  BY <1>1, <1>7, <2>1, <2>2 DEF Placed, Place
<1>9. PICK k \in Nat : k = Len(program[t]) /\ k = Len(program[u])
  BY <1>1, <1>3, <1>4, Programs2, ProgramCalls
<1>10. doing[t] = {op} /\ at[t].call \in 1 .. k
  BY <1>3, <1>9, TwoDoing
<1>11. Lives(t) /\ Lives(u)
  BY <1>6, <1>7 DEF Lives
<1>12. Client \in Parties /\ Server \in Parties /\ Client # Server
  BY OtherParty
<1>13. /\ \A p \in Parties : got[p] \in Nat /\ Len(sent[p]) \in Nat /\ put[p] \in Nat /\ taken[p] \in Nat
       /\ \A p \in Parties : Total(sent[p]) \in Nat
       /\ \A p \in Parties : Link(p)
  BY <1>1, TotalType DEF Types, Counts, Linked
<1>14. op.kind = "send" => op.party \in Parties /\ put[op.party] < Total(sent[op.party])
  BY <1>1, <1>10, OneWriter DEF Linked
\* The listener has finished: the connector has sent every answer.
<1>15. CASE u = Listener
  <2>1. t = Connector
    BY <1>2, <1>4, <1>15
  <2>2. got[Server] = k
    <3>1. got[Server] = (k + 1) - 1
      BY <1>5, <1>8, <1>9, <1>11, <1>15 DEF Positions
    <3>. QED  BY <3>1
  <2>3. got[Server] <= Len(sent[Server])
    BY <1>12, <1>13 DEF Link
  <2>4. /\ at[Connector].stage = 2 => Len(sent[Server]) = at[Connector].call
        /\ at[Connector].stage # 2 => Len(sent[Server]) = at[Connector].call - 1
    <3>1. at[Connector].call \in Nat
      BY <1>10, <2>1
    <3>. QED  BY <1>5, <1>11, <2>1, <3>1 DEF Positions
  <2>5. at[Connector].stage = 2 /\ got[Server] = Len(sent[Server])
    BY <1>10, <1>12, <1>13, <2>1, <2>2, <2>3, <2>4
  <2>6. op.kind = "send" /\ op.party = Server
    BY <1>3, <2>1, <2>5, TwoDoing
  <2>7. taken[Server] = Total(sent[Server]) /\ taken[Server] <= put[Server]
    BY <1>12, <1>13, <2>5 DEF Link
  <2>. QED  BY <1>12, <1>13, <1>14, <2>6, <2>7
\* The connector has finished: it has read everything and written its answers.
<1>16. CASE u = Connector
  <2>1. t = Listener
    BY <1>2, <1>4, <1>16
  <2>2. got[Client] = k /\ Len(sent[Server]) = k
    <3>1. got[Client] = (k + 1) - 1 /\ Len(sent[Server]) = (k + 1) - 1
      BY <1>5, <1>8, <1>9, <1>11, <1>16 DEF Positions
    <3>. QED  BY <3>1
  <2>3. at[Listener].call \in 1 .. k
    BY <1>10, <2>1
  <2>4. CASE op.kind = "send"
    <3>1. op.party = Client /\ at[Listener].stage = 1
      BY <1>3, <2>1, <2>4, TwoDoing
    <3>2. Len(sent[Client]) = at[Listener].call - 0
      BY <1>5, <1>11, <2>1, <3>1 DEF Positions
    <3>3. got[Client] = Len(sent[Client])
      BY <1>12, <1>13, <2>2, <2>3, <3>2 DEF Link
    <3>4. taken[Client] = Total(sent[Client]) /\ taken[Client] <= put[Client]
      BY <1>12, <1>13, <3>3 DEF Link
    <3>. QED  BY <1>12, <1>13, <1>14, <2>4, <3>1, <3>4
  <2>5. CASE op.kind # "send"
    <3>1. Other(op.party) = Server /\ at[Listener].stage = 2
      BY <1>3, <2>1, <2>5, TwoDoing
    <3>2. got[Server] = at[Listener].call - 1
      BY <1>5, <1>10, <1>11, <2>1, <3>1 DEF Positions
    <3>3. got[Server] < Len(sent[Server])
      BY <2>2, <2>3, <3>2
    <3>4. taken[Server] < Total(sent[Server])
      BY <1>12, <1>13, <3>3 DEF Link
    <3>5. put[Server] = Total(sent[Server])
      <4>1. Sends(doing[Connector], Server) = {}
        BY <1>8, <1>12, <1>16, EmptyStage
      <4>. QED  BY <1>5, <1>11, <1>16, <4>1 DEF Positions
    <3>. QED  BY <1>12, <1>13, <2>5, <3>1, <3>4, <3>5
  <2>. QED  BY <2>4, <2>5
<1>. QED  BY <1>4, <1>15, <1>16

LEMMA FailTransportStep ==
  ASSUME IInv, NEW t \in Tasks, FailTransport(t) PROVE IInv'
<1>1. PICK op \in doing[t] : TransportFails(t, op)
  BY DEF FailTransport
<1>2. /\ PeerGone(t)
      /\ op.kind # "send" => taken[Other(op.party)] = put[Other(op.party)]
      /\ status' = [status EXCEPT ![t] = "failed"] /\ doing' = [doing EXCEPT ![t] = {}]
      /\ UNCHANGED <<program, at, joining, link>>
  BY <1>1 DEF TransportFails, Fail, joining
<1>3. ~(WithinLimit /\ NoCrash)
  BY <1>2, NobodyHangsUp
<1>4. status[t] # "crashed" /\ "failed" \in {"failed", "crashed"}
  BY <1>1 DEF IInv, Placed, Place
<1>. QED  BY <1>2, <1>3, <1>4, DyingStep
-----------------------------------------------------------------------------
THEOREM NextIInv == IInv /\ [Next]_vars => IInv'
<1>1. SUFFICES ASSUME IInv, [Next]_vars PROVE IInv'
  OBVIOUS
<1>2. CASE UNCHANGED vars
  <2>1. UNCHANGED <<program, at, doing, status, joined, link>>
    BY <1>2 DEF vars, joining
  <2>2. Tasks' = Tasks
    BY <2>1 DEF Tasks
  <2>. QED  BY <1>1, <2>1, <2>2 DEF IInv, Types, Placed, Place, Linked, Link, OneInv, TwoInv,
              Positions, Met, Lives, Call, Sends, Reads, NoMismatch, WithinLimit, NoCrash, Frames, link
<1>3. CASE Next
  <2>1. PICK t \in Tasks :
          \/ Bind(t) \/ Connect(t) \/ Accept(t) \/ WaitFor(t)
          \/ BeginStage(t) \/ SendTooLarge(t) \/ NextCall(t) \/ Finish(t)
          \/ Write(t) \/ Read(t) \/ FailTransport(t) \/ Crash(t)
    BY <1>3 DEF Next
  <2>. QED  BY <1>1, <2>1, BindStep, ConnectStep, AcceptStep, WaitForStep, BeginStep,
              SendTooLargeStep, NextCallStep, FinishStep, WriteStep, ReadStep,
              FailTransportStep, CrashStep
<1>. QED  BY <1>1, <1>2, <1>3

\* Whatever calls the drivers make, and however the ping-pong is set up.
THEOREM DriversInvariant ==
  ASSUME \A prog \in Programs : Known(prog)
  PROVE  Spec => []IInv
<1>1. Init => IInv
  <2>1. Init => Known(program)
    BY DEF Init
  <2>. QED  BY <2>1, InitIInv
<1>2. IInv /\ [Next]_vars => IInv'
  BY NextIInv
<1>. QED  BY <1>1, <1>2, PTL DEF Spec

\* No call of a driver fails, and neither side of the ping-pong does, unless a
\* payload is too large or a process has died (run_two_party and the runners'
\* conversions): every frame that is read is the one whose route the call holds,
\* and a process that has finished has written all that its peer still reads.
THEOREM CallsSucceed ==
  ASSUME \A prog \in Programs : Known(prog)
  PROVE  Spec => []NoMismatch
<1>1. IInv => NoMismatch
  BY DEF IInv
<1>. QED  BY <1>1, DriversInvariant, PTL

\* Between two calls of a single-threaded driver nothing is on the socket, in
\* either direction, whatever the calls were and however they were chunked.
THEOREM CallsLeaveNothing ==
  ASSUME \A prog \in Programs : Known(prog)
  PROVE  Spec => []CleanBetweenCalls
<1>1. IInv => CleanBetweenCalls
  <2>1. SUFFICES ASSUME IInv, NEW t \in Tasks, Cardinality(Tasks) = 1,
                        status[t] \in {"running", "done"}, at[t].stage = 0, NEW p \in Parties
                 PROVE  taken[p] = Units(p, Len(sent[p])) /\ got[p] = Len(sent[p])
    BY DEF CleanBetweenCalls
  <2>2. Types /\ Placed /\ Linked /\ OneInv
    BY <2>1 DEF IInv
  <2>3. OneThread(program)
    <3>1. ~TwoProcesses(program)
      BY <2>1, TwoLayout DEF Tasks
    <3>. QED  BY <2>2, <3>1 DEF Types, Known
  <2>4. doing[t] = {}
    BY <2>1, <2>2 DEF Placed, Place
  <2>5. ~Due(Call(t), at[t].stage, p) /\ Reads(doing[t], p) = {}
    BY <2>1, <2>4, NothingIsDue, EmptyStage
  <2>6. ~(got[p] < Len(sent[p]))
    BY <2>1, <2>2, <2>3, <2>5 DEF OneInv, Lives
  <2>7. got[p] \in Nat /\ Len(sent[p]) \in Nat
    BY <2>2 DEF Types, Counts
  <2>8. got[p] = Len(sent[p]) /\ taken[p] = Total(sent[p])
    BY <2>2, <2>6, <2>7 DEF Linked, Link
  <2>. QED  BY <2>8 DEF Units, Total
<1>. QED  BY <1>1, DriversInvariant, PTL

\* The two processes of the ping-pong are never more than one frame apart, and
\* read a frame in the iteration it was sent in (silent_runtime_net_harness),
\* although their receives take any route.
THEOREM ProcessesInLockstep ==
  ASSUME \A prog \in Programs : Known(prog)
  PROVE  Spec => []Lockstep
<1>1. IInv => Lockstep
  <2>1. SUFFICES ASSUME IInv, Cardinality(Tasks) = 2
                 PROVE  /\ got[Server] <= got[Client] /\ got[Client] <= got[Server] + 1
                        /\ Len(sent[Client]) - got[Server] \in {0, 1}
                        /\ Len(sent[Server]) - got[Server] \in {0, 1}
    BY DEF Lockstep
  <2>2. Types /\ Linked /\ TwoInv
    BY <2>1 DEF IInv
  <2>3. TwoProcesses(program)
    <3>1. ~OneThread(program)
      BY <2>1, OneLayout DEF Tasks
    <3>. QED  BY <2>2, <3>1 DEF Types, Known
  <2>4. Client \in Parties /\ Server \in Parties
    BY OtherParty
  <2>5. \A p \in Parties : /\ got[p] \in Nat /\ Len(sent[p]) \in Nat
                           /\ Len(sent[p]) = got[p] \/ Len(sent[p]) = got[p] + 1
    BY <2>2 DEF Types, Counts, Linked, Link
  <2>6. /\ Len(sent[Client]) = got[Server] \/ Len(sent[Client]) = got[Server] + 1
        /\ got[Client] = Len(sent[Server]) \/ got[Client] = Len(sent[Server]) + 1
    BY <2>2, <2>3 DEF TwoInv, Positions
  <2>. QED  BY <2>4, <2>5, <2>6
<1>. QED  BY <1>1, DriversInvariant, PTL
=============================================================================
