------------------------ MODULE RuntimeSessionProofs ------------------------
(***************************************************************************)
(* What holds of RuntimeSession for all parties, tasks, payloads, limits   *)
(* and gate widths.                                                        *)
(***************************************************************************)
EXTENDS RuntimeSession, SequenceTheorems, WellFoundedInduction, TLAPS

Sent == [to : Parties, frame : Frames]
Received == [from : Parties, asked : Routes, frame : Frames]

LEMMA NextRouteType ==
  ASSUME TypeOK, NEW p \in Parties, NEW t \in Tasks, NEW k \in Kinds, NEW v \in Payloads
  PROVE  /\ NextRoute(p, t, k) \in Routes
         /\ FramePayload(p, NextRoute(p, t, k), v) \in Frames
BY RuntimeConstants DEF TypeOK, NextRoute, RuntimeRoute, Routes, FramePayload, Frames

LEMMA BurnGateType ==
  ASSUME TypeOK, NEW p \in Parties, NEW t \in Tasks, BurnGate(p, t)
  PROVE  /\ cursor' \in [Parties -> [Tasks -> Gates]]
         /\ cursor'[p][t] = cursor[p][t] + 1
         /\ \A q \in Parties, u \in Tasks : <<q, u>> # <<p, t>> => cursor'[q][u] = cursor[q][u]
<1>1. PICK n \in Advance(cursor[p][t]) : cursor' = [cursor EXCEPT ![p][t] = n]
  BY DEF BurnGate
<1>2. n = cursor[p][t] + 1 /\ n \in Gates
  BY MaxU64Type DEF Advance, TypeOK, Gates
<1>. QED  BY <1>1, <1>2 DEF TypeOK

LEMMA HeadIsFrame ==
  ASSUME TypeOK, NEW p \in Parties, NEW q \in Parties, pipe[q][p] # <<>>
  PROVE  /\ Head(pipe[q][p]) \in Frames
         /\ Tail(pipe[q][p]) \in Seq(Frames)
BY HeadTailProperties DEF TypeOK

LEMMA CountersType ==
  ASSUME NEW s \in Stats, NEW v \in Payloads
  PROVE  RecordSent(s, v) \in Stats /\ RecordReceived(s, v) \in Stats
<1>1. PayloadLen[v] \in Nat /\ HeaderSize \in Nat
  BY RuntimeConstants
<1>2. /\ s.framesSent + 1 \in Nat
      /\ s.framesReceived + 1 \in Nat
      /\ s.bytesSent + HeaderSize + PayloadLen[v] \in Nat
      /\ s.bytesReceived + HeaderSize + PayloadLen[v] \in Nat
  BY <1>1 DEF Stats
<1>. QED  BY <1>2 DEF Stats, RecordSent, RecordReceived

\* The pieces of TypeOK' that a successful send or a counted receive disturbs.
LEMMA SendType ==
  ASSUME TypeOK, NEW p \in Parties, NEW q \in Parties, NEW t \in Tasks,
         NEW k \in Kinds, NEW v \in Payloads, Send(p, q, t, k, v)
  PROVE  TypeOK'
<1> DEFINE f == FramePayload(p, NextRoute(p, t, k), v)
<1>1. f \in Frames
  BY NextRouteType
<1>2. cursor' \in [Parties -> [Tasks -> Gates]]
  BY BurnGateType DEF Send
<1>3. pipe' \in [Parties -> [Parties -> Seq(Frames)]]
  <2>1. Append(pipe[p][q], f) \in Seq(Frames)
    BY <1>1 DEF TypeOK
  <2>2. pipe' = [pipe EXCEPT ![p][q] = IF q \in closed THEN @ ELSE Append(@, f)]
    BY DEF Send
  <2>. QED  BY <2>1, <2>2 DEF TypeOK
<1>4. log' \in [Parties -> Seq(Sent)]
  <2>1. [to |-> q, frame |-> f] \in Sent
    BY <1>1 DEF Sent
  <2>2. Append(log[p], [to |-> q, frame |-> f]) \in Seq(Sent)
    <3>1. log[p] \in Seq(Sent)
      BY DEF TypeOK, Sent
    <3>. QED  BY <2>1, <3>1, AppendProperties
  <2>3. log' = [log EXCEPT ![p] = Append(@, [to |-> q, frame |-> f])]
    BY DEF Send
  <2>. QED  BY <2>2, <2>3 DEF TypeOK, Sent
<1>5. stats' \in [Parties -> [Parties -> Stats]]
  <2>1. stats[p][q] \in Stats
    BY DEF TypeOK
  <2>. QED  BY <2>1, CountersType DEF Send, TypeOK
<1>. QED  BY <1>2, <1>3, <1>4, <1>5 DEF Send, TypeOK, Sent

LEMMA ConsumeType ==
  ASSUME TypeOK, NEW p \in Parties, NEW q \in Parties,
         pipe[q][p] # <<>>, Consume(p, q)
  PROVE  pipe' \in [Parties -> [Parties -> Seq(Frames)]]
BY HeadIsFrame DEF Consume, TypeOK

LEMMA RecvCountedType ==
  ASSUME TypeOK, NEW p \in Parties, NEW q \in Parties, RecvCounted(p, q)
  PROVE  /\ pipe' \in [Parties -> [Parties -> Seq(Frames)]]
         /\ stats' \in [Parties -> [Parties -> Stats]]
         /\ Head(pipe[q][p]) \in Frames
<1>1. Head(pipe[q][p]) \in Frames
  BY HeadIsFrame DEF RecvCounted, Readable
<1>2. pipe' \in [Parties -> [Parties -> Seq(Frames)]]
  BY ConsumeType DEF RecvCounted, Readable
<1>3. Head(pipe[q][p]).payload \in Payloads /\ stats[p][q] \in Stats
  BY <1>1 DEF Frames, TypeOK
<1>4. RecordReceived(stats[p][q], Head(pipe[q][p]).payload) \in Stats
  BY <1>3, CountersType
<1>5. stats' \in [Parties -> [Parties -> Stats]]
  BY <1>4 DEF RecvCounted, TypeOK
<1>. QED  BY <1>1, <1>2, <1>5

LEMMA DeliverType ==
  ASSUME TypeOK, NEW p \in Parties, NEW q \in Parties, NEW r \in Routes,
         NEW f \in Frames,
         delivered' = [delivered EXCEPT ![p] =
                         Append(@, [from |-> q, asked |-> r, frame |-> f])]
  PROVE  delivered' \in [Parties -> Seq(Received)]
<1>1. [from |-> q, asked |-> r, frame |-> f] \in Received
  BY DEF Received
<1>2. Append(delivered[p], [from |-> q, asked |-> r, frame |-> f]) \in Seq(Received)
  <2>1. delivered[p] \in Seq(Received)
    BY DEF TypeOK, Received
  <2>. QED  BY <1>1, <2>1, AppendProperties
<1>. QED  BY <1>2 DEF TypeOK, Received

\* Every reachable state has the shape the model's records and functions claim.
THEOREM TypeCorrect == Spec => []TypeOK
<1>1. Init => TypeOK
  BY MaxU64Type DEF Init, TypeOK, Gates, Stats, ZeroStats
<1>2. TypeOK /\ [Next]_vars => TypeOK'
  <2> SUFFICES ASSUME TypeOK, [Next]_vars PROVE TypeOK'
    OBVIOUS
  <2>1. ASSUME NEW p \in Parties, NEW q \in Parties, InsertPeer(p, q) PROVE TypeOK'
    BY <2>1 DEF InsertPeer, TypeOK
  <2>2. ASSUME NEW p \in Parties, NEW q \in Parties, NEW t \in Tasks, NEW k \in Kinds,
               NEW v \in Payloads, Send(p, q, t, k, v)
        PROVE  TypeOK'
    BY <2>2, SendType
  <2>3. ASSUME NEW p \in Parties, NEW q \in Parties, NEW t \in Tasks, NEW v \in Payloads,
               SendFails(p, q, t, v)
        PROVE  TypeOK'
    <3>1. cursor' \in [Parties -> [Tasks -> Gates]]
      BY <2>3, BurnGateType DEF SendFails, KeepBurned
    <3>2. <<t, cursor[p][t]>> \in Tasks \X Gates
      BY DEF TypeOK
    <3>3. burned' \in [Parties -> SUBSET (Tasks \X Gates)]
      BY <2>3, <3>2 DEF SendFails, TypeOK
    <3>. QED  BY <2>3, <3>1, <3>3 DEF SendFails, TypeOK
  <2>4. ASSUME NEW p \in Parties, NEW q \in Parties, RecvForeign(p, q) PROVE TypeOK'
    <3>1. pipe' \in [Parties -> [Parties -> Seq(Frames)]]
      BY <2>4, ConsumeType DEF RecvForeign, Readable
    <3>. QED  BY <2>4, <3>1 DEF RecvForeign, TypeOK
  <2>5. ASSUME NEW p \in Parties, NEW q \in Parties, NEW c \in Codecs, Recv(p, q, c)
        PROVE  TypeOK'
    <3>1. RecvCounted(p, q)
      BY <2>5 DEF Recv
    <3>2. Head(pipe[q][p]) \in Frames /\ Head(pipe[q][p]).route \in Routes
      BY <3>1, RecvCountedType DEF Frames
    <3>3. delivered' \in [Parties -> Seq(Received)]
      BY <2>5, <3>2, DeliverType DEF Recv
    <3>. QED  BY <2>5, <3>1, <3>3, RecvCountedType DEF Recv, TypeOK, Received
  <2>6. ASSUME NEW p \in Parties, NEW q \in Parties, NEW c \in Codecs, NEW r \in Routes,
               RecvExpected(p, q, c, r)
        PROVE  TypeOK'
    <3>1. RecvCounted(p, q)
      BY <2>6 DEF RecvExpected
    <3>2. Head(pipe[q][p]) \in Frames
      BY <3>1, RecvCountedType
    <3>3. delivered' \in [Parties -> Seq(Received)]
      BY <2>6, <3>2, DeliverType DEF RecvExpected
    <3>. QED  BY <2>6, <3>1, <3>3, RecvCountedType DEF RecvExpected, TypeOK, Received
  <2>7. ASSUME NEW p \in Parties, NEW q \in Parties, NEW c \in Codecs, NEW r \in Routes,
               RecvDiscards(p, q, c, r)
        PROVE  TypeOK'
    BY <2>7, RecvCountedType DEF RecvDiscards, TypeOK
  <2>8. ASSUME NEW p \in Parties, NEW q \in Parties, RecvTooLarge(p, q) PROVE TypeOK'
    BY <2>8 DEF RecvTooLarge, TypeOK
  <2>9. ASSUME NEW p \in Parties, Close(p) PROVE TypeOK'
    <3>1. pipe' \in [Parties -> [Parties -> Seq(Frames)]]
      BY <2>9 DEF Close, TypeOK
    <3>. QED  BY <2>9, <3>1 DEF Close, TypeOK
  <2>10. ASSUME NEW p \in Parties, NEW q \in Parties, LoseTail(p, q) PROVE TypeOK'
    <3>1. SubSeq(pipe[p][q], 1, Len(pipe[p][q]) - 1) \in Seq(Frames)
      BY <2>10 DEF LoseTail, TypeOK
    <3>2. pipe' \in [Parties -> [Parties -> Seq(Frames)]]
      BY <2>10, <3>1 DEF LoseTail, TypeOK
    <3>. QED  BY <2>10, <3>2 DEF LoseTail, TypeOK
  <2>11. CASE UNCHANGED vars
    BY <2>11 DEF vars, TypeOK
  <2>. QED
    BY <2>1, <2>2, <2>3, <2>4, <2>5, <2>6, <2>7, <2>8, <2>9, <2>10, <2>11 DEF Next
<1>. QED  BY <1>1, <1>2, PTL DEF Spec
-----------------------------------------------------------------------------
\* Why gates are not reused: every gate that a send of a party took, whether it
\* succeeded or not, is below the cursor of its task, so the gate the cursor
\* hands out next is in no entry of the log and was burned by no failure.
GatesBelowCursor ==
  \A p \in Parties : \A i \in 1 .. Len(log[p]) :
    log[p][i].frame.route.gate < cursor[p][log[p][i].frame.route.task]

BurnedBelowCursor ==
  \A p \in Parties, t \in Tasks, g \in Gates : <<t, g>> \in burned[p] => g < cursor[p][t]

RouteInv == GatesBelowCursor /\ BurnedBelowCursor /\ RouteNeverReused

LEMMA LogEntryType ==
  ASSUME TypeOK, NEW p \in Parties, NEW i \in 1 .. Len(log[p])
  PROVE  /\ log[p][i] \in Sent
         /\ log[p][i].frame.route.task \in Tasks
         /\ log[p][i].frame.route.gate \in Nat
<1>1. log[p] \in Seq(Sent)
  BY DEF TypeOK, Sent
<1>2. log[p][i] \in Sent
  BY <1>1, ElementOfSeq
<1>3. log[p][i].frame.route \in Routes
  BY <1>2 DEF Sent, Frames
<1>. QED  BY <1>2, <1>3, MaxU64Type DEF Routes, Gates

LEMMA CursorType ==
  ASSUME TypeOK, NEW p \in Parties, NEW t \in Tasks
  PROVE  cursor[p][t] \in Nat
BY MaxU64Type DEF TypeOK, Gates

\* A step that leaves the logs alone and moves no cursor back keeps RouteInv.
LEMMA CursorsOnlyGrow ==
  ASSUME TypeOK, TypeOK', RouteInv, UNCHANGED <<log, burned>>,
         \A p \in Parties, t \in Tasks : cursor[p][t] <= cursor'[p][t]
  PROVE  RouteInv'
<1>1. \A p \in Parties, t \in Tasks : cursor[p][t] \in Nat /\ cursor'[p][t] \in Nat
  BY MaxU64Type DEF TypeOK, Gates
<1>2. ASSUME NEW p \in Parties, NEW i \in 1 .. Len(log[p])
      PROVE  log[p][i].frame.route.gate < cursor'[p][log[p][i].frame.route.task]
  <2> DEFINE r == log[p][i].frame.route
  <2>1. r.gate \in Nat /\ r.task \in Tasks
    BY LogEntryType
  <2>2. r.gate < cursor[p][r.task]
    BY DEF RouteInv, GatesBelowCursor
  <2>3. /\ cursor[p][r.task] \in Nat /\ cursor'[p][r.task] \in Nat
        /\ cursor[p][r.task] <= cursor'[p][r.task]
    BY <1>1, <2>1
  <2> HIDE DEF r
  <2>4. r.gate < cursor'[p][r.task]
    BY <2>1, <2>2, <2>3
  <2>. QED  BY <2>4 DEF r
<1>3. ASSUME NEW p \in Parties, NEW t \in Tasks, NEW g \in Gates, <<t, g>> \in burned[p]
      PROVE  g < cursor'[p][t]
  <2>1. g \in Nat /\ g < cursor[p][t]
    BY <1>3 DEF Gates, RouteInv, BurnedBelowCursor
  <2>2. /\ cursor[p][t] \in Nat /\ cursor'[p][t] \in Nat
        /\ cursor[p][t] <= cursor'[p][t]
    BY <1>1
  <2>. QED  BY <2>1, <2>2
<1>4. GatesBelowCursor'
  BY <1>2 DEF GatesBelowCursor
<1>5. BurnedBelowCursor'
  BY <1>3 DEF BurnedBelowCursor
<1>6. RouteNeverReused'
  BY DEF RouteInv, RouteNeverReused
<1>. QED  BY <1>4, <1>5, <1>6 DEF RouteInv

\* A send that succeeds logs the gate the cursor has just left.
LEMMA SendKeepsRouteInv ==
  ASSUME TypeOK, TypeOK', RouteInv, NEW p \in Parties, NEW q \in Parties, NEW t \in Tasks,
         NEW k \in Kinds, NEW v \in Payloads, Send(p, q, t, k, v)
  PROVE  RouteInv'
<1> DEFINE f == FramePayload(p, NextRoute(p, t, k), v)
           e == [to |-> q, frame |-> f]
           n == Len(log[p])
<1>1. f \in Frames /\ f.route.task = t /\ f.route.gate = cursor[p][t]
  BY NextRouteType DEF FramePayload, NextRoute, RuntimeRoute
<1>2. log[p] \in Seq(Sent) /\ e \in Sent
  BY <1>1 DEF TypeOK, Sent
<1>3. log' = [log EXCEPT ![p] = Append(@, e)]
  BY DEF Send
<1>4. /\ Len(log'[p]) = n + 1
      /\ log'[p][n + 1] = e
      /\ \A i \in 1 .. n : log'[p][i] = log[p][i]
      /\ \A a \in Parties : a # p => log'[a] = log[a]
  BY <1>2, <1>3, AppendProperties DEF TypeOK
<1>5. /\ cursor'[p][t] = cursor[p][t] + 1
      /\ \A a \in Parties, u \in Tasks : <<a, u>> # <<p, t>> => cursor'[a][u] = cursor[a][u]
  BY BurnGateType DEF Send
<1>6. \A a \in Parties, u \in Tasks : cursor[a][u] \in Nat /\ cursor'[a][u] \in Nat
  BY MaxU64Type DEF TypeOK, Gates
<1>7. ASSUME NEW a \in Parties, NEW i \in 1 .. Len(log[a])
      PROVE  /\ log[a][i].frame.route.task \in Tasks
             /\ log[a][i].frame.route.gate \in Nat
             /\ log[a][i].frame.route.gate < cursor[a][log[a][i].frame.route.task]
  BY LogEntryType DEF RouteInv, GatesBelowCursor
<1>8. ASSUME NEW a \in Parties, NEW i \in 1 .. Len(log'[a])
      PROVE  log'[a][i].frame.route.gate < cursor'[a][log'[a][i].frame.route.task]
  <2>1. CASE a = p /\ i = n + 1
    BY <2>1, <1>1, <1>4, <1>5, <1>6
  <2>2. CASE ~(a = p /\ i = n + 1)
    <3>1. i \in 1 .. Len(log[a]) /\ log'[a][i] = log[a][i]
      BY <2>2, <1>2, <1>4, LenProperties
    <3> DEFINE r == log[a][i].frame.route
    <3>2. r.task \in Tasks /\ r.gate \in Nat /\ r.gate < cursor[a][r.task]
      BY <3>1, <1>7
    <3>3. /\ cursor[a][r.task] \in Nat /\ cursor'[a][r.task] \in Nat
          /\ cursor[a][r.task] <= cursor'[a][r.task]
      <4>1. CASE a = p /\ r.task = t
        BY <4>1, <1>5, <1>6
      <4>2. CASE ~(a = p /\ r.task = t)
        BY <3>2, <4>2, <1>5, <1>6
      <4>. QED  BY <4>1, <4>2
    <3> HIDE DEF r
    <3>4. r.gate < cursor'[a][r.task]
      BY <3>2, <3>3
    <3>. QED  BY <3>1, <3>4 DEF r
  <2>. QED  BY <2>1, <2>2
<1>9. ASSUME NEW a \in Parties, NEW i \in 1 .. Len(log'[a]), NEW j \in 1 .. Len(log'[a]),
             log'[a][i].frame.route.task = log'[a][j].frame.route.task,
             log'[a][i].frame.route.gate = log'[a][j].frame.route.gate
      PROVE  i = j
  <2> DEFINE IsOld(x) == x \in 1 .. Len(log[a]) /\ log'[a][x] = log[a][x]
             IsNew(x) == a = p /\ x = n + 1
  <2>1. \A x \in 1 .. Len(log'[a]) : IsOld(x) \/ IsNew(x)
    BY <1>2, <1>4, LenProperties
  <2>2. CASE IsOld(i) /\ IsOld(j)
    BY <2>2, <1>9 DEF RouteInv, RouteNeverReused
  <2>3. \A x \in 1 .. Len(log[a]) : a = p /\ log[a][x].frame.route.task = t
                                     => log[a][x].frame.route.gate # cursor[p][t]
    BY <1>6, <1>7
  <2>4. CASE IsNew(i) /\ IsOld(j)
    BY <2>3, <2>4, <1>1, <1>4, <1>9
  <2>5. CASE IsOld(i) /\ IsNew(j)
    BY <2>3, <2>5, <1>1, <1>4, <1>9
  <2>6. CASE IsNew(i) /\ IsNew(j)
    BY <2>6
  <2>. QED  BY <2>1, <2>2, <2>4, <2>5, <2>6
<1>10. ASSUME NEW a \in Parties, NEW u \in Tasks, NEW g \in Gates, <<u, g>> \in burned[a]
       PROVE  g \in Nat /\ g < cursor[a][u] /\ cursor[a][u] <= cursor'[a][u]
  <2>1. g \in Nat /\ g < cursor[a][u]
    BY <1>10 DEF Gates, RouteInv, BurnedBelowCursor
  <2>2. CASE <<a, u>> = <<p, t>>
    BY <2>1, <2>2, <1>5, <1>6
  <2>3. CASE <<a, u>> # <<p, t>>
    BY <2>1, <2>3, <1>5, <1>6
  <2>. QED  BY <2>2, <2>3
<1>11. UNCHANGED burned
  BY DEF Send
<1>12. BurnedBelowCursor'
  <2>1. ASSUME NEW a \in Parties, NEW u \in Tasks, NEW g \in Gates, <<u, g>> \in burned[a]
        PROVE  g < cursor'[a][u]
    BY <2>1, <1>6, <1>10
  <2>. QED  BY <2>1, <1>11 DEF BurnedBelowCursor
<1>13. ASSUME NEW a \in Parties, NEW i \in 1 .. Len(log'[a])
       PROVE  <<log'[a][i].frame.route.task, log'[a][i].frame.route.gate>> \notin burned'[a]
  <2>1. CASE a = p /\ i = n + 1
    <3>1. cursor[p][t] \in Gates /\ ~(cursor[p][t] < cursor[p][t])
      BY <1>6 DEF TypeOK
    <3>2. <<t, cursor[p][t]>> \notin burned[p]
      BY <3>1 DEF RouteInv, BurnedBelowCursor
    <3>. QED  BY <2>1, <3>2, <1>1, <1>4, <1>11
  <2>2. CASE ~(a = p /\ i = n + 1)
    <3>1. i \in 1 .. Len(log[a]) /\ log'[a][i] = log[a][i]
      BY <2>2, <1>2, <1>4, LenProperties
    <3>. QED  BY <3>1, <1>11 DEF RouteInv, RouteNeverReused
  <2>. QED  BY <2>1, <2>2
<1>14. GatesBelowCursor'
  BY <1>8 DEF GatesBelowCursor
<1>15. RouteNeverReused'
  BY <1>9, <1>13 DEF RouteNeverReused
<1>. QED  BY <1>12, <1>14, <1>15 DEF RouteInv

\* A send that fails burns the gate that the cursor has just left.
LEMMA FailureKeepsRouteInv ==
  ASSUME TypeOK, TypeOK', RouteInv, NEW p \in Parties, NEW q \in Parties, NEW t \in Tasks,
         NEW v \in Payloads, SendFails(p, q, t, v)
  PROVE  RouteInv'
<1> DEFINE c == cursor[p][t]
<1>1. /\ cursor'[p][t] = c + 1
      /\ \A a \in Parties, u \in Tasks : <<a, u>> # <<p, t>> => cursor'[a][u] = cursor[a][u]
  BY BurnGateType DEF SendFails, KeepBurned
<1>2. \A a \in Parties, u \in Tasks : cursor[a][u] \in Nat /\ cursor'[a][u] \in Nat
  BY MaxU64Type DEF TypeOK, Gates
<1>3. log' = log
  BY DEF SendFails
<1>4. /\ burned'[p] = burned[p] \union {<<t, c>>}
      /\ \A a \in Parties : a # p => burned'[a] = burned[a]
  BY DEF SendFails, TypeOK
<1>5. \A a \in Parties, u \in Tasks : cursor[a][u] <= cursor'[a][u]
  BY <1>1, <1>2
<1>6. ASSUME NEW a \in Parties, NEW i \in 1 .. Len(log[a])
      PROVE  /\ log[a][i].frame.route.task \in Tasks
             /\ log[a][i].frame.route.gate \in Nat
             /\ log[a][i].frame.route.gate < cursor[a][log[a][i].frame.route.task]
  BY LogEntryType DEF RouteInv, GatesBelowCursor
<1> HIDE DEF c
<1>7. GatesBelowCursor'
  <2>1. ASSUME NEW a \in Parties, NEW i \in 1 .. Len(log[a])
        PROVE  log[a][i].frame.route.gate < cursor'[a][log[a][i].frame.route.task]
    <3>1. PICK r : r = log[a][i].frame.route
      OBVIOUS
    <3>2. r.task \in Tasks /\ r.gate \in Nat /\ r.gate < cursor[a][r.task]
      BY <1>6, <3>1
    <3>3. /\ cursor[a][r.task] \in Nat /\ cursor'[a][r.task] \in Nat
          /\ cursor[a][r.task] <= cursor'[a][r.task]
      BY <1>2, <1>5, <3>2
    <3>4. r.gate < cursor'[a][r.task]
      BY <3>2, <3>3
    <3>. QED  BY <3>1, <3>4
  <2>. QED  BY <2>1, <1>3 DEF GatesBelowCursor
<1>8. BurnedBelowCursor'
  <2>1. ASSUME NEW a \in Parties, NEW u \in Tasks, NEW g \in Gates, <<u, g>> \in burned'[a]
        PROVE  g < cursor'[a][u]
    <3>1. CASE a = p /\ u = t /\ g = c
      BY <3>1, <1>1, <1>2 DEF c
    <3>2. CASE ~(a = p /\ u = t /\ g = c)
      <4>1. <<u, g>> \in burned[a]
        BY <2>1, <3>2, <1>4
      <4>2. g \in Nat /\ g < cursor[a][u]
        BY <4>1 DEF Gates, RouteInv, BurnedBelowCursor
      <4>. QED  BY <4>2, <1>2, <1>5
    <3>. QED  BY <3>1, <3>2
  <2>. QED  BY <2>1 DEF BurnedBelowCursor
<1>9. ASSUME NEW a \in Parties, NEW i \in 1 .. Len(log[a])
      PROVE  <<log[a][i].frame.route.task, log[a][i].frame.route.gate>> \notin burned'[a]
  <2>1. PICK r : r = log[a][i].frame.route
    OBVIOUS
  <2>2. r.task \in Tasks /\ r.gate \in Nat /\ r.gate < cursor[a][r.task]
    BY <1>6, <2>1
  <2>3. <<r.task, r.gate>> \notin burned[a]
    BY <2>1 DEF RouteInv, RouteNeverReused
  <2>4. a = p => <<r.task, r.gate>> # <<t, c>>
    <3>1. SUFFICES ASSUME a = p, r.task = t, r.gate = c PROVE FALSE
      OBVIOUS
    <3>. QED  BY <3>1, <2>2, <1>2 DEF c
  <2>5. <<r.task, r.gate>> \notin burned'[a]
    BY <2>3, <2>4, <1>4
  <2>. QED  BY <2>1, <2>5
<1>10. RouteNeverReused'
  BY <1>3, <1>9 DEF RouteInv, RouteNeverReused
<1>. QED  BY <1>7, <1>8, <1>10 DEF RouteInv

\* No party ever sends two frames with the same task and gate, or one with a
\* task and gate that a failed send of its own has taken.
THEOREM RoutesUnique == Spec => []RouteNeverReused
<1>1. Init => RouteInv
  BY DEF Init, RouteInv, GatesBelowCursor, BurnedBelowCursor, RouteNeverReused
<1>2. TypeOK /\ TypeOK' /\ RouteInv /\ [Next]_vars => RouteInv'
  <2> SUFFICES ASSUME TypeOK, TypeOK', RouteInv, [Next]_vars PROVE RouteInv'
    OBVIOUS
  <2>0. \A a \in Parties, u \in Tasks : cursor[a][u] \in Nat
    BY MaxU64Type DEF TypeOK, Gates
  <2>1. ASSUME NEW p \in Parties, NEW q \in Parties, NEW t \in Tasks, NEW k \in Kinds,
               NEW v \in Payloads, Send(p, q, t, k, v)
        PROVE  RouteInv'
    BY <2>1, SendKeepsRouteInv
  <2>2. ASSUME NEW p \in Parties, NEW q \in Parties, NEW t \in Tasks, NEW v \in Payloads,
               SendFails(p, q, t, v)
        PROVE  RouteInv'
    BY <2>2, FailureKeepsRouteInv
  <2>3. CASE UNCHANGED <<cursor, log, burned>>
    <3>1. \A a \in Parties, u \in Tasks : cursor[a][u] <= cursor'[a][u]
      BY <2>0, <2>3
    <3>. QED  BY <2>3, <3>1, CursorsOnlyGrow
  <2>. QED
    BY <2>1, <2>2, <2>3 DEF Next, vars, InsertPeer, RecvForeign, Recv, RecvExpected,
       RecvDiscards, RecvTooLarge, Close, LoseTail
<1>3. RouteInv => RouteNeverReused
  BY DEF RouteInv
<1>. QED  BY <1>1, <1>2, <1>3, TypeCorrect, PTL DEF Spec
-----------------------------------------------------------------------------
\* Three kinds of step.  A call that returns a frame takes the first of its
\* stream; apart from sends, the other steps only shorten streams at their ends.
Delivers(p, q) ==
  /\ RecvCounted(p, q)
  /\ delivered' = [delivered EXCEPT ![p] =
                     Append(@, [from  |-> q,
                                asked |-> Head(pipe[q][p]).route,
                                frame |-> Head(pipe[q][p])])]
  /\ UNCHANGED <<peers, cursor, closed, poisoned, log>>

Segment(part, whole) ==
  \E m \in {0, 1} : \A i \in 1 .. Len(part) : i + m \in 1 .. Len(whole) /\ part[i] = whole[i + m]

PipesShrink == \A a, b \in Parties : Segment(pipe'[a][b], pipe[a][b])

LEMMA ConsumeShrinks ==
  ASSUME TypeOK, NEW p \in Parties, NEW q \in Parties, pipe[q][p] # <<>>, Consume(p, q)
  PROVE  /\ Len(pipe'[q][p]) = Len(pipe[q][p]) - 1
         /\ \A i \in 1 .. Len(pipe'[q][p]) : pipe'[q][p][i] = pipe[q][p][i + 1]
         /\ \A a, b \in Parties : <<a, b>> # <<q, p>> => pipe'[a][b] = pipe[a][b]
         /\ PipesShrink
<1>1. pipe[q][p] \in Seq(Frames) /\ \A a, b \in Parties : pipe[a][b] \in Seq(Frames)
  BY DEF TypeOK
<1>2. pipe'[q][p] = Tail(pipe[q][p])
  BY DEF Consume, TypeOK
<1>3. /\ Len(pipe'[q][p]) = Len(pipe[q][p]) - 1
      /\ \A i \in 1 .. Len(pipe'[q][p]) : pipe'[q][p][i] = pipe[q][p][i + 1]
  BY <1>1, <1>2
<1>4. \A a, b \in Parties : <<a, b>> # <<q, p>> => pipe'[a][b] = pipe[a][b]
  BY DEF Consume, TypeOK
<1>5. ASSUME NEW a \in Parties, NEW b \in Parties PROVE Segment(pipe'[a][b], pipe[a][b])
  <2>1. CASE <<a, b>> = <<q, p>>
    <3>1. \A i \in 1 .. Len(pipe'[q][p]) :
            i + 1 \in 1 .. Len(pipe[q][p]) /\ pipe'[q][p][i] = pipe[q][p][i + 1]
      BY <1>1, <1>3
    <3>. QED  BY <2>1, <3>1 DEF Segment
  <2>2. CASE <<a, b>> # <<q, p>>
    <3>1. \A i \in 1 .. Len(pipe[a][b]) : i + 0 \in 1 .. Len(pipe[a][b]) /\ i + 0 = i
      BY <1>1
    <3>. QED  BY <1>4, <2>2, <3>1 DEF Segment
  <2>. QED  BY <2>1, <2>2
<1>. QED  BY <1>3, <1>4, <1>5 DEF PipesShrink

LEMMA SameIsSegment == ASSUME TypeOK, UNCHANGED pipe PROVE PipesShrink
<1>1. ASSUME NEW a \in Parties, NEW b \in Parties PROVE Segment(pipe'[a][b], pipe[a][b])
  <2>1. pipe[a][b] \in Seq(Frames)
    BY DEF TypeOK
  <2>2. \A i \in 1 .. Len(pipe[a][b]) : i + 0 \in 1 .. Len(pipe[a][b]) /\ i + 0 = i
    BY <2>1
  <2>. QED  BY <2>2 DEF Segment
<1>. QED  BY <1>1 DEF PipesShrink

LEMMA CloseShrinks == ASSUME TypeOK, NEW p \in Parties, Close(p) PROVE PipesShrink
<1>1. ASSUME NEW a \in Parties, NEW b \in Parties PROVE Segment(pipe'[a][b], pipe[a][b])
  <2>1. pipe[a][b] \in Seq(Frames)
    BY DEF TypeOK
  <2>2. pipe'[a][b] = IF b = p THEN <<>> ELSE pipe[a][b]
    BY DEF Close, TypeOK
  <2>3. \A i \in 1 .. Len(pipe'[a][b]) : i + 0 \in 1 .. Len(pipe[a][b]) /\ pipe'[a][b][i] = pipe[a][b][i + 0]
    BY <2>1, <2>2
  <2>. QED  BY <2>3 DEF Segment
<1>. QED  BY <1>1 DEF PipesShrink

LEMMA LossShrinks ==
  ASSUME TypeOK, NEW p \in Parties, NEW q \in Parties, LoseTail(p, q) PROVE PipesShrink
<1>1. ASSUME NEW a \in Parties, NEW b \in Parties PROVE Segment(pipe'[a][b], pipe[a][b])
  <2>1. pipe[a][b] \in Seq(Frames)
    BY DEF TypeOK
  <2>2. CASE <<a, b>> = <<p, q>>
    <3>1. pipe'[a][b] = SubSeq(pipe[a][b], 1, Len(pipe[a][b]) - 1)
      BY <2>2 DEF LoseTail, TypeOK
    <3>2. pipe[a][b] # <<>>
      BY <2>2 DEF LoseTail
    <3>3. \A i \in 1 .. Len(pipe'[a][b]) :
            i + 0 \in 1 .. Len(pipe[a][b]) /\ pipe'[a][b][i] = pipe[a][b][i + 0]
      BY <2>1, <3>1, <3>2
    <3>. QED  BY <3>3 DEF Segment
  <2>3. CASE <<a, b>> # <<p, q>>
    <3>1. pipe'[a][b] = pipe[a][b]
      BY <2>3 DEF LoseTail, TypeOK
    <3>2. \A i \in 1 .. Len(pipe[a][b]) : i + 0 \in 1 .. Len(pipe[a][b]) /\ i + 0 = i
      BY <2>1
    <3>. QED  BY <3>1, <3>2 DEF Segment
  <2>. QED  BY <2>2, <2>3
<1>. QED  BY <1>1 DEF PipesShrink

LEMMA StepKinds ==
  ASSUME TypeOK, [Next]_vars
  PROVE  \/ \E p, q \in Parties, t \in Tasks, k \in Kinds, v \in Payloads : Send(p, q, t, k, v)
         \/ \E p, q \in Parties : Delivers(p, q)
         \/ PipesShrink /\ UNCHANGED <<log, delivered>>
<1> DEFINE Goal ==
      \/ \E p, q \in Parties, t \in Tasks, k \in Kinds, v \in Payloads : Send(p, q, t, k, v)
      \/ \E p, q \in Parties : Delivers(p, q)
      \/ PipesShrink /\ UNCHANGED <<log, delivered>>
<1>1. ASSUME NEW p \in Parties, NEW q \in Parties, NEW c \in Codecs, Recv(p, q, c) PROVE Goal
  BY <1>1 DEF Recv, Delivers
<1>2. ASSUME NEW p \in Parties, NEW q \in Parties, NEW c \in Codecs, NEW r \in Routes,
             RecvExpected(p, q, c, r)
      PROVE  Goal
  BY <1>2 DEF RecvExpected, Delivers, EnsureMatches
<1>3. ASSUME NEW p \in Parties, NEW q \in Parties, RecvForeign(p, q) PROVE Goal
  BY <1>3, ConsumeShrinks DEF RecvForeign, Readable
<1>4. ASSUME NEW p \in Parties, NEW q \in Parties, NEW c \in Codecs, NEW r \in Routes,
             RecvDiscards(p, q, c, r)
      PROVE  Goal
  BY <1>4, ConsumeShrinks DEF RecvDiscards, RecvCounted, Readable
<1>5. ASSUME NEW p \in Parties, Close(p) PROVE Goal
  BY <1>5, CloseShrinks DEF Close
<1>6. ASSUME NEW p \in Parties, NEW q \in Parties, LoseTail(p, q) PROVE Goal
  BY <1>6, LossShrinks DEF LoseTail
<1>7. ASSUME UNCHANGED <<pipe, log, delivered>> PROVE Goal
  BY <1>7, SameIsSegment
<1>8. ASSUME NEW p \in Parties, NEW q \in Parties, InsertPeer(p, q) PROVE Goal
  BY <1>7, <1>8 DEF InsertPeer
<1>9. ASSUME NEW p \in Parties, NEW q \in Parties, NEW t \in Tasks, NEW v \in Payloads,
             SendFails(p, q, t, v)
      PROVE  Goal
  BY <1>7, <1>9 DEF SendFails
<1>10. ASSUME NEW p \in Parties, NEW q \in Parties, RecvTooLarge(p, q) PROVE Goal
  BY <1>7, <1>10 DEF RecvTooLarge
<1>11. ASSUME UNCHANGED vars PROVE Goal
  BY <1>7, <1>11 DEF vars
<1>12. ASSUME NEW p \in Parties, NEW q \in Parties, NEW t \in Tasks, NEW k \in Kinds,
              NEW v \in Payloads, Send(p, q, t, k, v)
       PROVE  Goal
  BY <1>12
<1> HIDE DEF Goal
<1>13. Goal
  BY <1>1, <1>2, <1>3, <1>4, <1>5, <1>6, <1>8, <1>9, <1>10, <1>11, <1>12 DEF Next
<1>. QED  BY <1>13 DEF Goal
-----------------------------------------------------------------------------
\* Why a receiver with the larger limit is safe: what is on a stream is within
\* the limit of its sender.
FramesFit ==
  \A p, q \in Parties : \A i \in 1 .. Len(pipe[p][q]) :
    PayloadLen[pipe[p][q][i].payload] <= LimitOf[p]

LEMMA ShrinkingFits == ASSUME FramesFit, PipesShrink PROVE FramesFit'
<1>1. ASSUME NEW a \in Parties, NEW b \in Parties, NEW i \in 1 .. Len(pipe'[a][b])
      PROVE  PayloadLen[pipe'[a][b][i].payload] <= LimitOf[a]
  <2>1. PICK m \in {0, 1} : \A j \in 1 .. Len(pipe'[a][b]) :
          j + m \in 1 .. Len(pipe[a][b]) /\ pipe'[a][b][j] = pipe[a][b][j + m]
    BY DEF PipesShrink, Segment
  <2>2. i + m \in 1 .. Len(pipe[a][b]) /\ pipe'[a][b][i] = pipe[a][b][i + m]
    BY <2>1
  <2>3. PayloadLen[pipe[a][b][i + m].payload] <= LimitOf[a]
    BY <2>2, Zenon DEF FramesFit
  <2>. QED  BY <2>2, <2>3
<1>. QED  BY <1>1 DEF FramesFit

LEMMA SendFits ==
  ASSUME TypeOK, FramesFit, NEW p \in Parties, NEW q \in Parties, NEW t \in Tasks,
         NEW k \in Kinds, NEW v \in Payloads, Send(p, q, t, k, v)
  PROVE  FramesFit'
<1> DEFINE f == FramePayload(p, NextRoute(p, t, k), v)
<1>1. f \in Frames /\ PayloadLen[f.payload] <= LimitOf[p]
  BY NextRouteType DEF Send, Sendable, FramePayload
<1>2. pipe' = [pipe EXCEPT ![p][q] = IF q \in closed THEN @ ELSE Append(@, f)]
  BY DEF Send
<1> HIDE DEF f
<1>3. ASSUME NEW a \in Parties, NEW b \in Parties, NEW i \in 1 .. Len(pipe'[a][b])
      PROVE  PayloadLen[pipe'[a][b][i].payload] <= LimitOf[a]
  <2>1. CASE <<a, b>> = <<p, q>> /\ q \notin closed
    <3>1. pipe'[a][b] = Append(pipe[a][b], f) /\ pipe[a][b] \in Seq(Frames)
      BY <1>2, <2>1 DEF TypeOK
    <3>2. \/ i \in 1 .. Len(pipe[a][b]) /\ pipe'[a][b][i] = pipe[a][b][i]
          \/ pipe'[a][b][i] = f
      BY <1>1, <3>1, AppendProperties, LenProperties
    <3>. QED  BY <1>1, <2>1, <3>2 DEF FramesFit
  <2>2. CASE ~(<<a, b>> = <<p, q>> /\ q \notin closed)
    <3>1. pipe'[a][b] = pipe[a][b]
      BY <1>2, <2>2 DEF TypeOK
    <3>. QED  BY <3>1 DEF FramesFit
  <2>. QED  BY <2>1, <2>2
<1>. QED  BY <1>3 DEF FramesFit

\* A receiver whose limit is no smaller than its sender's keeps the frame
\* boundaries of the stream.
THEOREM BoundariesAreKept == Spec => []NoPoison
<1> DEFINE Inv == FramesFit /\ NoPoison
<1>1. Init => Inv
  BY DEF Init, FramesFit, NoPoison
<1>2. TypeOK /\ Inv /\ [Next]_vars => Inv'
  <2> SUFFICES ASSUME TypeOK, FramesFit, NoPoison, [Next]_vars PROVE FramesFit' /\ NoPoison'
    OBVIOUS
  <2>1. FramesFit'
    <3>1. ASSUME NEW p \in Parties, NEW q \in Parties, Delivers(p, q) PROVE PipesShrink
      BY <3>1, ConsumeShrinks DEF Delivers, RecvCounted, Readable
    <3>. QED  BY <3>1, StepKinds, SendFits, ShrinkingFits
  <2>2. ASSUME NEW p \in Parties, NEW q \in Parties, RecvTooLarge(p, q) PROVE NoPoison'
    <3>1. Len(pipe[q][p]) \in Nat /\ 1 \in 1 .. Len(pipe[q][p])
      BY <2>2 DEF RecvTooLarge, TypeOK
    <3>2. Head(pipe[q][p]) = pipe[q][p][1] /\ Head(pipe[q][p]) \in Frames
      BY <2>2, HeadIsFrame DEF RecvTooLarge, TypeOK
    <3>3. PayloadLen[Head(pipe[q][p]).payload] <= LimitOf[q]
      BY <3>1, <3>2 DEF FramesFit
    <3>4. /\ PayloadLen[Head(pipe[q][p]).payload] \in Nat
          /\ LimitOf[q] \in Nat /\ LimitOf[p] \in Nat
      BY <3>2, RuntimeConstants DEF Frames
    <3>5. ~(LimitOf[q] <= LimitOf[p])
      BY <2>2, <3>3, <3>4 DEF RecvTooLarge
    <3>6. \A a, b \in Parties : b \in poisoned'[a] => b \in poisoned[a] \/ <<a, b>> = <<p, q>>
      BY <2>2 DEF RecvTooLarge, TypeOK
    <3>. QED  BY <3>5, <3>6 DEF NoPoison
  <2>3. ASSUME UNCHANGED poisoned PROVE NoPoison'
    BY <2>3 DEF NoPoison
  <2>4. (\E p, q \in Parties : RecvTooLarge(p, q)) \/ UNCHANGED poisoned
    BY DEF Next, vars, InsertPeer, Send, SendFails, RecvForeign, Recv, RecvExpected,
       RecvDiscards, Close, LoseTail
  <2>. QED  BY <2>1, <2>2, <2>3, <2>4
<1>3. Inv => NoPoison
  OBVIOUS
<1> HIDE DEF Inv
<1>. QED  BY <1>1, <1>2, <1>3, TypeCorrect, PTL DEF Spec
-----------------------------------------------------------------------------
\* Why deliveries are in the order of the sends.  Routes are fresh, so a frame
\* has one place in the log of its sender; along what a party has been given by
\* a peer and then along the stream from that peer, the places increase.
Place(l, to, frame) ==
  LET at == {i \in 1 .. Len(l) : l[i] = [to |-> to, frame |-> frame]}
  IN  IF at = {} THEN 0 ELSE CHOOSE i \in at : TRUE

PipeWasSent ==
  \A p, q \in Parties : \A i \in 1 .. Len(pipe[q][p]) : Place(log[q], p, pipe[q][p][i]) # 0

PipeInOrder ==
  \A p, q \in Parties : \A i, j \in 1 .. Len(pipe[q][p]) :
    i < j => Place(log[q], p, pipe[q][p][i]) < Place(log[q], p, pipe[q][p][j])

PipeIsLater ==
  \A p, q \in Parties : \A i \in 1 .. Len(delivered[p]), j \in 1 .. Len(pipe[q][p]) :
    delivered[p][i].from = q =>
      Place(log[q], p, delivered[p][i].frame) < Place(log[q], p, pipe[q][p][j])

GivenWasSent ==
  \A p \in Parties : \A i \in 1 .. Len(delivered[p]) :
    Place(log[delivered[p][i].from], p, delivered[p][i].frame) # 0

GivenInOrder ==
  \A p \in Parties : \A i, j \in 1 .. Len(delivered[p]) :
    i < j /\ delivered[p][i].from = delivered[p][j].from =>
      Place(log[delivered[p][i].from], p, delivered[p][i].frame) <
        Place(log[delivered[p][j].from], p, delivered[p][j].frame)

OrderInv == PipeWasSent /\ PipeInOrder /\ PipeIsLater /\ GivenWasSent /\ GivenInOrder

LEMMA PlaceType ==
  ASSUME NEW l, NEW to, NEW f, Len(l) \in Nat
  PROVE  /\ Place(l, to, f) \in Nat
         /\ Place(l, to, f) # 0 =>
              Place(l, to, f) \in 1 .. Len(l) /\ l[Place(l, to, f)] = [to |-> to, frame |-> f]
<1> DEFINE at == {i \in 1 .. Len(l) : l[i] = [to |-> to, frame |-> f]}
<1>1. Place(l, to, f) = IF at = {} THEN 0 ELSE CHOOSE i \in at : TRUE
  BY DEF Place
<1>2. CASE at = {}
  BY <1>1, <1>2
<1>3. CASE at # {}
  <2>1. Place(l, to, f) \in at
    BY <1>1, <1>3
  <2>. QED  BY <2>1
<1>. QED  BY <1>2, <1>3

\* In a sequence without repetition an entry is where it is seen.
LEMMA PlaceIs ==
  ASSUME NEW l, NEW to, NEW f, NEW k \in 1 .. Len(l), l[k] = [to |-> to, frame |-> f],
         \A i, j \in 1 .. Len(l) : l[i] = l[j] => i = j
  PROVE  Place(l, to, f) = k
<1>1. {i \in 1 .. Len(l) : l[i] = [to |-> to, frame |-> f]} = {k}
  OBVIOUS
<1>. QED  BY <1>1 DEF Place

\* Entries that are added behind those of a log, and repeat none, leave them in
\* their places.
LEMMA PlacesStay ==
  ASSUME NEW l, NEW m, Len(l) \in Nat, Len(m) = Len(l) + 1,
         \A i \in 1 .. Len(l) : m[i] = l[i],
         \A i, j \in 1 .. Len(m) : m[i] = m[j] => i = j,
         NEW to, NEW f, Place(l, to, f) # 0
  PROVE  Place(m, to, f) = Place(l, to, f)
<1> DEFINE k == Place(l, to, f)
<1>1. k \in 1 .. Len(l) /\ l[k] = [to |-> to, frame |-> f]
  BY PlaceType
<1> HIDE DEF k
<1>2. k \in 1 .. Len(m) /\ m[k] = [to |-> to, frame |-> f]
  BY <1>1
<1>3. Place(m, to, f) = k
  BY <1>2, PlaceIs
<1>. QED  BY <1>3 DEF k

LEMMA DeliveredType ==
  ASSUME TypeOK, NEW p \in Parties, NEW i \in 1 .. Len(delivered[p])
  PROVE  delivered[p][i] \in Received
<1>1. delivered[p] \in Seq(Received)
  BY DEF TypeOK, Received
<1>. QED  BY <1>1, ElementOfSeq

\* A new frame has the last place of its sender's log.
LEMMA SendKeepsOrder ==
  ASSUME TypeOK, TypeOK', RouteNeverReused', OrderInv, NEW p \in Parties, NEW q \in Parties,
         NEW t \in Tasks, NEW k \in Kinds, NEW v \in Payloads, Send(p, q, t, k, v)
  PROVE  OrderInv'
<1>1. PICK f \in Frames : f = FramePayload(p, NextRoute(p, t, k), v)
  BY NextRouteType
<1>2. /\ pipe' = [pipe EXCEPT ![p][q] = IF q \in closed THEN @ ELSE Append(@, f)]
      /\ log' = [log EXCEPT ![p] = Append(@, [to |-> q, frame |-> f])]
      /\ UNCHANGED delivered
  BY <1>1 DEF Send
<1>3. \A a \in Parties : log[a] \in Seq(Sent) /\ Len(log[a]) \in Nat
  <2>1. \A a \in Parties : log[a] \in Seq(Sent)
    BY DEF TypeOK, Sent
  <2>. QED  BY <2>1, LenProperties
\* Places in the logs: those of frames that are on their way or were given to
\* someone, and that of the new one.
<1>4. \A i, j \in 1 .. Len(log'[p]) : log'[p][i] = log'[p][j] => i = j
  BY DEF RouteNeverReused
<1>5. /\ log'[p] = Append(log[p], [to |-> q, frame |-> f])
      /\ \A a \in Parties : a # p => log'[a] = log[a]
  BY <1>2 DEF TypeOK
<1>6. LET n == Len(log[p])
      IN  /\ Len(log'[p]) = n + 1
          /\ log'[p][n + 1] = [to |-> q, frame |-> f]
          /\ \A i \in 1 .. n : log'[p][i] = log[p][i]
          /\ Place(log'[p], q, f) = n + 1
  <2> DEFINE n == Len(log[p])
             last == n + 1
  <2>1. [to |-> q, frame |-> f] \in Sent
    BY <1>1 DEF Sent
  <2>2. /\ Len(log'[p]) = last
        /\ log'[p][last] = [to |-> q, frame |-> f]
        /\ \A i \in 1 .. n : log'[p][i] = log[p][i]
    BY <1>3, <1>5, <2>1, AppendProperties
  <2>3. last \in 1 .. Len(log'[p])
    BY <1>3, <2>2
  <2> HIDE DEF last
  <2>4. Place(log'[p], q, f) = last
    BY <1>4, <2>2, <2>3, PlaceIs
  <2>. QED  BY <2>2, <2>4 DEF last
<1>7. ASSUME NEW a \in Parties, NEW b, NEW g, Place(log[a], b, g) # 0
      PROVE  /\ Place(log'[a], b, g) = Place(log[a], b, g)
             /\ Place(log[a], b, g) \in Nat
             /\ Place(log[a], b, g) <= Len(log[a])
  <2>1. Place(log'[a], b, g) = Place(log[a], b, g)
    <3>1. CASE a = p
      <4> DEFINE l == log[p]
                 m == log'[p]
      <4>1. /\ Len(l) \in Nat /\ Len(m) = Len(l) + 1
            /\ \A i \in 1 .. Len(l) : m[i] = l[i]
            /\ \A i, j \in 1 .. Len(m) : m[i] = m[j] => i = j
            /\ Place(l, b, g) # 0
        BY <1>3, <1>4, <1>6, <1>7, <3>1
      <4> HIDE DEF l, m
      <4>2. Place(m, b, g) = Place(l, b, g)
        BY <4>1, PlacesStay
      <4>. QED  BY <3>1, <4>2 DEF l, m
    <3>2. CASE a # p
      BY <1>5, <3>2
    <3>. QED  BY <3>1, <3>2
  <2>2. /\ Place(log[a], b, g) \in Nat
        /\ Place(log[a], b, g) \in 1 .. Len(log[a])
    BY <1>3, <1>7, PlaceType
  <2>. QED  BY <1>3, <2>1, <2>2
<1>8. ASSUME NEW a \in Parties, NEW b \in Parties, NEW i \in 1 .. Len(pipe[b][a])
      PROVE  /\ Place(log[b], a, pipe[b][a][i]) # 0
             /\ Place(log'[b], a, pipe[b][a][i]) = Place(log[b], a, pipe[b][a][i])
             /\ Place(log[b], a, pipe[b][a][i]) \in Nat
             /\ Place(log[b], a, pipe[b][a][i]) <= Len(log[b])
  <2>1. Place(log[b], a, pipe[b][a][i]) # 0
    BY DEF OrderInv, PipeWasSent
  <2>. QED  BY <1>7, <2>1
<1>9. ASSUME NEW a \in Parties, NEW i \in 1 .. Len(delivered[a])
      PROVE  LET b == delivered[a][i].from
                 g == delivered[a][i].frame
             IN  /\ b \in Parties
                 /\ Place(log[b], a, g) # 0
                 /\ Place(log'[b], a, g) = Place(log[b], a, g)
                 /\ Place(log[b], a, g) \in Nat
                 /\ Place(log[b], a, g) <= Len(log[b])
  <2>1. delivered[a][i].from \in Parties
    BY DeliveredType DEF Received
  <2>2. Place(log[delivered[a][i].from], a, delivered[a][i].frame) # 0
    BY DEF OrderInv, GivenWasSent
  <2>. QED  BY <1>7, <2>1, <2>2
\* An entry of a stream is an old one, or the new frame behind all others.
<1> DEFINE Old(a, b, i) == i \in 1 .. Len(pipe[a][b]) /\ pipe'[a][b][i] = pipe[a][b][i]
           New(a, b, i) == a = p /\ b = q /\ i = Len(pipe[p][q]) + 1 /\ pipe'[a][b][i] = f
<1>10. ASSUME NEW a \in Parties, NEW b \in Parties, NEW i \in 1 .. Len(pipe'[a][b])
      PROVE  Old(a, b, i) \/ New(a, b, i)
  <2>1. pipe[a][b] \in Seq(Frames)
    BY DEF TypeOK
  <2>2. CASE a = p /\ b = q /\ q \notin closed
    <3>1. pipe'[a][b] = Append(pipe[a][b], f)
      BY <1>2, <2>2 DEF TypeOK
    <3>2. /\ Len(pipe'[a][b]) = Len(pipe[a][b]) + 1
          /\ pipe'[a][b][Len(pipe[a][b]) + 1] = f
          /\ \A j \in 1 .. Len(pipe[a][b]) : pipe'[a][b][j] = pipe[a][b][j]
      BY <2>1, <3>1, AppendProperties
    <3>3. i \in 1 .. Len(pipe[a][b]) \/ i = Len(pipe[a][b]) + 1
      BY <2>1, <3>2
    <3>. QED  BY <2>2, <3>2, <3>3
  <2>3. CASE ~(a = p /\ b = q /\ q \notin closed)
    <3>1. pipe'[a][b] = pipe[a][b]
      BY <1>2, <2>3 DEF TypeOK
    <3>. QED  BY <3>1
  <2>. QED  BY <2>2, <2>3
<1>11. PipeWasSent'
  <2>. SUFFICES ASSUME NEW a \in Parties, NEW b \in Parties, NEW i \in 1 .. Len(pipe'[b][a])
               PROVE  Place(log'[b], a, pipe'[b][a][i]) # 0
    BY DEF PipeWasSent
  <2>1. CASE Old(b, a, i)
    BY <2>1, <1>8
  <2>2. CASE New(b, a, i)
    BY <2>2, <1>3, <1>6
  <2>. QED  BY <1>10, <2>1, <2>2
<1>12. PipeInOrder'
  <2>. SUFFICES ASSUME NEW a \in Parties, NEW b \in Parties, NEW i \in 1 .. Len(pipe'[b][a]),
                      NEW j \in 1 .. Len(pipe'[b][a]), i < j
               PROVE  Place(log'[b], a, pipe'[b][a][i]) < Place(log'[b], a, pipe'[b][a][j])
    BY DEF PipeInOrder
  <2>1. CASE Old(b, a, i) /\ Old(b, a, j)
    <3>1. Place(log[b], a, pipe[b][a][i]) < Place(log[b], a, pipe[b][a][j])
      BY <2>1 DEF OrderInv, PipeInOrder
    <3>. QED  BY <2>1, <3>1, <1>8
  <2>2. CASE Old(b, a, i) /\ New(b, a, j)
    <3>1. /\ Place(log'[b], a, pipe'[b][a][i]) \in Nat
          /\ Place(log'[b], a, pipe'[b][a][i]) <= Len(log[p])
      BY <2>2, <1>8
    <3>2. Place(log'[b], a, pipe'[b][a][j]) = Len(log[p]) + 1
      BY <2>2, <1>6
    <3>. QED  BY <3>1, <3>2, <1>3
  <2>3. CASE New(b, a, i)
    <3>1. Len(pipe[p][q]) \in Nat
      BY DEF TypeOK
    <3>2. j \in 1 .. Len(pipe[p][q]) \/ j = Len(pipe[p][q]) + 1
      BY <2>3, <1>10
    <3>. QED  BY <2>3, <3>1, <3>2
  <2>. QED  BY <1>10, <2>1, <2>2, <2>3
<1>13. PipeIsLater'
  <2>. SUFFICES ASSUME NEW a \in Parties, NEW b \in Parties, NEW i \in 1 .. Len(delivered[a]),
                      NEW j \in 1 .. Len(pipe'[b][a]), delivered[a][i].from = b
               PROVE  Place(log'[b], a, delivered[a][i].frame) < Place(log'[b], a, pipe'[b][a][j])
    BY <1>2 DEF PipeIsLater
  <2>1. CASE Old(b, a, j)
    <3>1. Place(log[b], a, delivered[a][i].frame) < Place(log[b], a, pipe[b][a][j])
      BY <2>1 DEF OrderInv, PipeIsLater
    <3>2. Place(log'[b], a, delivered[a][i].frame) = Place(log[b], a, delivered[a][i].frame)
      BY <1>9
    <3>3. Place(log'[b], a, pipe'[b][a][j]) = Place(log[b], a, pipe[b][a][j])
      BY <2>1, <1>8
    <3>. QED  BY <3>1, <3>2, <3>3
  <2>2. CASE New(b, a, j)
    <3>1. /\ Place(log'[b], a, delivered[a][i].frame) \in Nat
          /\ Place(log'[b], a, delivered[a][i].frame) <= Len(log[p])
      BY <2>2, <1>9
    <3>2. Place(log'[b], a, pipe'[b][a][j]) = Len(log[p]) + 1
      BY <2>2, <1>6
    <3>. QED  BY <3>1, <3>2, <1>3
  <2>. QED  BY <1>10, <2>1, <2>2
<1>14. GivenWasSent'
  BY <1>2, <1>9 DEF GivenWasSent
<1>15. GivenInOrder'
  <2>. SUFFICES ASSUME NEW a \in Parties, NEW i \in 1 .. Len(delivered[a]),
                      NEW j \in 1 .. Len(delivered[a]), i < j,
                      delivered[a][i].from = delivered[a][j].from
               PROVE  Place(log'[delivered[a][i].from], a, delivered[a][i].frame) <
                        Place(log'[delivered[a][j].from], a, delivered[a][j].frame)
    BY <1>2 DEF GivenInOrder
  <2>1. Place(log[delivered[a][i].from], a, delivered[a][i].frame) <
          Place(log[delivered[a][j].from], a, delivered[a][j].frame)
    BY DEF OrderInv, GivenInOrder
  <2>. QED  BY <2>1, <1>9
<1>. QED  BY <1>11, <1>12, <1>13, <1>14, <1>15 DEF OrderInv

\* Streams that lose frames at their ends keep the order of the rest.
LEMMA ShrinkingKeepsOrder ==
  ASSUME OrderInv, PipesShrink, UNCHANGED log
  PROVE  PipeWasSent' /\ PipeInOrder'
<1>1. ASSUME NEW a \in Parties, NEW b \in Parties
      PROVE  \E m \in {0, 1} : \A i \in 1 .. Len(pipe'[b][a]) :
               i + m \in 1 .. Len(pipe[b][a]) /\ pipe'[b][a][i] = pipe[b][a][i + m]
  BY DEF PipesShrink, Segment
<1>2. PipeWasSent'
  BY <1>1 DEF OrderInv, PipeWasSent
<1>3. PipeInOrder'
  <2>. SUFFICES ASSUME NEW a \in Parties, NEW b \in Parties, NEW i \in 1 .. Len(pipe'[b][a]),
                      NEW j \in 1 .. Len(pipe'[b][a]), i < j
               PROVE  Place(log[b], a, pipe'[b][a][i]) < Place(log[b], a, pipe'[b][a][j])
    BY DEF PipeInOrder
  <2>1. PICK m \in {0, 1} : \A x \in 1 .. Len(pipe'[b][a]) :
          x + m \in 1 .. Len(pipe[b][a]) /\ pipe'[b][a][x] = pipe[b][a][x + m]
    BY <1>1
  <2>2. i + m < j + m
    BY <2>1
  <2>. QED  BY <2>1, <2>2 DEF OrderInv, PipeInOrder
<1>. QED  BY <1>2, <1>3

\* The frame that is given to the caller was the first of its stream.
LEMMA DeliveryKeepsOrder ==
  ASSUME TypeOK, OrderInv, NEW p \in Parties, NEW q \in Parties, Delivers(p, q)
  PROVE  OrderInv'
<1> DEFINE h == pipe[q][p][1]
           n == Len(delivered[p])
           d == [from |-> q, asked |-> Head(pipe[q][p]).route, frame |-> Head(pipe[q][p])]
<1>1. /\ pipe[q][p] # <<>> /\ Consume(p, q) /\ UNCHANGED log
      /\ delivered' = [delivered EXCEPT ![p] = Append(@, d)]
  BY DEF Delivers, RecvCounted, Readable
<1>2. /\ Len(pipe'[q][p]) = Len(pipe[q][p]) - 1
      /\ \A i \in 1 .. Len(pipe'[q][p]) : pipe'[q][p][i] = pipe[q][p][i + 1]
      /\ \A a, b \in Parties : <<a, b>> # <<q, p>> => pipe'[a][b] = pipe[a][b]
      /\ PipesShrink
  BY <1>1, ConsumeShrinks
<1>3. /\ Len(pipe[q][p]) \in Nat /\ 1 \in 1 .. Len(pipe[q][p])
      /\ Head(pipe[q][p]) = h /\ d \in Received
  <2>1. pipe[q][p] \in Seq(Frames)
    BY DEF TypeOK
  <2>2. d \in Received
    BY <1>1, HeadIsFrame DEF Received, Frames
  <2>. QED  BY <1>1, <2>1, <2>2
<1>4. d.from = q /\ d.frame = h
  BY <1>3
<1> HIDE DEF d
<1>5. delivered[p] \in Seq(Received) /\ n \in Nat
  <2>1. delivered[p] \in Seq(Received)
    BY DEF TypeOK, Received
  <2>. QED  BY <2>1, LenProperties
<1>6. /\ Len(delivered'[p]) = n + 1
      /\ delivered'[p][n + 1] = d
      /\ \A i \in 1 .. n : delivered'[p][i] = delivered[p][i]
      /\ \A a \in Parties : a # p => delivered'[a] = delivered[a]
  BY <1>1, <1>3, <1>5, AppendProperties DEF TypeOK
<1> DEFINE Old(a, i) == i \in 1 .. Len(delivered[a]) /\ delivered'[a][i] = delivered[a][i]
           New(a, i) == a = p /\ i = n + 1 /\ delivered'[a][i] = d
<1>7. ASSUME NEW a \in Parties, NEW i \in 1 .. Len(delivered'[a])
      PROVE  Old(a, i) \/ New(a, i)
  <2>1. CASE a = p
    <3>1. i \in 1 .. n \/ i = n + 1
      BY <2>1, <1>5, <1>6
    <3>. QED  BY <2>1, <3>1, <1>6
  <2>2. CASE a # p
    BY <2>2, <1>6
  <2>. QED  BY <2>1, <2>2
<1>8. /\ Place(log[q], p, h) # 0
      /\ \A i \in 1 .. Len(pipe'[q][p]) : Place(log[q], p, h) < Place(log[q], p, pipe'[q][p][i])
      /\ \A i \in 1 .. n : delivered[p][i].from = q =>
           Place(log[q], p, delivered[p][i].frame) < Place(log[q], p, h)
  <2>1. ASSUME NEW i \in 1 .. Len(pipe'[q][p])
        PROVE  Place(log[q], p, h) < Place(log[q], p, pipe'[q][p][i])
    <3>1. i + 1 \in 1 .. Len(pipe[q][p]) /\ 1 < i + 1
      BY <1>2, <1>3
    <3>2. pipe'[q][p][i] = pipe[q][p][i + 1]
      BY <1>2
    <3>. QED  BY <1>3, <3>1, <3>2 DEF OrderInv, PipeInOrder
  <2>. QED  BY <2>1, <1>3 DEF OrderInv, PipeWasSent, PipeIsLater
<1> HIDE DEF h
<1>9. PipeWasSent' /\ PipeInOrder'
  BY <1>1, <1>2, ShrinkingKeepsOrder
<1>10. PipeIsLater'
  <2>. SUFFICES ASSUME NEW a \in Parties, NEW b \in Parties, NEW i \in 1 .. Len(delivered'[a]),
                      NEW j \in 1 .. Len(pipe'[b][a]), delivered'[a][i].from = b
               PROVE  Place(log[b], a, delivered'[a][i].frame) < Place(log[b], a, pipe'[b][a][j])
    BY <1>1 DEF PipeIsLater
  <2>1. PICK m \in {0, 1} : \A x \in 1 .. Len(pipe'[b][a]) :
          x + m \in 1 .. Len(pipe[b][a]) /\ pipe'[b][a][x] = pipe[b][a][x + m]
    BY <1>2 DEF PipesShrink, Segment
  <2>2. j + m \in 1 .. Len(pipe[b][a]) /\ pipe'[b][a][j] = pipe[b][a][j + m]
    BY <2>1
  <2>3. CASE Old(a, i)
    BY <2>2, <2>3 DEF OrderInv, PipeIsLater
  <2>4. CASE New(a, i)
    BY <2>4, <1>4, <1>8
  <2>. QED  BY <2>3, <2>4, <1>7
<1>11. GivenWasSent'
  <2>. SUFFICES ASSUME NEW a \in Parties, NEW i \in 1 .. Len(delivered'[a])
               PROVE  Place(log[delivered'[a][i].from], a, delivered'[a][i].frame) # 0
    BY <1>1 DEF GivenWasSent
  <2>1. CASE Old(a, i)
    BY <2>1 DEF OrderInv, GivenWasSent
  <2>2. CASE New(a, i)
    BY <2>2, <1>4, <1>8
  <2>. QED  BY <2>1, <2>2, <1>7
<1>12. GivenInOrder'
  <2>. SUFFICES ASSUME NEW a \in Parties, NEW i \in 1 .. Len(delivered'[a]),
                      NEW j \in 1 .. Len(delivered'[a]), i < j,
                      delivered'[a][i].from = delivered'[a][j].from
               PROVE  Place(log[delivered'[a][i].from], a, delivered'[a][i].frame) <
                        Place(log[delivered'[a][j].from], a, delivered'[a][j].frame)
    BY <1>1 DEF GivenInOrder
  <2>1. CASE Old(a, i) /\ Old(a, j)
    BY <2>1 DEF OrderInv, GivenInOrder
  <2>2. CASE Old(a, i) /\ New(a, j)
    BY <2>2, <1>4, <1>8
  <2>3. CASE New(a, i)
    <3>1. j \in 1 .. n \/ j = n + 1
      BY <2>3, <1>7
    <3>. QED  BY <2>3, <3>1, <1>5
  <2>. QED  BY <2>1, <2>2, <2>3, <1>7
<1>. QED  BY <1>9, <1>10, <1>11, <1>12 DEF OrderInv

LEMMA OrderInvStep == TypeOK /\ TypeOK' /\ RouteNeverReused' /\ OrderInv /\ [Next]_vars => OrderInv'
<1> SUFFICES ASSUME TypeOK, TypeOK', RouteNeverReused', OrderInv, [Next]_vars PROVE OrderInv'
  OBVIOUS
<1>1. ASSUME PipesShrink, UNCHANGED <<log, delivered>> PROVE OrderInv'
  <2>1. PipeWasSent' /\ PipeInOrder'
    BY <1>1, ShrinkingKeepsOrder
  <2>2. PipeIsLater'
    <3>. SUFFICES ASSUME NEW a \in Parties, NEW b \in Parties, NEW i \in 1 .. Len(delivered[a]),
                        NEW j \in 1 .. Len(pipe'[b][a]), delivered[a][i].from = b
                 PROVE  Place(log[b], a, delivered[a][i].frame) < Place(log[b], a, pipe'[b][a][j])
      BY <1>1 DEF PipeIsLater
    <3>1. PICK m \in {0, 1} : \A x \in 1 .. Len(pipe'[b][a]) :
            x + m \in 1 .. Len(pipe[b][a]) /\ pipe'[b][a][x] = pipe[b][a][x + m]
      BY <1>1 DEF PipesShrink, Segment
    <3>. QED  BY <3>1 DEF OrderInv, PipeIsLater
  <2>3. GivenWasSent' /\ GivenInOrder'
    BY <1>1 DEF OrderInv, GivenWasSent, GivenInOrder
  <2>. QED  BY <2>1, <2>2, <2>3 DEF OrderInv
<1>. QED  BY <1>1, StepKinds, SendKeepsOrder, DeliveryKeepsOrder

LEMMA OrderInvariant == Spec => []OrderInv
<1>1. Init => OrderInv
  BY DEF Init, OrderInv, PipeWasSent, PipeInOrder, PipeIsLater, GivenWasSent, GivenInOrder
<1>. QED  BY <1>1, OrderInvStep, TypeCorrect, RoutesUnique, PTL DEF Spec

\* What a receive returns was sent to its caller by that peer, is returned at
\* most once, and in the order of the sends.
THEOREM DeliveriesInOrder == Spec => []DeliveredInSendOrder
<1>1. TypeOK /\ OrderInv => DeliveredInSendOrder
  <2>. SUFFICES ASSUME TypeOK, OrderInv, NEW p \in Parties, NEW j \in 1 .. Len(delivered[p])
               PROVE  LET d == delivered[p][j]
                      IN  /\ SentAt(d.from, p, d.frame) # 0
                          /\ \A i \in 1 .. j - 1 :
                               delivered[p][i].from = d.from =>
                                 SentAt(d.from, p, delivered[p][i].frame) < SentAt(d.from, p, d.frame)
    BY DEF DeliveredInSendOrder
  <2>1. \A a, b, g : SentAt(a, b, g) = Place(log[a], b, g)
    BY DEF SentAt, Place
  <2>2. Len(delivered[p]) \in Nat
    BY DEF TypeOK
  <2>3. \A i \in 1 .. j - 1 : i \in 1 .. Len(delivered[p]) /\ i < j
    BY <2>2
  <2>. QED  BY <2>1, <2>3 DEF OrderInv, GivenWasSent, GivenInOrder
<1>. QED  BY <1>1, OrderInvariant, TypeCorrect, PTL

\* A receive that names a route accepts one frame for it at most.
THEOREM ExpectedAtMostOnce == Spec => []ExpectedOnce
<1> DEFINE AskedIsRoute ==
      \A p \in Parties : \A i \in 1 .. Len(delivered[p]) :
        delivered[p][i].frame.route = delivered[p][i].asked
<1>1. Init => AskedIsRoute
  BY DEF Init
<1>2. TypeOK /\ AskedIsRoute /\ [Next]_vars => AskedIsRoute'
  <2> SUFFICES ASSUME TypeOK, AskedIsRoute, [Next]_vars PROVE AskedIsRoute'
    OBVIOUS
  <2>1. ASSUME NEW p \in Parties, NEW q \in Parties, Delivers(p, q) PROVE AskedIsRoute'
    <3> DEFINE d == [from |-> q, asked |-> Head(pipe[q][p]).route, frame |-> Head(pipe[q][p])]
    <3>1. d.frame.route = d.asked
      OBVIOUS
    <3>2. d \in Received
      BY <2>1, RecvCountedType DEF Delivers, Received, Frames
    <3>3. delivered[p] \in Seq(Received) /\ delivered' = [delivered EXCEPT ![p] = Append(@, d)]
      BY <2>1 DEF Delivers, TypeOK, Received
    <3> HIDE DEF d
    <3>4. /\ Len(delivered'[p]) = Len(delivered[p]) + 1
          /\ delivered'[p][Len(delivered[p]) + 1] = d
          /\ \A i \in 1 .. Len(delivered[p]) : delivered'[p][i] = delivered[p][i]
          /\ \A a \in Parties : a # p => delivered'[a] = delivered[a]
      BY <3>2, <3>3, AppendProperties DEF TypeOK
    <3>5. \A j \in 1 .. Len(delivered'[p]) : j \in 1 .. Len(delivered[p]) \/ j = Len(delivered[p]) + 1
      BY <3>3, <3>4, LenProperties
    <3>. QED  BY <3>1, <3>4, <3>5
  <2>2. CASE UNCHANGED delivered
    BY <2>2
  <2>3. UNCHANGED delivered \/ \E p, q \in Parties : Delivers(p, q)
    BY StepKinds DEF Send
  <2>. QED  BY <2>1, <2>2, <2>3
<1>3. TypeOK /\ RouteNeverReused /\ OrderInv /\ AskedIsRoute => ExpectedOnce
  <2>. SUFFICES ASSUME TypeOK, RouteNeverReused, OrderInv, AskedIsRoute,
                      NEW p \in Parties, NEW i \in 1 .. Len(delivered[p]),
                      NEW j \in 1 .. Len(delivered[p]),
                      delivered[p][i].from = delivered[p][j].from,
                      delivered[p][i].asked = delivered[p][j].asked
               PROVE  i = j
    BY DEF ExpectedOnce
  <2> DEFINE q == delivered[p][i].from
             At(x) == Place(log[q], p, delivered[p][x].frame)
  <2>1. q \in Parties
    BY DeliveredType DEF Received
  <2>2. log[q] \in Seq(Sent) /\ Len(log[q]) \in Nat
    <3>1. log[q] \in Seq(Sent)
      BY <2>1 DEF TypeOK, Sent
    <3>. QED  BY <3>1, LenProperties
  <2>3. \A x \in {i, j} :
          /\ At(x) \in 1 .. Len(log[q])
          /\ log[q][At(x)].frame.route = delivered[p][i].asked
    <3>1. ASSUME NEW x \in {i, j}
          PROVE  At(x) \in 1 .. Len(log[q]) /\ log[q][At(x)] = [to |-> p, frame |-> delivered[p][x].frame]
      <4>1. At(x) # 0
        BY DEF OrderInv, GivenWasSent
      <4>. QED  BY <2>2, <4>1, PlaceType
    <3>2. ASSUME NEW x \in {i, j} PROVE log[q][At(x)].frame.route = delivered[p][i].asked
      <4>1. log[q][At(x)].frame = delivered[p][x].frame
        BY <3>1
      <4>2. x \in 1 .. Len(delivered[p]) /\ delivered[p][x].asked = delivered[p][i].asked
        OBVIOUS
      <4>3. delivered[p][x].frame.route = delivered[p][x].asked
        BY <4>2
      <4> HIDE DEF At, q, AskedIsRoute
      <4>. QED  BY <4>1, <4>2, <4>3
    <3> HIDE DEF At, q, AskedIsRoute
    <3>. QED  BY <3>1, <3>2
  <2>4. At(i) = At(j)
    <3>1. \A x, y \in 1 .. Len(log[q]) :
            log[q][x].frame.route = log[q][y].frame.route => x = y
      BY <2>1 DEF RouteNeverReused
    <3>2. /\ At(i) \in 1 .. Len(log[q]) /\ At(j) \in 1 .. Len(log[q])
          /\ log[q][At(i)].frame.route = log[q][At(j)].frame.route
      BY <2>3
    <3> HIDE DEF At, q
    <3>. QED  BY <3>1, <3>2
  <2>5. ~(i < j) /\ ~(j < i)
    <3>1. At(i) \in Nat /\ ~(At(i) < At(j)) /\ ~(At(j) < At(i))
      BY <2>2, <2>3, <2>4
    <3>. QED  BY <3>1 DEF OrderInv, GivenInOrder
  <2>6. Len(delivered[p]) \in Nat
    BY DEF TypeOK
  <2>. QED  BY <2>5, <2>6
<1> HIDE DEF AskedIsRoute
<1>. QED  BY <1>1, <1>2, <1>3, OrderInvariant, TypeCorrect, RoutesUnique, PTL DEF Spec
-----------------------------------------------------------------------------
LEMMA LeastNumber ==
  ASSUME NEW T, T \subseteq Nat, T # {}
  PROVE  \E m \in T : \A n \in T : ~(n < m)
<1>1. PICK m \in T : \A n \in T : ~(<<n, m>> \in OpToRel(<, Nat))
  BY NatLessThanWellFounded, WFMin
<1>. QED  BY <1>1 DEF OpToRel

\* Induction on numbers, for the set of those that have the property.
LEMMA Induction ==
  ASSUME NEW S, 0 \in S, \A n \in Nat : n \in S => n + 1 \in S
  PROVE  \A n \in Nat : n \in S
<1>1. SUFFICES ASSUME NEW T, T = Nat \ S, T # {} PROVE FALSE
  OBVIOUS
<1>2. PICK m \in T : \A n \in T : ~(n < m)
  BY <1>1, LeastNumber
<1>3. m \in Nat /\ m # 0 /\ m - 1 \in Nat /\ m - 1 < m /\ (m - 1) + 1 = m
  BY <1>1, <1>2
<1>4. m - 1 \in S
  BY <1>1, <1>2, <1>3
<1>. QED  BY <1>1, <1>2, <1>3, <1>4

\* The bytes of one frame, and the sums of those of the first K frames.
Size(f) == HeaderSize + PayloadLen[f.payload]
Sums(s, f, K) ==
  f = [j \in 0 .. K |-> IF j = 0 THEN 0 ELSE f[j - 1] + HeaderSize + PayloadLen[s[j].payload]]

LEMMA SumsExist ==
  ASSUME NEW s, NEW K \in Nat
  PROVE  \E f : Sums(s, f, K)
<1> DEFINE S == {n \in Nat : \E f : Sums(s, f, n)}
<1>1. 0 \in S
  <2> DEFINE f == [j \in 0 .. 0 |-> 0]
  <2>1. f = [j \in 0 .. 0 |-> IF j = 0 THEN 0 ELSE f[j - 1] + HeaderSize + PayloadLen[s[j].payload]]
    OBVIOUS
  <2>. QED  BY <2>1 DEF Sums
<1>2. ASSUME NEW n \in Nat, n \in S PROVE n + 1 \in S
  <2>1. PICK f : Sums(s, f, n)
    BY <1>2
  <2> DEFINE g == [j \in 0 .. n + 1 |->
                     IF j = n + 1 THEN f[n] + HeaderSize + PayloadLen[s[n + 1].payload] ELSE f[j]]
  <2>2. \A j \in 0 .. n : f[j] = IF j = 0 THEN 0 ELSE f[j - 1] + HeaderSize + PayloadLen[s[j].payload]
    BY <2>1 DEF Sums
  <2>3. \A j \in 0 .. n + 1 :
          g[j] = IF j = 0 THEN 0 ELSE g[j - 1] + HeaderSize + PayloadLen[s[j].payload]
    <3>1. TAKE j \in 0 .. n + 1
    <3>2. CASE j = n + 1
      BY <3>2
    <3>3. CASE j # n + 1
      <4>1. j \in 0 .. n /\ (j # 0 => j - 1 \in 0 .. n)
        BY <3>3
      <4>2. g[j] = f[j] /\ (j # 0 => g[j - 1] = f[j - 1])
        BY <4>1
      <4>. QED  BY <2>2, <4>1, <4>2
    <3>. QED  BY <3>2, <3>3
  <2>4. g = [j \in 0 .. n + 1 |->
               IF j = 0 THEN 0 ELSE g[j - 1] + HeaderSize + PayloadLen[s[j].payload]]
    BY <2>3
  <2>5. Sums(s, g, n + 1)
    BY <2>4 DEF Sums
  <2> HIDE DEF g
  <2>. QED  BY <2>5
<1>3. \A n \in Nat : n \in S
  <2> HIDE DEF S
  <2>. QED  BY <1>1, <1>2, Induction
<1>. QED  BY <1>3

LEMMA SizeType == ASSUME NEW f \in Frames PROVE Size(f) \in Nat
<1>1. f.payload \in Payloads
  BY DEF Frames
<1>. QED  BY <1>1, RuntimeConstants DEF Size

LEMMA WireSumsStep ==
  ASSUME NEW s \in Seq(Frames)
  PROVE  /\ WireSums(s)[0] = 0
         /\ \A j \in 1 .. Len(s) : WireSums(s)[j] = WireSums(s)[j - 1] + Size(s[j])
         /\ \A j \in 0 .. Len(s) : WireSums(s)[j] \in Nat
<1>1. Len(s) \in Nat /\ \A j \in 1 .. Len(s) : s[j] \in Frames
  OBVIOUS
<1> DEFINE f == WireSums(s)
<1>2. f = CHOOSE g : Sums(s, g, Len(s))
  BY DEF WireSums, Sums
<1>3. Sums(s, f, Len(s))
  BY <1>1, <1>2, SumsExist
<1> HIDE DEF f
<1>4. \A j \in 0 .. Len(s) :
        f[j] = IF j = 0 THEN 0 ELSE f[j - 1] + HeaderSize + PayloadLen[s[j].payload]
  BY <1>3 DEF Sums
<1>5. f[0] = 0
  BY <1>1, <1>4
<1> DEFINE S == {n \in Nat : n <= Len(s) => f[n] \in Nat}
<1>6. 0 \in S
  BY <1>5
<1>7. \A j \in 1 .. Len(s) : PayloadLen[s[j].payload] \in Nat /\ HeaderSize \in Nat
  BY <1>1, RuntimeConstants DEF Frames
<1>8. ASSUME NEW n \in Nat, n \in S PROVE n + 1 \in S
  <2>1. CASE n + 1 <= Len(s)
    <3>1. n + 1 \in 0 .. Len(s) /\ n + 1 \in 1 .. Len(s) /\ n + 1 # 0 /\ (n + 1) - 1 = n /\ f[n] \in Nat
      BY <1>1, <1>8, <2>1
    <3>2. f[n + 1] = f[n] + HeaderSize + PayloadLen[s[n + 1].payload]
      BY <1>4, <3>1
    <3>. QED  BY <1>7, <3>1, <3>2
  <2>2. CASE ~(n + 1 <= Len(s))
    BY <2>2
  <2>. QED  BY <2>1, <2>2
<1>9. \A n \in Nat : n \in S
  <2> HIDE DEF S
  <2>. QED  BY <1>6, <1>8, Induction
<1>10. \A j \in 0 .. Len(s) : f[j] \in Nat
  BY <1>1, <1>9
<1>11. ASSUME NEW j \in 1 .. Len(s) PROVE f[j] = f[j - 1] + Size(s[j])
  <2>1. j \in 0 .. Len(s) /\ j # 0 /\ j - 1 \in 0 .. Len(s)
    BY <1>1
  <2>2. f[j] = f[j - 1] + HeaderSize + PayloadLen[s[j].payload]
    BY <1>4, <2>1
  <2>3. f[j - 1] \in Nat
    BY <1>10, <2>1
  <2>. QED  BY <1>7, <2>2, <2>3 DEF Size
<1>. QED  BY <1>5, <1>10, <1>11 DEF f

\* Two sequences with the same frames from some place on take the same bytes there.
LEMMA SumsShift ==
  ASSUME NEW s \in Seq(Frames), NEW t \in Seq(Frames), NEW m \in Nat, NEW l \in Nat,
         l <= Len(t), m + l <= Len(s), \A i \in 1 .. l : t[i] = s[i + m]
  PROVE  WireSums(s)[m + l] = WireSums(s)[m] + WireSums(t)[l]
<1> DEFINE f == WireSums(s)
           g == WireSums(t)
           S == {n \in Nat : n <= l => f[m + n] = f[m] + g[n]}
<1>1. Len(s) \in Nat /\ Len(t) \in Nat
  OBVIOUS
<1>2. /\ g[0] = 0
      /\ \A j \in 1 .. Len(t) : g[j] = g[j - 1] + Size(t[j])
      /\ \A j \in 0 .. Len(t) : g[j] \in Nat
      /\ \A j \in 1 .. Len(s) : f[j] = f[j - 1] + Size(s[j])
      /\ \A j \in 0 .. Len(s) : f[j] \in Nat
  BY WireSumsStep
<1> HIDE DEF f, g
<1>3. m \in 0 .. Len(s) /\ m + 0 = m
  BY <1>1
<1>4. 0 \in S
  BY <1>2, <1>3
<1>5. ASSUME NEW n \in Nat, n \in S PROVE n + 1 \in S
  <2>1. SUFFICES ASSUME n + 1 <= l PROVE f[m + (n + 1)] = f[m] + g[n + 1]
    OBVIOUS
  <2>2. /\ n + 1 \in 1 .. l /\ n + 1 \in 1 .. Len(t) /\ n \in 0 .. Len(t)
        /\ m + (n + 1) \in 1 .. Len(s) /\ (m + (n + 1)) - 1 = m + n /\ (n + 1) - 1 = n
        /\ m + n \in 0 .. Len(s) /\ (n + 1) + m = m + (n + 1)
    BY <1>1, <2>1
  <2>3. f[m + n] = f[m] + g[n]
    BY <1>5, <2>1
  <2>4. t[n + 1] = s[m + (n + 1)]
    BY <2>2
  <2>5. f[m + (n + 1)] = f[m + n] + Size(s[m + (n + 1)])
    BY <1>2, <2>2
  <2>6. g[n + 1] = g[n] + Size(t[n + 1])
    BY <1>2, <2>2
  <2>7. Size(t[n + 1]) \in Nat /\ g[n] \in Nat /\ f[m] \in Nat /\ f[m + n] \in Nat
    <3>1. t[n + 1] \in Frames
      BY <2>2
    <3>. QED  BY <1>2, <1>3, <2>2, <3>1, SizeType
  <2>. QED  BY <2>3, <2>4, <2>5, <2>6, <2>7
<1>6. \A n \in Nat : n \in S
  <2> HIDE DEF S
  <2>. QED  BY <1>4, <1>5, Induction
<1>. QED  BY <1>6 DEF f, g

LEMMA BytesType == ASSUME NEW s \in Seq(Frames) PROVE WireBytes(s) \in Nat
<1>1. Len(s) \in 0 .. Len(s)
  OBVIOUS
<1>. QED  BY <1>1, WireSumsStep DEF WireBytes

LEMMA BytesOfNone == WireBytes(<<>>) = 0
<1>1. <<>> \in Seq(Frames) /\ Len(<<>>) = 0
  OBVIOUS
<1>. QED  BY <1>1, WireSumsStep DEF WireBytes

LEMMA BytesAppend ==
  ASSUME NEW s \in Seq(Frames), NEW f \in Frames
  PROVE  WireBytes(Append(s, f)) = WireBytes(s) + Size(f)
<1> DEFINE n == Len(s)
           t == Append(s, f)
<1>1. /\ n \in Nat /\ t \in Seq(Frames) /\ Len(t) = n + 1 /\ t[n + 1] = f
      /\ \A i \in 1 .. n : t[i] = s[i]
  BY AppendProperties
<1> HIDE DEF n, t
<1>2. n = Len(s)
  BY DEF n
<1>3. WireSums(t)[n + 1] = WireSums(t)[n] + Size(f)
  <2>1. n + 1 \in 1 .. Len(t) /\ (n + 1) - 1 = n
    BY <1>1
  <2>2. WireSums(t)[n + 1] = WireSums(t)[(n + 1) - 1] + Size(t[n + 1])
    BY <1>1, <2>1, WireSumsStep
  <2>. QED  BY <1>1, <2>1, <2>2
<1>4. WireSums(t)[n] = WireSums(s)[n]
  <2>1. /\ 0 \in Nat /\ n <= Len(s) /\ 0 + n <= Len(t) /\ 0 + n = n
        /\ \A i \in 1 .. n : s[i] = t[i + 0]
    BY <1>1, <1>2
  <2>2. WireSums(t)[0 + n] = WireSums(t)[0] + WireSums(s)[n]
    BY <1>1, <2>1, SumsShift
  <2>3. WireSums(t)[0] = 0 /\ WireSums(s)[n] \in Nat
    <3>1. n \in 0 .. Len(s)
      BY <1>1, <1>2
    <3>. QED  BY <1>1, <3>1, WireSumsStep
  <2>. QED  BY <2>1, <2>2, <2>3
<1>. QED  BY <1>1, <1>2, <1>3, <1>4 DEF WireBytes, t

LEMMA BytesTail ==
  ASSUME NEW s \in Seq(Frames), s # <<>>
  PROVE  WireBytes(s) = Size(Head(s)) + WireBytes(Tail(s))
<1> DEFINE t == Tail(s)
           n == Len(t)
<1>1. /\ n \in Nat /\ t \in Seq(Frames) /\ Len(s) = 1 + n /\ 1 \in 1 .. Len(s)
      /\ Head(s) = s[1] /\ \A i \in 1 .. n : t[i] = s[i + 1]
  BY HeadTailProperties
<1> HIDE DEF t
<1>2. n <= Len(t) /\ 1 + n <= Len(s) /\ 1 \in Nat
  BY <1>1
<1>3. WireSums(s)[1 + n] = WireSums(s)[1] + WireSums(t)[n]
  BY <1>1, <1>2, SumsShift
<1>4. WireSums(s)[1] = Size(Head(s))
  <2>1. WireSums(s)[0] = 0 /\ WireSums(s)[1] = WireSums(s)[1 - 1] + Size(s[1]) /\ 1 - 1 = 0
    BY <1>1, WireSumsStep
  <2>2. s[1] \in Frames
    BY <1>1
  <2>3. Size(s[1]) \in Nat
    BY <2>2, SizeType
  <2>. QED  BY <1>1, <2>1, <2>3
<1>. QED  BY <1>1, <1>3, <1>4 DEF WireBytes, t

LEMMA BytesWithoutLast ==
  ASSUME NEW s \in Seq(Frames), s # <<>>
  PROVE  WireBytes(SubSeq(s, 1, Len(s) - 1)) <= WireBytes(s)
<1> DEFINE t == SubSeq(s, 1, Len(s) - 1)
           n == Len(t)
<1>1. Len(s) \in Nat /\ Len(s) # 0 /\ \A i \in 1 .. Len(s) : s[i] \in Frames
  BY EmptySeq
<1>2. \A i \in 1 .. Len(s) - 1 : s[i] \in Frames
  BY <1>1
<1>3. Len(s) > 0
  BY <1>1
<1>4. /\ t \in Seq(Frames) /\ Len(t) = IF 1 <= Len(s) - 1 THEN (Len(s) - 1) - 1 + 1 ELSE 0
      /\ \A i \in 1 .. (Len(s) - 1) - 1 + 1 : t[i] = s[1 + i - 1]
  <2>1. 1 \in Int /\ Len(s) - 1 \in Int
    BY <1>1
  <2>. QED  BY <1>2, <2>1, SubSeqProperties
<1>5. t \in Seq(Frames)
  BY <1>4
<1> HIDE DEF t
<1>6. n \in Nat /\ Len(s) = n + 1
  <2>1. Len(t) = IF 1 <= Len(s) - 1 THEN (Len(s) - 1) - 1 + 1 ELSE 0
    BY <1>4
  <2>2. Len(s) \in Nat /\ Len(s) # 0
    BY <1>1
  <2>3. \A k \in Nat : k # 0 => k - 1 = IF 1 <= k - 1 THEN (k - 1) - 1 + 1 ELSE 0
    OBVIOUS
  <2>4. Len(t) = Len(s) - 1
    BY <2>1, <2>2, <2>3, Zenon
  <2>. QED  BY <2>2, <2>4
<1>7. \A i \in 1 .. n : t[i] = s[i]
  <2>1. ASSUME NEW i \in 1 .. n PROVE t[i] = s[i]
    <3>1. i \in 1 .. (Len(s) - 1) - 1 + 1 /\ 1 + i - 1 = i
      BY <1>6
    <3>. QED  BY <1>4, <3>1
  <2>. QED  BY <2>1
<1>8. /\ 0 \in Nat /\ n \in Nat /\ n <= Len(t) /\ 0 + n <= Len(s) /\ 0 + n = n
      /\ \A i \in 1 .. n : t[i] = s[i + 0]
  <2>1. n <= Len(t)
    BY <1>6
  <2>. QED  BY <1>6, <1>7, <2>1
<1>9. WireSums(s)[0 + n] = WireSums(s)[0] + WireSums(t)[n]
  BY <1>5, <1>8, SumsShift
<1>10. /\ WireSums(s)[0] = 0 /\ WireSums(s)[n + 1] = WireSums(s)[n] + Size(s[n + 1])
      /\ WireSums(t)[n] \in Nat /\ WireSums(s)[n] \in Nat
  <2>1. n + 1 \in 1 .. Len(s) /\ (n + 1) - 1 = n /\ n \in 0 .. Len(s) /\ n \in 0 .. Len(t)
    BY <1>6
  <2>. QED  BY <1>5, <2>1, WireSumsStep
<1>11. Size(s[n + 1]) \in Nat
  <2>1. s[n + 1] \in Frames
    BY <1>1, <1>6
  <2>. QED  BY <2>1, SizeType
<1>. QED  BY <1>6, <1>8, <1>9, <1>10, <1>11 DEF WireBytes, t
-----------------------------------------------------------------------------
\* What a sender has counted, its receiver has counted, is in flight, or is lost.
\* That nothing is lost between parties with one parameter set takes that every
\* frame on a stream has the wire identity of its sender.
FramesOfSender ==
  \A p, q \in Parties : \A i \in 1 .. Len(pipe[p][q]) : pipe[p][q][i].wire = WireOf[p]

\* StatsAgree of one stream, as of its two counters and what is in flight.
PairAgrees(sent, received, frames, bytes, equal) ==
  /\ received.framesReceived + frames <= sent.framesSent
  /\ received.bytesReceived + bytes <= sent.bytesSent
  /\ equal =>
       /\ received.framesReceived + frames = sent.framesSent
       /\ received.bytesReceived + bytes = sent.bytesSent

LEMMA AgreesByPairs ==
  StatsAgree <=>
    \A p, q \in Parties :
      PairAgrees(stats[p][q], stats[q][p], Len(pipe[p][q]), WireBytes(pipe[p][q]),
                 WireOf[p] = WireOf[q] /\ {p, q} \cap closed = {})
BY DEF StatsAgree, PairAgrees

LEMMA SentOne ==
  ASSUME NEW s \in Stats, NEW r \in Stats, NEW f \in Nat, NEW b \in Nat, NEW e \in BOOLEAN,
         NEW v \in Payloads, NEW size \in Nat, size = HeaderSize + PayloadLen[v],
         PairAgrees(s, r, f, b, e)
  PROVE  /\ PairAgrees(RecordSent(s, v), r, f + 1, b + size, e)
         /\ PairAgrees(RecordSent(s, v), r, f, b, FALSE)
<1>1. /\ s.framesSent \in Nat /\ s.bytesSent \in Nat /\ r.framesReceived \in Nat /\ r.bytesReceived \in Nat
      /\ HeaderSize \in Nat /\ PayloadLen[v] \in Nat
  BY RuntimeConstants DEF Stats
<1>2. /\ RecordSent(s, v).framesSent = s.framesSent + 1
      /\ RecordSent(s, v).bytesSent = s.bytesSent + HeaderSize + PayloadLen[v]
  BY DEF RecordSent, Stats
<1>. QED  BY <1>1, <1>2 DEF PairAgrees

LEMMA ReceivedOne ==
  ASSUME NEW s \in Stats, NEW r \in Stats, NEW f \in Nat, NEW b \in Nat, NEW e \in BOOLEAN,
         NEW v \in Payloads, NEW size \in Nat, size = HeaderSize + PayloadLen[v],
         PairAgrees(s, r, f + 1, size + b, e)
  PROVE  PairAgrees(s, RecordReceived(r, v), f, b, e)
<1>1. /\ s.framesSent \in Nat /\ s.bytesSent \in Nat /\ r.framesReceived \in Nat /\ r.bytesReceived \in Nat
      /\ HeaderSize \in Nat /\ PayloadLen[v] \in Nat
  BY RuntimeConstants DEF Stats
<1>2. /\ RecordReceived(r, v).framesReceived = r.framesReceived + 1
      /\ RecordReceived(r, v).bytesReceived = r.bytesReceived + HeaderSize + PayloadLen[v]
  BY DEF RecordReceived, Stats
<1>3. /\ r.framesReceived + (f + 1) <= s.framesSent /\ r.bytesReceived + (size + b) <= s.bytesSent
      /\ e => /\ r.framesReceived + (f + 1) = s.framesSent
              /\ r.bytesReceived + (size + b) = s.bytesSent
  BY DEF PairAgrees
<1>4. /\ (r.framesReceived + 1) + f = r.framesReceived + (f + 1)
      /\ (r.bytesReceived + HeaderSize + PayloadLen[v]) + b = r.bytesReceived + (size + b)
  BY <1>1
<1>. QED  BY <1>2, <1>3, <1>4, Zenon DEF PairAgrees

LEMMA FewerInFlight ==
  ASSUME NEW s \in Stats, NEW r \in Stats, NEW f \in Nat, NEW b \in Nat, NEW e \in BOOLEAN,
         NEW g \in Nat, NEW c \in Nat, g <= f, c <= b, PairAgrees(s, r, f, b, e)
  PROVE  PairAgrees(s, r, g, c, FALSE)
<1>1. /\ s.framesSent \in Nat /\ s.bytesSent \in Nat /\ r.framesReceived \in Nat /\ r.bytesReceived \in Nat
  BY DEF Stats
<1>. QED  BY <1>1 DEF PairAgrees

LEMMA ShrinkingIsOfSender == ASSUME FramesOfSender, PipesShrink PROVE FramesOfSender'
<1>1. ASSUME NEW a \in Parties, NEW b \in Parties, NEW i \in 1 .. Len(pipe'[a][b])
      PROVE  pipe'[a][b][i].wire = WireOf[a]
  <2>1. PICK m \in {0, 1} : \A j \in 1 .. Len(pipe'[a][b]) :
          j + m \in 1 .. Len(pipe[a][b]) /\ pipe'[a][b][j] = pipe[a][b][j + m]
    BY DEF PipesShrink, Segment
  <2>2. i + m \in 1 .. Len(pipe[a][b]) /\ pipe'[a][b][i] = pipe[a][b][i + m]
    BY <2>1
  <2>3. pipe[a][b][i + m].wire = WireOf[a]
    BY <2>2, Zenon DEF FramesOfSender
  <2>. QED  BY <2>2, <2>3
<1>. QED  BY <1>1 DEF FramesOfSender

LEMMA SentIsOfSender ==
  ASSUME TypeOK, FramesOfSender, NEW p \in Parties, NEW q \in Parties, NEW t \in Tasks,
         NEW k \in Kinds, NEW v \in Payloads, Send(p, q, t, k, v)
  PROVE  FramesOfSender'
<1> DEFINE f == FramePayload(p, NextRoute(p, t, k), v)
<1>1. f \in Frames /\ f.wire = WireOf[p]
  BY NextRouteType DEF FramePayload
<1>2. pipe' = [pipe EXCEPT ![p][q] = IF q \in closed THEN @ ELSE Append(@, f)]
  BY DEF Send
<1> HIDE DEF f
<1>3. ASSUME NEW a \in Parties, NEW b \in Parties, NEW i \in 1 .. Len(pipe'[a][b])
      PROVE  pipe'[a][b][i].wire = WireOf[a]
  <2>1. CASE <<a, b>> = <<p, q>> /\ q \notin closed
    <3>1. pipe'[a][b] = Append(pipe[a][b], f) /\ pipe[a][b] \in Seq(Frames)
      BY <1>2, <2>1 DEF TypeOK
    <3>2. \/ i \in 1 .. Len(pipe[a][b]) /\ pipe'[a][b][i] = pipe[a][b][i]
          \/ pipe'[a][b][i] = f
      BY <1>1, <3>1, AppendProperties, LenProperties
    <3>. QED  BY <1>1, <2>1, <3>2 DEF FramesOfSender
  <2>2. CASE ~(<<a, b>> = <<p, q>> /\ q \notin closed)
    <3>1. pipe'[a][b] = pipe[a][b]
      BY <1>2, <2>2 DEF TypeOK
    <3>. QED  BY <3>1 DEF FramesOfSender
  <2>. QED  BY <2>1, <2>2
<1>. QED  BY <1>3 DEF FramesOfSender

\* The counters after a step, one by one.
LEMMA CountersAfterSend ==
  ASSUME NEW s \in Stats, NEW v \in Payloads
  PROVE  /\ RecordSent(s, v).framesReceived = s.framesReceived
         /\ RecordSent(s, v).bytesReceived = s.bytesReceived
         /\ RecordReceived(s, v).framesSent = s.framesSent
         /\ RecordReceived(s, v).bytesSent = s.bytesSent
BY DEF RecordSent, RecordReceived, Stats

LEMMA OnlyReceivedMatters ==
  ASSUME NEW s, NEW r, NEW r2, NEW f, NEW b, NEW e, PairAgrees(s, r, f, b, e),
         r2.framesReceived = r.framesReceived, r2.bytesReceived = r.bytesReceived
  PROVE  PairAgrees(s, r2, f, b, e)
BY DEF PairAgrees

LEMMA OnlySentMatters ==
  ASSUME NEW s, NEW s2, NEW r, NEW f, NEW b, NEW e, PairAgrees(s, r, f, b, e),
         s2.framesSent = s.framesSent, s2.bytesSent = s.bytesSent
  PROVE  PairAgrees(s2, r, f, b, e)
BY DEF PairAgrees

LEMMA SendKeepsAgreement ==
  ASSUME TypeOK, StatsAgree, NEW p \in Parties, NEW q \in Parties, NEW t \in Tasks,
         NEW k \in Kinds, NEW v \in Payloads, Send(p, q, t, k, v)
  PROVE  StatsAgree'
<1> DEFINE Same(a, b) == WireOf[a] = WireOf[b] /\ {a, b} \cap closed = {}
<1>1. PICK f : f = FramePayload(p, NextRoute(p, t, k), v)
  OBVIOUS
<1>2. f \in Frames /\ f.payload = v
  BY <1>1, NextRouteType DEF FramePayload
<1>3. /\ pipe' = [pipe EXCEPT ![p][q] = IF q \in closed THEN @ ELSE Append(@, f)]
      /\ stats' = [stats EXCEPT ![p][q] = RecordSent(@, v)]
      /\ closed' = closed
  BY <1>1 DEF Send
<1>4. /\ \A a, b \in Parties : stats[a][b] \in Stats /\ pipe[a][b] \in Seq(Frames)
      /\ stats'[p][q] = RecordSent(stats[p][q], v)
      /\ \A a, b \in Parties : <<a, b>> # <<p, q>> => stats'[a][b] = stats[a][b]
      /\ pipe'[p][q] = IF q \in closed THEN pipe[p][q] ELSE Append(pipe[p][q], f)
      /\ \A a, b \in Parties : <<a, b>> # <<p, q>> => pipe'[a][b] = pipe[a][b]
  BY <1>3 DEF TypeOK
<1>5. \A a, b \in Parties :
        /\ stats'[a][b].framesReceived = stats[a][b].framesReceived
        /\ stats'[a][b].bytesReceived = stats[a][b].bytesReceived
  BY <1>4, CountersAfterSend
<1>6. \A a, b \in Parties :
        PairAgrees(stats[a][b], stats[b][a], Len(pipe[a][b]), WireBytes(pipe[a][b]), Same(a, b))
  BY AgreesByPairs
<1>7. ASSUME NEW a \in Parties, NEW b \in Parties
      PROVE  PairAgrees(stats'[a][b], stats'[b][a], Len(pipe'[a][b]), WireBytes(pipe'[a][b]), Same(a, b))
  <2>1. PICK s, r, s2, r2, n, w, e :
          /\ s = stats[a][b] /\ r = stats[b][a] /\ s2 = stats'[a][b] /\ r2 = stats'[b][a]
          /\ n = Len(pipe[a][b]) /\ w = WireBytes(pipe[a][b]) /\ e = Same(a, b)
    OBVIOUS
  <2>2. /\ s \in Stats /\ r \in Stats /\ n \in Nat /\ w \in Nat /\ e \in BOOLEAN
        /\ PairAgrees(s, r, n, w, e)
        /\ r2.framesReceived = r.framesReceived /\ r2.bytesReceived = r.bytesReceived
    BY <1>4, <1>5, <1>6, <2>1, BytesType, LenProperties
  <2>3. CASE <<a, b>> = <<p, q>>
    <3>1. PICK size : size = Size(f)
      OBVIOUS
    <3>2. size \in Nat /\ size = HeaderSize + PayloadLen[v]
      BY <1>2, <3>1, SizeType DEF Size
    <3>3. s2 = RecordSent(s, v)
      BY <1>4, <2>1, <2>3
    <3>4. PairAgrees(s2, r, n + 1, w + size, e) /\ PairAgrees(s2, r, n, w, FALSE)
      BY <2>2, <3>2, <3>3, SentOne
    <3>5. PairAgrees(s2, r2, n + 1, w + size, e) /\ PairAgrees(s2, r2, n, w, FALSE)
      BY <2>2, <3>4, OnlyReceivedMatters
    <3>6. CASE q \in closed
      <4>1. pipe'[a][b] = pipe[a][b] /\ ~e
        BY <1>4, <2>1, <2>3, <3>6
      <4>. QED  BY <2>1, <2>2, <3>5, <4>1
    <3>7. CASE q \notin closed
      <4>1. pipe'[a][b] = Append(pipe[a][b], f) /\ pipe[a][b] \in Seq(Frames)
        BY <1>4, <2>3, <3>7
      <4>2. Len(pipe'[a][b]) = n + 1 /\ WireBytes(pipe'[a][b]) = w + size
        BY <1>2, <2>1, <3>1, <4>1, BytesAppend, AppendProperties
      <4>. QED  BY <2>1, <3>5, <4>2
    <3>. QED  BY <3>6, <3>7
  <2>4. CASE <<a, b>> # <<p, q>>
    <3>1. s2 = s /\ pipe'[a][b] = pipe[a][b]
      BY <1>4, <2>1, <2>4
    <3>2. PairAgrees(s, r2, n, w, e)
      BY <2>2, OnlyReceivedMatters
    <3>. QED  BY <2>1, <3>1, <3>2
  <2>. QED  BY <2>3, <2>4
<1>. QED  BY <1>3, <1>7 DEF StatsAgree, PairAgrees

LEMMA CountedKeepsAgreement ==
  ASSUME TypeOK, StatsAgree, NEW p \in Parties, NEW q \in Parties, RecvCounted(p, q),
         closed' = closed
  PROVE  StatsAgree'
<1> DEFINE Same(a, b) == WireOf[a] = WireOf[b] /\ {a, b} \cap closed = {}
<1>1. PICK f : f = Head(pipe[q][p])
  OBVIOUS
<1>2. f \in Frames /\ f.payload \in Payloads /\ pipe[q][p] # <<>>
  BY <1>1, HeadIsFrame DEF RecvCounted, Readable, Frames
<1>3. /\ pipe' = [pipe EXCEPT ![q][p] = Tail(@)]
      /\ stats' = [stats EXCEPT ![p][q] = RecordReceived(@, f.payload)]
  BY <1>1 DEF RecvCounted, Consume
<1>4. /\ \A a, b \in Parties : stats[a][b] \in Stats /\ pipe[a][b] \in Seq(Frames)
      /\ stats'[p][q] = RecordReceived(stats[p][q], f.payload)
      /\ \A a, b \in Parties : <<a, b>> # <<p, q>> => stats'[a][b] = stats[a][b]
      /\ pipe'[q][p] = Tail(pipe[q][p])
      /\ \A a, b \in Parties : <<a, b>> # <<q, p>> => pipe'[a][b] = pipe[a][b]
  BY <1>3 DEF TypeOK
<1>5. \A a, b \in Parties :
        /\ stats'[a][b].framesSent = stats[a][b].framesSent
        /\ stats'[a][b].bytesSent = stats[a][b].bytesSent
  BY <1>2, <1>4, CountersAfterSend
<1>6. \A a, b \in Parties :
        PairAgrees(stats[a][b], stats[b][a], Len(pipe[a][b]), WireBytes(pipe[a][b]), Same(a, b))
  BY AgreesByPairs
<1>7. ASSUME NEW a \in Parties, NEW b \in Parties
      PROVE  PairAgrees(stats'[a][b], stats'[b][a], Len(pipe'[a][b]), WireBytes(pipe'[a][b]), Same(a, b))
  <2>1. PICK s, r, s2, r2, n, w, e :
          /\ s = stats[a][b] /\ r = stats[b][a] /\ s2 = stats'[a][b] /\ r2 = stats'[b][a]
          /\ n = Len(pipe[a][b]) /\ w = WireBytes(pipe[a][b]) /\ e = Same(a, b)
    OBVIOUS
  <2>2. /\ s \in Stats /\ r \in Stats /\ n \in Nat /\ w \in Nat /\ e \in BOOLEAN
        /\ PairAgrees(s, r, n, w, e)
        /\ s2.framesSent = s.framesSent /\ s2.bytesSent = s.bytesSent
    BY <1>4, <1>5, <1>6, <2>1, BytesType, LenProperties
  <2>3. CASE <<a, b>> = <<q, p>>
    <3>1. PICK size, m, c : /\ size = Size(f) /\ m = Len(Tail(pipe[q][p]))
                            /\ c = WireBytes(Tail(pipe[q][p]))
      OBVIOUS
    <3>2. size \in Nat /\ size = HeaderSize + PayloadLen[f.payload]
      BY <1>2, <3>1, SizeType DEF Size
    <3>3. /\ pipe[q][p] \in Seq(Frames) /\ Tail(pipe[q][p]) \in Seq(Frames)
          /\ Len(Tail(pipe[q][p])) = Len(pipe[q][p]) - 1 /\ Len(pipe[q][p]) \in Nat
      BY <1>2, <1>4, HeadTailProperties
    <3>4. n = m + 1 /\ m \in Nat /\ c \in Nat /\ w = size + c
      <4>1. n = m + 1 /\ m \in Nat /\ c \in Nat
        <5>1. n = Len(pipe[q][p]) /\ m \in Nat /\ c \in Nat
          BY <2>1, <2>3, <3>1, <3>3, BytesType, LenProperties
        <5>2. n \in Nat /\ m = n - 1
          BY <3>1, <3>3, <5>1
        <5>. QED  BY <5>1, <5>2
      <4>2. w = size + c
        BY <1>1, <1>2, <2>1, <2>3, <3>1, <3>3, BytesTail
      <4>. QED  BY <4>1, <4>2
    <3>5. r2 = RecordReceived(r, f.payload)
      BY <1>4, <2>1, <2>3
    <3>6. PairAgrees(s, r, m + 1, size + c, e)
      BY <2>2, <3>4
    <3>7. PairAgrees(s, r2, m, c, e)
      BY <1>2, <2>2, <3>2, <3>4, <3>5, <3>6, ReceivedOne
    <3>8. PairAgrees(s2, r2, m, c, e)
      BY <2>2, <3>7, OnlySentMatters
    <3>9. Len(pipe'[a][b]) = m /\ WireBytes(pipe'[a][b]) = c
      BY <1>4, <2>3, <3>1
    <3>. QED  BY <2>1, <3>8, <3>9
  <2>4. CASE <<a, b>> # <<q, p>>
    <3>1. r2 = r /\ pipe'[a][b] = pipe[a][b]
      BY <1>4, <2>1, <2>4
    <3>2. PairAgrees(s2, r, n, w, e)
      BY <2>2, OnlySentMatters
    <3>. QED  BY <2>1, <3>1, <3>2
  <2>. QED  BY <2>3, <2>4
<1>. QED  BY <1>7 DEF StatsAgree, PairAgrees

\* A step that only takes frames off streams, where those of two open parties
\* with one parameter set stay as they are.
LEMMA LosingKeepsAgreement ==
  ASSUME TypeOK, StatsAgree, UNCHANGED stats, closed \subseteq closed',
         \A a, b \in Parties :
           \/ pipe'[a][b] = pipe[a][b]
           \/ /\ Len(pipe'[a][b]) \in Nat /\ Len(pipe'[a][b]) <= Len(pipe[a][b])
              /\ WireBytes(pipe'[a][b]) \in Nat /\ WireBytes(pipe'[a][b]) <= WireBytes(pipe[a][b])
              /\ ~(WireOf[a] = WireOf[b] /\ {a, b} \cap closed' = {})
  PROVE  StatsAgree'
<1> DEFINE Same(a, b) == WireOf[a] = WireOf[b] /\ {a, b} \cap closed = {}
           Now(a, b) == WireOf[a] = WireOf[b] /\ {a, b} \cap closed' = {}
<1>1. ASSUME NEW a \in Parties, NEW b \in Parties
      PROVE  PairAgrees(stats[a][b], stats[b][a], Len(pipe'[a][b]), WireBytes(pipe'[a][b]), Now(a, b))
  <2>1. PICK s, r, n, w, e, m, c, d :
          /\ s = stats[a][b] /\ r = stats[b][a]
          /\ n = Len(pipe[a][b]) /\ w = WireBytes(pipe[a][b]) /\ e = Same(a, b)
          /\ m = Len(pipe'[a][b]) /\ c = WireBytes(pipe'[a][b]) /\ d = Now(a, b)
    OBVIOUS
  <2>2. pipe[a][b] \in Seq(Frames) /\ stats[a][b] \in Stats /\ stats[b][a] \in Stats
    BY DEF TypeOK
  <2>3. s \in Stats /\ r \in Stats /\ n \in Nat /\ w \in Nat /\ e \in BOOLEAN /\ d \in BOOLEAN
    BY <2>1, <2>2, BytesType, LenProperties
  <2>4. PairAgrees(s, r, n, w, e)
    BY <2>1, AgreesByPairs
  <2>5. CASE pipe'[a][b] = pipe[a][b]
    <3>1. m = n /\ c = w /\ (d => e)
      BY <2>1, <2>5
    <3>2. PairAgrees(s, r, n, w, d)
      BY <2>3, <2>4, <3>1 DEF PairAgrees
    <3>. QED  BY <2>1, <3>1, <3>2
  <2>6. CASE pipe'[a][b] # pipe[a][b]
    <3>1. m \in Nat /\ c \in Nat /\ m <= n /\ c <= w /\ d = FALSE
      BY <2>1, <2>6
    <3>2. PairAgrees(s, r, m, c, FALSE)
      BY <2>3, <2>4, <3>1, FewerInFlight
    <3>. QED  BY <2>1, <3>1, <3>2
  <2>. QED  BY <2>5, <2>6
<1>. QED  BY <1>1 DEF StatsAgree, PairAgrees

LEMMA ForeignKeepsAgreement ==
  ASSUME TypeOK, FramesOfSender, StatsAgree, NEW p \in Parties, NEW q \in Parties,
         RecvForeign(p, q)
  PROVE  StatsAgree'
<1>1. pipe[q][p] # <<>> /\ pipe[q][p] \in Seq(Frames)
  BY DEF RecvForeign, Readable, TypeOK
<1>2. 1 \in 1 .. Len(pipe[q][p]) /\ Head(pipe[q][p]) = pipe[q][p][1]
  BY <1>1
<1>3. WireOf[q] # WireOf[p]
  BY <1>2 DEF FramesOfSender, RecvForeign, AcceptsWire
<1>4. /\ pipe'[q][p] = Tail(pipe[q][p])
      /\ \A a, b \in Parties : <<a, b>> # <<q, p>> => pipe'[a][b] = pipe[a][b]
  BY DEF RecvForeign, Consume, TypeOK
<1>5. /\ Len(Tail(pipe[q][p])) \in Nat /\ Len(Tail(pipe[q][p])) <= Len(pipe[q][p])
      /\ Tail(pipe[q][p]) \in Seq(Frames) /\ Head(pipe[q][p]) \in Frames
  <2>1. /\ Len(Tail(pipe[q][p])) = Len(pipe[q][p]) - 1 /\ Len(pipe[q][p]) \in Nat
        /\ Tail(pipe[q][p]) \in Seq(Frames) /\ Head(pipe[q][p]) \in Frames
    BY <1>1, HeadTailProperties, LenProperties
  <2>2. Len(Tail(pipe[q][p])) \in Nat
    BY <2>1, LenProperties
  <2>. QED  BY <2>1, <2>2
<1>6. /\ WireBytes(Tail(pipe[q][p])) \in Nat
      /\ WireBytes(Tail(pipe[q][p])) <= WireBytes(pipe[q][p])
  <2>1. PICK w, c, size : /\ w = WireBytes(pipe[q][p]) /\ c = WireBytes(Tail(pipe[q][p]))
                          /\ size = Size(Head(pipe[q][p]))
    OBVIOUS
  <2>2. c \in Nat /\ size \in Nat /\ w = size + c
    BY <1>1, <1>5, <2>1, BytesTail, BytesType, SizeType
  <2>3. c \in Nat /\ c <= w
    BY <2>2
  <2>. QED  BY <2>1, <2>3
<1>7. ASSUME NEW a \in Parties, NEW b \in Parties
      PROVE  \/ pipe'[a][b] = pipe[a][b]
             \/ /\ Len(pipe'[a][b]) \in Nat /\ Len(pipe'[a][b]) <= Len(pipe[a][b])
                /\ WireBytes(pipe'[a][b]) \in Nat /\ WireBytes(pipe'[a][b]) <= WireBytes(pipe[a][b])
                /\ ~(WireOf[a] = WireOf[b] /\ {a, b} \cap closed' = {})
  <2>1. CASE a = q /\ b = p
    BY <1>3, <1>4, <1>5, <1>6, <2>1
  <2>2. CASE ~(a = q /\ b = p)
    BY <1>4, <2>2
  <2>. QED  BY <2>1, <2>2
<1>8. UNCHANGED stats /\ closed \subseteq closed'
  BY DEF RecvForeign
<1>. QED  BY <1>7, <1>8, LosingKeepsAgreement

LEMMA CloseKeepsAgreement ==
  ASSUME TypeOK, StatsAgree, NEW p \in Parties, Close(p)
  PROVE  StatsAgree'
<1>1. \A a, b \in Parties : pipe'[a][b] = IF b = p THEN <<>> ELSE pipe[a][b]
  BY DEF Close, TypeOK
<1>2. ASSUME NEW a \in Parties, NEW b \in Parties
      PROVE  \/ pipe'[a][b] = pipe[a][b]
             \/ /\ Len(pipe'[a][b]) \in Nat /\ Len(pipe'[a][b]) <= Len(pipe[a][b])
                /\ WireBytes(pipe'[a][b]) \in Nat /\ WireBytes(pipe'[a][b]) <= WireBytes(pipe[a][b])
                /\ ~(WireOf[a] = WireOf[b] /\ {a, b} \cap closed' = {})
  <2>1. CASE b = p
    <3>1. pipe'[a][b] = <<>> /\ Len(<<>>) = 0 /\ WireBytes(<<>>) = 0
      BY <1>1, <2>1, BytesOfNone
    <3>2. Len(pipe[a][b]) \in Nat /\ WireBytes(pipe[a][b]) \in Nat
      <4>1. pipe[a][b] \in Seq(Frames)
        BY DEF TypeOK
      <4>. QED  BY <4>1, BytesType, LenProperties
    <3>3. ~(WireOf[a] = WireOf[b] /\ {a, b} \cap closed' = {})
      BY <2>1 DEF Close
    <3>4. PICK n, w : n = Len(pipe[a][b]) /\ w = WireBytes(pipe[a][b])
      OBVIOUS
    <3>5. 0 <= n /\ 0 <= w
      BY <3>2, <3>4
    <3>. QED  BY <3>1, <3>3, <3>4, <3>5
  <2>2. CASE b # p
    BY <1>1, <2>2
  <2>. QED  BY <2>1, <2>2
<1>3. UNCHANGED stats /\ closed \subseteq closed'
  BY DEF Close
<1>. QED  BY <1>2, <1>3, LosingKeepsAgreement

LEMMA LossKeepsAgreement ==
  ASSUME TypeOK, StatsAgree, NEW p \in Parties, NEW q \in Parties, LoseTail(p, q)
  PROVE  StatsAgree'
<1> DEFINE t == SubSeq(pipe[p][q], 1, Len(pipe[p][q]) - 1)
<1>1. pipe[p][q] # <<>> /\ pipe[p][q] \in Seq(Frames) /\ p \in closed
  BY DEF LoseTail, TypeOK
<1>2. /\ pipe'[p][q] = t
      /\ \A a, b \in Parties : <<a, b>> # <<p, q>> => pipe'[a][b] = pipe[a][b]
  BY DEF LoseTail, TypeOK
<1>3. t \in Seq(Frames) /\ Len(t) \in Nat /\ Len(t) <= Len(pipe[p][q])
  <2>1. PICK s \in Seq(Frames) : s = pipe[p][q] /\ s # <<>>
    BY <1>1
  <2>2. Len(s) \in Nat /\ Len(s) # 0 /\ \A i \in 1 .. Len(s) : s[i] \in Frames
    BY <2>1, EmptySeq
  <2>3. \A i \in 1 .. Len(s) - 1 : s[i] \in Frames
    BY <2>2
  <2>4. 1 \in Int /\ Len(s) - 1 \in Int
    BY <2>2
  <2>5. /\ SubSeq(s, 1, Len(s) - 1) \in Seq(Frames)
        /\ Len(SubSeq(s, 1, Len(s) - 1)) = IF 1 <= Len(s) - 1 THEN (Len(s) - 1) - 1 + 1 ELSE 0
    BY <2>3, <2>4, SubSeqProperties
  <2>6. \A k \in Nat : k # 0 => k - 1 = (IF 1 <= k - 1 THEN (k - 1) - 1 + 1 ELSE 0)
                                /\ k - 1 \in Nat /\ k - 1 <= k
    OBVIOUS
  <2>7. Len(SubSeq(s, 1, Len(s) - 1)) = Len(s) - 1 /\ Len(s) - 1 \in Nat /\ Len(s) - 1 <= Len(s)
    BY <2>2, <2>5, <2>6, Zenon
  <2>. QED  BY <2>1, <2>5, <2>7
<1>4. WireBytes(t) \in Nat /\ WireBytes(t) <= WireBytes(pipe[p][q])
  BY <1>1, <1>3, BytesType, BytesWithoutLast
<1> HIDE DEF t
<1>5. ASSUME NEW a \in Parties, NEW b \in Parties
      PROVE  \/ pipe'[a][b] = pipe[a][b]
             \/ /\ Len(pipe'[a][b]) \in Nat /\ Len(pipe'[a][b]) <= Len(pipe[a][b])
                /\ WireBytes(pipe'[a][b]) \in Nat /\ WireBytes(pipe'[a][b]) <= WireBytes(pipe[a][b])
                /\ ~(WireOf[a] = WireOf[b] /\ {a, b} \cap closed' = {})
  <2>1. CASE a = p /\ b = q
    <3>1. ~(WireOf[a] = WireOf[b] /\ {a, b} \cap closed' = {})
      BY <1>1, <2>1 DEF LoseTail
    <3>. QED  BY <1>2, <1>3, <1>4, <2>1, <3>1
  <2>2. CASE ~(a = p /\ b = q)
    BY <1>2, <2>2
  <2>. QED  BY <2>1, <2>2
<1>6. UNCHANGED stats /\ closed \subseteq closed'
  BY DEF LoseTail
<1>. QED  BY <1>5, <1>6, LosingKeepsAgreement

\* What one end counted as sent is counted as received by the other or is in
\* flight, in frames and bytes; all of it, between parties that are open and
\* have one parameter set (channel.rs counts on success only).
THEOREM CountersAgree == Spec => []StatsAgree
<1> DEFINE Inv == FramesOfSender /\ StatsAgree
<1>1. Init => Inv
  <2> SUFFICES ASSUME Init PROVE Inv
    OBVIOUS
  <2>1. \A p, q \in Parties : pipe[p][q] = <<>> /\ stats[p][q] = ZeroStats
    BY DEF Init
  <2>2. /\ Len(<<>>) = 0 /\ WireBytes(<<>>) = 0
        /\ ZeroStats.framesSent = 0 /\ ZeroStats.framesReceived = 0
        /\ ZeroStats.bytesSent = 0 /\ ZeroStats.bytesReceived = 0
    BY BytesOfNone DEF ZeroStats
  <2>3. 0 + 0 = 0 /\ 0 <= 0
    OBVIOUS
  <2>4. StatsAgree
    BY <2>1, <2>2, <2>3 DEF StatsAgree
  <2>. QED  BY <2>1, <2>4 DEF FramesOfSender
<1>2. TypeOK /\ Inv /\ [Next]_vars => Inv'
  <2> SUFFICES ASSUME TypeOK, FramesOfSender, StatsAgree, [Next]_vars
               PROVE  FramesOfSender' /\ StatsAgree'
    OBVIOUS
  <2>1. FramesOfSender'
    <3>1. ASSUME NEW p \in Parties, NEW q \in Parties, Delivers(p, q) PROVE PipesShrink
      BY <3>1, ConsumeShrinks DEF Delivers, RecvCounted, Readable
    <3>. QED  BY <3>1, StepKinds, SentIsOfSender, ShrinkingIsOfSender
  <2>2. ASSUME UNCHANGED <<pipe, stats, closed>> PROVE StatsAgree'
    BY <2>2 DEF StatsAgree
  <2>3. ASSUME NEW p \in Parties, NEW q \in Parties, RecvCounted(p, q), closed' = closed
        PROVE  StatsAgree'
    BY <2>3, CountedKeepsAgreement
  <2>4. \/ \E p, q \in Parties, t \in Tasks, k \in Kinds, v \in Payloads : Send(p, q, t, k, v)
        \/ \E p, q \in Parties : RecvForeign(p, q)
        \/ \E p, q \in Parties : RecvCounted(p, q) /\ closed' = closed
        \/ \E p \in Parties : Close(p)
        \/ \E p, q \in Parties : LoseTail(p, q)
        \/ UNCHANGED <<pipe, stats, closed>>
    BY DEF Next, vars, InsertPeer, SendFails, Recv, RecvExpected, RecvDiscards, RecvTooLarge
  <2>5. StatsAgree'
    BY <2>2, <2>3, <2>4, SendKeepsAgreement, ForeignKeepsAgreement, CloseKeepsAgreement,
       LossKeepsAgreement
  <2>. QED  BY <2>1, <2>5
<1>3. Inv => StatsAgree
  OBVIOUS
<1> HIDE DEF Inv
<1>. QED  BY <1>1, <1>2, <1>3, TypeCorrect, PTL DEF Spec
=============================================================================
