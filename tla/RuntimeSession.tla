---------------------------- MODULE RuntimeSession --------------------------
(***************************************************************************)
(* The message layer of silent-protocol-runtime: every party owns one      *)
(* RuntimeSession (session.rs) holding a gate cursor per task and a        *)
(* RuntimeMesh (channel.rs) with one RuntimeChannel per peer.  A channel   *)
(* carries frames of silent-net over an ordered stream; FrameStream models *)
(* how a frame crosses that stream, here a frame is one element of it.     *)
(*                                                                         *)
(* Every call of the API is an action with the state changes it makes      *)
(* before it succeeds or fails: a send burns its gate before the peer, the *)
(* payload limit and the transport are looked at; a receive consumes its   *)
(* frame before the wire identity, the codec and the route are compared.   *)
(*                                                                         *)
(* A route (ids.rs) is (session, task, gate, kind), and a GateCursor hands *)
(* out the gates of one (session, task) in order.  The u64 gate counter    *)
(* keeps its width: MaxU64 stands for u64::MAX.                            *)
(***************************************************************************)
EXTENDS Naturals, SequencesExt

CONSTANTS
  SessionIds,  \* identifiers of runtime sessions
  Tasks,       \* identifiers of tasks inside a session
  Kinds,       \* MessageKind: Data, Control, Setup, Error
  MaxU64       \* the largest gate number the u64 counter can hold

ASSUME MaxU64Type == MaxU64 \in Nat

Gates == 0 .. MaxU64

Routes == [session : SessionIds, task : Tasks, gate : Gates, kind : Kinds]

RuntimeRoute(s, t, g, k) == [session |-> s, task |-> t, gate |-> g, kind |-> k]

\* RuntimeRoute::ensure_matches compares all four fields.
EnsureMatchesAnyGate(expected, actual) ==
  expected.task = actual.task /\ expected.kind = actual.kind
EnsureMatches(expected, actual) == expected = actual

\* GateCursor::next_route: the values the cursor may step to once the current
\* gate is handed out.  checked_add refuses to step past MaxU64, so the gate
\* MaxU64 itself is never issued; wrapping and unchecked additions are variants.
AdvanceWrapping(next) == {(next + 1) % (MaxU64 + 1)}
AdvanceUnchecked(next) == {next + 1}
Advance(next) == {n \in {next + 1} : n <= MaxU64}
-----------------------------------------------------------------------------

CONSTANTS
  Parties,
  Payloads,     \* what senders put into frames
  PayloadLen,   \* [Payloads -> Nat]: encoded length
  Codec,        \* [Payloads -> Codecs]: the encoder that produced it
  Codecs,       \* raw payload, u64 vector, runtime value
  Raw,          \* the codec of recv_payload, which decodes nothing
  SessionOf,    \* [Parties -> SessionIds]: RuntimeContext.session
  Wires,        \* (scheme_id, params_id) pairs
  WireOf,       \* [Parties -> Wires]: WireContext.encode
  LimitOf,      \* [Parties -> Nat]: WireContext.max_payload
  HeaderSize    \* FRAME_HEADER_SIZE

ASSUME RuntimeConstants ==
  /\ PayloadLen \in [Payloads -> Nat]
  /\ Codec \in [Payloads -> Codecs]
  /\ Raw \in Codecs
  /\ SessionOf \in [Parties -> SessionIds]
  /\ WireOf \in [Parties -> Wires]
  /\ LimitOf \in [Parties -> Nat]
  /\ HeaderSize \in Nat

VARIABLES
  peers,      \* peers[p]: parties p's mesh has a channel to
  cursor,     \* cursor[p][t]: next gate of p's cursor for task t
  pipe,       \* pipe[p][q]: frames sent by p that q has not consumed
  stats,      \* stats[p][q]: RuntimeStats of p's channel to q
  closed,     \* parties whose session has been dropped
  poisoned,   \* poisoned[p]: peers whose stream p can no longer parse
  log,        \* history: every frame p handed to a stream, with its target
  burned,     \* history: task and gate of every send of p that failed
  delivered   \* history: every frame returned by a successful receive of p

vars == <<peers, cursor, pipe, stats, closed, poisoned, log, burned, delivered>>

Frames == [route : Routes, wire : Wires, payload : Payloads]

\* The frame a party builds for a route and a payload.
FramePayload(p, route, v) == [route |-> route, wire |-> WireOf[p], payload |-> v]

ZeroStats == [framesSent |-> 0, framesReceived |-> 0,
              bytesSent |-> 0, bytesReceived |-> 0]

RecordSentPayloadOnly(s, v) ==
  [s EXCEPT !.framesSent = @ + 1, !.bytesSent = @ + PayloadLen[v]]
RecordSent(s, v) ==
  [s EXCEPT !.framesSent = @ + 1, !.bytesSent = @ + HeaderSize + PayloadLen[v]]

RecordReceived(s, v) ==
  [s EXCEPT !.framesReceived = @ + 1,
            !.bytesReceived = @ + HeaderSize + PayloadLen[v]]
-----------------------------------------------------------------------------
Init ==
  /\ peers = [p \in Parties |-> {}]
  /\ cursor = [p \in Parties |-> [t \in Tasks |-> 0]]
  /\ pipe = [p \in Parties |-> [q \in Parties |-> <<>>]]
  /\ stats = [p \in Parties |-> [q \in Parties |-> ZeroStats]]
  /\ closed = {}
  /\ poisoned = [p \in Parties |-> {}]
  /\ log = [p \in Parties |-> <<>>]
  /\ burned = [p \in Parties |-> {}]
  /\ delivered = [p \in Parties |-> <<>>]

\* RuntimeMesh::insert_peer: the local party and a second channel to the same
\* peer are refused.
InsertPeer(p, q) ==
  /\ p \notin closed
  /\ q # p
  /\ q \notin peers[p]
  /\ peers' = [peers EXCEPT ![p] = @ \union {q}]
  /\ UNCHANGED <<cursor, pipe, stats, closed, poisoned, log, burned, delivered>>

NextRoute(p, t, k) == RuntimeRoute(SessionOf[p], t, cursor[p][t], k)

BurnGate(p, t) ==
  \E next \in Advance(cursor[p][t]) : cursor' = [cursor EXCEPT ![p][t] = next]

\* The channel exists and RuntimeChannel::send_payload accepts the length.
SendableAnyLength(p, q, v) == q \in peers[p]
Sendable(p, q, v) == q \in peers[p] /\ PayloadLen[v] <= LimitOf[p]

\* A send that succeeds: the frame is on the stream and is counted.
Send(p, q, t, k, v) ==
  LET frame == FramePayload(p, NextRoute(p, t, k), v)
  IN  /\ p \notin closed
      /\ BurnGate(p, t)
      /\ Sendable(p, q, v)
      /\ pipe' = [pipe EXCEPT ![p][q] = IF q \in closed THEN @ ELSE Append(@, frame)]
      /\ log' = [log EXCEPT ![p] = Append(@, [to |-> q, frame |-> frame])]
      /\ stats' = [stats EXCEPT ![p][q] = RecordSent(@, v)]
      /\ UNCHANGED <<peers, closed, poisoned, burned, delivered>>

\* A send that fails for want of a channel, for its size, or because the peer
\* is gone has already taken its gate, and does not give it back.
GiveBack(p, t) == Advance(cursor[p][t]) # {} /\ UNCHANGED cursor
KeepBurned(p, t) == BurnGate(p, t)

SendFails(p, q, t, v) ==
  /\ p \notin closed
  /\ KeepBurned(p, t)
  /\ ~Sendable(p, q, v) \/ q \in closed
  /\ burned' = [burned EXCEPT ![p] = @ \union {<<t, cursor[p][t]>>}]
  /\ UNCHANGED <<peers, pipe, stats, closed, poisoned, log, delivered>>
-----------------------------------------------------------------------------
\* A receive of p on its channel to q finds a frame that fits p's own limit.
Readable(p, q) ==
  /\ p \notin closed
  /\ q \in peers[p]
  /\ q \notin poisoned[p]
  /\ pipe[q][p] # <<>>
  /\ PayloadLen[Head(pipe[q][p]).payload] <= LimitOf[p]

ConsumePeek(p, q) == pipe[q][p] # <<>> /\ UNCHANGED pipe
Consume(p, q) == pipe' = [pipe EXCEPT ![q][p] = Tail(@)]

\* recv_payload compares scheme_id and params_id with the local WireContext.
AcceptsWire(p, frame) == frame.wire = WireOf[p]

\* recv_payload rejects a frame of another scheme or parameter set: the frame
\* is gone and is not counted.
RecvForeign(p, q) ==
  /\ Readable(p, q)
  /\ ~AcceptsWire(p, Head(pipe[q][p]))
  /\ Consume(p, q)
  /\ UNCHANGED <<peers, cursor, stats, closed, poisoned, log, burned, delivered>>

RecvCounted(p, q) ==
  LET frame == Head(pipe[q][p])
  IN  /\ Readable(p, q)
      /\ AcceptsWire(p, frame)
      /\ Consume(p, q)
      /\ stats' = [stats EXCEPT ![p][q] = RecordReceived(@, frame.payload)]

\* recv_payload, recv_u64_vec, recv_value: the caller gets the route found.
Recv(p, q, codec) ==
  LET frame == Head(pipe[q][p])
  IN  /\ RecvCounted(p, q)
      /\ codec \in {Raw, Codec[frame.payload]}
      /\ delivered' = [delivered EXCEPT ![p] =
                         Append(@, [from |-> q, asked |-> frame.route, frame |-> frame])]
      /\ UNCHANGED <<peers, cursor, closed, poisoned, log, burned>>

\* recv_expected_*: the caller names the route it waits for.
RecvExpected(p, q, codec, expected) ==
  LET frame == Head(pipe[q][p])
  IN  /\ RecvCounted(p, q)
      /\ codec \in {Raw, Codec[frame.payload]}
      /\ EnsureMatches(expected, frame.route)
      /\ delivered' = [delivered EXCEPT ![p] =
                         Append(@, [from |-> q, asked |-> expected, frame |-> frame])]
      /\ UNCHANGED <<peers, cursor, closed, poisoned, log, burned>>

\* The same calls when the payload does not decode or the route differs: the
\* frame has been consumed and counted, and its payload is dropped.
RecvDiscards(p, q, codec, expected) ==
  LET frame == Head(pipe[q][p])
  IN  /\ RecvCounted(p, q)
      /\ \/ codec \notin {Raw, Codec[frame.payload]}
         \/ ~EnsureMatches(expected, frame.route)
      /\ UNCHANGED <<peers, cursor, closed, poisoned, log, burned, delivered>>

\* recv_frame refuses a declared length above p's limit with the payload still
\* in the stream: what follows is no longer a frame.
RecvTooLarge(p, q) ==
  /\ p \notin closed
  /\ q \in peers[p] \ poisoned[p]
  /\ pipe[q][p] # <<>>
  /\ PayloadLen[Head(pipe[q][p]).payload] > LimitOf[p]
  /\ poisoned' = [poisoned EXCEPT ![p] = @ \union {q}]
  /\ UNCHANGED <<peers, cursor, pipe, stats, closed, log, burned, delivered>>

\* Dropping a session closes its streams: what peers sent to it is gone.
Close(p) ==
  /\ p \notin closed
  /\ closed' = closed \union {p}
  /\ pipe' = [a \in Parties |-> [pipe[a] EXCEPT ![p] = <<>>]]
  /\ UNCHANGED <<peers, cursor, stats, poisoned, log, burned, delivered>>

\* The transport may lose the tail of what a closed party had sent.
LoseTail(p, q) ==
  /\ p \in closed
  /\ pipe[p][q] # <<>>
  /\ pipe' = [pipe EXCEPT ![p][q] = SubSeq(@, 1, Len(@) - 1)]
  /\ UNCHANGED <<peers, cursor, stats, closed, poisoned, log, burned, delivered>>
-----------------------------------------------------------------------------
Next ==
  \/ \E p, q \in Parties : InsertPeer(p, q)
  \/ \E p, q \in Parties, t \in Tasks, k \in Kinds, v \in Payloads : Send(p, q, t, k, v)
  \/ \E p, q \in Parties, t \in Tasks, v \in Payloads : SendFails(p, q, t, v)
  \/ \E p, q \in Parties : RecvForeign(p, q)
  \/ \E p, q \in Parties, codec \in Codecs : Recv(p, q, codec)
  \/ \E p, q \in Parties, codec \in Codecs, r \in Routes : RecvExpected(p, q, codec, r)
  \/ \E p, q \in Parties, codec \in Codecs, r \in Routes : RecvDiscards(p, q, codec, r)
  \/ \E p, q \in Parties : RecvTooLarge(p, q)
  \/ \E p \in Parties : Close(p)
  \/ \E p, q \in Parties : LoseTail(p, q)

Spec == Init /\ [][Next]_vars
-----------------------------------------------------------------------------
Stats == [framesSent : Nat, framesReceived : Nat, bytesSent : Nat, bytesReceived : Nat]

\* The shape of the state of every party and of every stream.
TypeOK ==
  /\ peers \in [Parties -> SUBSET Parties]
  /\ cursor \in [Parties -> [Tasks -> Gates]]
  /\ pipe \in [Parties -> [Parties -> Seq(Frames)]]
  /\ stats \in [Parties -> [Parties -> Stats]]
  /\ closed \subseteq Parties
  /\ poisoned \in [Parties -> SUBSET Parties]
  /\ log \in [Parties -> Seq([to : Parties, frame : Frames])]
  /\ burned \in [Parties -> SUBSET (Tasks \X Gates)]
  /\ delivered \in [Parties -> Seq([from : Parties, asked : Routes, frame : Frames])]

\* No task and gate is used twice by a party, whichever peers the frames go to
\* and whatever their kinds: no two frames carry the same, and none carries one
\* that a failed send has taken, before or after it.  GateCursor is shared by the
\* peers and kinds of a task, and a failed send does not give its gate back.
RouteNeverReused ==
  \A p \in Parties : \A i \in 1 .. Len(log[p]) :
    LET r == log[p][i].frame.route
    IN  /\ <<r.task, r.gate>> \notin burned[p]
        /\ \A j \in 1 .. Len(log[p]) :
             LET s == log[p][j].frame.route
             IN  r.task = s.task /\ r.gate = s.gate => i = j

\* Where party p put the frame with this route into its log; 0 if it never did.
SentAt(p, to, frame) ==
  LET at == {i \in 1 .. Len(log[p]) : log[p][i] = [to |-> to, frame |-> frame]}
  IN  IF at = {} THEN 0 ELSE CHOOSE i \in at : TRUE

\* What a receive returns was sent to this party by that peer, is returned at
\* most once, and in the order of the sends, across rejected frames, failed
\* sends and the loss of a tail.
DeliveredInSendOrder ==
  \A p \in Parties : \A j \in 1 .. Len(delivered[p]) :
    LET d == delivered[p][j]
    IN  /\ SentAt(d.from, p, d.frame) # 0
        /\ \A i \in 1 .. j - 1 :
             delivered[p][i].from = d.from =>
               SentAt(d.from, p, delivered[p][i].frame) < SentAt(d.from, p, d.frame)

\* A receive that names a route accepts one frame for it at most: a stale or a
\* later frame of the same peer, task or kind is never taken for it.
ExpectedOnce ==
  \A p \in Parties : \A i, j \in 1 .. Len(delivered[p]) :
    LET d == delivered[p][i]
        e == delivered[p][j]
    IN  /\ d.frame.route = d.asked
        /\ d.from = e.from /\ d.asked = e.asked => i = j

\* The bytes that the first frames of a sequence take on the wire, and all of them.
WireSums(frames) ==
  LET sum[n \in 0 .. Len(frames)] ==
        IF n = 0 THEN 0 ELSE sum[n - 1] + HeaderSize + PayloadLen[frames[n].payload]
  IN  sum
WireBytes(frames) == WireSums(frames)[Len(frames)]

\* The counters of the two ends agree: what one end counts as received, and
\* what is still in flight, the other end counted as sent, in frames and in
\* bytes; they are equal unless a frame was rejected as foreign or lost.
StatsAgree ==
  \A p, q \in Parties :
    LET sent == stats[p][q]
        received == stats[q][p]
        flight == pipe[p][q]
    IN  /\ received.framesReceived + Len(flight) <= sent.framesSent
        /\ received.bytesReceived + WireBytes(flight) <= sent.bytesSent
        /\ WireOf[p] = WireOf[q] /\ {p, q} \cap closed = {} =>
             /\ received.framesReceived + Len(flight) = sent.framesSent
             /\ received.bytesReceived + WireBytes(flight) = sent.bytesSent

\* A receiver whose limit is no smaller than the sender's never loses the
\* frame boundaries of the stream.
NoPoison ==
  \A p, q \in Parties : LimitOf[q] <= LimitOf[p] => q \notin poisoned[p]
=============================================================================
