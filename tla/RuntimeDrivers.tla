--------------------------- MODULE RuntimeDrivers ---------------------------
(***************************************************************************)
(* The programs that drive two runtime sessions over one socket.  In       *)
(* silent_bert_base_runner and silent_e2e_transformer one single-threaded  *)
(* executor runs both parties: nothing reads while a send waits for room,  *)
(* unless try_join! polls both.  In silent_runtime_net_harness each party  *)
(* is a process of its own: one listens, the other tries to connect, and   *)
(* the process that started them waits for the second, then the first.     *)
(*                                                                         *)
(* A call is a sequence of stages, a stage the set of operations that are  *)
(* awaited together.  Sizes are in units: a header is one, and so is an    *)
(* element of a payload.  A frame crosses the socket unit by unit, with    *)
(* room for capacity units in each direction.                              *)
(***************************************************************************)
EXTENDS Integers, SequencesExt

CONSTANTS
  Client, Server,   \* the parties
  MaxPayload,       \* WireContext.max_payload
  MaxChunk,         \* MAX_U64S_PER_FRAME
  TaskNames,        \* names of the executors
  Listener, Connector,  \* those of the two processes
  MaxTries,         \* of connect_with_retry
  Programs,         \* the programs to choose from: [tasks -> Seq(calls)]
  Capacities        \* the socket capacities to choose from

ASSUME DriverConstants ==
  /\ Client # Server /\ Listener # Connector /\ MaxTries \in Nat \ {0}
  /\ MaxPayload \in Nat /\ MaxChunk \in Nat \ {0}
  /\ Capacities \subseteq Nat \ {0}

Parties == {Client, Server}
Other(p) == IF p = Client THEN Server ELSE Client

VARIABLES
  program, capacity,  \* chosen at the start
  at,                 \* at[t]: the call and its stage task t is at
  doing,              \* doing[t]: operations of that stage not yet finished
  status,             \* status[t]: "starting", "accepting", "running", and then
                      \* "done", "failed", "crashed" or, never joined, "alone"
  tries,              \* of the connector, so far
  joined,             \* the connector has reached the listener
  waits,              \* the tasks whose end the orchestrator still waits for
  gate,               \* gate[p]: next gate of p
  sent,               \* sent[p]: frames p has begun to write: [gate, size]
  put, taken,         \* units of p's direction written and read
  got,                \* frames of p's direction read completely
  route               \* route[p]: what p's last send returned

link == <<gate, sent, put, taken, got, route>>
joining == <<tries, joined, waits>>
vars == <<program, capacity, at, doing, status, joining, link>>

Tasks == DOMAIN program
Ended == {t \in Tasks : status[t] \in {"done", "failed", "crashed", "alone"}}
Header == 1
-----------------------------------------------------------------------------
\* The calls, as the code lays them out.
Send(p, n) == [kind |-> "send", party |-> p, size |-> n]
Recv(p) == [kind |-> "recv", party |-> p, size |-> 0]
RecvAny(p) == [kind |-> "recv any", party |-> p, size |-> 0]

Smaller(m, n) == IF m < n THEN m ELSE n
\* payload.chunks(MAX_U64S_PER_FRAME)
Chunks(n) == [i \in 1 .. (n + MaxChunk - 1) \div MaxChunk |->
                Smaller(MaxChunk, n - (i - 1) * MaxChunk)]
\* Each chunk has two stages; the chunk of a stage.
ChunkStages(n) == 1 .. 2 * Len(Chunks(n))
ChunkOf(n, stage) == Chunks(n)[(stage + 1) \div 2]

ConvertReadsOnce(n) ==
  << {Send(Client, n)}, {Send(Server, n)}, {Recv(Client)} >>
ConvertReadsFirst(n) ==
  << {Send(Client, n)}, {Recv(Client)}, {Send(Server, n)}, {Recv(Server)} >>
Convert(n) ==
  << {Send(Client, n)}, {Send(Server, n)}, {Recv(Client)}, {Recv(Server)} >>

SendClientToServer(n) ==
  [s \in ChunkStages(n) |-> IF s % 2 = 1 THEN {Send(Client, ChunkOf(n, s))} ELSE {Recv(Server)}]

ExchangeOneflow(n) ==
  [s \in ChunkStages(n) |->
     IF s % 2 = 1 THEN {Send(Client, ChunkOf(n, s)), Send(Server, ChunkOf(n, s))}
                  ELSE {Recv(Client), Recv(Server)}]

ValueRoundtrip(n) == << {Send(Client, n)}, {Recv(Server)} >>

\* One iteration of the ping-pong: party 0 starts, and neither compares routes.
PingSendsAhead(n) == << {Send(Client, n)} >>
Ping(n) == << {Send(Client, n)}, {RecvAny(Client)} >>
Pong(n) == << {RecvAny(Server)}, {Send(Server, n)} >>
-----------------------------------------------------------------------------
Init ==
  /\ program \in Programs
  /\ capacity \in Capacities
  /\ at = [t \in Tasks |-> [call |-> 1, stage |-> 0]]
  /\ doing = [t \in Tasks |-> {}]
  /\ status = [t \in Tasks |-> IF t \in {Listener, Connector} THEN "starting" ELSE "running"]
  /\ tries = 0 /\ joined = FALSE /\ waits = IF Connector \in Tasks THEN <<Connector, Listener>> ELSE <<>>
  /\ gate = [p \in Parties |-> 0]
  /\ sent = [p \in Parties |-> <<>>]
  /\ put = [p \in Parties |-> 0] /\ taken = [p \in Parties |-> 0]
  /\ got = [p \in Parties |-> 0]
  /\ route = [p \in Parties |-> 0]

Becomes(t, next) ==
  /\ status' = [status EXCEPT ![t] = next]
  /\ UNCHANGED <<program, capacity, at, doing, link>>

\* The endpoint was free when the orchestrator chose it; another program may
\* have it by now.
Bind(t) ==
  /\ t = Listener /\ status[t] = "starting"
  /\ Becomes(t, "accepting") \/ Becomes(t, "alone")
  /\ UNCHANGED joining

\* A listener takes the connection at once, into its backlog.
Connect(t) ==
  /\ t = Connector /\ status[t] = "starting"
  /\ IF status[Listener] = "accepting" THEN Becomes(t, "running")
     ELSE IF tries + 1 = MaxTries THEN Becomes(t, "alone") ELSE Becomes(t, "starting")
  /\ tries' = tries + 1 /\ joined' = (status[Listener] = "accepting") /\ UNCHANGED waits
Accept(t) ==
  /\ t = Listener /\ status[t] = "accepting" /\ joined
  /\ Becomes(t, "running") /\ UNCHANGED joining

\* The orchestrator waits for the output of party 1, then for that of party 0.
WaitFor(t) ==
  /\ waits # <<>> /\ Head(waits) = t /\ t \in Ended
  /\ waits' = Tail(waits)
  /\ UNCHANGED <<program, capacity, at, doing, status, tries, joined, link>>
-----------------------------------------------------------------------------
Call(t) == program[t][at[t].call]
Idle(t) == status[t] = "running" /\ doing[t] = {}
Sends(stage, p) == {op \in stage : op.kind = "send" /\ op.party = p}

\* The futures of the next stage are polled for the first time: every send
\* takes its gate and begins to write its frame.
BeginStage(t) ==
  LET stage == Call(t)[at[t].stage + 1]
  IN  /\ Idle(t)
      /\ at[t].call <= Len(program[t]) /\ at[t].stage < Len(Call(t))
      /\ \A op \in stage : op.size <= MaxPayload
      /\ at' = [at EXCEPT ![t].stage = @ + 1]
      /\ doing' = [doing EXCEPT ![t] = stage]
      /\ gate' = [p \in Parties |-> gate[p] + (IF Sends(stage, p) = {} THEN 0 ELSE 1)]
      /\ sent' = [p \in Parties |->
           IF Sends(stage, p) = {} THEN sent[p]
           ELSE Append(sent[p], [gate |-> gate[p],
                                 size |-> Header + (CHOOSE op \in Sends(stage, p) : TRUE).size])]
      /\ route' = [p \in Parties |-> IF Sends(stage, p) = {} THEN route[p] ELSE gate[p]]
      /\ UNCHANGED <<program, capacity, status, joining, put, taken, got>>

Fail(t) ==
  /\ status' = [status EXCEPT ![t] = "failed"]
  /\ doing' = [doing EXCEPT ![t] = {}]

\* A payload above the limit fails its send before anything is written; the
\* error ends the program and drops both sessions of the task.
SendTooLarge(t) ==
  /\ Idle(t)
  /\ at[t].call <= Len(program[t]) /\ at[t].stage < Len(Call(t))
  /\ \E op \in Call(t)[at[t].stage + 1] : op.size > MaxPayload
  /\ Fail(t)
  /\ UNCHANGED <<program, capacity, at, joining, link>>

NextCall(t) ==
  /\ Idle(t)
  /\ at[t].call <= Len(program[t]) /\ at[t].stage = Len(Call(t))
  /\ at' = [at EXCEPT ![t] = [call |-> @.call + 1, stage |-> 0]]
  /\ UNCHANGED <<program, capacity, doing, status, joining, link>>

Finish(t) ==
  /\ Idle(t)
  /\ at[t].call > Len(program[t])
  /\ status' = [status EXCEPT ![t] = "done"]
  /\ UNCHANGED <<program, capacity, at, doing, joining, link>>
-----------------------------------------------------------------------------
\* Units in the first k frames of p.
UnitSums(frames) ==
  LET sum[k \in 0 .. Len(frames)] == IF k = 0 THEN 0 ELSE sum[k - 1] + frames[k].size IN sum
Units(p, k) == UnitSums(sent[p])[k]
Room(p) == put[p] - taken[p] < capacity

\* n units are all of what p has begun to write.
Written(p, n) == n = Units(p, Len(sent[p]))

\* The socket takes a unit of a frame that is being written; the send returns
\* with the last one.
WriteUnit(t, op) ==
  LET p == op.party
  IN  /\ op \in doing[t] /\ op.kind = "send"
      /\ Room(p)
      /\ put' = [put EXCEPT ![p] = @ + 1]
      /\ doing' = [doing EXCEPT ![t] = IF Written(p, put[p] + 1) THEN @ \ {op} ELSE @]
      /\ UNCHANGED <<program, capacity, at, status, joining, gate, sent, taken, got, route>>

RouteOfReceiver(op, found) == op.kind = "recv any" \/ found = route[op.party]
RouteMatches(op, found) == op.kind = "recv any" \/ found = route[Other(op.party)]

\* A receive takes a unit; with the last one of a frame it compares the route
\* and returns, or fails the call.
ReadUnit(t, op) ==
  LET q == Other(op.party)
      whole == taken[q] + 1 = Units(q, got[q] + 1)
  IN  /\ op \in doing[t] /\ op.kind # "send"
      /\ taken[q] < put[q]
      /\ taken' = [taken EXCEPT ![q] = @ + 1]
      /\ got' = [got EXCEPT ![q] = IF whole THEN @ + 1 ELSE @]
      /\ IF ~whole
           THEN UNCHANGED <<doing, status>>
           ELSE IF RouteMatches(op, sent[q][got[q] + 1].gate)
             THEN doing' = [doing EXCEPT ![t] = @ \ {op}] /\ UNCHANGED status
             ELSE Fail(t)
      /\ UNCHANGED <<program, capacity, at, joining, gate, sent, put, route>>

\* Another process of the two is gone.
PeerGone(t) == (Tasks \ {t}) \cap Ended # {}

\* A read finds the end of the stream; a write to a closed socket fails.
TransportFails(t, op) ==
  /\ op \in doing[t]
  /\ PeerGone(t)
  /\ op.kind # "send" => taken[Other(op.party)] = put[Other(op.party)]
  /\ Fail(t)
  /\ UNCHANGED <<program, capacity, at, joining, link>>

Crash(t) ==
  /\ t \notin Ended
  /\ status' = [status EXCEPT ![t] = "crashed"]
  /\ doing' = [doing EXCEPT ![t] = {}]
  /\ UNCHANGED <<program, capacity, at, joining, link>>
-----------------------------------------------------------------------------
Write(t) == \E op \in doing[t] : WriteUnit(t, op)
Read(t) == \E op \in doing[t] : ReadUnit(t, op)
FailTransport(t) == \E op \in doing[t] : TransportFails(t, op)

Progress(t) ==
  \/ Bind(t) \/ Connect(t) \/ Accept(t) \/ WaitFor(t)
  \/ BeginStage(t) \/ SendTooLarge(t) \/ NextCall(t) \/ Finish(t)
  \/ Write(t) \/ Read(t) \/ FailTransport(t)

Next ==
  \/ \E t \in TaskNames : t \in Tasks /\ Bind(t)
  \/ \E t \in TaskNames : t \in Tasks /\ Connect(t)
  \/ \E t \in TaskNames : t \in Tasks /\ Accept(t)
  \/ \E t \in TaskNames : t \in Tasks /\ WaitFor(t)
  \/ \E t \in TaskNames : t \in Tasks /\ BeginStage(t)
  \/ \E t \in TaskNames : t \in Tasks /\ SendTooLarge(t)
  \/ \E t \in TaskNames : t \in Tasks /\ NextCall(t)
  \/ \E t \in TaskNames : t \in Tasks /\ Finish(t)
  \/ \E t \in TaskNames : t \in Tasks /\ Write(t)
  \/ \E t \in TaskNames : t \in Tasks /\ Read(t)
  \/ \E t \in TaskNames : t \in Tasks /\ FailTransport(t)
  \/ \E t \in TaskNames : t \in Tasks /\ Crash(t)

Spec == Init /\ [][Next]_vars

\* block_on polls its future whenever the socket wakes it.
FairSpec == Spec /\ \A t \in TaskNames : WF_vars(t \in Tasks /\ Progress(t))
-----------------------------------------------------------------------------
Running == Tasks \ Ended
AllDone == \A t \in Tasks : status[t] = "done"

\* Every frame of the program fits the limit and, header included, the socket.
Frames(t) == UNION {UNION ToSet(program[t][i]) : i \in DOMAIN program[t]}
WithinLimit == \A t \in Tasks : \A op \in Frames(t) : op.size <= MaxPayload
FitsSocket == \A t \in Tasks : \A op \in Frames(t) :
                op.kind = "send" => Header + op.size <= capacity

\* The listener accepts, and nobody is left that will connect.
LeftWaiting ==
  Listener \in Tasks /\ status[Listener] = "accepting" /\ ~joined /\ Connector \in Ended
NoCrash == \A t \in Tasks : status[t] # "crashed"
FoundInTime == Listener \in Tasks /\ status[Listener] = "accepting" /\ tries < MaxTries

\* One thread that runs both parties gets to the end exactly when each of its
\* frames fits the socket: a frame is written to its end before anyone reads,
\* with try_join! as well, so a larger one waits for ever.  Two processes get to
\* the end, or fail together, whatever the size, and their orchestrator returns;
\* unless the connector has given up or died before the listener was there: that
\* one accepts for ever, and the orchestrator waits with it.  A listener that is
\* there before the last try is not left, if nobody dies.
Completes ==
  /\ (WithinLimit /\ (FitsSocket \/ Cardinality(Tasks) > 1)) ~> ((Running = {} /\ waits = <<>>) \/ LeftWaiting)
  /\ [](Cardinality(Tasks) = 1 /\ AllDone => FitsSocket)
  /\ [](FoundInTime /\ Connector \notin Ended => [](NoCrash => ~LeftWaiting))

\* No call fails unless a payload is too large or the process of the peer has
\* died: every frame read is the one whose route the call holds, and a process
\* that has finished its program owes the other nothing.
NoMismatch ==
  WithinLimit /\ NoCrash
    => \A t \in Tasks : status[t] # "failed"

\* A call that has returned leaves nothing on the socket for the next one to
\* read, in either direction, chunked or not.
CleanBetweenCalls ==
  \A t \in Tasks : Cardinality(Tasks) = 1 /\ status[t] \in {"running", "done"} /\ at[t].stage = 0 =>
    \A p \in Parties : taken[p] = Units(p, Len(sent[p])) /\ got[p] = Len(sent[p])

\* In the ping-pong, where receives take any route, the two parties are never
\* more than one frame apart, and a frame is read in the iteration it was sent
\* in.
Lockstep ==
  Cardinality(Tasks) = 2 =>
    /\ got[Server] <= got[Client] /\ got[Client] <= got[Server] + 1
    /\ Len(sent[Client]) - got[Server] \in {0, 1}
    /\ Len(sent[Server]) - got[Server] \in {0, 1}
=============================================================================
