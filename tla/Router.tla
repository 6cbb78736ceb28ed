------------------------------- MODULE Router -------------------------------
(***************************************************************************)
(* The frame demuxer of silent-net (routing.rs): a bounded channel per     *)
(* registered route, one task that owns the Router and dispatches the      *)
(* frames of a stream, and one task per receiver.  Every method takes      *)
(* &mut self, so nothing else happens to the routes while a dispatch waits *)
(* for room; receivers, which are owned elsewhere, go on reading and may   *)
(* be dropped at any time.                                                 *)
(*                                                                         *)
(* A frame is the number of its arrival.  A channel is the number of the   *)
(* registration that made it, so that the channels a key had one after the *)
(* other can be told apart.                                                *)
(***************************************************************************)
EXTENDS Naturals, Sequences

CONSTANTS
  Keys,          \* RouteKey: session, task, gate and message kind
  Capacity,      \* of every channel; mpsc::channel(0) panics
  MaxChannels,   \* bound: registrations
  MaxFrames      \* bound: frames that arrive

ASSUME RouterConstants ==
  /\ Capacity \in Nat \ {0}
  /\ MaxChannels \in Nat
  /\ MaxFrames \in Nat

VARIABLES
  routes,        \* routes[k]: channel of key k, or NoChannel
  keyOf,         \* keyOf[c]: key channel c was registered for; one per channel
  queue,         \* queue[c]: frames in channel c
  open,          \* channels whose receiver has not been dropped
  blocked,       \* the frame and channel of the dispatch that waits for room
  arrived,       \* history: arrived[f]: key of frame f
  home,          \* history: channel that accepted frame f, or NoChannel
  got,           \* history: got[c]: frames read from channel c
  ended          \* history: channels whose receiver has seen the end

vars == <<routes, keyOf, queue, open, blocked, arrived, home, got, ended>>

Channels == 1 .. MaxChannels
NoChannel == 0
Frames == 1 .. MaxFrames
NoDispatch == [frame |-> 0, channel |-> NoChannel]
Registered == 1 .. Len(keyOf)

Init ==
  /\ routes = [k \in Keys |-> NoChannel]
  /\ keyOf = <<>>
  /\ queue = [c \in Channels |-> <<>>]
  /\ open = {}
  /\ blocked = NoDispatch
  /\ arrived = <<>>
  /\ home = <<>>
  /\ got = [c \in Channels |-> <<>>]
  /\ ended = {}

\* No method of the Router runs while a dispatch holds &mut self.
ExclusiveIgnored == TRUE
Exclusive == blocked = NoDispatch
-----------------------------------------------------------------------------
RegisterDiscardsOld(k) ==
  /\ Exclusive
  /\ Len(keyOf) < MaxChannels
  /\ keyOf' = Append(keyOf, k)
  /\ routes' = [routes EXCEPT ![k] = Len(keyOf) + 1]
  /\ queue' = [c \in Channels |-> IF c = routes[k] THEN <<>> ELSE queue[c]]
  /\ open' = open \union {Len(keyOf) + 1}
  /\ UNCHANGED <<blocked, arrived, home, got, ended>>

\* A channel the key already had loses its sender and keeps its frames.
Register(k) ==
  /\ Exclusive
  /\ Len(keyOf) < MaxChannels
  /\ keyOf' = Append(keyOf, k)
  /\ routes' = [routes EXCEPT ![k] = Len(keyOf) + 1]
  /\ open' = open \union {Len(keyOf) + 1}
  /\ UNCHANGED <<queue, blocked, arrived, home, got, ended>>

Deregister(k) ==
  /\ Exclusive
  /\ routes[k] # NoChannel
  /\ routes' = [routes EXCEPT ![k] = NoChannel]
  /\ UNCHANGED <<keyOf, queue, open, blocked, arrived, home, got, ended>>

Clear ==
  /\ Exclusive
  /\ routes' = [k \in Keys |-> NoChannel]
  /\ UNCHANGED <<keyOf, queue, open, blocked, arrived, home, got, ended>>
-----------------------------------------------------------------------------
HasRoom(c) == Len(queue[c]) < Capacity

\* Frame number Len(arrived) + 1 comes in, for key k.
Arrive(k) ==
  /\ Exclusive
  /\ Len(arrived) < MaxFrames
  /\ arrived' = Append(arrived, k)

\* The frame that has just arrived goes into channel c, or nowhere.
Accept(c) ==
  /\ queue' = [queue EXCEPT ![c] = Append(@, Len(arrived) + 1)]
  /\ home' = Append(home, c)
Refuse == home' = Append(home, NoChannel) /\ UNCHANGED queue

DispatchUnbounded(k) ==
  /\ Arrive(k)
  /\ routes[k] \in open
  /\ Accept(routes[k])
  /\ UNCHANGED <<routes, keyOf, open, blocked, got, ended>>

\* try_dispatch, dispatch_blocking and dispatch_or_drop with a route, a live
\* receiver and room.
Dispatch(k) ==
  /\ Arrive(k)
  /\ routes[k] \in open
  /\ HasRoom(routes[k])
  /\ Accept(routes[k])
  /\ UNCHANGED <<routes, keyOf, open, blocked, got, ended>>

\* The three of them without a route or with a dropped receiver.
DispatchRefused(k) ==
  /\ Arrive(k)
  /\ routes[k] \notin open
  /\ Refuse
  /\ UNCHANGED <<routes, keyOf, open, blocked, got, ended>>

\* try_dispatch drops the frame when the channel is full.
TryDispatchFull(k) ==
  /\ Arrive(k)
  /\ routes[k] \in open
  /\ ~HasRoom(routes[k])
  /\ Refuse
  /\ UNCHANGED <<routes, keyOf, open, blocked, got, ended>>

\* dispatch_blocking and dispatch_or_drop wait; the outcome is written into
\* the place home keeps for the frame.
DispatchWaits(k) ==
  /\ Arrive(k)
  /\ routes[k] \in open
  /\ ~HasRoom(routes[k])
  /\ blocked' = [frame |-> Len(arrived) + 1, channel |-> routes[k]]
  /\ Refuse
  /\ UNCHANGED <<routes, keyOf, open, got, ended>>

Unblock ==
  LET c == blocked.channel
  IN  /\ c \in open
      /\ HasRoom(c)
      /\ queue' = [queue EXCEPT ![c] = Append(@, blocked.frame)]
      /\ home' = [home EXCEPT ![blocked.frame] = c]
      /\ blocked' = NoDispatch
      /\ UNCHANGED <<routes, keyOf, open, arrived, got, ended>>

\* The receiver was dropped meanwhile: the frame is given back or dropped.
StaysBlocked == FALSE /\ UNCHANGED vars
UnblockRefused ==
  /\ blocked # NoDispatch
  /\ blocked.channel \notin open
  /\ blocked' = NoDispatch
  /\ UNCHANGED <<routes, keyOf, queue, open, arrived, home, got, ended>>

\* The future of a dispatch that waits is dropped, and its frame with it.
CancelDispatch ==
  /\ blocked # NoDispatch
  /\ blocked' = NoDispatch
  /\ UNCHANGED <<routes, keyOf, queue, open, arrived, home, got, ended>>
-----------------------------------------------------------------------------
Recv(c) ==
  /\ c \in open
  /\ queue[c] # <<>>
  /\ got' = [got EXCEPT ![c] = Append(@, Head(queue[c]))]
  /\ queue' = [queue EXCEPT ![c] = Tail(@)]
  /\ UNCHANGED <<routes, keyOf, open, blocked, arrived, home, ended>>

\* recv returns None: the sender is gone and the channel is empty.
Ends(c) == queue[c] = <<>> /\ \A k \in Keys : routes[k] # c

RecvEnd(c) ==
  /\ c \in open \ ended
  /\ Ends(c)
  /\ ended' = ended \union {c}
  /\ UNCHANGED <<routes, keyOf, queue, open, blocked, arrived, home, got>>

DropReceiver(c) ==
  /\ c \in open
  /\ open' = open \ {c}
  /\ queue' = [queue EXCEPT ![c] = <<>>]
  /\ UNCHANGED <<routes, keyOf, blocked, arrived, home, got, ended>>
-----------------------------------------------------------------------------
Next ==
  \/ \E k \in Keys : Register(k) \/ Deregister(k)
  \/ Clear
  \/ \E k \in Keys : Dispatch(k) \/ DispatchRefused(k) \/ TryDispatchFull(k) \/ DispatchWaits(k)
  \/ Unblock \/ UnblockRefused \/ CancelDispatch
  \/ \E c \in Channels : Recv(c) \/ RecvEnd(c) \/ DropReceiver(c)

Spec == Init /\ [][Next]_vars

\* The executor polls a dispatch that can go on, and every receiver is read by
\* a task of its own; nothing is registered, dispatched, cancelled or dropped
\* out of fairness.
FairSpec ==
  /\ Spec
  /\ WF_vars(Unblock) /\ WF_vars(UnblockRefused)
  /\ \A c \in Channels : WF_vars(Recv(c))
-----------------------------------------------------------------------------
\* The shape of the state; no channel holds more than its capacity.
TypeOK ==
  /\ routes \in [Keys -> Channels \union {NoChannel}]
  /\ keyOf \in Seq(Keys) /\ Len(keyOf) <= MaxChannels
  /\ queue \in [Channels -> Seq(Frames)]
  /\ \A c \in Channels : Len(queue[c]) <= Capacity
  /\ open \subseteq Registered
  /\ blocked \in [frame : Frames, channel : Channels] \union {NoDispatch}
  /\ arrived \in Seq(Keys) /\ Len(arrived) <= MaxFrames
  /\ home \in Seq(Channels \union {NoChannel}) /\ Len(home) = Len(arrived)
  /\ got \in [Channels -> Seq(Frames)]
  /\ ended \subseteq Registered

\* Everything channel c was given and has not lost with its receiver.
Through(c) == got[c] \o queue[c]
Holds(c, f) == \E i \in 1 .. Len(Through(c)) : Through(c)[i] = f

\* A frame that a dispatch accepted sits in, or has been read from, a channel
\* of its own key as long as that channel's receiver lives, whatever is
\* registered, deregistered or cleared after it.
AcceptedNotLost ==
  \A f \in 1 .. Len(home) :
    LET c == home[f]
    IN  c # NoChannel => keyOf[c] = arrived[f] /\ (c \in open => Holds(c, f))

\* A channel yields frames it accepted, each once and in the order of their
\* arrival; and of two channels a key had, the frames of the later one arrived
\* after all those of the earlier one, so that a reader that drains the old
\* receiver before the new one sees the frames of the key in order.
ChannelOrder ==
  \A c \in Channels :
    /\ \A i \in 1 .. Len(Through(c)) :
         Through(c)[i] \in 1 .. Len(home) /\ home[Through(c)[i]] = c
    /\ \A i, j \in 1 .. Len(Through(c)) : i < j => Through(c)[i] < Through(c)[j]

RegistrationOrder ==
  \A e, f \in 1 .. Len(home) :
    /\ home[e] # NoChannel /\ home[f] # NoChannel
    /\ arrived[e] = arrived[f] /\ home[e] < home[f]
    => e < f

ArrivalOrder == ChannelOrder /\ RegistrationOrder

\* A receiver that has seen the end has read every frame its channel accepted,
\* and the channel never accepts another.
EndIsFinal ==
  \A c \in ended : \A f \in 1 .. Len(home) :
    home[f] = c => \E i \in 1 .. Len(got[c]) : got[c][i] = f

\* A dispatch that waits for room returns: the receiver reads on or goes away.
DispatchReturns == blocked # NoDispatch ~> blocked = NoDispatch
=============================================================================
