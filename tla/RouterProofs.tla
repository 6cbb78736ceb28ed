---------------------------- MODULE RouterProofs ----------------------------
(* Theorems about Router for any keys, capacity and number of frames.       *)
EXTENDS Router, SequenceTheorems, TLAPS

\* Reading the head of a channel moves it from one part of Through to the other.
LEMMA MoveHead ==
  ASSUME NEW S, NEW s \in Seq(S), NEW t \in Seq(S), t # <<>>
  PROVE  Append(s, Head(t)) \o Tail(t) = s \o t
<1>1. /\ Head(t) \in S /\ Tail(t) \in Seq(S) /\ Len(Tail(t)) = Len(t) - 1
      /\ \A i \in 1 .. Len(Tail(t)) : Tail(t)[i] = t[i + 1]
      /\ Head(t) = t[1] /\ Len(t) \in Nat /\ Len(t) > 0
  BY HeadTailProperties, EmptySeq, LenProperties
<1>2. /\ Append(s, Head(t)) \in Seq(S) /\ Len(Append(s, Head(t))) = Len(s) + 1
      /\ \A i \in 1 .. Len(s) : Append(s, Head(t))[i] = s[i]
      /\ Append(s, Head(t))[Len(s) + 1] = Head(t)
  BY <1>1, AppendProperties
<1> DEFINE a == Append(s, Head(t)) \o Tail(t)
<1> DEFINE b == s \o t
<1>3. a \in Seq(S) /\ b \in Seq(S) /\ Len(a) = Len(s) + Len(t) /\ Len(b) = Len(s) + Len(t)
  BY <1>1, <1>2, ConcatProperties, LenProperties
<1>4. ASSUME NEW i \in 1 .. Len(a) PROVE a[i] = b[i]
  <2>1. CASE i <= Len(s)
    BY <2>1, <1>1, <1>2, <1>3, ConcatProperties, LenProperties
  <2>2. CASE i = Len(s) + 1
    BY <2>2, <1>1, <1>2, <1>3, ConcatProperties, LenProperties
  <2>3. CASE i > Len(s) + 1
    <3>1. i - Len(Append(s, Head(t))) \in 1 .. Len(Tail(t)) /\ i - Len(s) \in 1 .. Len(t)
      BY <2>3, <1>1, <1>2, <1>3, LenProperties
    <3>2. a[i] = Tail(t)[i - (Len(s) + 1)]
      BY <3>1, <2>3, <1>1, <1>2, <1>3, ConcatProperties, LenProperties
    <3>3. b[i] = t[i - Len(s)]
      BY <3>1, <2>3, <1>1, <1>3, ConcatProperties, LenProperties
    <3>4. Tail(t)[i - (Len(s) + 1)] = t[i - Len(s)]
      BY <3>1, <1>1, <1>2, LenProperties
    <3> QED BY <3>2, <3>3, <3>4
  <2> QED BY <2>1, <2>2, <2>3, <1>3, LenProperties
<1> QED BY <1>3, <1>4, SeqEqual

\* Putting a frame into a channel puts it at the end of Through.
LEMMA ConcatAppend ==
  ASSUME NEW S, NEW s \in Seq(S), NEW t \in Seq(S), NEW x \in S
  PROVE  s \o Append(t, x) = Append(s \o t, x)
<1> DEFINE a == s \o Append(t, x)
<1> DEFINE b == Append(s \o t, x)
<1>1. /\ Append(t, x) \in Seq(S) /\ Len(Append(t, x)) = Len(t) + 1
      /\ \A i \in 1 .. Len(t) : Append(t, x)[i] = t[i]
      /\ Append(t, x)[Len(t) + 1] = x
  BY AppendProperties
<1>2. /\ s \o t \in Seq(S) /\ Len(s \o t) = Len(s) + Len(t)
      /\ \A i \in 1 .. Len(s) + Len(t) : (s \o t)[i] = IF i <= Len(s) THEN s[i] ELSE t[i - Len(s)]
  BY ConcatProperties, LenProperties
<1>3. a \in Seq(S) /\ Len(a) = Len(s) + Len(t) + 1
  BY <1>1, ConcatProperties, LenProperties
<1>4. b \in Seq(S) /\ Len(b) = Len(s) + Len(t) + 1
  BY <1>2, AppendProperties, LenProperties
<1>5. ASSUME NEW i \in 1 .. Len(a) PROVE a[i] = b[i]
  <2>1. CASE i <= Len(s)
    BY <2>1, <1>1, <1>2, <1>3, ConcatProperties, AppendProperties, LenProperties
  <2>2. CASE i > Len(s) /\ i <= Len(s) + Len(t)
    BY <2>2, <1>1, <1>2, <1>3, ConcatProperties, AppendProperties, LenProperties
  <2>3. CASE i = Len(s) + Len(t) + 1
    BY <2>3, <1>1, <1>2, <1>3, ConcatProperties, AppendProperties, LenProperties
  <2> QED BY <2>1, <2>2, <2>3, <1>3, LenProperties
<1> QED BY <1>3, <1>4, <1>5, SeqEqual

-----------------------------------------------------------------------------
LEMMA ArriveFacts ==
  ASSUME TypeOK, NEW k \in Keys, Arrive(k)
  PROVE  /\ arrived' \in Seq(Keys) /\ Len(arrived') = Len(arrived) + 1
         /\ Len(arrived') <= MaxFrames /\ Len(arrived) + 1 \in Frames
         /\ \A i \in 1 .. Len(arrived) : arrived'[i] = arrived[i]
         /\ arrived'[Len(arrived) + 1] = k
BY RouterConstants, AppendProperties DEF TypeOK, Arrive, Frames

LEMMA HomeAppends ==
  ASSUME TypeOK, NEW c \in Channels \union {NoChannel}, home' = Append(home, c)
  PROVE  /\ home' \in Seq(Channels \union {NoChannel}) /\ Len(home') = Len(arrived) + 1
         /\ \A i \in 1 .. Len(arrived) : home'[i] = home[i]
         /\ home'[Len(arrived) + 1] = c
BY AppendProperties DEF TypeOK

LEMMA OpenIsChannel == TypeOK => open \subseteq Channels /\ NoChannel \notin open
BY RouterConstants DEF TypeOK, Registered, Channels, NoChannel

\* A dispatch that got through overwrites the outcome of its frame.
LEMMA UnblockHome ==
  ASSUME TypeOK, Unblock
  PROVE  /\ home' \in Seq(Channels \union {NoChannel}) /\ Len(home') = Len(home)
         /\ \A j \in 1 .. Len(home) :
              home'[j] = IF j = blocked.frame THEN blocked.channel ELSE home[j]
<1> DEFINE S == Channels \union {NoChannel}
<1>1. home \in Seq(S) /\ blocked.channel \in S
  BY OpenIsChannel DEF TypeOK, Unblock
<1>2. home' = [home EXCEPT ![blocked.frame] = blocked.channel]
  BY DEF Unblock
<1> HIDE DEF S
<1>3. home \in [1 .. Len(home) -> S] /\ Len(home) \in Nat
  BY <1>1, LenProperties
<1>4. home' \in [1 .. Len(home) -> S]
  BY <1>1, <1>2, <1>3
<1>5. home' \in Seq(S)
  BY <1>3, <1>4, SeqDef
<1>6. Len(home') = Len(home)
  BY <1>3, <1>4, <1>5, LenProperties
<1> QED BY <1>2, <1>3, <1>5, <1>6 DEF S

LEMMA TypeInit == Init => TypeOK
BY RouterConstants DEF Init, TypeOK, Channels, Registered, NoDispatch, Frames

\* Putting one frame into a channel with room.
LEMMA PutType ==
  ASSUME TypeOK, NEW c \in Channels, NEW f \in Frames, HasRoom(c),
         queue' = [queue EXCEPT ![c] = Append(@, f)]
  PROVE  /\ queue' \in [Channels -> Seq(Frames)]
         /\ \A d \in Channels : Len(queue'[d]) <= Capacity
<1>1. queue[c] \in Seq(Frames)
  BY DEF TypeOK
<1>2. Append(queue[c], f) \in Seq(Frames) /\ Len(Append(queue[c], f)) = Len(queue[c]) + 1
  BY <1>1, AppendProperties
<1>3. \A d \in Channels : queue'[d] = IF d = c THEN Append(queue[c], f) ELSE queue[d]
  BY DEF TypeOK
<1>4. Len(queue[c]) \in Nat
  BY <1>1, LenProperties
<1> QED BY <1>2, <1>3, <1>4, RouterConstants DEF TypeOK, HasRoom

LEMMA TypeStep == TypeOK /\ [Next]_vars => TypeOK'
<1> SUFFICES ASSUME TypeOK, [Next]_vars PROVE TypeOK'
  OBVIOUS
<1>1. ASSUME NEW k \in Keys, Register(k) PROVE TypeOK'
  <2>1. /\ keyOf' \in Seq(Keys) /\ Len(keyOf') = Len(keyOf) + 1 /\ Len(keyOf') <= MaxChannels
        /\ Len(keyOf) + 1 \in Channels
    BY <1>1, AppendProperties, RouterConstants DEF Register, TypeOK, Channels
  <2>2. Registered \subseteq Registered' /\ Len(keyOf) + 1 \in Registered'
    BY <2>1, LenProperties DEF Registered, TypeOK
  <2>3. routes' \in [Keys -> Channels \union {NoChannel}]
    BY <2>1, <1>1 DEF Register, TypeOK
  <2> QED BY <2>1, <2>2, <2>3, <1>1 DEF Register, TypeOK
<1>2. ASSUME NEW k \in Keys, Deregister(k) PROVE TypeOK'
  BY <1>2 DEF Deregister, TypeOK, Registered
<1>3. CASE Clear
  BY <1>3 DEF Clear, TypeOK, Registered
<1>4. ASSUME NEW k \in Keys, Dispatch(k) PROVE TypeOK'
  <2> DEFINE c == routes[k]
  <2>1. c \in Channels /\ Arrive(k) /\ HasRoom(c) /\ Accept(c)
    BY <1>4, OpenIsChannel DEF Dispatch
  <2>2. /\ queue' \in [Channels -> Seq(Frames)]
        /\ \A d \in Channels : Len(queue'[d]) <= Capacity
    BY <2>1, ArriveFacts, PutType DEF Accept
  <2> HIDE DEF c
  <2>3. home' \in Seq(Channels \union {NoChannel}) /\ Len(home') = Len(arrived) + 1
    BY <2>1, HomeAppends DEF Accept
  <2> QED BY <1>4, <2>1, <2>2, <2>3, ArriveFacts DEF Dispatch, TypeOK, Registered
<1>5. ASSUME NEW k \in Keys, DispatchRefused(k) \/ TryDispatchFull(k) \/ DispatchWaits(k)
      PROVE TypeOK'
  <2>1. Arrive(k) /\ Refuse
    BY <1>5 DEF DispatchRefused, TryDispatchFull, DispatchWaits
  <2>2. home' \in Seq(Channels \union {NoChannel}) /\ Len(home') = Len(arrived) + 1
    BY <2>1, HomeAppends DEF Refuse
  <2>3. blocked' \in [frame : Frames, channel : Channels] \union {NoDispatch}
    BY <1>5, <2>1, ArriveFacts, OpenIsChannel
    DEF DispatchRefused, TryDispatchFull, DispatchWaits, TypeOK
  <2> QED BY <1>5, <2>1, <2>2, <2>3, ArriveFacts
    DEF DispatchRefused, TryDispatchFull, DispatchWaits, Refuse, TypeOK, Registered
<1>6. CASE Unblock
  <2>1. blocked.channel \in Channels
    BY <1>6, OpenIsChannel DEF Unblock
  <2>2. blocked.frame \in Frames
    BY <2>1 DEF TypeOK, NoDispatch, NoChannel, Channels
  <2>3. /\ queue' \in [Channels -> Seq(Frames)]
        /\ \A d \in Channels : Len(queue'[d]) <= Capacity
    BY <1>6, <2>1, <2>2, PutType DEF Unblock
  <2>4. home' \in Seq(Channels \union {NoChannel}) /\ Len(home') = Len(home)
    BY <1>6, UnblockHome
  <2> QED BY <1>6, <2>3, <2>4 DEF Unblock, TypeOK, Registered
<1>7. CASE UnblockRefused \/ CancelDispatch
  BY <1>7 DEF UnblockRefused, CancelDispatch, TypeOK, Registered
<1>8. ASSUME NEW c \in Channels, Recv(c) PROVE TypeOK'
  <2>1. queue[c] \in Seq(Frames) /\ queue[c] # <<>> /\ got[c] \in Seq(Frames)
    BY <1>8 DEF Recv, TypeOK
  <2>2. /\ Head(queue[c]) \in Frames /\ Tail(queue[c]) \in Seq(Frames)
        /\ Len(Tail(queue[c])) = Len(queue[c]) - 1 /\ Len(queue[c]) \in Nat
    BY <2>1, HeadTailProperties, LenProperties
  <2>3. Append(got[c], Head(queue[c])) \in Seq(Frames)
    BY <2>1, <2>2, AppendProperties
  <2>4. \A d \in Channels : queue'[d] = IF d = c THEN Tail(queue[c]) ELSE queue[d]
    BY <1>8 DEF Recv, TypeOK
  <2>5. \A d \in Channels : Len(queue'[d]) <= Capacity
    <3> SUFFICES ASSUME NEW d \in Channels PROVE Len(queue'[d]) <= Capacity
      OBVIOUS
    <3>1. Len(queue[d]) <= Capacity /\ Len(queue[d]) \in Nat
      BY LenProperties DEF TypeOK
    <3>2. CASE d = c
      <4>1. Len(queue'[d]) = Len(queue[d]) - 1
        BY <2>2, <2>4, <3>2
      <4> QED BY <3>1, <4>1, RouterConstants
    <3>3. CASE d # c
      BY <2>4, <3>1, <3>3
    <3> QED BY <3>2, <3>3
  <2> QED BY <1>8, <2>2, <2>3, <2>5 DEF Recv, TypeOK, Registered
<1>9. ASSUME NEW c \in Channels, RecvEnd(c) PROVE TypeOK'
  BY <1>9 DEF RecvEnd, TypeOK, Registered
<1>10. ASSUME NEW c \in Channels, DropReceiver(c) PROVE TypeOK'
  <2>1. <<>> \in Seq(Frames) /\ Len(<<>>) = 0
    BY EmptySeq
  <2> QED BY <1>10, <2>1, RouterConstants DEF DropReceiver, TypeOK, Registered
<1>11. CASE UNCHANGED vars
  BY <1>11 DEF vars, TypeOK, Registered
<1> QED
  BY <1>1, <1>2, <1>3, <1>4, <1>5, <1>6, <1>7, <1>8, <1>9, <1>10, <1>11 DEF Next

\* The state keeps its shape, and no channel holds more than its capacity.
THEOREM RouterTypeCorrect == Spec => []TypeOK
<1> QED BY TypeInit, TypeStep, PTL DEF Spec

-----------------------------------------------------------------------------
(***************************************************************************)
(* Frames are not lost and keep their order.  The invariant adds to the    *)
(* properties what makes them inductive: a route points to the youngest    *)
(* channel of its key, a frame that waits is the last one that arrived and *)
(* waits for the channel its key still has, an outcome names a channel of  *)
(* the frame's key, and a receiver that saw the end has no sender.         *)
(***************************************************************************)
RouteCurrent ==
  \A k \in Keys : routes[k] # NoChannel =>
    /\ routes[k] \in Registered
    /\ keyOf[routes[k]] = k
    /\ \A d \in Registered : keyOf[d] = k => d <= routes[k]

BlockedLast ==
  blocked # NoDispatch =>
    /\ blocked.frame = Len(home) /\ Len(home) > 0
    /\ home[blocked.frame] = NoChannel
    /\ blocked.channel # NoChannel
    /\ blocked.channel = routes[arrived[blocked.frame]]

HomeRegistered ==
  \A f \in 1 .. Len(home) : home[f] # NoChannel =>
    home[f] \in Registered /\ keyOf[home[f]] = arrived[f]

EndedUnrouted == \A c \in ended, k \in Keys : routes[k] # c

Bookkeeping == RouteCurrent /\ BlockedLast /\ HomeRegistered /\ EndedUnrouted

RouterInv ==
  /\ TypeOK /\ Bookkeeping
  /\ AcceptedNotLost /\ ChannelOrder /\ RegistrationOrder /\ EndIsFinal

LEMMA ThroughType ==
  ASSUME TypeOK, NEW c \in Channels
  PROVE  Through(c) \in Seq(Frames) /\ Len(Through(c)) \in Nat
BY ConcatProperties, LenProperties DEF TypeOK, Through

LEMMA ThroughPut ==
  ASSUME TypeOK, NEW c \in Channels, NEW f \in Frames,
         queue' = [queue EXCEPT ![c] = Append(@, f)], got' = got
  PROVE  \A d \in Channels :
           Through(d)' = IF d = c THEN Append(Through(c), f) ELSE Through(d)
<1> SUFFICES ASSUME NEW d \in Channels
             PROVE Through(d)' = IF d = c THEN Append(Through(c), f) ELSE Through(d)
  OBVIOUS
<1>1. queue'[d] = (IF d = c THEN Append(queue[c], f) ELSE queue[d]) /\ got'[d] = got[d]
  BY DEF TypeOK
<1>2. got[c] \in Seq(Frames) /\ queue[c] \in Seq(Frames)
  BY DEF TypeOK
<1>3. \A s, t \in Seq(Frames) : s \o Append(t, f) = Append(s \o t, f)
  BY ConcatAppend
<1>4. CASE d = c
  <2>1. queue'[d] = Append(queue[c], f) /\ got'[d] = got[c]
    BY <1>1, <1>4
  <2>2. Through(d)' = got[c] \o Append(queue[c], f)
    BY <2>1 DEF Through
  <2>3. got[c] \o Append(queue[c], f) = Append(Through(c), f)
    BY <1>2, <1>3 DEF Through
  <2> QED BY <1>4, <2>2, <2>3
<1>5. CASE d # c
  <2>1. queue'[d] = queue[d] /\ got'[d] = got[d]
    BY <1>1, <1>5
  <2>2. Through(d)' = Through(d)
    BY <2>1 DEF Through
  <2> QED BY <1>5, <2>2
<1> QED BY <1>4, <1>5

LEMMA ThroughRecv ==
  ASSUME TypeOK, NEW c \in Channels, Recv(c)
  PROVE  \A d \in Channels : Through(d)' = Through(d)
<1> SUFFICES ASSUME NEW d \in Channels PROVE Through(d)' = Through(d)
  OBVIOUS
<1>1. /\ queue'[d] = IF d = c THEN Tail(queue[c]) ELSE queue[d]
      /\ got'[d] = IF d = c THEN Append(got[c], Head(queue[c])) ELSE got[d]
      /\ queue[c] # <<>>
  BY DEF TypeOK, Recv
<1>2. got[c] \in Seq(Frames) /\ queue[c] \in Seq(Frames)
  BY DEF TypeOK
<1>3. Append(got[c], Head(queue[c])) \o Tail(queue[c]) = got[c] \o queue[c]
  BY <1>1, <1>2, MoveHead
<1> QED BY <1>1, <1>3 DEF Through

LEMMA ThroughDrop ==
  ASSUME TypeOK, NEW c \in Channels, DropReceiver(c)
  PROVE  /\ \A d \in Channels \ {c} : Through(d)' = Through(d)
         /\ Len(Through(c)') \in Nat /\ Len(Through(c)') <= Len(Through(c))
         /\ \A i \in 1 .. Len(Through(c)') : Through(c)'[i] = Through(c)[i]
<1>1. got[c] \in Seq(Frames) /\ queue[c] \in Seq(Frames)
  BY DEF TypeOK
<1>2. queue'[c] = <<>> /\ got'[c] = got[c]
  BY DEF DropReceiver, TypeOK
<1>3. Through(c)' = got[c]
  BY <1>1, <1>2, ConcatEmptySeq DEF Through
<1>4. \A d \in Channels \ {c} : Through(d)' = Through(d)
  BY DEF DropReceiver, TypeOK, Through
<1>5. \A s, t \in Seq(Frames) :
        /\ Len(s) \in Nat /\ Len(s) <= Len(s \o t)
        /\ \A i \in 1 .. Len(s) : (s \o t)[i] = s[i]
  BY ConcatProperties, LenProperties
<1>6. /\ Len(got[c]) \in Nat /\ Len(got[c]) <= Len(Through(c))
      /\ \A i \in 1 .. Len(got[c]) : Through(c)[i] = got[c][i]
  BY <1>1, <1>5 DEF Through
<1> HIDE DEF Through
<1> QED BY <1>3, <1>4, <1>6

\* Frame f, younger than every accepted frame, gets the outcome c; the other
\* outcomes and keys stay.
Outcome(f, c) ==
  /\ f \in 1 .. Len(home') /\ home'[f] = c
  /\ \A i \in 1 .. Len(home) :
       /\ i \in 1 .. Len(home') /\ arrived'[i] = arrived[i]
       /\ i # f => home'[i] = home[i]
       /\ home[i] # NoChannel => i < f
  /\ \A i \in 1 .. Len(home') : i # f => i \in 1 .. Len(home)

LEMMA ArriveOutcome ==
  ASSUME TypeOK, NEW k \in Keys, Arrive(k),
         NEW c \in Channels \union {NoChannel}, home' = Append(home, c)
  PROVE  Outcome(Len(home) + 1, c) /\ arrived'[Len(home) + 1] = k
                                  /\ Len(home') = Len(home) + 1
<1>1. Len(home) = Len(arrived) /\ Len(home) \in Nat
  BY LenProperties DEF TypeOK
<1> QED BY <1>1, ArriveFacts, HomeAppends DEF Outcome

\* A frame that is refused, or waits, changes nothing for the others.
LEMMA RefuseKeeps ==
  ASSUME RouterInv, NEW f, Outcome(f, NoChannel),
         UNCHANGED <<queue, got, keyOf, open, ended>>
  PROVE  /\ HomeRegistered' /\ AcceptedNotLost' /\ ChannelOrder'
         /\ RegistrationOrder' /\ EndIsFinal'
<1>1. \A c : Through(c)' = Through(c)
  BY DEF Through
<1>2. HomeRegistered'
  BY DEF Outcome, HomeRegistered, RouterInv, Bookkeeping, Registered
<1>3. AcceptedNotLost'
  BY <1>1 DEF Outcome, AcceptedNotLost, RouterInv, Holds
<1>4. ChannelOrder'
  BY <1>1 DEF Outcome, ChannelOrder, RouterInv, Channels, NoChannel
<1>5. RegistrationOrder'
  BY DEF Outcome, RegistrationOrder, RouterInv
<1>6. EndIsFinal'
  BY DEF Outcome, EndIsFinal, RouterInv, TypeOK, Registered, NoChannel
<1> QED BY <1>2, <1>3, <1>4, <1>5, <1>6

\* A frame that is accepted goes behind all others of its channel, which is
\* the youngest one of its key.
LEMMA AcceptKeeps ==
  ASSUME RouterInv, NEW c \in Channels, NEW f \in Frames, Outcome(f, c),
         c \in Registered, c \notin ended,
         keyOf[c] = arrived'[f],
         \A d \in Registered : keyOf[d] = keyOf[c] => d <= c,
         queue' = [queue EXCEPT ![c] = Append(@, f)],
         UNCHANGED <<got, keyOf, open, ended>>
  PROVE  /\ HomeRegistered' /\ AcceptedNotLost' /\ ChannelOrder'
         /\ RegistrationOrder' /\ EndIsFinal'
<1>1. \A d \in Channels : Through(d)' = IF d = c THEN Append(Through(c), f) ELSE Through(d)
  BY ThroughPut DEF RouterInv
<1>2. /\ Through(c) \in Seq(Frames) /\ Len(Through(c)) \in Nat
      /\ Len(Append(Through(c), f)) = Len(Through(c)) + 1
      /\ \A i \in 1 .. Len(Through(c)) : Append(Through(c), f)[i] = Through(c)[i]
      /\ Append(Through(c), f)[Len(Through(c)) + 1] = f
  BY ThroughType, AppendProperties DEF RouterInv
<1>3. HomeRegistered'
  BY DEF Outcome, HomeRegistered, RouterInv, Bookkeeping, Registered
<1>4. AcceptedNotLost'
  <2> SUFFICES ASSUME NEW g \in 1 .. Len(home'), home'[g] # NoChannel
               PROVE /\ keyOf'[home'[g]] = arrived'[g]
                     /\ home'[g] \in open' => Holds(home[g], g)'
    BY DEF AcceptedNotLost
  <2>1. CASE g = f
    <3>1. home'[g] = c /\ keyOf'[c] = arrived'[g]
      BY <2>1 DEF Outcome
    <3>2. Len(Through(c)) + 1 \in 1 .. Len(Through(c)') /\ Through(c)'[Len(Through(c)) + 1] = g
      BY <1>1, <1>2, <2>1
    <3>3. Holds(c, g)'
      BY <3>2 DEF Holds
    <3>4. Holds(home[g], g)'
      BY <3>1, <3>3 DEF Holds
    <3> QED BY <3>1, <3>4
  <2>2. CASE g # f
    <3>1. g \in 1 .. Len(home) /\ home'[g] = home[g] /\ arrived'[g] = arrived[g]
      BY <2>2 DEF Outcome
    <3>2. keyOf[home[g]] = arrived[g] /\ (home[g] \in open => Holds(home[g], g))
      BY <3>1 DEF RouterInv, AcceptedNotLost
    <3>3. ASSUME home[g] \in open PROVE Holds(home[g], g)'
      <4>1. home[g] \in Channels
        BY <3>3, OpenIsChannel DEF RouterInv
      <4>2. PICK i \in 1 .. Len(Through(home[g])) : Through(home[g])[i] = g
        BY <3>2, <3>3 DEF Holds
      <4>3. CASE home[g] = c
        <5>1. i \in 1 .. Len(Through(c)') /\ Through(c)'[i] = g
          BY <1>1, <1>2, <4>2, <4>3
        <5> QED BY <5>1, <4>3, <3>1 DEF Holds
      <4>4. CASE home[g] # c
        BY <1>1, <4>1, <4>2, <4>4, <3>1 DEF Holds
      <4> QED BY <4>3, <4>4
    <3>4. keyOf'[home'[g]] = arrived'[g]
      BY <3>1, <3>2
    <3>5. home'[g] \in open' => Holds(home[g], g)'
      BY <3>1, <3>3 DEF Holds
    <3> QED BY <3>4, <3>5
  <2> QED BY <2>1, <2>2
<1>5. ChannelOrder'
  <2> SUFFICES ASSUME NEW d \in Channels
               PROVE /\ \A i \in 1 .. Len(Through(d)') :
                          Through(d)'[i] \in 1 .. Len(home') /\ home'[Through(d)'[i]] = d
                     /\ \A i, j \in 1 .. Len(Through(d)') :
                          i < j => Through(d)'[i] < Through(d)'[j]
    BY DEF ChannelOrder
  <2>1. \A i \in 1 .. Len(Through(d)) :
          /\ Through(d)[i] \in 1 .. Len(home) /\ home[Through(d)[i]] = d
          /\ Through(d)[i] < f
          /\ Through(d)[i] \in 1 .. Len(home') /\ home'[Through(d)[i]] = d
    BY DEF RouterInv, ChannelOrder, Outcome, Channels, NoChannel
  <2>2. \A i, j \in 1 .. Len(Through(d)) : i < j => Through(d)[i] < Through(d)[j]
    BY DEF RouterInv, ChannelOrder
  <2>3. CASE d = c
    <3>1. Through(d)' = Append(Through(c), f) /\ Len(Through(d)') = Len(Through(c)) + 1
      BY <1>1, <1>2, <2>3
    <3>2. f \in 1 .. Len(home') /\ home'[f] = c
      BY DEF Outcome
    <3>3. \A i \in 1 .. Len(Through(d)') :
            \/ i \in 1 .. Len(Through(c)) /\ Through(d)'[i] = Through(c)[i]
            \/ i = Len(Through(c)) + 1 /\ Through(d)'[i] = f
      BY <1>2, <3>1
    <3>4. ASSUME NEW i \in 1 .. Len(Through(d)')
          PROVE  Through(d)'[i] \in 1 .. Len(home') /\ home'[Through(d)'[i]] = d
      BY <2>1, <2>3, <3>2, <3>3, <3>4
    <3>5. ASSUME NEW i \in 1 .. Len(Through(d)'), NEW j \in 1 .. Len(Through(d)'), i < j
          PROVE  Through(d)'[i] < Through(d)'[j]
      <4>1. i \in 1 .. Len(Through(c)) /\ Through(d)'[i] = Through(c)[i]
        BY <1>2, <3>1, <3>3, <3>5
      <4> QED BY <2>1, <2>2, <2>3, <3>3, <3>5, <4>1
    <3> QED BY <3>4, <3>5
  <2>4. CASE d # c
    BY <1>1, <2>1, <2>2, <2>4
  <2> QED BY <2>3, <2>4
<1>6. RegistrationOrder'
  <2> SUFFICES ASSUME NEW g \in 1 .. Len(home'), NEW h \in 1 .. Len(home'),
                      home'[g] # NoChannel, home'[h] # NoChannel,
                      arrived'[g] = arrived'[h], home'[g] < home'[h]
               PROVE g < h
    BY DEF RegistrationOrder
  <2>1. CASE g # f /\ h # f
    BY <2>1 DEF Outcome, RegistrationOrder, RouterInv
  <2>2. CASE g # f /\ h = f
    BY <2>2 DEF Outcome
  <2>3. CASE g = f /\ h # f
    <3>1. h \in 1 .. Len(home) /\ home'[h] = home[h] /\ arrived'[h] = arrived[h]
      BY <2>3 DEF Outcome
    <3>2. home[h] \in Registered /\ keyOf[home[h]] = arrived[h]
      BY <3>1 DEF RouterInv, Bookkeeping, HomeRegistered
    <3>3. home[h] <= c
      BY <2>3, <3>1, <3>2
    <3> QED BY <2>3, <3>1, <3>2, <3>3 DEF Outcome, Registered, Channels
  <2>4. CASE g = f /\ h = f
    BY <2>4 DEF Outcome, Channels
  <2> QED BY <2>1, <2>2, <2>3, <2>4
<1>7. EndIsFinal'
  BY DEF Outcome, EndIsFinal, RouterInv
<1> QED BY <1>3, <1>4, <1>5, <1>6, <1>7

-----------------------------------------------------------------------------
LEMMA RouterInvInit == Init => RouterInv
<1> SUFFICES ASSUME Init PROVE RouterInv
  OBVIOUS
<1>1. TypeOK
  BY TypeInit
<1>2. Len(home) = 0 /\ ended = {} /\ \A k \in Keys : routes[k] = NoChannel
  BY DEF Init
<1>3. Bookkeeping
  BY <1>2 DEF Init, Bookkeeping, RouteCurrent, BlockedLast, HomeRegistered, EndedUnrouted
<1>4. \A c \in Channels : Len(Through(c)) = 0
  <2> SUFFICES ASSUME NEW c \in Channels PROVE Len(Through(c)) = 0
    OBVIOUS
  <2>1. got[c] = <<>> /\ queue[c] = <<>>
    BY DEF Init
  <2>2. Len(<<>> \o <<>>) = 0
    BY EmptySeq, ConcatEmptySeq
  <2> QED BY <2>1, <2>2 DEF Through
<1>5. ChannelOrder
  BY <1>4 DEF ChannelOrder
<1> QED BY <1>1, <1>2, <1>3, <1>5 DEF RouterInv, AcceptedNotLost, RegistrationOrder, EndIsFinal

\* Nothing happens to a frame or a receiver: only routes and their registry
\* change.
LEMMA FramesStay ==
  ASSUME RouterInv, UNCHANGED <<queue, got, home, arrived, keyOf, open, ended>>
  PROVE  /\ HomeRegistered' /\ AcceptedNotLost' /\ ChannelOrder'
         /\ RegistrationOrder' /\ EndIsFinal'
<1>1. \A c : Through(c)' = Through(c)
  BY DEF Through
<1>2. HomeRegistered' /\ RegistrationOrder' /\ EndIsFinal'
  BY DEF RouterInv, Bookkeeping, HomeRegistered, Registered, RegistrationOrder, EndIsFinal
<1>3. AcceptedNotLost' /\ ChannelOrder'
  BY <1>1 DEF RouterInv, AcceptedNotLost, Holds, ChannelOrder
<1> QED BY <1>2, <1>3

LEMMA RegisterKeeps ==
  ASSUME RouterInv, NEW k \in Keys, Register(k)
  PROVE  /\ Bookkeeping' /\ AcceptedNotLost' /\ ChannelOrder'
         /\ RegistrationOrder' /\ EndIsFinal'
<1> DEFINE n == Len(keyOf) + 1
<1>1. /\ Len(keyOf) \in Nat /\ Len(keyOf') = n /\ keyOf'[n] = k
      /\ \A d \in Registered : keyOf'[d] = keyOf[d] /\ d \in Registered' /\ d < n
      /\ n \in Registered' /\ n # NoChannel
      /\ \A d \in Registered' : d \in Registered \/ d = n
  BY AppendProperties, LenProperties DEF RouterInv, TypeOK, Register, Registered, NoChannel
<1>2. /\ \A j \in Keys : routes'[j] = IF j = k THEN n ELSE routes[j]
      /\ open' = open \union {n} /\ blocked = NoDispatch
      /\ UNCHANGED <<queue, got, home, arrived, ended, blocked>>
  BY DEF RouterInv, TypeOK, Register, Exclusive
<1> HIDE DEF n
<1>3. RouteCurrent'
  <2> SUFFICES ASSUME NEW j \in Keys, routes'[j] # NoChannel
               PROVE /\ routes'[j] \in Registered' /\ keyOf'[routes'[j]] = j
                     /\ \A d \in Registered' : keyOf'[d] = j => d <= routes'[j]
    BY DEF RouteCurrent
  <2>1. CASE j = k
    BY <1>1, <1>2, <2>1 DEF Registered
  <2>2. CASE j # k
    <3>1. routes'[j] = routes[j] /\ routes[j] \in Registered /\ keyOf[routes[j]] = j
      BY <1>2, <2>2 DEF RouterInv, Bookkeeping, RouteCurrent
    <3>2. \A d \in Registered : keyOf[d] = j => d <= routes[j]
      BY <3>1 DEF RouterInv, Bookkeeping, RouteCurrent
    <3> QED BY <1>1, <2>2, <3>1, <3>2
  <2> QED BY <2>1, <2>2
<1>4. BlockedLast' /\ EndedUnrouted'
  <2>1. n \notin ended
    BY <1>1 DEF RouterInv, TypeOK
  <2> QED BY <1>2, <2>1 DEF RouterInv, Bookkeeping, BlockedLast, EndedUnrouted
<1>5. HomeRegistered'
  BY <1>1, <1>2 DEF RouterInv, Bookkeeping, HomeRegistered
<1>6. \A c : Through(c)' = Through(c)
  BY <1>2 DEF Through
<1>7. AcceptedNotLost'
  <2> SUFFICES ASSUME NEW f \in 1 .. Len(home), home[f] # NoChannel
               PROVE /\ keyOf'[home[f]] = arrived[f]
                     /\ home[f] \in open' => Holds(home[f], f)'
    BY <1>2 DEF AcceptedNotLost
  <2>1. home[f] \in Registered /\ keyOf[home[f]] = arrived[f]
    BY DEF RouterInv, Bookkeeping, HomeRegistered
  <2>2. home[f] \in open' => home[f] \in open
    BY <1>1, <1>2, <2>1
  <2>3. home[f] \in open => Holds(home[f], f)
    BY DEF RouterInv, AcceptedNotLost
  <2>4. Holds(home[f], f) => Holds(home[f], f)'
    BY <1>2, <1>6 DEF Holds
  <2> QED BY <1>1, <2>1, <2>2, <2>3, <2>4
<1>8. ChannelOrder' /\ RegistrationOrder' /\ EndIsFinal'
  BY <1>2, <1>6 DEF RouterInv, ChannelOrder, RegistrationOrder, EndIsFinal
<1> QED BY <1>3, <1>4, <1>5, <1>7, <1>8 DEF Bookkeeping

\* A dispatch that goes through at once or refuses its frame.
LEMMA DispatchKeeps ==
  ASSUME RouterInv, NEW k \in Keys,
         Dispatch(k) \/ DispatchRefused(k) \/ TryDispatchFull(k) \/ DispatchWaits(k)
  PROVE  /\ Bookkeeping' /\ AcceptedNotLost' /\ ChannelOrder'
         /\ RegistrationOrder' /\ EndIsFinal'
<1> DEFINE f == Len(home) + 1
<1>0. /\ Arrive(k) /\ blocked = NoDispatch
      /\ UNCHANGED <<routes, keyOf, open, got, ended>>
      /\ Len(home) = Len(arrived) /\ Len(home) \in Nat /\ TypeOK
  BY LenProperties DEF Dispatch, DispatchRefused, TryDispatchFull, DispatchWaits,
     Arrive, Exclusive, RouterInv, TypeOK
<1>1. RouteCurrent' /\ EndedUnrouted'
  BY <1>0 DEF RouterInv, Bookkeeping, RouteCurrent, EndedUnrouted, Registered
<1>2. CASE Dispatch(k)
  <2> DEFINE c == routes[k]
  <2>1. /\ c \in open /\ c \in Channels /\ c # NoChannel
        /\ queue' = [queue EXCEPT ![c] = Append(@, f)] /\ home' = Append(home, c)
    BY <1>0, <1>2, OpenIsChannel DEF Dispatch, Accept
  <2>2. f \in Frames /\ Outcome(f, c) /\ arrived'[f] = k
    BY <1>0, <2>1, ArriveFacts, ArriveOutcome
  <2>3. /\ c \in Registered /\ keyOf[c] = k /\ c \notin ended
        /\ \A d \in Registered : keyOf[d] = keyOf[c] => d <= c
    BY <2>1 DEF RouterInv, Bookkeeping, RouteCurrent, EndedUnrouted
  <2> HIDE DEF c, f
  <2>4. /\ HomeRegistered' /\ AcceptedNotLost' /\ ChannelOrder'
        /\ RegistrationOrder' /\ EndIsFinal'
    BY <1>0, <2>1, <2>2, <2>3, AcceptKeeps
  <2>5. BlockedLast'
    BY <1>0, <1>2 DEF Dispatch, BlockedLast
  <2> QED BY <1>1, <2>4, <2>5 DEF Bookkeeping
<1>3. CASE DispatchRefused(k) \/ TryDispatchFull(k) \/ DispatchWaits(k)
  <2>1. home' = Append(home, NoChannel) /\ queue' = queue
    BY <1>3 DEF DispatchRefused, TryDispatchFull, DispatchWaits, Refuse
  <2>2. Outcome(f, NoChannel) /\ arrived'[f] = k /\ Len(home') = f
    BY <1>0, <2>1, ArriveOutcome
  <2>3. /\ HomeRegistered' /\ AcceptedNotLost' /\ ChannelOrder'
        /\ RegistrationOrder' /\ EndIsFinal'
    BY <1>0, <2>1, <2>2, RefuseKeeps
  <2>4. BlockedLast'
    <3>1. CASE DispatchWaits(k)
      <4>1. blocked' = [frame |-> f, channel |-> routes[k]] /\ routes[k] # NoChannel
        BY <1>0, <3>1, OpenIsChannel DEF DispatchWaits
      <4>2. home'[f] = NoChannel /\ f > 0
        BY <1>0, <2>2 DEF Outcome
      <4> QED BY <1>0, <2>2, <4>1, <4>2 DEF BlockedLast
    <3>2. CASE ~DispatchWaits(k)
      BY <1>0, <1>3, <3>2 DEF DispatchRefused, TryDispatchFull, BlockedLast
    <3> QED BY <3>1, <3>2
  <2> QED BY <1>1, <2>3, <2>4 DEF Bookkeeping
<1> QED BY <1>2, <1>3

\* The dispatch that waited goes through: its frame is still the youngest, and
\* its channel still the one its key has.
LEMMA UnblockKeeps ==
  ASSUME RouterInv, Unblock
  PROVE  /\ Bookkeeping' /\ AcceptedNotLost' /\ ChannelOrder'
         /\ RegistrationOrder' /\ EndIsFinal'
<1> DEFINE f == blocked.frame
<1> DEFINE c == blocked.channel
<1>0. TypeOK
  BY DEF RouterInv
<1>1. /\ c \in open /\ c \in Channels /\ c # NoChannel /\ blocked # NoDispatch
      /\ queue' = [queue EXCEPT ![c] = Append(@, f)] /\ blocked' = NoDispatch
      /\ UNCHANGED <<routes, keyOf, open, arrived, got, ended>>
  BY <1>0, OpenIsChannel DEF Unblock, NoDispatch
<1>2. /\ f \in Frames /\ f = Len(home) /\ home[f] = NoChannel /\ f \in Nat /\ f > 0
      /\ c = routes[arrived[f]] /\ Len(home) = Len(arrived)
  BY <1>0, <1>1 DEF RouterInv, Bookkeeping, BlockedLast, TypeOK, Frames
<1>3. Outcome(f, c)
  <2>1. /\ Len(home') = Len(home)
        /\ \A j \in 1 .. Len(home) : home'[j] = IF j = f THEN c ELSE home[j]
    BY <1>0, UnblockHome
  <2> HIDE DEF f, c
  <2> QED BY <1>1, <1>2, <2>1 DEF Outcome
<1>4. arrived[f] \in Keys
  BY <1>0, <1>2, LenProperties DEF TypeOK
<1> HIDE DEF f, c
<1>5. /\ c \in Registered /\ keyOf[c] = arrived'[f] /\ c \notin ended
      /\ \A d \in Registered : keyOf[d] = keyOf[c] => d <= c
  BY <1>1, <1>2, <1>4 DEF RouterInv, Bookkeeping, RouteCurrent, EndedUnrouted
<1>6. /\ HomeRegistered' /\ AcceptedNotLost' /\ ChannelOrder'
      /\ RegistrationOrder' /\ EndIsFinal'
  BY <1>1, <1>2, <1>3, <1>5, AcceptKeeps
<1>7. RouteCurrent' /\ EndedUnrouted' /\ BlockedLast'
  BY <1>1 DEF RouterInv, Bookkeeping, RouteCurrent, EndedUnrouted, BlockedLast, Registered
<1> QED BY <1>6, <1>7 DEF Bookkeeping

LEMMA RecvKeeps ==
  ASSUME RouterInv, NEW c \in Channels, Recv(c)
  PROVE  /\ Bookkeeping' /\ AcceptedNotLost' /\ ChannelOrder'
         /\ RegistrationOrder' /\ EndIsFinal'
<1>1. /\ \A d \in Channels : Through(d)' = Through(d)
      /\ UNCHANGED <<routes, keyOf, open, blocked, arrived, home, ended>>
  BY ThroughRecv DEF RouterInv, Recv
<1>2. Bookkeeping'
  BY <1>1 DEF RouterInv, Bookkeeping, RouteCurrent, BlockedLast, HomeRegistered,
     EndedUnrouted, Registered
<1>3. open \subseteq Channels
  BY OpenIsChannel DEF RouterInv
<1>4. AcceptedNotLost'
  BY <1>1, <1>3 DEF RouterInv, AcceptedNotLost, Holds
<1>5. ChannelOrder' /\ RegistrationOrder'
  BY <1>1 DEF RouterInv, ChannelOrder, RegistrationOrder
<1>6. EndIsFinal'
  <2> SUFFICES ASSUME NEW d \in ended, NEW f \in 1 .. Len(home), home[f] = d
               PROVE \E i \in 1 .. Len(got'[d]) : got'[d][i] = f
    BY <1>1 DEF EndIsFinal
  <2>1. PICK i \in 1 .. Len(got[d]) : got[d][i] = f
    BY DEF RouterInv, EndIsFinal
  <2>2. CASE d = c
    <3>1. got[c] \in Seq(Frames) /\ Head(queue[c]) \in Frames
      BY HeadTailProperties DEF RouterInv, TypeOK, Recv
    <3>2. \A s \in Seq(Frames), x \in Frames :
            /\ Len(Append(s, x)) = Len(s) + 1 /\ Len(s) \in Nat
            /\ \A j \in 1 .. Len(s) : Append(s, x)[j] = s[j]
      BY AppendProperties, LenProperties
    <3>3. got'[c] = Append(got[c], Head(queue[c]))
      BY DEF Recv, RouterInv, TypeOK
    <3> QED BY <2>1, <2>2, <3>1, <3>2, <3>3
  <2>3. CASE d # c
    <3>1. got'[d] = got[d]
      BY <2>3 DEF Recv, RouterInv, TypeOK
    <3> QED BY <2>1, <3>1
  <2> QED BY <2>2, <2>3
<1> QED BY <1>2, <1>4, <1>5, <1>6

LEMMA RecvEndKeeps ==
  ASSUME RouterInv, NEW c \in Channels, RecvEnd(c)
  PROVE  /\ Bookkeeping' /\ AcceptedNotLost' /\ ChannelOrder'
         /\ RegistrationOrder' /\ EndIsFinal'
<1>1. /\ UNCHANGED <<routes, keyOf, queue, open, blocked, arrived, home, got>>
      /\ ended' = ended \union {c} /\ queue[c] = <<>> /\ c \in open
      /\ \A k \in Keys : routes[k] # c
  BY DEF RecvEnd, Ends
<1>2. \A d : Through(d)' = Through(d)
  BY <1>1 DEF Through
<1>3. Bookkeeping'
  BY <1>1 DEF RouterInv, Bookkeeping, RouteCurrent, BlockedLast, HomeRegistered,
     EndedUnrouted, Registered
<1>4. AcceptedNotLost' /\ ChannelOrder' /\ RegistrationOrder'
  BY <1>1, <1>2 DEF RouterInv, AcceptedNotLost, Holds, ChannelOrder, RegistrationOrder
<1>5. Through(c) = got[c]
  <2>1. got[c] \in Seq(Frames)
    BY DEF RouterInv, TypeOK
  <2> QED BY <1>1, <2>1, ConcatEmptySeq DEF Through
<1>6. \A f \in 1 .. Len(home) : home[f] = c => \E i \in 1 .. Len(got[c]) : got[c][i] = f
  BY <1>1, <1>5, OpenIsChannel DEF RouterInv, AcceptedNotLost, Holds
<1>7. EndIsFinal'
  BY <1>1, <1>6 DEF RouterInv, EndIsFinal
<1> QED BY <1>3, <1>4, <1>7

LEMMA DropKeeps ==
  ASSUME RouterInv, NEW c \in Channels, DropReceiver(c)
  PROVE  /\ Bookkeeping' /\ AcceptedNotLost' /\ ChannelOrder'
         /\ RegistrationOrder' /\ EndIsFinal'
<1>1. /\ UNCHANGED <<routes, keyOf, blocked, arrived, home, got, ended>>
      /\ open' = open \ {c}
  BY DEF DropReceiver
<1>2. /\ \A d \in Channels \ {c} : Through(d)' = Through(d)
      /\ Len(Through(c)') \in Nat /\ Len(Through(c)') <= Len(Through(c))
      /\ \A i \in 1 .. Len(Through(c)') : Through(c)'[i] = Through(c)[i]
      /\ Len(Through(c)) \in Nat
  BY ThroughDrop, ThroughType DEF RouterInv
<1>3. Bookkeeping'
  BY <1>1 DEF RouterInv, Bookkeeping, RouteCurrent, BlockedLast, HomeRegistered,
     EndedUnrouted, Registered
<1>4. AcceptedNotLost'
  BY <1>1, <1>2, OpenIsChannel DEF RouterInv, AcceptedNotLost, Holds
<1>5. RegistrationOrder' /\ EndIsFinal'
  BY <1>1 DEF RouterInv, RegistrationOrder, EndIsFinal
<1>6. ChannelOrder'
  <2> SUFFICES ASSUME NEW d \in Channels
               PROVE /\ \A i \in 1 .. Len(Through(d)') :
                          Through(d)'[i] \in 1 .. Len(home) /\ home[Through(d)'[i]] = d
                     /\ \A i, j \in 1 .. Len(Through(d)') :
                          i < j => Through(d)'[i] < Through(d)'[j]
    BY <1>1 DEF ChannelOrder
  <2>1. /\ \A i \in 1 .. Len(Through(d)) :
             Through(d)[i] \in 1 .. Len(home) /\ home[Through(d)[i]] = d
        /\ \A i, j \in 1 .. Len(Through(d)) : i < j => Through(d)[i] < Through(d)[j]
    BY DEF RouterInv, ChannelOrder
  <2>2. CASE d = c
    <3>1. \A i \in 1 .. Len(Through(c)') : i \in 1 .. Len(Through(c))
      BY <1>2
    <3> QED BY <1>2, <2>1, <2>2, <3>1
  <2>3. CASE d # c
    BY <1>2, <2>1, <2>3
  <2> QED BY <2>2, <2>3
<1> QED BY <1>3, <1>4, <1>5, <1>6

LEMMA RouterInvStep == RouterInv /\ [Next]_vars => RouterInv'
<1> SUFFICES ASSUME RouterInv, [Next]_vars PROVE RouterInv'
  OBVIOUS
<1> DEFINE Rest == /\ Bookkeeping' /\ AcceptedNotLost' /\ ChannelOrder'
                   /\ RegistrationOrder' /\ EndIsFinal'
<1>0. TypeOK'
  BY TypeStep DEF RouterInv
<1>1. ASSUME NEW k \in Keys, Register(k) PROVE Rest
  BY <1>1, RegisterKeeps
<1>2. ASSUME \/ \E k \in Keys : Deregister(k)
             \/ Clear \/ UnblockRefused \/ CancelDispatch \/ UNCHANGED vars
      PROVE Rest
  <2>1. UNCHANGED <<queue, got, home, arrived, keyOf, open, ended>>
    BY <1>2 DEF Deregister, Clear, UnblockRefused, CancelDispatch, vars
  <2>2. \A k \in Keys : routes'[k] = routes[k] \/ routes'[k] = NoChannel
    BY <1>2 DEF Deregister, Clear, UnblockRefused, CancelDispatch, vars, RouterInv, TypeOK
  <2>3. RouteCurrent' /\ EndedUnrouted'
    <3>1. NoChannel \notin ended
      BY DEF RouterInv, TypeOK, Registered, NoChannel
    <3> QED BY <2>1, <2>2, <3>1
      DEF RouterInv, Bookkeeping, RouteCurrent, EndedUnrouted, Registered
  <2>4. BlockedLast'
    <3>1. blocked' = NoDispatch \/ (blocked' = blocked /\ routes' = routes)
      BY <1>2 DEF Deregister, Clear, UnblockRefused, CancelDispatch, vars, Exclusive
    <3> QED BY <2>1, <3>1 DEF RouterInv, Bookkeeping, BlockedLast
  <2> QED BY <2>1, <2>3, <2>4, FramesStay DEF Bookkeeping
<1>3. ASSUME NEW k \in Keys,
             Dispatch(k) \/ DispatchRefused(k) \/ TryDispatchFull(k) \/ DispatchWaits(k)
      PROVE Rest
  BY <1>3, DispatchKeeps
<1>4. ASSUME Unblock PROVE Rest
  BY <1>4, UnblockKeeps
<1>5. ASSUME NEW c \in Channels, Recv(c) \/ RecvEnd(c) \/ DropReceiver(c) PROVE Rest
  BY <1>5, RecvKeeps, RecvEndKeeps, DropKeeps
<1>6. Rest
  BY <1>1, <1>2, <1>3, <1>4, <1>5 DEF Next
<1> QED BY <1>0, <1>6 DEF RouterInv

\* The invariant of the bookkeeping holds of every reachable state.
LEMMA RouterInvariant == Spec => []RouterInv
BY RouterInvInit, RouterInvStep, PTL DEF Spec

\* A frame that a dispatch accepted is in its channel or was received, unless
\* the receiver was dropped.
THEOREM AcceptedAreKept == Spec => []AcceptedNotLost
<1>1. RouterInv => AcceptedNotLost
  BY DEF RouterInv
<1> QED BY <1>1, RouterInvariant, PTL

\* Each key sees its frames in the order of their arrival and once, across
\* registrations that replace one another.
THEOREM ArrivalsInOrder == Spec => []ArrivalOrder
<1>1. RouterInv => ArrivalOrder
  BY DEF RouterInv, ArrivalOrder
<1> QED BY <1>1, RouterInvariant, PTL

\* A receiver that has seen the end of its channel has read all it accepted, and
\* the channel accepts no more.
THEOREM EndsAreFinal == Spec => []EndIsFinal
<1>1. RouterInv => EndIsFinal
  BY DEF RouterInv
<1> QED BY <1>1, RouterInvariant, PTL
=============================================================================
