----------------------------- MODULE Handshake -----------------------------
(***************************************************************************)
(* The capability handshake of silent-net (config.rs).  The initiator      *)
(* sends its offer and then reads the responder's; the responder reads,    *)
(* sends its own, and each of them computes the result for itself.  A peer *)
(* may be of a later version, may not be able to encode what it offers,    *)
(* may send something else than a handshake, and may go away at any time.  *)
(***************************************************************************)
EXTENDS Naturals, Sequences, TLAPS

CONSTANTS
  Offers,            \* what a Handshake advertises
  Unencodable,       \* offers that encode_to refuses: too long an id or list
  Unspoken,          \* offers of peers that send another object instead
  HandshakeVersion,  \* HANDSHAKE_VERSION
  Foreign,           \* a frame with another object type
  Nothing            \* no result, no offer

ASSUME HandshakeConstants ==
  /\ \A o \in Offers : o.version \in Nat /\ o.maxFrame \in Nat
  /\ HandshakeVersion \in Nat
  /\ Foreign \notin Offers /\ Nothing \notin Offers /\ Foreign # Nothing

I == "initiator"
R == "responder"
Roles == {I, R}
Other(p) == IF p = I THEN R ELSE I

VARIABLES
  offer,     \* offer[p]: our_handshake of p
  state,     \* state[p]: where p's call is
  wire,      \* wire[p]: the one frame p sends, until it is read: an offer or Foreign
  open,      \* roles whose stream has not been dropped
  learnt,    \* learnt[p]: the peer's offer as p decoded it
  result     \* result[p]: what p's call returned

vars == <<offer, state, wire, open, learnt, result>>

Least(m, n) == IF m < n THEN m ELSE n
Keep(algos, others) ==
  SelectSeq(algos, LAMBDA a : \E i \in 1 .. Len(others) : others[i] = a)

Compatible(i, r) == i.formats \intersect r.formats # {}

\* negotiate: the smaller numbers, the common sets, the initiator's order.
Negotiate(i, r) ==
  IF Compatible(i, r)
    THEN [version |-> Least(i.version, r.version),
          initiator |-> i.id, responder |-> r.id,
          maxFrame |-> Least(i.maxFrame, r.maxFrame),
          formats |-> i.formats \intersect r.formats,
          algos |-> Keep(i.algos, r.algos)]
    ELSE Nothing

Init ==
  /\ offer \in [Roles -> Offers]
  /\ state = [p \in Roles |-> IF p = I THEN "sending" ELSE "receiving"]
  /\ wire = [p \in Roles |-> Nothing]
  /\ open = Roles
  /\ learnt = [p \in Roles |-> Nothing]
  /\ result = [p \in Roles |-> Nothing]
-----------------------------------------------------------------------------
Goto(p, s) == state' = [state EXCEPT ![p] = s]

\* send_handshake; a stream whose reader is gone fails the write, at once in
\* memory and maybe not yet on a socket.
SendHandshake(p) ==
  /\ state[p] = "sending" /\ p \in open
  /\ offer[p] \notin Unencodable
  /\ wire' = [wire EXCEPT ![p] = IF offer[p] \in Unspoken THEN Foreign ELSE offer[p]]
  /\ Goto(p, IF p = I THEN "receiving" ELSE "sent")
  /\ UNCHANGED <<offer, open, learnt, result>>

SendFails(p) ==
  /\ state[p] = "sending" /\ p \in open
  /\ offer[p] \in Unencodable \/ Other(p) \notin open
  /\ Goto(p, "failed")
  /\ UNCHANGED <<offer, wire, open, learnt, result>>

\* recv_handshake accepts handshake objects of a known version.
AcceptsAnyVersion(frame) == frame # Foreign
Accepts(frame) == frame # Foreign /\ frame.version <= HandshakeVersion

Arrived(p) == state[p] = "receiving" /\ p \in open /\ wire[Other(p)] # Nothing

RecvHandshake(p) ==
  LET frame == wire[Other(p)]
  IN  /\ Arrived(p)
      /\ Accepts(frame)
      /\ wire' = [wire EXCEPT ![Other(p)] = Nothing]
      /\ learnt' = [learnt EXCEPT ![p] = frame]
      /\ Goto(p, IF p = I THEN "learnt" ELSE "sending")
      /\ UNCHANGED <<offer, open, result>>

RefusesAndWaits(p) ==
  /\ Arrived(p)
  /\ ~Accepts(wire[Other(p)])
  /\ wire' = [wire EXCEPT ![Other(p)] = Nothing]
  /\ UNCHANGED <<offer, state, open, learnt, result>>

RecvRefuses(p) ==
  /\ Arrived(p)
  /\ ~Accepts(wire[Other(p)])
  /\ wire' = [wire EXCEPT ![Other(p)] = Nothing]
  /\ Goto(p, "failed")
  /\ UNCHANGED <<offer, open, learnt, result>>

Eof(p) == wire[Other(p)] = Nothing /\ Other(p) \notin open

RecvFails(p) ==
  /\ state[p] = "receiving" /\ p \in open
  /\ Eof(p)
  /\ Goto(p, "failed")
  /\ UNCHANGED <<offer, wire, open, learnt, result>>

OutcomeOwnFirst(p) == Negotiate(offer[p], learnt[p])
Outcome(p) == IF p = I THEN Negotiate(offer[I], learnt[I])
                       ELSE Negotiate(learnt[R], offer[R])

\* After its second step each side computes the result for itself.
Conclude(p) ==
  /\ state[p] = (IF p = I THEN "learnt" ELSE "sent") /\ p \in open
  /\ result' = [result EXCEPT ![p] = Outcome(p)]
  /\ Goto(p, IF Outcome(p) = Nothing THEN "failed" ELSE "agreed")
  /\ UNCHANGED <<offer, wire, open, learnt>>

\* The stream is dropped: by a caller whose handshake is over, or because the
\* task is cancelled or the process dies.
Drop(p) ==
  /\ p \in open
  /\ open' = open \ {p}
  /\ UNCHANGED <<offer, state, wire, learnt, result>>

\* The transport may lose what a peer that is gone had sent.
Lose(p) ==
  /\ p \notin open
  /\ wire[p] # Nothing
  /\ wire' = [wire EXCEPT ![p] = Nothing]
  /\ UNCHANGED <<offer, state, open, learnt, result>>

Step(p) ==
  \/ SendHandshake(p) \/ SendFails(p)
  \/ RecvHandshake(p) \/ RecvRefuses(p) \/ RecvFails(p)
  \/ Conclude(p)

Next == \E p \in Roles : Step(p) \/ Drop(p) \/ Lose(p)

Spec == Init /\ [][Next]_vars

\* A call that can go on is polled again, and a caller whose handshake failed
\* drops the stream (the tests unwrap the result); dropping it in any other
\* state is possible and never certain.
FailedDrops(p) == state[p] = "failed" /\ Drop(p)
FairSpec == Spec /\ \A p \in Roles : WF_vars(Step(p)) /\ WF_vars(FailedDrops(p))
-----------------------------------------------------------------------------
States == {"sending", "receiving", "learnt", "sent", "agreed", "failed"}

\* The shape of the two calls.
TypeOK ==
  /\ offer \in [Roles -> Offers]
  /\ state \in [Roles -> States]
  /\ wire \in [Roles -> Offers \union {Foreign, Nothing}]
  /\ open \subseteq Roles
  /\ learnt \in [Roles -> Offers \union {Nothing}]

\* Once the initiator has agreed, the responder has not failed, and what it
\* agrees to, then or later, is the same result, ids and order included.  The
\* responder alone may agree: nothing tells it that its offer was accepted.
Agreement ==
  state[I] = "agreed" =>
    /\ state[R] \in {"sent", "agreed"}
    /\ state[R] = "agreed" => result[R] = result[I]

\* A side that agreed has a result within what both sides offered, of a
\* version that this code speaks if the peer's version came over the wire.
WithinOffers ==
  \A p \in Roles : state[p] = "agreed" =>
    /\ offer[Other(p)].version <= HandshakeVersion
    /\ \A q \in Roles :
         /\ result[p].version <= offer[q].version
         /\ result[p].maxFrame <= offer[q].maxFrame
         /\ result[p].formats \subseteq offer[q].formats
    /\ result[p].formats # {}

\* Nobody is left waiting: each call returns or its stream is dropped.
Concludes ==
  \A p \in Roles : <>(state[p] \in {"agreed", "failed"} \/ p \notin open)
-----------------------------------------------------------------------------
Agreed == Negotiate(offer[I], offer[R])

Learnt(p) ==
  /\ learnt[p] = offer[Other(p)]
  /\ offer[Other(p)].version <= HandshakeVersion

ResponderSent ==
  state[R] \in {"sent", "agreed"} \/ (state[R] = "failed" /\ Agreed = Nothing)

(***************************************************************************)
(* A frame on the wire is its sender's offer; what a side has learnt is    *)
(* the other side's offer, of a version this code accepts; a frame of the  *)
(* responder, or an initiator past its receive, means that the responder   *)
(* has at least sent and can only fail for want of a common parameter.     *)
(***************************************************************************)
HandshakeInv ==
  /\ TypeOK
  /\ result \in [Roles -> {Nothing, Agreed}]
  /\ \A p \in Roles : wire[p] \in {offer[p], Foreign, Nothing}
  /\ state[I] # "sent" /\ state[R] # "learnt"
  /\ state[R] \in {"receiving", "sending"} => wire[R] = Nothing
  /\ state[I] \in {"learnt", "agreed"} => Learnt(I) /\ ResponderSent
  /\ state[R] \in {"sending", "sent", "agreed"} => Learnt(R)
  /\ wire[R] # Nothing => ResponderSent
  /\ \A p \in Roles : state[p] = "agreed" => result[p] = Agreed /\ Agreed # Nothing

LEMMA RolesFacts ==
  /\ I \in Roles /\ R \in Roles /\ I # R
  /\ \A p \in Roles : p = I \/ p = R
  /\ Other(I) = R /\ Other(R) = I
BY DEF Roles, I, R, Other

LEMMA HandshakeInit == Init => HandshakeInv
<1> SUFFICES ASSUME Init PROVE HandshakeInv
  OBVIOUS
<1>1. /\ state[I] = "sending" /\ state[R] = "receiving"
      /\ \A p \in Roles : wire[p] = Nothing
  BY RolesFacts DEF Init
<1>2. TypeOK
  BY RolesFacts DEF Init, TypeOK, States
<1>3. result \in [Roles -> {Nothing, Agreed}]
  BY DEF Init
<1> QED BY <1>1, <1>2, <1>3, RolesFacts DEF HandshakeInv

\* The inductive invariant is kept by every step of either side.
LEMMA HandshakeStep == HandshakeInv /\ [Next]_vars => HandshakeInv'
<1> SUFFICES ASSUME HandshakeInv, [Next]_vars PROVE HandshakeInv'
  OBVIOUS
<1> USE RolesFacts, HandshakeConstants
<1>1. CASE SendHandshake(I)
  BY <1>1 DEF SendHandshake, Goto, HandshakeInv, TypeOK, States, Learnt, ResponderSent, Agreed
<1>2. CASE SendHandshake(R)
  BY <1>2 DEF SendHandshake, Goto, HandshakeInv, TypeOK, States, Learnt, ResponderSent, Agreed
<1>3. ASSUME NEW p \in Roles, SendFails(p) PROVE HandshakeInv'
  BY <1>3 DEF SendFails, Goto, HandshakeInv, TypeOK, States, Learnt, ResponderSent, Agreed
<1>4. CASE RecvHandshake(I)
  BY <1>4 DEF RecvHandshake, Arrived, Accepts, Goto, HandshakeInv, TypeOK, States, Learnt,
     ResponderSent, Agreed
<1>5. CASE RecvHandshake(R)
  BY <1>5 DEF RecvHandshake, Arrived, Accepts, Goto, HandshakeInv, TypeOK, States, Learnt,
     ResponderSent, Agreed
<1>6. ASSUME NEW p \in Roles, RecvRefuses(p) \/ RecvFails(p) PROVE HandshakeInv'
  BY <1>6 DEF RecvRefuses, RecvFails, Arrived, Goto, HandshakeInv, TypeOK, States, Learnt,
     ResponderSent, Agreed
<1>7. ASSUME NEW p \in Roles, Conclude(p) PROVE HandshakeInv'
  <2>1. Outcome(p) = Agreed
    BY <1>7 DEF Conclude, Outcome, HandshakeInv, Learnt, Agreed
  <2>2. /\ result' = [result EXCEPT ![p] = Agreed]
        /\ state' = [state EXCEPT ![p] = IF Agreed = Nothing THEN "failed" ELSE "agreed"]
        /\ state[p] = (IF p = I THEN "learnt" ELSE "sent")
        /\ UNCHANGED <<offer, wire, open, learnt>> /\ Agreed' = Agreed
    BY <1>7, <2>1 DEF Conclude, Goto, Agreed
  <2> QED BY <2>2 DEF HandshakeInv, TypeOK, States, Learnt, ResponderSent
<1>8. ASSUME NEW p \in Roles, Drop(p) \/ Lose(p) PROVE HandshakeInv'
  BY <1>8 DEF Drop, Lose, HandshakeInv, TypeOK, States, Learnt, ResponderSent, Agreed
<1>9. CASE UNCHANGED vars
  BY <1>9 DEF vars, HandshakeInv, TypeOK, States, Learnt, ResponderSent, Agreed
<1> QED
  BY <1>1, <1>2, <1>3, <1>4, <1>5, <1>6, <1>7, <1>8, <1>9 DEF Next, Step

\* Two sides that agree agree on the same result, and a responder never fails
\* under an initiator that agreed.
THEOREM HandshakeAgrees == Spec => []Agreement
<1>1. HandshakeInv => Agreement
  BY RolesFacts DEF HandshakeInv, Agreement, ResponderSent
<1> QED BY <1>1, HandshakeInit, HandshakeStep, PTL DEF Spec

\* What was agreed lies within both offers.
THEOREM HandshakeWithinOffers == Spec => []WithinOffers
<1>1. HandshakeInv => WithinOffers
  <2> SUFFICES ASSUME HandshakeInv, NEW p \in Roles, state[p] = "agreed"
               PROVE /\ offer[Other(p)].version <= HandshakeVersion
                     /\ \A q \in Roles :
                          /\ result[p].version <= offer[q].version
                          /\ result[p].maxFrame <= offer[q].maxFrame
                          /\ result[p].formats \subseteq offer[q].formats
                     /\ result[p].formats # {}
    BY DEF WithinOffers
  <2>1. Learnt(p)
    BY RolesFacts DEF HandshakeInv
  <2>2. result[p] = Agreed /\ Agreed # Nothing
    BY DEF HandshakeInv
  <2>3. /\ Compatible(offer[I], offer[R])
        /\ result[p].version = Least(offer[I].version, offer[R].version)
        /\ result[p].maxFrame = Least(offer[I].maxFrame, offer[R].maxFrame)
        /\ result[p].formats = offer[I].formats \intersect offer[R].formats
    BY <2>2 DEF Agreed, Negotiate
  <2>4. \A q \in Roles : offer[q].version \in Nat /\ offer[q].maxFrame \in Nat
    BY HandshakeConstants DEF HandshakeInv, TypeOK
  <2>5. \A q \in Roles : /\ result[p].version <= offer[q].version
                         /\ result[p].maxFrame <= offer[q].maxFrame
    BY <2>3, <2>4, RolesFacts DEF Least
  <2> QED BY <2>1, <2>3, <2>5, RolesFacts DEF Learnt, Compatible
<1> QED BY <1>1, HandshakeInit, HandshakeStep, PTL DEF Spec
-----------------------------------------------------------------------------
(* The instance for TLC: offers of two versions, with formats that meet or *)
(* do not, lists of compression algorithms in different orders, one id     *)
(* that is too long and one peer that speaks another protocol.             *)
MCOffers ==
  [version : {1, 2}, id : {"node"}, maxFrame : {1, 2},
   formats : {{1}, {2}, {1, 2}}, algos : {<<1, 2>>, <<2, 1>>, <<2>>}]
  \union {[version |-> 1, id |-> i, maxFrame |-> 1, formats |-> {1}, algos |-> <<>>] :
            i \in {"long", "other"}}
MCUnencodable == {o \in MCOffers : o.id = "long"}
MCUnspoken == {o \in MCOffers : o.id = "other"}
=============================================================================
