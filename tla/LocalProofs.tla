---------------------------- MODULE LocalProofs ----------------------------
(***************************************************************************)
(* What a process does by itself: loads of shares in pairs, for any number *)
(* of loads; values written into a file and read back, for any number and  *)
(* size of containers and any faults; programs over a table, for any       *)
(* programs, operators and names, however often a program is run again and *)
(* the table is changed.                                                   *)
(*                                                                         *)
(* The inductive invariant of the loads says what the slot may hold at any *)
(* time: an id that party 1 has not masked with yet, and, for a load       *)
(* between its two calls, its own id exactly if no other load has touched  *)
(* the slot since.  Those of the file say where containers lie: in the     *)
(* order in which they were written, and, while nothing is torn or damaged,*)
(* each in one piece; and that the reader's calls start where a container  *)
(* does or where the search in one that it refused passes, up to one behind*)
(* which the search goes astray.  That of the programs says that the table *)
(* is the one an evaluation began with and a prefix of the program applied *)
(* to it.  The tables a program passes through are a recursive function,   *)
(* and what is said of them is proved by induction on the number of        *)
(* instructions: every nonempty set of numbers has a least element.        *)
(***************************************************************************)
EXTENDS PairedLoad, Containers, RuntimeProgram, SequenceTheorems, WellFoundedInduction, TLAPS
-----------------------------------------------------------------------------
(* Loads.                                                                  *)

\* A load has the ids that its place in the call says.
Begun ==
  \A n \in Loads :
    /\ state[n] = "start" => n \notin disturbed /\ \A b \in Parties : id[n][b] = NoId
    /\ n \in Between => id[n][0] # NoId /\ id[n][1] = NoId

\* An id that waits in the slot has masked no share of party 1.
SlotUnused ==
  slot # NoId => \A n \in Loads : id[n][1] # slot

\* Only the loads that use the slot are disturbed; while a load is between
\* its two calls, the slot tells whether it was.
SlotTells ==
  /\ disturbed \subseteq generic
  /\ \A n \in Between : slot = id[n][0] <=> n \notin disturbed

\* A load that got its second id got the first one again if it was not
\* disturbed.
Matched ==
  \A n \in Loads :
    /\ state[n] \in {"id 1", "done"} => (id[n][0] = id[n][1] <=> n \notin disturbed)
    /\ n \in Loads \ generic => id[n][0] = id[n][1]

IInv == TypeOK /\ Begun /\ SlotUnused /\ SlotTells /\ Matched /\ MasksFresh
-----------------------------------------------------------------------------
\* Nothing but the place of one load changes.
Moves(n, s) ==
  /\ Goto(n, s)
  /\ UNCHANGED <<counter, slot, input, id, disturbed>>

\* Moving a load on to a place where no id is taken keeps the invariant.
LEMMA MoveKeeps ==
  ASSUME IInv, NEW n \in Loads, NEW s \in States, Moves(n, s),
         s # "start",
         s \in {"id 0", "share 0"} => state[n] \in {"id 0", "share 0"} \/ n \notin generic,
         s = "id 1" => n \in Loads \ generic,
         s = "done" => state[n] = "id 1"
  PROVE  IInv'
<1> USE DEF IInv, Moves, Goto, input
<1>1. TypeOK'
  BY DEF TypeOK, Issued
<1>2. /\ state'[n] = s
      /\ \A m \in Loads : m # n => state'[m] = state[m]
  BY DEF TypeOK
<1>3. Between' \subseteq Between
  BY <1>2 DEF Between, TypeOK
<1>4. Begun'
  BY <1>2, <1>3 DEF Begun
<1>5. SlotUnused'
  BY DEF SlotUnused
<1>6. SlotTells'
  BY <1>3 DEF SlotTells
<1>7. Matched'
  BY <1>2 DEF Matched, SlotTells
<1>8. MasksFresh'
  BY DEF MasksFresh
<1> QED BY <1>1, <1>4, <1>5, <1>6, <1>7, <1>8

\* What the invariant says of an id that has not been issued.
LEMMA CounterIsFresh ==
  ASSUME IInv
  PROVE  /\ counter \in Nat \ {0} /\ counter # NoId /\ counter # slot
         /\ counter + 1 \in Nat \ {0}
         /\ counter \in 1 .. (counter + 1) - 1
         /\ Issued \subseteq 1 .. (counter + 1) - 1
         /\ \A n \in Loads : \A b \in Parties : id[n][b] # counter
<1>1. counter \in Nat \ {0} /\ counter # NoId
  BY NoIdNotAnId DEF IInv, TypeOK
<1>2. counter \notin Issued
  BY <1>1 DEF Issued
<1>3. \A n \in Loads : \A b \in Parties : id[n][b] \in Issued \union {NoId}
  BY DEF IInv, TypeOK
<1>4. counter # slot
  BY <1>1, <1>2 DEF IInv, TypeOK
<1>5. Issued \subseteq 1 .. (counter + 1) - 1
  BY <1>1 DEF Issued
<1> QED BY <1>1, <1>2, <1>3, <1>4, <1>5

\* Giving one party of one load an id leaves the other ids alone.
LEMMA SetsOneId ==
  ASSUME NEW S, NEW f \in [Loads -> [Parties -> S]], NEW n \in Loads, NEW v,
         NEW b \in Parties, NEW g, g = [f EXCEPT ![n][b] = v]
  PROVE  /\ g[n][b] = v
         /\ \A d \in Parties : d # b => g[n][d] = f[n][d]
         /\ \A m \in Loads : m # n => g[m] = f[m]
  OBVIOUS
-----------------------------------------------------------------------------
LEMMA InitHolds == Init => IInv
<1> SUFFICES ASSUME Init PROVE IInv
  OBVIOUS
<1>1. Between = {}
  BY DEF Init, Between
<1> QED BY <1>1 DEF Init, IInv, TypeOK, Issued, States, Begun, SlotUnused, SlotTells,
             Matched, MasksFresh, Parties

\* Party 0 of a generic load: a fresh id replaces what the slot holds, and
\* every load that waits is disturbed.
LEMMA TakeId0Keeps ==
  ASSUME IInv, NEW n \in Loads, TakeId0(n)
  PROVE  IInv'
<1> DEFINE c == counter
<1>1. /\ n \in generic /\ state[n] = "start"
      /\ counter' = c + 1 /\ slot' = c
      /\ id' = [id EXCEPT ![n][0] = c]
      /\ disturbed' = disturbed \union (Between \ {n})
      /\ state' = [state EXCEPT ![n] = "id 0"]
      /\ UNCHANGED input
  BY DEF TakeId0, Stored, Fetched, Disturb, Goto
<1>2. /\ c \in Nat \ {0} /\ c # NoId
      /\ c + 1 \in Nat \ {0}
      /\ c \in 1 .. (c + 1) - 1
      /\ Issued \subseteq 1 .. (c + 1) - 1
      /\ \A m \in Loads : \A b \in Parties : id[m][b] # c
  BY CounterIsFresh
<1>3. Issued' = 1 .. (c + 1) - 1
  BY <1>1 DEF Issued
<1> HIDE DEF c
<1>4. /\ id'[n][0] = c /\ id'[n][1] = id[n][1]
      /\ \A m \in Loads : m # n => id'[m] = id[m]
  <2>1. id \in [Loads -> [Parties -> Issued \union {NoId}]]
    BY DEF IInv, TypeOK
  <2>2. 0 \in Parties /\ 1 \in Parties
    BY DEF Parties
  <2> DEFINE g == id'
             S == Issued \union {NoId}
  <2>3. g = [id EXCEPT ![n][0] = c]
    BY <1>1
  <2> HIDE DEF g, S
  <2> QED BY <2>1, <2>2, <2>3, SetsOneId DEF S, g
<1>5. /\ state'[n] = "id 0"
      /\ \A m \in Loads : m # n => state'[m] = state[m]
  BY <1>1 DEF IInv, TypeOK
<1>6. /\ generic' = generic /\ generic \subseteq Loads
      /\ n \notin Between /\ Between' = Between \union {n}
      /\ Between \subseteq Loads
  BY <1>1, <1>5 DEF Between, input, IInv, TypeOK
<1>7. id[n][0] = NoId /\ id[n][1] = NoId /\ n \notin disturbed'
  BY <1>1, <1>6 DEF IInv, Begun, Parties
<1>8. TypeOK'
  <2>1. id' \in [Loads -> [Parties -> Issued' \union {NoId}]]
    <3>1. \A m \in Loads : id[m] \in [Parties -> Issued' \union {NoId}]
      BY <1>2, <1>3 DEF IInv, TypeOK
    <3>2. [id[n] EXCEPT ![0] = c] \in [Parties -> Issued' \union {NoId}]
      BY <1>2, <1>3, <3>1
    <3> QED BY <1>1, <3>1, <3>2 DEF IInv, TypeOK
  <2>2. slot' \in Issued' \union {NoId} /\ counter' \in Nat \ {0}
    BY <1>1, <1>2, <1>3
  <2>3. state' \in [Loads -> States] /\ disturbed' \subseteq Loads
    BY <1>1, <1>6 DEF IInv, TypeOK, States
  <2> QED BY <1>1, <2>1, <2>2, <2>3 DEF IInv, TypeOK, input, Issued
<1>9. Begun'
  <2> SUFFICES ASSUME NEW m \in Loads
               PROVE  /\ state'[m] = "start" => m \notin disturbed' /\ \A b \in Parties : id'[m][b] = NoId
                      /\ m \in Between' => id'[m][0] # NoId /\ id'[m][1] = NoId
    BY DEF Begun
  <2>1. CASE m = n
    BY <1>2, <1>4, <1>5, <1>7, <2>1
  <2>2. CASE m # n
    <3>1. state[m] = "start" => m \notin Between
      BY DEF Between
    <3>2. state'[m] = state[m] /\ id'[m] = id[m] /\ (m \in Between' => m \in Between)
      BY <1>4, <1>5, <1>6, <2>2
    <3> QED BY <1>1, <3>1, <3>2 DEF IInv, Begun
  <2> QED BY <2>1, <2>2
<1>10. SlotUnused'
  BY <1>1, <1>2, <1>4, <1>7 DEF Parties, SlotUnused
<1>11. SlotTells'
  <2>1. \A m \in Between : m # n /\ m \in disturbed' /\ id'[m][0] # c
    BY <1>1, <1>2, <1>4, <1>6 DEF Parties
  <2>2. disturbed' \subseteq generic'
    BY <1>1, <1>6 DEF IInv, SlotTells, Between
  <2> QED BY <1>1, <1>4, <1>6, <1>7, <2>1, <2>2 DEF SlotTells
<1>12. Matched'
  <2> SUFFICES ASSUME NEW m \in Loads
               PROVE  /\ state'[m] \in {"id 1", "done"} => (id'[m][0] = id'[m][1] <=> m \notin disturbed')
                      /\ m \in Loads \ generic' => id'[m][0] = id'[m][1]
    BY DEF Matched
  <2>1. CASE m = n
    BY <1>1, <1>5, <1>6, <2>1
  <2>2. CASE m # n
    <3>1. state[m] \in {"id 1", "done"} => m \notin Between
      BY DEF Between
    <3> QED BY <1>1, <1>4, <1>5, <1>6, <2>2, <3>1 DEF IInv, Matched
  <2> QED BY <2>1, <2>2
<1>13. MasksFresh'
  <2> SUFFICES ASSUME NEW m \in Loads, NEW k \in Loads, NEW b \in Parties,
                      id'[m][b] = id'[k][b], id'[m][b] # NoId
               PROVE  m = k
    BY DEF MasksFresh
  <2>1. CASE m # n /\ k # n
    BY <1>4, <2>1 DEF IInv, MasksFresh
  <2>2. CASE b = 0 /\ (m = n \/ k = n)
    BY <1>2, <1>4, <2>2 DEF Parties
  <2>3. CASE b = 1 /\ (m = n \/ k = n)
    BY <1>4, <1>7, <2>3
  <2> QED BY <2>1, <2>2, <2>3 DEF Parties
<1> QED BY <1>8, <1>9, <1>10, <1>11, <1>12, <1>13 DEF IInv

\* The engine's own load_full: one fresh id for both parties.
LEMMA TakeIdsKeeps ==
  ASSUME IInv, NEW n \in Loads, TakeIds(n)
  PROVE  IInv'
<1> DEFINE c == counter
<1>1. /\ n \in Loads \ generic /\ state[n] = "start"
      /\ counter' = c + 1 /\ slot' = slot /\ disturbed' = disturbed
      /\ id' = [id EXCEPT ![n] = [b \in Parties |-> c]]
      /\ state' = [state EXCEPT ![n] = "id 0"]
      /\ UNCHANGED input
  BY DEF TakeIds, Fetched, Goto
<1>2. /\ c \in Nat \ {0} /\ c # NoId /\ c # slot
      /\ c + 1 \in Nat \ {0}
      /\ c \in 1 .. (c + 1) - 1
      /\ Issued \subseteq 1 .. (c + 1) - 1
      /\ \A m \in Loads : \A b \in Parties : id[m][b] # c
  BY CounterIsFresh
<1>3. Issued' = 1 .. (c + 1) - 1
  BY <1>1 DEF Issued
<1> HIDE DEF c
<1>4. /\ \A b \in Parties : id'[n][b] = c
      /\ \A m \in Loads : m # n => id'[m] = id[m]
      /\ state'[n] = "id 0"
      /\ \A m \in Loads : m # n => state'[m] = state[m]
  BY <1>1 DEF IInv, TypeOK
<1>5. /\ generic' = generic /\ generic \subseteq Loads /\ Between' = Between
      /\ n \notin Between /\ Between \subseteq Loads /\ n \notin disturbed
      /\ 0 \in Parties /\ 1 \in Parties
  BY <1>1, <1>4 DEF Between, input, IInv, TypeOK, Begun, Parties
<1>6. TypeOK'
  <2>1. id' \in [Loads -> [Parties -> Issued' \union {NoId}]]
    <3>1. \A m \in Loads : id[m] \in [Parties -> Issued' \union {NoId}]
      BY <1>2, <1>3 DEF IInv, TypeOK
    <3> QED BY <1>1, <1>2, <1>3, <3>1 DEF IInv, TypeOK
  <2>2. slot' \in Issued' \union {NoId} /\ counter' \in Nat \ {0}
    BY <1>1, <1>2, <1>3 DEF IInv, TypeOK
  <2>3. state' \in [Loads -> States] /\ disturbed' \subseteq Loads
    BY <1>1 DEF IInv, TypeOK, States
  <2> QED BY <1>1, <2>1, <2>2, <2>3 DEF IInv, TypeOK, input, Issued
<1>7. Begun'
  <2> SUFFICES ASSUME NEW m \in Loads
               PROVE  /\ state'[m] = "start" => m \notin disturbed' /\ \A b \in Parties : id'[m][b] = NoId
                      /\ m \in Between' => id'[m][0] # NoId /\ id'[m][1] = NoId
    BY DEF Begun
  <2>1. CASE m = n
    BY <1>4, <1>5, <2>1
  <2>2. CASE m # n
    <3>1. state[m] = "start" => m \notin Between
      BY DEF Between
    <3>2. state'[m] = state[m] /\ id'[m] = id[m] /\ (m \in Between' => m \in Between)
      BY <1>4, <1>5, <2>2
    <3> QED BY <1>1, <3>1, <3>2 DEF IInv, Begun
  <2> QED BY <2>1, <2>2
<1>8. SlotUnused'
  BY <1>1, <1>2, <1>4, <1>5 DEF IInv, SlotUnused
<1>9. SlotTells'
  BY <1>1, <1>4, <1>5 DEF IInv, SlotTells
<1>10. Matched'
  BY <1>1, <1>4, <1>5 DEF IInv, Matched
<1>11. MasksFresh'
  <2> SUFFICES ASSUME NEW m \in Loads, NEW k \in Loads, NEW b \in Parties,
                      id'[m][b] = id'[k][b], id'[m][b] # NoId
               PROVE  m = k
    BY DEF MasksFresh
  <2>1. CASE m # n /\ k # n
    <3>1. id[m][b] = id[k][b] /\ id[m][b] # NoId
      BY <1>4, <2>1
    <3> QED BY <3>1 DEF IInv, MasksFresh
  <2>2. CASE m = n \/ k = n
    BY <1>2, <1>4, <2>2
  <2> QED BY <2>1, <2>2
<1> QED BY <1>6, <1>7, <1>8, <1>9, <1>10, <1>11 DEF IInv

\* Party 1 of a generic load takes what waits in the slot: its own id if the
\* slot was not touched since, and in any case one that party 1 has not used.
LEMMA TakeId1Keeps ==
  ASSUME IInv, NEW n \in Loads, TakeId1(n)
  PROVE  IInv'
<1>1. /\ n \in generic /\ state[n] = "share 0" /\ slot # NoId
      /\ counter' = counter /\ slot' = NoId
      /\ id' = [id EXCEPT ![n][1] = slot]
      /\ disturbed' = disturbed \union (Between \ {n})
      /\ state' = [state EXCEPT ![n] = "id 1"]
      /\ UNCHANGED input
  BY DEF TakeId1, Emptied, Disturb, Goto
<1>2. Issued' = Issued /\ slot \in Issued
  BY <1>1 DEF Issued, IInv, TypeOK
<1>3. 0 \in Parties /\ 1 \in Parties
  BY DEF Parties
<1>4. /\ id'[n][1] = slot /\ id'[n][0] = id[n][0]
      /\ \A m \in Loads : m # n => id'[m] = id[m]
  <2>1. id \in [Loads -> [Parties -> Issued \union {NoId}]]
    BY DEF IInv, TypeOK
  <2>2. 0 \in Parties /\ 1 \in Parties
    BY DEF Parties
  <2> DEFINE g == id'
             S == Issued \union {NoId}
  <2>3. g = [id EXCEPT ![n][1] = slot]
    BY <1>1
  <2> HIDE DEF g, S
  <2> QED BY <2>1, <2>2, <2>3, SetsOneId DEF S, g
<1>5. /\ state'[n] = "id 1"
      /\ \A m \in Loads : m # n => state'[m] = state[m]
  BY <1>1 DEF IInv, TypeOK
<1>6. /\ generic' = generic /\ generic \subseteq Loads
      /\ n \in Between /\ Between' = Between \ {n}
      /\ Between \subseteq generic
  BY <1>1, <1>5 DEF Between, input, IInv, TypeOK
<1>7. n \in disturbed' <=> n \in disturbed
  BY <1>1
<1>8. TypeOK'
  <2>1. id' \in [Loads -> [Parties -> Issued' \union {NoId}]]
    <3>1. [id[n] EXCEPT ![1] = slot] \in [Parties -> Issued' \union {NoId}]
      BY <1>2 DEF IInv, TypeOK
    <3> QED BY <1>1, <1>2, <3>1 DEF IInv, TypeOK
  <2> QED BY <1>1, <1>2, <1>6, <2>1 DEF IInv, TypeOK, input, States
<1>9. Begun'
  <2> SUFFICES ASSUME NEW m \in Loads
               PROVE  /\ state'[m] = "start" => m \notin disturbed' /\ \A b \in Parties : id'[m][b] = NoId
                      /\ m \in Between' => id'[m][0] # NoId /\ id'[m][1] = NoId
    BY DEF Begun
  <2>1. CASE m = n
    BY <1>5, <1>6, <2>1
  <2>2. CASE m # n
    <3>1. state[m] = "start" => m \notin Between
      BY DEF Between
    <3>2. state'[m] = state[m] /\ id'[m] = id[m] /\ (m \in Between' => m \in Between)
      BY <1>4, <1>5, <1>6, <2>2
    <3> QED BY <1>1, <3>1, <3>2 DEF IInv, Begun
  <2> QED BY <2>1, <2>2
<1>10. SlotUnused'
  BY <1>1 DEF SlotUnused
<1>11. SlotTells'
  <2>1. \A m \in Between' : id'[m][0] # NoId /\ m \in disturbed'
    BY <1>1, <1>4, <1>6 DEF IInv, Begun
  <2>2. disturbed' \subseteq generic'
    BY <1>1, <1>6 DEF IInv, SlotTells
  <2> QED BY <1>1, <2>1, <2>2 DEF SlotTells
<1>12. Matched'
  <2> SUFFICES ASSUME NEW m \in Loads
               PROVE  /\ state'[m] \in {"id 1", "done"} => (id'[m][0] = id'[m][1] <=> m \notin disturbed')
                      /\ m \in Loads \ generic' => id'[m][0] = id'[m][1]
    BY DEF Matched
  <2>1. CASE m = n
    BY <1>4, <1>6, <1>7, <2>1 DEF IInv, SlotTells
  <2>2. CASE m # n
    <3>1. state[m] \in {"id 1", "done"} => m \notin Between
      BY DEF Between
    <3> QED BY <1>1, <1>4, <1>5, <1>6, <2>2, <3>1 DEF IInv, Matched
  <2> QED BY <2>1, <2>2
<1>13. MasksFresh'
  <2> SUFFICES ASSUME NEW m \in Loads, NEW k \in Loads, NEW b \in Parties,
                      id'[m][b] = id'[k][b], id'[m][b] # NoId
               PROVE  m = k
    BY DEF MasksFresh
  <2>1. CASE b = 0 \/ (m # n /\ k # n)
    BY <1>4, <2>1 DEF IInv, MasksFresh
  <2>2. CASE b = 1 /\ (m = n \/ k = n)
    <3>1. \A j \in Loads : id[j][1] # slot
      BY <1>1 DEF IInv, SlotUnused
    <3> QED BY <1>4, <2>2, <3>1
  <2> QED BY <2>1, <2>2 DEF Parties
<1> QED BY <1>8, <1>9, <1>10, <1>11, <1>12, <1>13 DEF IInv

\* The other steps take no id.
LEMMA OthersKeep ==
  ASSUME IInv, NEW n \in Loads,
         \/ Rejected(n)
         \/ \E b \in Parties : MaskShare(n, b) \/ LoadFails(n, b)
         \/ SlotEmpty(n)
         \/ SecondShare(n)
  PROVE  IInv'
<1>1. CASE Rejected(n) \/ SlotEmpty(n) \/ \E b \in Parties : LoadFails(n, b)
  <2>1. Moves(n, "failed")
    BY <1>1 DEF Rejected, SlotEmpty, LoadFails, Moves
  <2> QED BY <2>1, MoveKeeps DEF States
<1>2. CASE SecondShare(n)
  <2>1. Moves(n, "id 1") /\ n \in Loads \ generic
    BY <1>2 DEF SecondShare, Moves
  <2> QED BY <2>1, MoveKeeps DEF States
<1>3. CASE \E b \in Parties : MaskShare(n, b)
  <2>1. CASE MaskShare(n, 0)
    <3>1. Moves(n, "share 0") /\ state[n] = "id 0"
      BY <2>1 DEF MaskShare, Loaded, Moves
    <3> QED BY <3>1, MoveKeeps DEF States
  <2>2. CASE MaskShare(n, 1)
    <3>1. Loaded(1) = "done" /\ (IF 1 = 0 THEN "id 0" ELSE "id 1") = "id 1"
      BY DEF Loaded
    <3>2. Moves(n, "done") /\ state[n] = "id 1"
      BY <2>2, <3>1 DEF MaskShare, Moves
    <3> QED BY <3>2, MoveKeeps DEF States
  <2> QED BY <1>3, <2>1, <2>2 DEF Parties
<1> QED BY <1>1, <1>2, <1>3

LEMMA NextKeeps == IInv /\ [Next]_vars => IInv'
<1> SUFFICES ASSUME IInv, [Next]_vars PROVE IInv'
  OBVIOUS
<1>1. CASE \E n \in Loads : TakeId0(n)
  BY <1>1, TakeId0Keeps
<1>2. CASE \E n \in Loads : TakeIds(n)
  BY <1>2, TakeIdsKeeps
<1>3. CASE \E n \in Loads : TakeId1(n)
  BY <1>3, TakeId1Keeps
<1>4. CASE \E n \in Loads :
             \/ Rejected(n)
             \/ \E b \in Parties : MaskShare(n, b) \/ LoadFails(n, b)
             \/ SlotEmpty(n)
             \/ SecondShare(n)
  BY <1>4, OthersKeep
<1>5. CASE UNCHANGED vars
  <2>1. TypeOK' /\ MasksFresh' /\ SlotUnused'
    BY <1>5 DEF vars, input, IInv, TypeOK, Issued, MasksFresh, SlotUnused
  <2>2. Between' = Between
    BY <1>5 DEF vars, Between
  <2> QED BY <1>5, <2>1, <2>2 DEF vars, IInv, Begun, SlotTells, Matched
<1> QED BY <1>1, <1>2, <1>3, <1>4, <1>5 DEF Next
-----------------------------------------------------------------------------
\* In every reachable state the engine has its shape: every id in use has
\* been issued by the counter.
THEOREM PairedLoadTypeCorrect == Spec => []TypeOK
<1>1. IInv => TypeOK
  BY DEF IInv
<1> QED BY <1>1, InitHolds, NextKeeps, PTL DEF Spec

\* However many loads run in however many threads, and wherever they fail, no
\* party masks two values with one id.
THEOREM MasksAlwaysFresh == Spec => []MasksFresh
<1>1. IInv => MasksFresh
  BY DEF IInv
<1> QED BY <1>1, InitHolds, NextKeeps, PTL DEF Spec

\* A finished load has a usable pair of shares exactly if no other load
\* touched the slot between its two calls.
THEOREM PairsAlwaysCancel == Spec => []PairsCancel
<1>1. IInv => PairsCancel
  BY DEF IInv, Matched, PairsCancel
<1> QED BY <1>1, InitHolds, NextKeeps, PTL DEF Spec
-----------------------------------------------------------------------------
(* The file: the units of a container stay together and in their order, and    *)
(* containers in the order in which they were written.                          *)
Unit == [of : Nat \ {0}, at : Nat]
Container == [payload : Nat, kind : Kinds, words : SUBSET Nat, hashed : Seq(Nat), torn : BOOLEAN]
Result == [of : Nat, at : Nat, payload : Nat]

FileTyped ==
  /\ containers \in Seq(Container)
  /\ file \in Seq(Unit)
  /\ reading \in BOOLEAN
  /\ pos \in Nat /\ pos <= Len(file)
  /\ results \in Seq(Result)
  /\ ~reading => results = <<>> /\ pos = 0

FileOrdered ==
  /\ \A k \in 1 .. Len(file) : file[k].of <= Len(containers)
  /\ \A j, k \in 1 .. Len(file) : j < k =>
       /\ file[j].of <= file[k].of
       /\ file[j].of = file[k].of /\ file[j].at # 0 /\ file[k].at # 0
            => file[k].at = file[j].at + (k - j)

LEMMA Lengths ==
  /\ MagicLen \in Nat /\ MagicLen > 0 /\ CheckLen \in Nat /\ CheckLen > 0
  /\ VersionEnd \in Nat /\ VersionEnd > MagicLen
  /\ HeaderLen \in Nat /\ HeaderLen > VersionEnd /\ HeaderLen > MagicLen
  /\ \A n \in Nat : Size(n) \in Nat /\ Size(n) > HeaderLen /\ Size(n) = HeaderLen + n + CheckLen
<1>1. /\ MagicLen \in Nat \ {0} /\ VersionLen \in Nat \ {0}
      /\ RestLen \in Nat \ {0} /\ CheckLen \in Nat \ {0}
  BY LengthsAssumption
<1>. QED  BY <1>1 DEF VersionEnd, HeaderLen, Size

\* The units that a write puts into the file.
Units(i, n) == [k \in 1 .. n |-> [of |-> i, at |-> k]]

LEMMA WrittenFile ==
  ASSUME FileTyped, NEW n \in PayloadLens, NEW kind \in Kinds, NEW words \in SUBSET Nat,
         NEW units \in 0 .. Size(n),
         Write(n, kind, words, units)
  PROVE  /\ n \in Nat /\ units \in Nat
         /\ containers' = Append(containers, [payload |-> n, kind |-> kind, words |-> words,
                                              hashed |-> Hashed(Len(containers) + 1),
                                              torn |-> units < Size(n)])
         /\ containers' \in Seq(Container)
         /\ Len(containers') = Len(containers) + 1
         /\ \A i \in 1 .. Len(containers) : containers'[i] = containers[i]
         /\ containers'[Len(containers) + 1].payload = n
         /\ containers'[Len(containers) + 1].hashed = Hashed(Len(containers) + 1)
         /\ containers'[Len(containers) + 1].torn = (units < Size(n))
         /\ file' \in Seq(Unit)
         /\ Len(file') = Len(file) + units
         /\ \A k \in 1 .. Len(file) : file'[k] = file[k]
         /\ \A k \in 1 .. units : file'[Len(file) + k] = [of |-> Len(containers) + 1, at |-> k]
<1> DEFINE i == Len(containers) + 1
           c == [payload |-> n, kind |-> kind, words |-> words, hashed |-> Hashed(i), torn |-> units < Size(n)]
           new == Units(i, units)
<1>1. n \in Nat /\ units \in Nat /\ i \in Nat \ {0}
  <2>1. n \in Nat
    BY LengthsAssumption
  <2>2. Size(n) \in Nat
    BY <2>1, Lengths
  <2>3. Len(containers) \in Nat
    BY LenProperties DEF FileTyped
  <2>. QED  BY <2>1, <2>2, <2>3
<1>2. containers' = Append(containers, c) /\ file' = file \o new
  BY DEF Write, Units
<1>3. Hashed(i) \in Seq(Nat)
  BY <1>1 DEF Hashed
<1>4. c \in Container
  BY <1>1, <1>3 DEF Container
<1>5. new \in Seq(Unit) /\ Len(new) = units /\ \A k \in 1 .. units : new[k] = [of |-> i, at |-> k]
  BY <1>1 DEF Units, Unit
<1> HIDE DEF new
<1>6. /\ file' \in Seq(Unit) /\ Len(file') = Len(file) + units
      /\ \A k \in 1 .. Len(file) : file'[k] = file[k]
      /\ \A k \in 1 .. units : file'[Len(file) + k] = new[k]
  <2>1. file \in Seq(Unit) /\ Len(file) \in Nat
    BY LenProperties DEF FileTyped
  <2>2. /\ file \o new \in Seq(Unit) /\ Len(file \o new) = Len(file) + Len(new)
        /\ \A k \in 1 .. Len(file) + Len(new) :
             (file \o new)[k] = IF k <= Len(file) THEN file[k] ELSE new[k - Len(file)]
    BY <1>5, <2>1, ConcatProperties
  <2>3. ASSUME NEW k \in 1 .. Len(file) PROVE (file \o new)[k] = file[k]
    <3>1. k \in 1 .. Len(file) + Len(new) /\ k <= Len(file)
      BY <1>1, <1>5, <2>1
    <3>. QED  BY <2>2, <3>1
  <2>4. ASSUME NEW k \in 1 .. units PROVE (file \o new)[Len(file) + k] = new[k]
    <3>1. /\ Len(file) + k \in 1 .. Len(file) + Len(new) /\ ~(Len(file) + k <= Len(file))
          /\ (Len(file) + k) - Len(file) = k
      BY <1>1, <1>5, <2>1
    <3>. QED  BY <2>2, <3>1
  <2>. QED  BY <1>2, <1>5, <2>2, <2>3, <2>4
<1> HIDE DEF c
<1>7. /\ containers' \in Seq(Container) /\ Len(containers') = i /\ containers'[i] = c
      /\ \A k \in 1 .. Len(containers) : containers'[k] = containers[k]
  BY <1>2, <1>4, AppendProperties DEF FileTyped
<1>8. c.payload = n /\ c.hashed = Hashed(i) /\ c.torn = (units < Size(n))
  BY DEF c
<1>. QED  BY <1>1, <1>2, <1>5, <1>6, <1>7, <1>8 DEF c

LEMMA DamagedFile ==
  ASSUME FileTyped, NEW k \in DOMAIN file, Damage(k)
  PROVE  /\ k \in 1 .. Len(file)
         /\ file' \in Seq(Unit) /\ Len(file') = Len(file)
         /\ \A j \in 1 .. Len(file) : j # k => file'[j] = file[j]
         /\ file'[k].of = file[k].of /\ file'[k].at = 0
<1>1. file \in Seq(Unit) /\ k \in 1 .. Len(file) /\ file[k] \in Unit
  BY DEF FileTyped
<1>2. file' = [file EXCEPT ![k].at = 0]
  BY DEF Damage
<1>3. [file[k] EXCEPT !.at = 0] \in Unit
  BY <1>1 DEF Unit
<1>4. file' = [file EXCEPT ![k] = [file[k] EXCEPT !.at = 0]]
  BY <1>1, <1>2
<1>5. file' \in Seq(Unit) /\ Len(file') = Len(file)
  BY <1>1, <1>3, <1>4, ExceptSeq
<1>6. file'[k] = [file[k] EXCEPT !.at = 0] /\ \A j \in 1 .. Len(file) : j # k => file'[j] = file[j]
  BY <1>1, <1>4
<1>7. [file[k] EXCEPT !.at = 0].of = file[k].of /\ [file[k] EXCEPT !.at = 0].at = 0
  BY <1>1 DEF Unit
<1>. QED  BY <1>1, <1>2, <1>5, <1>6, <1>7

LEMMA ReturnedStep ==
  ASSUME FileTyped, NEW q \in Nat, NEW r \in Result, Return(q, r)
  PROVE  /\ reading /\ pos < Len(file) /\ UNCHANGED <<containers, file, reading>>
         /\ pos' = IF q > Len(file) THEN Len(file) ELSE q
         /\ results' \in Seq(Result) /\ Len(results') = Len(results) + 1
         /\ results'[Len(results) + 1] = r
         /\ \A k \in 1 .. Len(results) : results'[k] = results[k]
         /\ Len(results) \in Nat /\ Len(file) \in Nat
<1>1. /\ reading /\ pos < Len(file) /\ UNCHANGED <<containers, file, reading>>
      /\ pos' = IF q > Len(file) THEN Len(file) ELSE q
      /\ results' = Append(results, r)
  BY DEF Return, Within
<1>2. results \in Seq(Result)
  BY DEF FileTyped
<1>3. /\ results' \in Seq(Result) /\ Len(results') = Len(results) + 1
      /\ results'[Len(results) + 1] = r
      /\ \A k \in 1 .. Len(results) : results'[k] = results[k]
  BY <1>1, <1>2, AppendProperties
<1>4. Len(results) \in Nat /\ Len(file) \in Nat
  BY LenProperties DEF FileTyped
<1>. QED  BY <1>1, <1>3, <1>4

\* What a reader's call may return: Nothing, or what starts where it reads.
Sound(i, a, n) ==
  \/ a = 0 /\ containers[i].kind = "accepted" /\ n = containers[i].payload
  \/ a \in containers[i].words /\ a + Size(n) <= HeaderLen + containers[i].payload

LEMMA ReadResults ==
  ASSUME FileTyped, Reading
  PROVE  \/ \E q \in Nat : Return(q, Nothing) /\ q >= pos
         \/ \E i \in 1 .. Len(containers), a \in Nat, n \in Nat :
              /\ Return(pos + Size(n), Got(i, a, n)) /\ pos + Size(n) <= Len(file)
              /\ Holds(pos, Size(n), i, a) /\ Sound(i, a, n)
<1>1. pos \in Nat /\ Len(file) \in Nat /\ containers \in Seq(Container)
      /\ DOMAIN containers = 1 .. Len(containers)
  BY LenProperties DEF FileTyped
<1>2. \A n \in PayloadLens : n \in Nat
  BY LengthsAssumption
<1>3. CASE ReadBadMagic
  <2>1. AfterBadMagic \in Nat /\ AfterBadMagic >= pos
    BY <1>1, Lengths DEF AfterBadMagic
  <2>. QED  BY <1>3, <2>1 DEF ReadBadMagic
<1>4. ASSUME NEW i \in DOMAIN containers, NEW a \in {0} \cup containers[i].words, RefuseVersion(i, a)
      PROVE  \E q \in Nat : Return(q, Nothing) /\ q >= pos
  <2>1. pos + VersionEnd \in Nat /\ pos + VersionEnd >= pos
    BY <1>1, Lengths
  <2>. QED  BY <1>4, <2>1 DEF RefuseVersion
<1>5. ASSUME NEW i \in DOMAIN containers, NEW a \in {0} \cup containers[i].words, RefuseHeader(i, a)
      PROVE  \E q \in Nat : Return(q, Nothing) /\ q >= pos
  <2>1. pos + HeaderLen \in Nat /\ pos + HeaderLen >= pos
    BY <1>1, Lengths
  <2>. QED  BY <1>5, <2>1 DEF RefuseHeader
<1>6. ASSUME NEW i \in DOMAIN containers, NEW a \in {0} \cup containers[i].words,
             NEW n \in PayloadLens, ReadShort(i, a, n) \/ RefuseValue(i, a, n)
      PROVE  \E q \in Nat : Return(q, Nothing) /\ q >= pos
  <2>1. Size(n) \in Nat
    BY <1>2, Lengths
  <2>2. pos + Size(n) \in Nat /\ pos + Size(n) >= pos
    BY <1>1, <2>1
  <2>. QED  BY <1>6, <2>2 DEF ReadShort, RefuseValue
<1>7. ASSUME NEW i \in DOMAIN containers, NEW a \in {0} \cup containers[i].words,
             NEW n \in PayloadLens, ReadValue(i, a, n)
      PROVE  /\ i \in 1 .. Len(containers) /\ a \in Nat /\ n \in Nat
             /\ Return(pos + Size(n), Got(i, a, n)) /\ pos + Size(n) <= Len(file)
             /\ Holds(pos, Size(n), i, a) /\ Sound(i, a, n)
  <2>1. /\ Declares(i, a, n) /\ pos + Size(n) <= Len(file) /\ Verified(i, a, n)
        /\ a = 0 => containers[i].kind = "accepted"
        /\ Return(pos + Size(n), Got(i, a, n))
    BY <1>7 DEF ReadValue
  <2>2. i \in 1 .. Len(containers) /\ n \in Nat /\ containers[i] \in Container
    BY <1>1, <1>2
  <2>3. containers[i].words \in SUBSET Nat
    BY <2>2 DEF Container
  <2>4. a \in Nat
    BY <2>3
  <2>5. Holds(pos, Size(n), i, a)
    BY <2>1 DEF Verified
  <2>6. Sound(i, a, n)
    <3>1. CASE a # 0
      BY <2>1, <3>1 DEF Verified, Sound
    <3>2. CASE a = 0
      <4>1. Holds(pos, HeaderLen, i, 0)
        <5>1. PICK h, z : h = HeaderLen /\ z = Size(n)
          OBVIOUS
        <5>2. h \in Nat /\ z \in Nat /\ h < z
          BY <2>2, <5>1, Lengths
        <5>3. pos + h <= Len(file) /\ \A k \in 1 .. h : k \in 1 .. z
          BY <1>1, <2>1, <5>1, <5>2
        <5>4. \A k \in 1 .. z : file[pos + k] = [of |-> i, at |-> 0 + k]
          BY <2>5, <3>2, <5>1 DEF Holds
        <5>5. \A k \in 1 .. h : file[pos + k] = [of |-> i, at |-> 0 + k]
          BY <5>3, <5>4
        <5>6. Holds(pos, h, i, 0)
          BY <5>3, <5>5 DEF Holds
        <5>. QED  BY <5>1, <5>6
      <4>2. n = containers[i].payload
        BY <2>1, <3>2, <4>1 DEF Declares
      <4>. QED  BY <2>1, <3>2, <4>2 DEF Sound
    <3>. QED  BY <3>1, <3>2
  <2>. QED  BY <2>1, <2>2, <2>4, <2>5, <2>6
<1>. QED  BY <1>3, <1>4, <1>5, <1>6, <1>7 DEF Reading

\* The calls of the reader, by what they return.
LEMMA ReadingSteps ==
  ASSUME FileTyped, Reading
  PROVE  \E q \in Nat, r \in Result : Return(q, r) /\ q >= pos
<1>1. Nothing \in Result
  BY DEF Nothing, Got, Result
<1>2. ASSUME NEW i \in 1 .. Len(containers), NEW a \in Nat, NEW n \in Nat,
             Return(pos + Size(n), Got(i, a, n))
      PROVE  \E q \in Nat, r \in Result : Return(q, r) /\ q >= pos
  <2>1. Got(i, a, n) \in Result
    BY DEF Got, Result
  <2>2. pos \in Nat /\ Size(n) \in Nat
    BY Lengths DEF FileTyped
  <2>3. pos + Size(n) \in Nat /\ pos + Size(n) >= pos
    BY <2>2
  <2>. QED  BY <1>2, <2>1, <2>3
<1>. QED  BY <1>1, <1>2, ReadResults

\* The steps of the writers and those of the reader.
LEMMA StepKinds ==
  ASSUME FileTyped, [ContainersNext]_containerVars
  PROVE  \/ ~reading /\ \E n \in PayloadLens, kind \in Kinds, words \in SUBSET Nat :
                         \E units \in 0 .. Size(n) : Write(n, kind, words, units)
         \/ ~reading /\ \E k \in DOMAIN file : Damage(k)
         \/ UNCHANGED <<containers, file, pos, results>>
            /\ reading' \in BOOLEAN /\ (reading => reading')
         \/ Reading
<1>1. CASE StartReading
  BY <1>1 DEF StartReading
<1>2. CASE UNCHANGED containerVars
  BY <1>2 DEF containerVars, FileTyped
<1>3. ASSUME ~reading, NEW n \in PayloadLens, NEW words \in WordSets(n), NEW kind \in Kinds,
             NEW units \in Taken(n), Write(n, kind, words, units)
      PROVE  words \in SUBSET Nat /\ units \in 0 .. Size(n)
  <2>1. n \in Nat
    BY LengthsAssumption
  <2>2. Size(n) \in Nat /\ MagicLen \in Nat
    BY <2>1, Lengths
  <2>3. units \in 0 .. Size(n)
    BY <2>2 DEF Taken
  <2>4. words \subseteq MagicLen .. Size(n) - MagicLen
    BY DEF WordSets, Places
  <2>5. \A x \in MagicLen .. Size(n) - MagicLen : x \in Nat
    BY <2>2
  <2>. QED  BY <2>3, <2>4, <2>5
<1>4. CASE Writing
  <2>1. CASE \E n \in PayloadLens : \E words \in WordSets(n), kind \in Kinds, units \in Taken(n) :
               Write(n, kind, words, units)
    BY <1>3, <1>4, <2>1 DEF Writing
  <2>. QED  BY <1>1, <1>4, <2>1 DEF Writing
<1>. QED  BY <1>2, <1>4 DEF ContainersNext

LEMMA StepTyped == FileTyped /\ [ContainersNext]_containerVars => FileTyped'
<1>. SUFFICES ASSUME FileTyped, [ContainersNext]_containerVars PROVE FileTyped'
  OBVIOUS
<1>0. /\ containers \in Seq(Container) /\ file \in Seq(Unit) /\ reading \in BOOLEAN
      /\ pos \in Nat /\ pos <= Len(file) /\ results \in Seq(Result) /\ Len(file) \in Nat
      /\ ~reading => results = <<>> /\ pos = 0
  BY LenProperties DEF FileTyped
<1>1. ASSUME ~reading, NEW n \in PayloadLens, NEW kind \in Kinds, NEW words \in SUBSET Nat,
             NEW units \in 0 .. Size(n), Write(n, kind, words, units)
      PROVE  FileTyped'
  <2>1. /\ containers' \in Seq(Container) /\ file' \in Seq(Unit)
        /\ Len(file') = Len(file) + units /\ units \in Nat
    BY <1>1, WrittenFile
  <2>2. UNCHANGED <<reading, pos, results>>
    BY <1>1 DEF Write
  <2>3. pos <= Len(file')
    BY <1>0, <2>1
  <2>. QED  BY <1>0, <1>1, <2>1, <2>2, <2>3 DEF FileTyped
<1>2. ASSUME ~reading, NEW k \in DOMAIN file, Damage(k) PROVE FileTyped'
  <2>1. file' \in Seq(Unit) /\ Len(file') = Len(file)
    BY <1>2, DamagedFile
  <2>2. UNCHANGED <<containers, reading, pos, results>>
    BY <1>2 DEF Damage
  <2>. QED  BY <1>0, <2>1, <2>2 DEF FileTyped
<1>3. ASSUME UNCHANGED <<containers, file, pos, results>>, reading' \in BOOLEAN, reading => reading'
      PROVE  FileTyped'
  BY <1>0, <1>3 DEF FileTyped
<1>4. ASSUME NEW q \in Nat, NEW r \in Result, Return(q, r) PROVE FileTyped'
  <2>1. /\ reading /\ UNCHANGED <<containers, file, reading>>
        /\ pos' = IF q > Len(file) THEN Len(file) ELSE q
        /\ results' \in Seq(Result)
    BY <1>4, ReturnedStep
  <2>2. pos' \in Nat /\ pos' <= Len(file)
    BY <1>0, <2>1
  <2>. QED  BY <1>0, <2>1, <2>2 DEF FileTyped
<1>. QED  BY <1>1, <1>2, <1>3, <1>4, StepKinds, ReadingSteps

LEMMA StepOrdered ==
  ASSUME FileTyped, FileOrdered, [ContainersNext]_containerVars PROVE FileOrdered'
<1>0. /\ Len(containers) \in Nat /\ Len(file) \in Nat
      /\ \A k \in 1 .. Len(file) : file[k] \in Unit /\ file[k].of \in Nat /\ file[k].at \in Nat
  <2>1. file \in Seq(Unit) /\ Len(containers) \in Nat /\ Len(file) \in Nat
    BY LenProperties DEF FileTyped
  <2>2. \A k \in 1 .. Len(file) : file[k] \in Unit
    BY <2>1
  <2>. QED  BY <2>1, <2>2 DEF Unit
<1>1. ASSUME NEW n \in PayloadLens, NEW kind \in Kinds, NEW words \in SUBSET Nat,
             NEW units \in 0 .. Size(n), Write(n, kind, words, units)
      PROVE  FileOrdered'
  <2>1. PICK l, m : l = Len(file) /\ m = Len(containers)
    OBVIOUS
  <2>2. /\ l \in Nat /\ m \in Nat /\ units \in Nat
        /\ Len(file') = l + units /\ Len(containers') = m + 1
        /\ \A k \in 1 .. l : file'[k] = file[k]
        /\ \A k \in 1 .. units : file'[l + k] = [of |-> m + 1, at |-> k]
    <3>1. /\ units \in Nat
          /\ Len(file') = Len(file) + units /\ Len(containers') = Len(containers) + 1
          /\ \A k \in 1 .. Len(file) : file'[k] = file[k]
          /\ \A k \in 1 .. units : file'[Len(file) + k] = [of |-> Len(containers) + 1, at |-> k]
      BY <1>1, WrittenFile
    <3>. QED  BY <1>0, <2>1, <3>1, Zenon
  <2>3. ASSUME NEW k \in 1 .. l + units
        PROVE  \/ k \in 1 .. l /\ file'[k] = file[k] /\ file[k].of <= m
               \/ k > l /\ file'[k].of = m + 1 /\ file'[k].at = k - l
    <3>1. CASE k <= l
      <4>1. k \in 1 .. l
        BY <2>2, <3>1
      <4>. QED  BY <2>1, <2>2, <4>1 DEF FileOrdered
    <3>2. CASE k > l
      <4>1. k - l \in 1 .. units /\ l + (k - l) = k
        BY <2>2, <3>2
      <4>2. file'[k] = [of |-> m + 1, at |-> k - l]
        BY <2>2, <4>1
      <4>. QED  BY <3>2, <4>2
    <3>. QED  BY <2>2, <3>1, <3>2
  <2>4. ASSUME NEW k \in 1 .. l + units PROVE file'[k].of <= m + 1
    <3>1. CASE k \in 1 .. l /\ file'[k] = file[k] /\ file[k].of <= m
      <4>1. file[k].of \in Nat
        BY <1>0, <2>1, <3>1
      <4>2. file[k].of <= m + 1
        BY <2>2, <3>1, <4>1
      <4>. QED  BY <3>1, <4>2
    <3>2. CASE k > l /\ file'[k].of = m + 1
      BY <2>2, <3>2
    <3>. QED  BY <2>3, <3>1, <3>2
  <2>5. ASSUME NEW j \in 1 .. l + units, NEW k \in 1 .. l + units, j < k
        PROVE  /\ file'[j].of <= file'[k].of
               /\ file'[j].of = file'[k].of /\ file'[j].at # 0 /\ file'[k].at # 0
                    => file'[k].at = file'[j].at + (k - j)
    <3>1. CASE k \in 1 .. l
      <4>1. j \in 1 .. l
        BY <2>2, <2>5, <3>1
      <4>. QED  BY <2>1, <2>2, <2>5, <3>1, <4>1 DEF FileOrdered
    <3>2. CASE ~(k \in 1 .. l)
      <4>1. file'[k].of = m + 1 /\ file'[k].at = k - l
        BY <2>3, <3>2
      <4>2. CASE j \in 1 .. l /\ file'[j] = file[j] /\ file[j].of <= m
        <5>1. file[j].of \in Nat
          BY <1>0, <2>1, <4>2
        <5>2. file[j].of <= m + 1 /\ file[j].of # m + 1
          BY <2>2, <4>2, <5>1
        <5>. QED  BY <4>1, <4>2, <5>2
      <4>3. CASE j > l /\ file'[j].of = m + 1 /\ file'[j].at = j - l
        <5>1. k - l = (j - l) + (k - j) /\ m + 1 <= m + 1
          BY <2>2
        <5>. QED  BY <4>1, <4>3, <5>1
      <4>. QED  BY <2>3, <4>2, <4>3
    <3>. QED  BY <3>1, <3>2
  <2>. QED  BY <2>2, <2>4, <2>5 DEF FileOrdered
<1>2. ASSUME NEW d \in DOMAIN file, Damage(d) PROVE FileOrdered'
  <2>1. /\ Len(file') = Len(file) /\ d \in 1 .. Len(file)
        /\ \A j \in 1 .. Len(file) : j # d => file'[j] = file[j]
        /\ file'[d].of = file[d].of /\ file'[d].at = 0
    BY <1>2, DamagedFile
  <2>2. containers' = containers
    BY <1>2 DEF Damage
  <2>3. \A j \in 1 .. Len(file) :
          file'[j].of = file[j].of /\ (file'[j].at # 0 => file'[j].at = file[j].at)
    BY <2>1
  <2>. QED  BY <2>1, <2>2, <2>3 DEF FileOrdered
<1>3. CASE UNCHANGED <<containers, file>>
  BY <1>3 DEF FileOrdered
<1>4. Reading => UNCHANGED <<containers, file>>
  BY ReadingSteps DEF Return
<1>. QED  BY <1>1, <1>2, <1>3, <1>4, StepKinds

-----------------------------------------------------------------------------
(* What the reader has returned lies whole before its place in the file.       *)
Ahead(s, r) == s.of < r.of \/ (s.of = r.of /\ s.at + Size(s.payload) <= r.at)

Returned ==
  \A k \in 1 .. Len(results) : results[k] # Nothing =>
    /\ results[k].of \in 1 .. Len(containers)
    /\ Sound(results[k].of, results[k].at, results[k].payload)
    /\ \E q \in Nat : /\ Holds(q, Size(results[k].payload), results[k].of, results[k].at)
                      /\ q + Size(results[k].payload) <= pos
    /\ \A j \in 1 .. k - 1 : results[j] # Nothing => Ahead(results[j], results[k])

\* Two pieces of containers: the one that ends before the other starts is a
\* piece of an earlier container, or an earlier piece of the same one.
LEMMA PiecesInOrder ==
  ASSUME FileTyped, FileOrdered, NEW q \in Nat, NEW p \in Nat, NEW m \in Nat, NEW n \in Nat,
         NEW i \in Nat, NEW j \in Nat, NEW a \in Nat, NEW b \in Nat,
         m > 0, n > 0, q + m <= p, Holds(q, m, i, a), Holds(p, n, j, b)
  PROVE  i < j \/ (i = j /\ a + m <= b)
<1>1. Len(file) \in Nat
  BY LenProperties DEF FileTyped
<1>2. file[q + m] = [of |-> i, at |-> a + m] /\ q + m <= Len(file)
  <2>1. m \in 1 .. m
    OBVIOUS
  <2>. QED  BY <2>1 DEF Holds
<1>3. file[p + 1] = [of |-> j, at |-> b + 1] /\ p + n <= Len(file)
  <2>1. 1 \in 1 .. n
    OBVIOUS
  <2>. QED  BY <2>1 DEF Holds
<1>4. PICK x, y \in 1 .. Len(file) : x = q + m /\ y = p + 1
  <2>1. q + m \in 1 .. Len(file) /\ p + 1 \in 1 .. Len(file)
    BY <1>1, <1>2, <1>3
  <2>. QED  BY <2>1
<1>5. /\ file[x].of = i /\ file[x].at = a + m /\ file[y].of = j /\ file[y].at = b + 1
      /\ x < y /\ x \in Nat /\ y \in Nat
  BY <1>2, <1>3, <1>4
<1>6. file[x].of <= file[y].of
  BY <1>5 DEF FileOrdered
<1>7. i = j => b + 1 = (a + m) + (y - x)
  <2>1. file[x].at # 0 /\ file[y].at # 0
    BY <1>5
  <2>. QED  BY <1>5, <2>1 DEF FileOrdered
<1>8. i = j => a + m <= b
  BY <1>5, <1>7
<1>. QED  BY <1>5, <1>6, <1>8

LEMMA StepReturned ==
  ASSUME FileTyped, FileOrdered, Returned, [ContainersNext]_containerVars PROVE Returned'
<1>0. /\ pos \in Nat /\ Len(file) \in Nat /\ pos <= Len(file)
      /\ Len(results) \in Nat /\ ~reading => results = <<>>
      /\ \A k \in 1 .. Len(results) : results[k] \in Result
  <2>1. /\ pos \in Nat /\ pos <= Len(file) /\ results \in Seq(Result) /\ (~reading => results = <<>>)
    BY DEF FileTyped
  <2>2. Len(file) \in Nat /\ Len(results) \in Nat
    BY LenProperties DEF FileTyped
  <2>. QED  BY <2>1, <2>2
<1>1. ASSUME ~reading, UNCHANGED results PROVE Returned'
  <2>1. results' = <<>> /\ Len(results') = 0
    BY <1>0, <1>1
  <2>. QED  BY <2>1 DEF Returned
<1>2. CASE UNCHANGED containerVars
  BY <1>2 DEF containerVars, Returned, Holds, Sound
<1>3. ASSUME Writing PROVE Returned'
  <2>1. ~reading /\ UNCHANGED results
    BY <1>3 DEF Writing, Write, Damage, StartReading
  <2>. QED  BY <1>1, <2>1
<1>4. ASSUME NEW q \in Nat, NEW r \in Result, Return(q, r), q >= pos,
             r # Nothing => /\ r.of \in 1 .. Len(containers) /\ Sound(r.of, r.at, r.payload)
                            /\ Holds(pos, Size(r.payload), r.of, r.at)
                            /\ q = pos + Size(r.payload) /\ q <= Len(file)
      PROVE  Returned'
  <2>1. /\ UNCHANGED <<containers, file>>
        /\ pos' = IF q > Len(file) THEN Len(file) ELSE q
        /\ Len(results') = Len(results) + 1
        /\ results'[Len(results) + 1] = r
        /\ \A k \in 1 .. Len(results) : results'[k] = results[k]
    BY <1>4, ReturnedStep
  <2>2. pos' \in Nat /\ pos' >= pos /\ (q <= Len(file) => pos' = q)
    BY <1>0, <1>4, <2>1
  <2>3. ASSUME NEW k \in 1 .. Len(results), results[k] # Nothing
        PROVE  \E o \in Nat : /\ Holds(o, Size(results[k].payload), results[k].of, results[k].at)
                              /\ o + Size(results[k].payload) <= pos'
    <3>1. PICK s : s = results[k]
      OBVIOUS
    <3>2. PICK n \in Nat : n = Size(s.payload)
      <4>1. s.payload \in Nat
        BY <1>0, <3>1 DEF Result
      <4>. QED  BY <4>1, Lengths
    <3>3. PICK o \in Nat : Holds(o, n, s.of, s.at) /\ o + n <= pos
      BY <2>3, <3>1, <3>2 DEF Returned
    <3>4. o + n <= pos'
      BY <1>0, <2>2, <3>3
    <3>. QED  BY <3>1, <3>2, <3>3, <3>4
  <2>4. ASSUME r # Nothing
        PROVE  /\ \E o \in Nat : Holds(o, Size(r.payload), r.of, r.at) /\ o + Size(r.payload) <= pos'
               /\ \A j \in 1 .. Len(results) : results[j] # Nothing => Ahead(results[j], r)
    <3>1. PICK n \in Nat : n = Size(r.payload) /\ n > 0
      <4>1. r.payload \in Nat
        BY DEF Result
      <4>2. Size(r.payload) \in Nat /\ Size(r.payload) > HeaderLen /\ HeaderLen \in Nat
        BY <4>1, Lengths
      <4>3. Size(r.payload) > 0
        BY <4>2
      <4>. QED  BY <4>2, <4>3
    <3>2. Holds(pos, n, r.of, r.at) /\ pos' = pos + n /\ r.of \in Nat /\ r.at \in Nat
      BY <1>4, <2>2, <2>4, <3>1 DEF Result
    <3>3. ASSUME NEW j \in 1 .. Len(results), results[j] # Nothing PROVE Ahead(results[j], r)
      <4>1. PICK s : s = results[j]
        OBVIOUS
      <4>2. s.payload \in Nat /\ s.of \in Nat /\ s.at \in Nat
        BY <1>0, <4>1 DEF Result
      <4>3. PICK m \in Nat : m = Size(s.payload) /\ m > 0
        <5>1. Size(s.payload) \in Nat /\ Size(s.payload) > HeaderLen /\ HeaderLen \in Nat
          BY <4>2, Lengths
        <5>2. Size(s.payload) > 0
          BY <5>1
        <5>. QED  BY <5>1, <5>2
      <4>4. PICK o \in Nat : Holds(o, m, s.of, s.at) /\ o + m <= pos
        BY <3>3, <4>1, <4>3 DEF Returned
      <4>5. s.of < r.of \/ (s.of = r.of /\ s.at + m <= r.at)
        BY <1>0, <3>1, <3>2, <4>2, <4>3, <4>4, PiecesInOrder
      <4>. QED  BY <4>1, <4>3, <4>5 DEF Ahead
    <3>4. pos + n <= pos'
      BY <1>0, <2>2, <3>2
    <3>. QED  BY <1>0, <3>1, <3>2, <3>3, <3>4
  <2>5. ASSUME NEW k \in 1 .. Len(results'), results'[k] # Nothing
        PROVE  /\ results'[k].of \in 1 .. Len(containers)
               /\ Sound(results'[k].of, results'[k].at, results'[k].payload)
               /\ \E o \in Nat : /\ Holds(o, Size(results'[k].payload), results'[k].of, results'[k].at)
                                 /\ o + Size(results'[k].payload) <= pos'
               /\ \A j \in 1 .. k - 1 : results'[j] # Nothing => Ahead(results'[j], results'[k])
    <3>1. CASE k \in 1 .. Len(results)
      <4>1. results'[k] = results[k] /\ \A j \in 1 .. k - 1 : results'[j] = results[j]
        BY <1>0, <2>1, <3>1
      <4>2. results[k] # Nothing
        BY <2>5, <4>1
      <4>3. \A j \in 1 .. k - 1 : results[j] # Nothing => Ahead(results[j], results[k])
        BY <3>1, <4>2 DEF Returned
      <4>4. \A j \in 1 .. k - 1 : results'[j] # Nothing => Ahead(results'[j], results'[k])
        BY <4>1, <4>3
      <4>5. results[k].of \in 1 .. Len(containers) /\ Sound(results[k].of, results[k].at, results[k].payload)
        BY <3>1, <4>2 DEF Returned
      <4>. QED  BY <2>3, <3>1, <4>1, <4>2, <4>4, <4>5
    <3>2. CASE k = Len(results) + 1
      <4>1. results'[k] = r /\ k - 1 = Len(results) /\ \A j \in 1 .. Len(results) : results'[j] = results[j]
        BY <1>0, <2>1, <3>2
      <4>2. \A j \in 1 .. k - 1 : results'[j] # Nothing => Ahead(results'[j], results'[k])
        BY <2>4, <2>5, <4>1
      <4>. QED  BY <1>4, <2>4, <2>5, <4>1, <4>2
    <3>3. k \in 1 .. Len(results) \/ k = Len(results) + 1
      BY <1>0, <2>1
    <3>. QED  BY <3>1, <3>2, <3>3
  <2>6. /\ containers' = containers
        /\ \A o, n, i, a : Holds(o, n, i, a)' <=> Holds(o, n, i, a)
        /\ \A i, a, n : Sound(i, a, n)' <=> Sound(i, a, n)
    BY <2>1 DEF Holds, Sound
  <2>. QED  BY <2>5, <2>6 DEF Returned
<1>5. ASSUME Reading PROVE Returned'
  <2>1. ASSUME NEW q \in Nat, Return(q, Nothing), q >= pos PROVE Returned'
    <3>1. Nothing \in Result
      BY DEF Nothing, Got, Result
    <3>. QED  BY <1>4, <2>1, <3>1
  <2>2. ASSUME NEW i \in 1 .. Len(containers), NEW a \in Nat, NEW n \in Nat,
               Return(pos + Size(n), Got(i, a, n)), pos + Size(n) <= Len(file),
               Holds(pos, Size(n), i, a), Sound(i, a, n)
        PROVE  Returned'
    <3>1. PICK q \in Nat : q = pos + Size(n) /\ q >= pos
      <4>1. Size(n) \in Nat
        BY Lengths
      <4>. QED  BY <1>0, <4>1
    <3>2. PICK r : r = Got(i, a, n)
      OBVIOUS
    <3>3. r \in Result /\ r.of = i /\ r.at = a /\ r.payload = n
      BY <3>2 DEF Got, Result
    <3>. QED  BY <1>4, <2>2, <3>1, <3>2, <3>3
  <2>. QED  BY <1>5, <2>1, <2>2, ReadResults
<1>. QED  BY <1>2, <1>3, <1>5 DEF ContainersNext

LEMMA InitFile == ContainersInit => FileTyped /\ FileOrdered /\ Returned
<1>. SUFFICES ASSUME ContainersInit PROVE FileTyped /\ FileOrdered /\ Returned
  OBVIOUS
<1>1. Len(containers) = 0 /\ Len(file) = 0 /\ Len(results) = 0
  BY DEF ContainersInit
<1>2. containers \in Seq(Container) /\ file \in Seq(Unit) /\ results \in Seq(Result)
  BY EmptySeq DEF ContainersInit
<1>3. reading \in BOOLEAN /\ results = <<>> /\ pos = 0
  BY DEF ContainersInit
<1>4. pos \in Nat /\ pos <= Len(file)
  BY <1>1, <1>3
<1>5. FileTyped
  BY <1>2, <1>3, <1>4 DEF FileTyped
<1>6. FileOrdered /\ Returned
  BY <1>1 DEF FileOrdered, Returned
<1>. QED  BY <1>5, <1>6

\* The reader returns only what stands in the file in one piece and undamaged,
\* in the order in which it stands there, none twice, and never a container
\* and one in its payload.
THEOREM ReturnsWritten == ContainersSpec => []ReadsWhatWasWritten
<1>1. ContainersInit => FileTyped /\ FileOrdered /\ Returned
  BY InitFile
<1>2. FileTyped /\ FileOrdered /\ Returned /\ [ContainersNext]_containerVars
        => (FileTyped /\ FileOrdered /\ Returned)'
  BY StepTyped, StepOrdered, StepReturned
<1>3. FileTyped /\ FileOrdered /\ Returned => ReadsWhatWasWritten
  <2>. SUFFICES ASSUME FileTyped, FileOrdered, Returned, NEW k \in DOMAIN results, results[k] # Nothing
                PROVE  /\ \E q \in 0 .. Len(file) - 1 :
                            Holds(q, Size(results[k].payload), results[k].of, results[k].at)
                       /\ Sound(results[k].of, results[k].at, results[k].payload)
                       /\ \A j \in 1 .. k - 1 : results[j] # Nothing => Ahead(results[j], results[k])
    BY DEF ReadsWhatWasWritten, Sound, Ahead
  <2>1. k \in 1 .. Len(results) /\ Len(file) \in Nat /\ results[k] \in Result
    BY LenProperties DEF FileTyped
  <2>2. PICK n : n = Size(results[k].payload)
    OBVIOUS
  <2>3. n \in Nat /\ n > 0
    <3>1. results[k].payload \in Nat
      BY <2>1 DEF Result
    <3>2. n \in Nat /\ n > HeaderLen /\ HeaderLen \in Nat
      BY <2>2, <3>1, Lengths
    <3>. QED  BY <3>2
  <2>4. PICK q \in Nat : Holds(q, n, results[k].of, results[k].at)
    BY <2>1, <2>2 DEF Returned
  <2>5. q \in 0 .. Len(file) - 1
    BY <2>1, <2>3, <2>4 DEF Holds
  <2>. QED  BY <2>1, <2>2, <2>4, <2>5 DEF Returned
<1>. QED  BY <1>1, <1>2, <1>3, PTL DEF ContainersSpec
-----------------------------------------------------------------------------
(* Whole numbers of magic words.                                               *)
LEMMA NoWord == WholeWords(0)
<1>1. 0 \in 0 .. 0 /\ 0 = 0 * MagicLen
  BY Lengths
<1>. QED  BY <1>1 DEF WholeWords

LEMMA OneWordMore ==
  ASSUME NEW x \in Nat, WholeWords(x)
  PROVE  WholeWords(x + MagicLen)
<1>1. PICK m \in 0 .. x : x = m * MagicLen
  BY DEF WholeWords
<1>2. MagicLen \in Nat /\ MagicLen > 0
  BY Lengths
<1>3. m + 1 \in 0 .. x + MagicLen
  BY <1>1, <1>2
<1>4. (m + 1) * MagicLen = m * MagicLen + MagicLen
  BY <1>1, <1>2
<1>5. x + MagicLen = (m + 1) * MagicLen
  BY <1>1, <1>4
<1>. QED  BY <1>3, <1>5 DEF WholeWords

\* Two whole numbers of words are at least a word apart.
LEMMA WordsApart ==
  ASSUME NEW x \in Nat, NEW y \in Nat, WholeWords(x), WholeWords(y), x < y
  PROVE  x + MagicLen <= y
<1>1. PICK a \in 0 .. x : x = a * MagicLen
  BY DEF WholeWords
<1>2. PICK b \in 0 .. y : y = b * MagicLen
  BY DEF WholeWords
<1>3. MagicLen \in Nat /\ MagicLen > 0 /\ a \in Nat /\ b \in Nat
  BY <1>1, <1>2, Lengths
<1>4. CASE b <= a
  <2>1. b * MagicLen <= a * MagicLen
    BY <1>3, <1>4
  <2>. QED  BY <1>1, <1>2, <2>1
<1>5. CASE b >= a + 1
  <2>1. (a + 1) * MagicLen = a * MagicLen + MagicLen
    BY <1>3
  <2>2. b * MagicLen >= (a + 1) * MagicLen
    BY <1>3, <1>5
  <2>. QED  BY <1>1, <1>2, <1>3, <2>1, <2>2
<1>. QED  BY <1>3, <1>4, <1>5
-----------------------------------------------------------------------------
(* When nothing is torn or damaged, every unit of the file is in a container   *)
(* that is there in one piece.  As long as every container met so far is       *)
(* harmless, a call of the reader starts where a container starts or where the *)
(* search in one passes.                                                       *)
Whole(i, q) == Holds(q, Size(containers[i].payload), i, 0)

HashedAlone == \A i \in 1 .. Len(containers) : containers[i].hashed = <<i>>

Placed ==
  /\ \A i \in 1 .. Len(containers) : \E q \in Nat : Whole(i, q)
  /\ \A k \in 1 .. Len(file) :
       /\ file[k].at \in 1 .. Size(containers[file[k].of].payload) /\ file[k].at <= k
       /\ Whole(file[k].of, k - file[k].at)

Reached(i) == \A j \in 1 .. i : Harmless(j)

Searched(i, a) == a >= Consumed(i) /\ WholeWords(a - Consumed(i))

\* A call that starts at place q of the file finds what can be found.
OnTrack(q) ==
  q < Len(file) /\ Reached(file[q + 1].of) =>
    file[q + 1].at = 1 \/ Searched(file[q + 1].of, file[q + 1].at - 1)

NoneSkipped ==
  /\ OnTrack(pos)
  /\ \A i \in 1 .. Len(containers), q \in Nat :
       containers[i].kind = "accepted" /\ Reached(i) /\ Whole(i, q) /\ q < pos =>
         \E k \in 1 .. Len(results) : results[k] = Got(i, 0, containers[i].payload)

Found == HashedAlone /\ (Intact => Placed /\ NoneSkipped)

LEMMA Payloads ==
  ASSUME FileTyped
  PROVE  /\ Len(file) \in Nat /\ Len(containers) \in Nat /\ Len(results) \in Nat
         /\ pos \in Nat /\ pos <= Len(file)
         /\ DOMAIN containers = 1 .. Len(containers)
         /\ \A k \in 1 .. Len(file) : file[k].of \in Nat \ {0} /\ file[k].at \in Nat
         /\ \A i \in 1 .. Len(containers) :
              /\ containers[i].payload \in Nat /\ containers[i].kind \in Kinds
              /\ containers[i].words \subseteq Nat
              /\ Size(containers[i].payload) \in Nat
              /\ Size(containers[i].payload) > HeaderLen
              /\ HeaderLen > MagicLen /\ MagicLen > 0 /\ HeaderLen \in Nat /\ MagicLen \in Nat
              /\ Consumed(i) \in Nat /\ Consumed(i) > 0
<1>1. containers \in Seq(Container) /\ file \in Seq(Unit) /\ results \in Seq(Result)
  BY DEF FileTyped
<1>2. \A i \in 1 .. Len(containers) : containers[i] \in Container
  BY <1>1
<1>3. \A i \in 1 .. Len(containers) :
        /\ containers[i].payload \in Nat /\ containers[i].kind \in Kinds
        /\ containers[i].words \subseteq Nat
  BY <1>2 DEF Container
<1>4. \A k \in 1 .. Len(file) : file[k] \in Unit
  BY <1>1
<1>5. \A k \in 1 .. Len(file) : file[k].of \in Nat \ {0} /\ file[k].at \in Nat
  BY <1>4 DEF Unit
<1>6. ASSUME NEW i \in 1 .. Len(containers) PROVE Consumed(i) \in Nat /\ Consumed(i) > 0
  <2>1. PICK n : n = Size(containers[i].payload)
    OBVIOUS
  <2>2. n \in Nat /\ n > HeaderLen
    BY <1>3, <2>1, Lengths
  <2>3. Consumed(i) \in {VersionEnd, HeaderLen, n}
    BY <2>1 DEF Consumed
  <2>4. VersionEnd \in Nat /\ VersionEnd > 0 /\ HeaderLen \in Nat /\ HeaderLen > 0 /\ n > 0
    BY <2>2, Lengths
  <2>. QED  BY <2>2, <2>3, <2>4
<1>. QED  BY <1>1, <1>3, <1>5, <1>6, Lengths, LenProperties DEF FileTyped

\* Where a container in one piece starts.
LEMMA WholeStarts ==
  ASSUME FileTyped, NEW i \in 1 .. Len(containers), NEW q \in Nat, Whole(i, q)
  PROVE  /\ q + 1 \in 1 .. Len(file) /\ file[q + 1].of = i /\ file[q + 1].at = 1
         /\ q + Size(containers[i].payload) <= Len(file)
         /\ \A k \in 1 .. Size(containers[i].payload) :
              q + k \in 1 .. Len(file) /\ file[q + k].of = i /\ file[q + k].at = k
<1>1. PICK n \in Nat : n = Size(containers[i].payload) /\ n > 0
  <2>1. Size(containers[i].payload) > 0
    BY Payloads
  <2>. QED  BY <2>1, Payloads
<1>2. q + n <= Len(file) /\ Len(file) \in Nat
  BY <1>1, Payloads DEF Whole, Holds
<1>3. ASSUME NEW k \in 1 .. n
      PROVE  q + k \in 1 .. Len(file) /\ file[q + k].of = i /\ file[q + k].at = k
  <2>1. file[q + k] = [of |-> i, at |-> 0 + k]
    BY <1>1 DEF Whole, Holds
  <2>2. q + k \in 1 .. Len(file)
    BY <1>1, <1>2
  <2>. QED  BY <2>1, <2>2
<1>4. 1 \in 1 .. n
  BY <1>1
<1>. QED  BY <1>1, <1>2, <1>3, <1>4

\* Behind a container another one starts.
LEMMA NextStarts ==
  ASSUME FileTyped, FileOrdered, Placed, NEW i \in 1 .. Len(containers), NEW q \in Nat,
         Whole(i, q), NEW k \in 1 .. Len(file), k = q + Size(containers[i].payload) + 1
  PROVE  file[k].at = 1
<1>1. PICK n \in Nat : n = Size(containers[i].payload) /\ n > 0
  <2>1. Size(containers[i].payload) > 0
    BY Payloads
  <2>. QED  BY <2>1, Payloads
<1>2. PICK j, b : j = file[k].of /\ b = file[k].at
  OBVIOUS
<1>3. /\ b \in Nat /\ b > 0 /\ b <= k /\ b <= Size(containers[j].payload) /\ Whole(j, k - b)
  <2>1. b \in Nat
    BY <1>2, Payloads
  <2>. QED  BY <1>2, <2>1 DEF Placed
<1>4. file[q + n].of = i /\ file[q + n].at = n
  <2>1. n \in 1 .. n
    BY <1>1
  <2>. QED  BY <1>1, <2>1, WholeStarts
<1>5. CASE b > 1
  <2>1. b - 1 \in 1 .. Size(containers[j].payload)
    <3>1. j \in 1 .. Len(containers)
      BY <1>2, Payloads DEF FileOrdered
    <3>2. Size(containers[j].payload) \in Nat
      BY <3>1, Payloads
    <3>. QED  BY <1>3, <1>5, <3>2
  <2>2. file[(k - b) + (b - 1)] = [of |-> j, at |-> 0 + (b - 1)]
    BY <1>3, <2>1 DEF Whole, Holds
  <2>3. (k - b) + (b - 1) = q + n
    <3>1. k = q + n + 1 /\ k \in Nat
      BY <1>1, Payloads
    <3>2. b \in Nat
      BY <1>3
    <3>3. \A x, y, z \in Nat : x = y + 1 => (x - z) + (z - 1) = y
      OBVIOUS
    <3>4. q + n \in Nat
      BY <1>1
    <3>. QED  BY <3>1, <3>2, <3>3, <3>4
  <2>4. file[q + n].of = j /\ file[q + n].at = b - 1
    <3>1. file[q + n] = [of |-> j, at |-> 0 + (b - 1)]
      BY <2>2, <2>3
    <3>2. 0 + (b - 1) = b - 1
      BY <1>3
    <3>. QED  BY <3>1, <3>2
  <2>5. j = i /\ b - 1 = n
    BY <1>4, <2>4
  <2>. QED  BY <1>1, <1>3, <2>5
<1>. QED  BY <1>2, <1>3, <1>5

\* No container starts between the reader's place and the end of the container
\* in which it is, but the one that starts right there.
LEMMA NextContainers ==
  ASSUME FileTyped, FileOrdered, Placed, pos < Len(file),
         NEW j, NEW b, j = file[pos + 1].of, b = file[pos + 1].at
  PROVE  /\ j \in 1 .. Len(containers) /\ b \in 1 .. Size(containers[j].payload)
         /\ (pos + 1) - b \in Nat /\ Whole(j, (pos + 1) - b)
         /\ \A i \in 1 .. Len(containers), p \in Nat : Whole(i, p) /\ pos <= p =>
              /\ i >= j
              /\ p # pos => p >= ((pos + 1) - b) + Size(containers[j].payload)
              /\ p = pos => i = j /\ b = 1
         /\ \A k \in pos + 1 .. Len(file) : file[k].of \in Nat /\ file[k].of >= j
<1>1. /\ pos \in Nat /\ Len(file) \in Nat /\ pos + 1 \in 1 .. Len(file)
      /\ j \in Nat \ {0} /\ b \in Nat
  BY Payloads
<1>2. j \in 1 .. Len(containers)
  BY <1>1, Payloads DEF FileOrdered
<1>3. b \in 1 .. Size(containers[j].payload) /\ b <= pos + 1 /\ Whole(j, (pos + 1) - b)
  BY <1>1 DEF Placed
<1>4. PICK s : s = Size(containers[j].payload)
  OBVIOUS
<1>5. s \in Nat
  BY <1>2, <1>4, Payloads
<1>6. PICK o \in Nat : o = (pos + 1) - b
  BY <1>1, <1>3
<1>10. b >= 1 /\ b <= s /\ o + b = pos + 1
  BY <1>1, <1>3, <1>4, <1>5, <1>6
<1>7. \A k \in 1 .. s : file[o + k].of = j /\ file[o + k].at = k
  BY <1>2, <1>3, <1>4, <1>6, WholeStarts
<1>8. ASSUME NEW k \in pos + 1 .. Len(file) PROVE file[k].of \in Nat /\ file[k].of >= j
  <2>1. k \in 1 .. Len(file) /\ pos + 1 <= k
    BY <1>1
  <2>2. file[k].of \in Nat
    BY <2>1, Payloads
  <2>3. CASE k = pos + 1
    BY <1>1, <2>2, <2>3
  <2>4. CASE pos + 1 < k
    <3>1. file[pos + 1].of <= file[k].of
      BY <1>1, <2>1, <2>4 DEF FileOrdered
    <3>. QED  BY <1>1, <2>2, <3>1
  <2>. QED  BY <1>1, <2>1, <2>3, <2>4
<1>9. ASSUME NEW i \in 1 .. Len(containers), NEW p \in Nat, Whole(i, p), pos <= p
      PROVE  /\ i >= j /\ (p # pos => p >= o + s) /\ (p = pos => i = j /\ b = 1)
  <2>1. p + 1 \in 1 .. Len(file) /\ file[p + 1].of = i /\ file[p + 1].at = 1
    BY <1>9, WholeStarts
  <2>2. p + 1 \in pos + 1 .. Len(file)
    BY <1>1, <1>9, <2>1
  <2>3. i >= j
    BY <1>8, <2>1, <2>2
  <2>4. p = pos => i = j /\ b = 1
    BY <2>1
  <2>5. ASSUME p # pos, p < o + s PROVE FALSE
    <3>1. (p + 1) - o \in 1 .. s /\ o + ((p + 1) - o) = p + 1
      BY <1>1, <1>5, <1>9, <1>10, <2>5
    <3>2. file[p + 1].at = (p + 1) - o
      BY <1>7, <3>1
    <3>3. p = o
      BY <2>1, <3>2
    <3>. QED  BY <1>1, <1>9, <1>10, <2>5, <3>3
  <2>6. p # pos => p >= o + s
    BY <1>5, <2>5
  <2>. QED  BY <2>3, <2>4, <2>6
<1>11. (pos + 1) - b = o /\ (pos + 1) - b \in Nat
  BY <1>6
<1>. QED  BY <1>2, <1>3, <1>4, <1>8, <1>9, <1>11

\* A call skips no container that can be found, and the next one is on track.
Skips(q, r) ==
  \E i \in 1 .. Len(containers), p \in Nat :
    /\ containers[i].kind = "accepted" /\ Reached(i) /\ Whole(i, p) /\ pos <= p /\ p < q
    /\ r # Got(i, 0, containers[i].payload)

\* Behind a container that is not harmless nothing is promised.
LEMMA BehindHarm ==
  ASSUME FileTyped, FileOrdered, Placed, pos < Len(file), ~Reached(file[pos + 1].of),
         NEW q \in Nat, NEW r \in Result, q >= pos
  PROVE  OnTrack(q) /\ ~Skips(q, r)
<1>1. PICK j, b : j = file[pos + 1].of /\ b = file[pos + 1].at
  OBVIOUS
<1>2. /\ j \in 1 .. Len(containers)
      /\ \A i \in 1 .. Len(containers), p \in Nat : Whole(i, p) /\ pos <= p => i >= j
      /\ \A k \in pos + 1 .. Len(file) : file[k].of \in Nat /\ file[k].of >= j
  BY <1>1, NextContainers
<1>3. ASSUME NEW i \in Nat, i >= j PROVE ~Reached(i)
  <2>1. \A h \in 1 .. j : h \in 1 .. i
    BY <1>2, <1>3
  <2>. QED  BY <1>1, <2>1 DEF Reached
<1>4. OnTrack(q)
  <2>. SUFFICES ASSUME q < Len(file) PROVE ~Reached(file[q + 1].of)
    BY DEF OnTrack
  <2>1. q + 1 \in pos + 1 .. Len(file)
    BY Payloads
  <2>. QED  BY <1>2, <1>3, <2>1
<1>5. ~Skips(q, r)
  <2>. SUFFICES ASSUME NEW i \in 1 .. Len(containers), NEW p \in Nat,
                       Reached(i), Whole(i, p), pos <= p
                PROVE  FALSE
    BY DEF Skips
  <2>1. i >= j /\ i \in Nat
    BY <1>2
  <2>. QED  BY <1>3, <2>1
<1>. QED  BY <1>4, <1>5

\* The first units of a container in one piece.
LEMMA WholeHolds ==
  ASSUME FileTyped, NEW i \in 1 .. Len(containers), NEW q \in Nat, Whole(i, q),
         NEW n \in Nat, n <= Size(containers[i].payload)
  PROVE  Holds(q, n, i, 0)
<1>1. PICK s \in Nat : s = Size(containers[i].payload)
  BY Payloads
<1>2. q + s <= Len(file) /\ \A k \in 1 .. s : file[q + k] = [of |-> i, at |-> 0 + k]
  BY <1>1 DEF Whole, Holds
<1>3. q + n <= Len(file)
  BY <1>1, <1>2, Payloads
<1>4. \A k \in 1 .. n : k \in 1 .. s
  BY <1>1
<1>. QED  BY <1>2, <1>3, <1>4 DEF Holds

\* A magic word is found only where the unit behind the reader's place says so.
LEMMA MagicSays ==
  ASSUME FileTyped, NEW i, NEW a, HasMagic(i, a)
  PROVE  file[pos + 1].of = i /\ file[pos + 1].at = a + 1
<1>1. 1 \in 1 .. MagicLen
  BY Lengths
<1>2. file[pos + 1] = [of |-> i, at |-> a + 1]
  BY <1>1 DEF HasMagic, Holds
<1>. QED  BY <1>2

\* Within a harmless container the search goes on, a word at a time, up to its
\* end.
LEMMA SearchGoesOn ==
  ASSUME FileTyped, FileOrdered, Placed, OnTrack(pos), Reading, pos < Len(file),
         Reached(file[pos + 1].of), file[pos + 1].at # 1
  PROVE  \E q \in Nat, r \in Result : Return(q, r) /\ q >= pos /\ OnTrack(q) /\ ~Skips(q, r)
<1>1. PICK j, b : j = file[pos + 1].of /\ b = file[pos + 1].at
  OBVIOUS
<1>2. /\ j \in 1 .. Len(containers) /\ b \in 1 .. Size(containers[j].payload)
      /\ (pos + 1) - b \in Nat /\ Whole(j, (pos + 1) - b)
      /\ \A i \in 1 .. Len(containers), p \in Nat : Whole(i, p) /\ pos <= p =>
           /\ p # pos => p >= ((pos + 1) - b) + Size(containers[j].payload)
           /\ p = pos => b = 1
  BY <1>1, NextContainers
<1>3. PICK s : s = Size(containers[j].payload)
  OBVIOUS
<1>4. PICK c : c = Consumed(j)
  OBVIOUS
<1>5. PICK o \in Nat : o = (pos + 1) - b
  BY <1>2
<1>6. /\ pos \in Nat /\ Len(file) \in Nat /\ s \in Nat /\ c \in Nat /\ b \in 1 .. s /\ b # 1
      /\ MagicLen \in Nat /\ MagicLen > 0
  BY <1>1, <1>2, <1>3, <1>4, Payloads
<1>7. b - 1 >= c /\ WholeWords((b - 1) - c) /\ Harmless(j)
  <2>1. Searched(j, b - 1)
    BY <1>1, <1>6 DEF OnTrack
  <2>2. j \in 1 .. j
    BY <1>2
  <2>. QED  BY <1>1, <1>4, <2>1, <2>2 DEF Searched, Reached
<1>8. ASSUME NEW i \in DOMAIN containers, NEW a \in {0} \cup containers[i].words, HasMagic(i, a)
      PROVE  FALSE
  <2>1. i = j /\ b = a + 1
    BY <1>1, <1>8, MagicSays
  <2>2. containers[j].words \subseteq Nat
    BY <1>2, Payloads
  <2>3. a \in Nat /\ a = b - 1
    BY <2>1, <2>2
  <2>4. a \in containers[j].words
    BY <1>6, <2>1, <2>3
  <2>5. ~WholeWords(a - c)
    BY <1>4, <1>7, <2>3, <2>4 DEF Harmless
  <2>. QED  BY <1>7, <2>3, <2>5
<1>9. ReadBadMagic
  BY <1>8 DEF Reading, RefuseVersion, RefuseHeader, ReadShort, ReadValue, RefuseValue, Declares
<1>10. PICK q \in Nat : q = pos + MagicLen
  BY <1>6
<1>11. Return(q, Nothing) /\ Nothing \in Result /\ q >= pos
  <2>1. Return(q, Nothing)
    BY <1>9, <1>10 DEF ReadBadMagic, AfterBadMagic
  <2>2. Nothing \in Result
    BY DEF Nothing, Got, Result
  <2>. QED  BY <1>6, <1>10, <2>1, <2>2
<1>12. (b - 1) + MagicLen <= s
  <2>1. WholeWords(s - c)
    BY <1>3, <1>4, <1>7 DEF Harmless
  <2>2. (b - 1) - c \in Nat /\ s - c \in Nat /\ (b - 1) - c < s - c
    BY <1>6, <1>7
  <2>3. ((b - 1) - c) + MagicLen <= s - c
    BY <1>7, <2>1, <2>2, WordsApart
  <2>. QED  BY <1>6, <1>7, <2>3
<1>13. q <= o + s
  BY <1>2, <1>5, <1>6, <1>10, <1>12
<1>14. ASSUME q < Len(file)
       PROVE  file[q + 1].at = 1 \/ Searched(file[q + 1].of, file[q + 1].at - 1)
  <2>1. CASE q = o + s
    <3>1. PICK k \in 1 .. Len(file) : k = q + 1
      BY <1>6, <1>14
    <3>2. k = o + Size(containers[j].payload) + 1 /\ Whole(j, o)
      BY <1>2, <1>3, <1>5, <2>1, <3>1
    <3>3. file[k].at = 1
      BY <1>2, <3>2, NextStarts
    <3>. QED  BY <3>1, <3>3
  <2>2. CASE q # o + s
    <3>1. b + MagicLen \in 1 .. s /\ o + (b + MagicLen) = q + 1
      BY <1>5, <1>6, <1>10, <1>12, <1>13, <2>2
    <3>2. file[q + 1].of = j /\ file[q + 1].at = b + MagicLen
      BY <1>2, <1>3, <1>5, <3>1, WholeStarts
    <3>3. ((b + MagicLen) - 1) - c = ((b - 1) - c) + MagicLen /\ (b + MagicLen) - 1 >= c
      BY <1>6, <1>7
    <3>4. WholeWords(((b - 1) - c) + MagicLen)
      <4>1. (b - 1) - c \in Nat
        BY <1>6, <1>7
      <4>. QED  BY <1>7, <4>1, OneWordMore
    <3>5. Searched(j, (b + MagicLen) - 1)
      BY <1>4, <3>3, <3>4 DEF Searched
    <3>. QED  BY <3>2, <3>5
  <2>. QED  BY <2>1, <2>2
<1>15. ~Skips(q, Nothing)
  <2>. SUFFICES ASSUME NEW i \in 1 .. Len(containers), NEW p \in Nat, Whole(i, p), pos <= p, p < q
                PROVE  FALSE
    BY DEF Skips
  <2>1. p # pos
    BY <1>2, <1>6
  <2>2. p >= o + s
    BY <1>2, <1>3, <1>5, <2>1
  <2>. QED  BY <1>6, <1>10, <1>13, <2>2
<1>. QED  BY <1>11, <1>14, <1>15 DEF OnTrack

\* A call that starts with a container returns it or is on track behind it.
LEMMA ContainerRead ==
  ASSUME FileTyped, FileOrdered, HashedAlone, Placed, Reading, pos < Len(file),
         file[pos + 1].at = 1
  PROVE  \E q \in Nat, r \in Result : Return(q, r) /\ q >= pos /\ OnTrack(q) /\ ~Skips(q, r)
<1>1. PICK j : j = file[pos + 1].of
  OBVIOUS
<1>2. /\ pos \in Nat /\ Len(file) \in Nat /\ DOMAIN containers = 1 .. Len(containers)
      /\ (pos + 1) - 1 = pos
  BY Payloads
<1>3. /\ j \in 1 .. Len(containers) /\ Whole(j, pos)
      /\ \A i \in 1 .. Len(containers), p \in Nat : Whole(i, p) /\ pos <= p =>
           (p # pos => p >= pos + Size(containers[j].payload)) /\ (p = pos => i = j)
  BY <1>1, <1>2, NextContainers
<1>4. PICK s : s = Size(containers[j].payload)
  OBVIOUS
<1>5. /\ s \in Nat /\ s > HeaderLen /\ HeaderLen \in Nat /\ HeaderLen > VersionEnd
      /\ VersionEnd \in Nat /\ VersionEnd > MagicLen /\ MagicLen \in Nat
  BY <1>3, <1>4, Payloads, Lengths
<1>6. /\ Holds(pos, MagicLen, j, 0) /\ Holds(pos, VersionEnd, j, 0) /\ Holds(pos, HeaderLen, j, 0)
      /\ Holds(pos, s, j, 0) /\ pos + s <= Len(file)
  <2>1. pos + s <= Len(file)
    BY <1>2, <1>3, <1>4, WholeStarts
  <2>2. \A n \in Nat : n <= s => Holds(pos, n, j, 0)
    BY <1>2, <1>3, <1>4, WholeHolds
  <2>3. MagicLen <= s /\ VersionEnd <= s /\ HeaderLen <= s /\ s <= s
    BY <1>5
  <2>. QED  BY <1>5, <2>1, <2>2, <2>3
<1>7. ASSUME NEW i, NEW a \in Nat, HasMagic(i, a) PROVE i = j /\ a = 0
  BY <1>1, <1>7, MagicSays
<1>8. \A i \in DOMAIN containers : {0} \cup containers[i].words \subseteq Nat
  BY <1>2, Payloads
<1>9. ~ReadBadMagic
  BY <1>2, <1>3, <1>6 DEF ReadBadMagic, MagicHere, HasMagic
<1>10. Nothing \in Result
  BY DEF Nothing, Got, Result
\* A refusal on the way: the search starts within the container.
<1>11. ASSUME NEW n \in Nat, n > 0, n < s, n = Consumed(j), containers[j].kind # "accepted",
              Return(pos + n, Nothing)
       PROVE  \E q \in Nat, r \in Result : Return(q, r) /\ q >= pos /\ OnTrack(q) /\ ~Skips(q, r)
  <2>1. PICK q \in Nat : q = pos + n /\ q >= pos
    BY <1>2
  <2>2. file[q + 1].of = j /\ file[q + 1].at = n + 1
    <3>1. n + 1 \in 1 .. s /\ pos + (n + 1) = q + 1
      BY <1>2, <1>5, <1>11, <2>1
    <3>. QED  BY <1>2, <1>3, <1>4, <3>1, WholeStarts
  <2>3. Searched(j, n)
    <3>1. n >= n /\ n - n = 0
      OBVIOUS
    <3>. QED  BY <1>11, <3>1, NoWord DEF Searched
  <2>4. OnTrack(q)
    <3>1. (n + 1) - 1 = n
      OBVIOUS
    <3>. QED  BY <2>2, <2>3, <3>1 DEF OnTrack
  <2>5. ~Skips(q, Nothing)
    <3>. SUFFICES ASSUME NEW i \in 1 .. Len(containers), NEW p \in Nat, containers[i].kind = "accepted",
                         Whole(i, p), pos <= p, p < q
                  PROVE  FALSE
      BY DEF Skips
    <3>1. CASE p = pos
      BY <1>3, <1>11, <3>1
    <3>2. CASE p # pos
      <4>1. p >= pos + s
        BY <1>3, <1>4, <3>2
      <4>. QED  BY <1>2, <1>5, <1>11, <2>1, <4>1
    <3>. QED  BY <3>1, <3>2
  <2>. QED  BY <1>10, <1>11, <2>1, <2>4, <2>5
\* The whole container is read.
<1>12. ASSUME NEW r \in Result, Return(pos + s, r),
              containers[j].kind = "accepted" => r = Got(j, 0, containers[j].payload)
       PROVE  \E q \in Nat, t \in Result : Return(q, t) /\ q >= pos /\ OnTrack(q) /\ ~Skips(q, t)
  <2>1. PICK q \in Nat : q = pos + s /\ q >= pos
    BY <1>2, <1>5
  <2>2. OnTrack(q)
    <3>. SUFFICES ASSUME q < Len(file) PROVE file[q + 1].at = 1
      BY DEF OnTrack
    <3>1. PICK k \in 1 .. Len(file) : k = q + 1
      BY <1>2
    <3>2. file[k].at = 1
      BY <1>2, <1>3, <1>4, <2>1, <3>1, NextStarts
    <3>. QED  BY <3>1, <3>2
  <2>3. ~Skips(q, r)
    <3>. SUFFICES ASSUME NEW i \in 1 .. Len(containers), NEW p \in Nat, containers[i].kind = "accepted",
                         Whole(i, p), pos <= p, p < q, r # Got(i, 0, containers[i].payload)
                  PROVE  FALSE
      BY DEF Skips
    <3>1. CASE p = pos
      BY <1>3, <1>12, <3>1
    <3>2. CASE p # pos
      <4>1. p >= pos + s
        BY <1>3, <1>4, <3>2
      <4>. QED  BY <1>2, <1>5, <2>1, <4>1
    <3>. QED  BY <3>1, <3>2
  <2>. QED  BY <1>12, <2>1, <2>2, <2>3
<1>13. ASSUME NEW i \in DOMAIN containers, NEW a \in {0} \cup containers[i].words, RefuseVersion(i, a)
       PROVE  \E q \in Nat, r \in Result : Return(q, r) /\ q >= pos /\ OnTrack(q) /\ ~Skips(q, r)
  <2>1. i = j /\ a = 0
    BY <1>7, <1>8, <1>13 DEF RefuseVersion
  <2>2. containers[j].kind = "newer" /\ Return(pos + VersionEnd, Nothing)
    BY <1>6, <1>13, <2>1 DEF RefuseVersion, IsKind
  <2>3. Consumed(j) = VersionEnd /\ containers[j].kind # "accepted"
    BY <2>2 DEF Consumed
  <2>4. VersionEnd > 0 /\ VersionEnd < s
    BY <1>5
  <2>. QED  BY <1>5, <1>11, <2>2, <2>3, <2>4
<1>14. ASSUME NEW i \in DOMAIN containers, NEW a \in {0} \cup containers[i].words, RefuseHeader(i, a)
       PROVE  \E q \in Nat, r \in Result : Return(q, r) /\ q >= pos /\ OnTrack(q) /\ ~Skips(q, r)
  <2>1. i = j /\ a = 0
    BY <1>7, <1>8, <1>14 DEF RefuseHeader
  <2>2. containers[j].kind = "refused" /\ Return(pos + HeaderLen, Nothing)
    BY <1>6, <1>14, <2>1 DEF RefuseHeader, IsKind
  <2>3. Consumed(j) = HeaderLen /\ containers[j].kind # "accepted"
    BY <2>2 DEF Consumed
  <2>4. HeaderLen > 0 /\ HeaderLen < s
    BY <1>5
  <2>. QED  BY <1>5, <1>11, <2>2, <2>3, <2>4
<1>15. ASSUME NEW i \in DOMAIN containers, NEW a \in {0} \cup containers[i].words, NEW n \in PayloadLens,
              Declares(i, a, n)
       PROVE  i = j /\ a = 0 /\ n = containers[j].payload
  <2>1. i = j /\ a = 0
    BY <1>7, <1>8, <1>15 DEF Declares
  <2>. QED  BY <1>6, <1>15, <2>1 DEF Declares
<1>16. ASSUME NEW i \in DOMAIN containers, NEW a \in {0} \cup containers[i].words, NEW n \in PayloadLens
       PROVE  ~ReadShort(i, a, n)
  <2>1. ReadShort(i, a, n) => pos + s > Len(file)
    BY <1>4, <1>15 DEF ReadShort
  <2>. QED  BY <1>2, <1>5, <1>6, <2>1
<1>17. ASSUME NEW i \in DOMAIN containers, NEW a \in {0} \cup containers[i].words, NEW n \in PayloadLens,
              ReadValue(i, a, n)
       PROVE  \E q \in Nat, r \in Result : Return(q, r) /\ q >= pos /\ OnTrack(q) /\ ~Skips(q, r)
  <2>1. i = j /\ a = 0 /\ n = containers[j].payload
    BY <1>15, <1>17 DEF ReadValue
  <2>2. Return(pos + s, Got(j, 0, containers[j].payload))
    BY <1>4, <1>17, <2>1 DEF ReadValue
  <2>3. Got(j, 0, containers[j].payload) \in Result
    BY <1>3, Payloads DEF Got, Result
  <2>. QED  BY <1>12, <2>2, <2>3
<1>18. ASSUME NEW i \in DOMAIN containers, NEW a \in {0} \cup containers[i].words, NEW n \in PayloadLens,
              RefuseValue(i, a, n)
       PROVE  \E q \in Nat, r \in Result : Return(q, r) /\ q >= pos /\ OnTrack(q) /\ ~Skips(q, r)
  <2>1. i = j /\ a = 0 /\ n = containers[j].payload
    BY <1>15, <1>18 DEF RefuseValue
  <2>2. Return(pos + s, Nothing) /\ ~(Verified(j, 0, n) /\ containers[j].kind = "accepted")
    BY <1>4, <1>18, <2>1 DEF RefuseValue
  <2>3. Verified(j, 0, n)
    BY <1>3, <1>4, <1>6, <2>1 DEF Verified, HashedAlone
  <2>. QED  BY <1>10, <1>12, <2>2, <2>3
<1>. QED  BY <1>9, <1>13, <1>14, <1>16, <1>17, <1>18 DEF Reading

\* A call of the reader leaves nothing behind that can be found.
LEMMA CallSkipsNone ==
  ASSUME FileTyped, FileOrdered, HashedAlone, Placed, OnTrack(pos), Reading
  PROVE  \E q \in Nat, r \in Result : Return(q, r) /\ q >= pos /\ OnTrack(q) /\ ~Skips(q, r)
<1>1. PICK q \in Nat, r \in Result : Return(q, r) /\ q >= pos
  BY ReadingSteps
<1>2. pos < Len(file)
  BY <1>1 DEF Return
<1>3. CASE ~Reached(file[pos + 1].of)
  BY <1>1, <1>2, <1>3, BehindHarm
<1>4. CASE Reached(file[pos + 1].of) /\ file[pos + 1].at # 1
  BY <1>2, <1>4, SearchGoesOn
<1>5. CASE file[pos + 1].at = 1
  BY <1>2, <1>5, ContainerRead
<1>. QED  BY <1>3, <1>4, <1>5

LEMMA CallKeepsFound ==
  ASSUME FileTyped, FileOrdered, Found, Reading
  PROVE  Found'
<1>1. UNCHANGED <<containers, file>>
  BY ReadingSteps DEF Return
<1>2. /\ HashedAlone' /\ (Intact' <=> Intact) /\ (Placed' <=> Placed)
      /\ Len(containers') = Len(containers)
      /\ \A i, q : (Whole(i, q)' <=> Whole(i, q))
      /\ \A i : (Reached(i)' <=> Reached(i))
  BY <1>1 DEF Found, HashedAlone, Intact, Torn, Damaged, Placed, Whole, Holds, Reached, Harmless, Consumed
<1>3. ASSUME Intact PROVE Placed /\ NoneSkipped'
  <2>1. HashedAlone /\ Placed /\ NoneSkipped
    BY <1>3 DEF Found
  <2>2. PICK q \in Nat, r \in Result : Return(q, r) /\ q >= pos /\ OnTrack(q) /\ ~Skips(q, r)
    BY <2>1, CallSkipsNone DEF NoneSkipped
  <2>3. /\ pos' = IF q > Len(file) THEN Len(file) ELSE q
        /\ Len(results') = Len(results) + 1 /\ results'[Len(results) + 1] = r
        /\ \A k \in 1 .. Len(results) : results'[k] = results[k]
        /\ Len(results) \in Nat /\ Len(file) \in Nat
    BY <2>2, ReturnedStep
  <2>4. pos' \in Nat /\ pos' <= q /\ (pos' < Len(file) => pos' = q)
    BY <2>3
  <2>5. ASSUME NEW i \in 1 .. Len(containers), NEW p \in Nat, containers[i].kind = "accepted",
               Reached(i), Whole(i, p), p < pos'
        PROVE  \E k \in 1 .. Len(results') : results'[k] = Got(i, 0, containers[i].payload)
    <3>1. CASE p < pos
      <4>1. PICK k \in 1 .. Len(results) : results[k] = Got(i, 0, containers[i].payload)
        BY <2>1, <2>5, <3>1 DEF NoneSkipped
      <4>2. k \in 1 .. Len(results') /\ results'[k] = results[k]
        BY <2>3, <4>1
      <4>. QED  BY <4>1, <4>2
    <3>2. CASE ~(p < pos)
      <4>1. pos <= p /\ p < q
        BY <2>4, <2>5, <3>2, Payloads
      <4>2. r = Got(i, 0, containers[i].payload)
        BY <2>2, <2>5, <4>1 DEF Skips
      <4>3. Len(results) + 1 \in 1 .. Len(results')
        BY <2>3
      <4>. QED  BY <2>3, <4>2, <4>3
    <3>. QED  BY <3>1, <3>2
  <2>6. OnTrack(pos)'
    <3>. SUFFICES ASSUME pos' < Len(file), Reached(file[pos' + 1].of)
                  PROVE  file[pos' + 1].at = 1 \/ Searched(file[pos' + 1].of, file[pos' + 1].at - 1)
      BY <1>1, <1>2 DEF OnTrack, Searched, Consumed
    <3>. QED  BY <2>2, <2>4 DEF OnTrack
  <2>. QED  BY <1>1, <1>2, <2>1, <2>5, <2>6 DEF NoneSkipped
<1>. QED  BY <1>2, <1>3 DEF Found

LEMMA WriteKeepsFound ==
  ASSUME ~SharedWriter, FileTyped, FileOrdered, Found, ~reading,
         NEW n \in PayloadLens, NEW kind \in Kinds, NEW words \in SUBSET Nat,
         NEW units \in 0 .. Size(n), Write(n, kind, words, units)
  PROVE  Found'
<1>1. PICK l, m : l = Len(file) /\ m = Len(containers)
  OBVIOUS
<1>2. /\ n \in Nat /\ units \in Nat /\ l \in Nat /\ m \in Nat
      /\ Len(containers') = m + 1
      /\ \A i \in 1 .. m : containers'[i] = containers[i]
      /\ containers'[m + 1].payload = n
      /\ containers'[m + 1].hashed = Hashed(m + 1)
      /\ containers'[m + 1].torn = (units < Size(n))
      /\ Len(file') = l + units
      /\ \A k \in 1 .. l : file'[k] = file[k]
      /\ \A k \in 1 .. units : file'[l + k] = [of |-> m + 1, at |-> k]
      /\ containers' \in Seq(Container) /\ file' \in Seq(Unit)
  <2>1. l \in Nat /\ m \in Nat
    BY <1>1, Payloads
  <2>2. /\ n \in Nat /\ units \in Nat
        /\ Len(containers') = Len(containers) + 1
        /\ \A i \in 1 .. Len(containers) : containers'[i] = containers[i]
        /\ containers'[Len(containers) + 1].payload = n
        /\ containers'[Len(containers) + 1].hashed = Hashed(Len(containers) + 1)
        /\ containers'[Len(containers) + 1].torn = (units < Size(n))
        /\ containers' \in Seq(Container) /\ file' \in Seq(Unit)
    BY WrittenFile
  <2>3. /\ Len(file') = Len(file) + units
        /\ \A k \in 1 .. Len(file) : file'[k] = file[k]
        /\ \A k \in 1 .. units : file'[Len(file) + k] = [of |-> Len(containers) + 1, at |-> k]
    BY WrittenFile
  <2>4. /\ n \in Nat /\ units \in Nat
        /\ Len(containers') = m + 1
        /\ \A i \in 1 .. m : containers'[i] = containers[i]
        /\ containers'[m + 1].payload = n
        /\ containers'[m + 1].hashed = Hashed(m + 1)
        /\ containers'[m + 1].torn = (units < Size(n))
        /\ containers' \in Seq(Container) /\ file' \in Seq(Unit)
    BY <1>1, <2>2, Zenon
  <2>5. /\ Len(file') = l + units
        /\ \A k \in 1 .. l : file'[k] = file[k]
        /\ \A k \in 1 .. units : file'[l + k] = [of |-> m + 1, at |-> k]
    BY <1>1, <2>3, Zenon
  <2>. QED  BY <2>1, <2>4, <2>5, Zenon
<1>3. HashedAlone'
  <2>1. ASSUME NEW i \in 1 .. m + 1 PROVE containers'[i].hashed = <<i>>
    <3>1. CASE i = m + 1
      BY <1>2, <3>1 DEF Hashed
    <3>2. CASE i \in 1 .. m
      BY <1>1, <1>2, <3>2 DEF Found, HashedAlone
    <3>. QED  BY <1>2, <3>1, <3>2
  <2>. QED  BY <1>2, <2>1 DEF HashedAlone
<1>4. ASSUME Intact'
      PROVE  Placed' /\ NoneSkipped'
  <2>1. DOMAIN containers' = 1 .. m + 1 /\ DOMAIN file' = 1 .. l + units
    BY <1>2
  <2>2. /\ \A i \in 1 .. m + 1 : ~containers'[i].torn
        /\ \A k \in 1 .. l + units : file'[k].at # 0
    BY <1>4, <2>1 DEF Intact, Torn, Damaged
  <2>3. Intact
    <3>1. DOMAIN containers = 1 .. m /\ DOMAIN file = 1 .. l
      BY <1>1, <1>2 DEF FileTyped
    <3>2. \A i \in 1 .. m : i \in 1 .. m + 1 /\ containers'[i] = containers[i]
      BY <1>2
    <3>3. \A i \in 1 .. m : ~containers[i].torn
      BY <2>2, <3>2
    <3>4. \A k \in 1 .. l : k \in 1 .. l + units /\ file'[k] = file[k]
      BY <1>2
    <3>5. \A k \in 1 .. l : file[k].at # 0
      BY <2>2, <3>4
    <3>. QED  BY <3>1, <3>3, <3>5 DEF Intact, Torn, Damaged
  <2>4. Placed /\ NoneSkipped
    BY <2>3 DEF Found
  <2>5. Size(n) \in Nat /\ units = Size(n) /\ units > 0
    <3>1. m + 1 \in 1 .. m + 1
      BY <1>2
    <3>2. ~(units < Size(n))
      BY <1>2, <2>2, <3>1
    <3>3. Size(n) \in Nat /\ Size(n) > HeaderLen /\ HeaderLen \in Nat
      BY <1>2, Lengths
    <3>4. units \in 0 .. Size(n)
      OBVIOUS
    <3>. QED  BY <3>2, <3>3, <3>4
  <2>6. Whole(m + 1, l)'
    <3>1. \A k \in 1 .. units : file'[l + k] = [of |-> m + 1, at |-> 0 + k]
      BY <1>2
    <3>2. l + units <= Len(file')
      BY <1>2
    <3>3. Holds(l, units, m + 1, 0)'
      BY <3>1, <3>2 DEF Holds
    <3>4. units = Size(containers'[m + 1].payload)
      BY <1>2, <2>5
    <3>. QED  BY <3>3, <3>4 DEF Whole, Size, HeaderLen, VersionEnd
  <2>7. ASSUME NEW i \in 1 .. m, NEW q \in Nat, Whole(i, q) PROVE Whole(i, q)'
    <3>1. PICK s : s = Size(containers[i].payload)
      OBVIOUS
    <3>2. s \in Nat
      BY <1>1, <3>1, Payloads
    <3>3. q + s <= l /\ \A k \in 1 .. s : file[q + k] = [of |-> i, at |-> 0 + k]
      BY <1>1, <2>7, <3>1 DEF Whole, Holds
    <3>4. \A k \in 1 .. s : q + k \in 1 .. l
      BY <1>2, <3>2, <3>3
    <3>5. \A k \in 1 .. s : file'[q + k] = [of |-> i, at |-> 0 + k]
      BY <1>2, <3>3, <3>4
    <3>6. q + s <= Len(file')
      BY <1>2, <3>2, <3>3
    <3>7. Holds(q, s, i, 0)'
      BY <3>5, <3>6 DEF Holds
    <3>8. s = Size(containers'[i].payload)
      BY <1>2, <3>1
    <3>. QED  BY <3>7, <3>8 DEF Whole, Size, HeaderLen, VersionEnd
  <2>8. ASSUME NEW i \in 1 .. m + 1 PROVE \E q \in Nat : Whole(i, q)'
    <3>1. CASE i = m + 1
      BY <1>2, <2>6, <3>1
    <3>2. CASE i \in 1 .. m
      <4>1. PICK q \in Nat : Whole(i, q)
        BY <1>1, <2>4, <3>2 DEF Placed
      <4>. QED  BY <2>7, <3>2, <4>1
    <3>. QED  BY <1>2, <3>1, <3>2
  <2>9. ASSUME NEW k \in 1 .. l + units
        PROVE  (/\ file[k].at \in 1 .. Size(containers[file[k].of].payload) /\ file[k].at <= k
                /\ Whole(file[k].of, k - file[k].at))'
    <3>1. CASE k \in 1 .. l
      <4>1. PICK i, b : i = file[k].of /\ b = file[k].at
        OBVIOUS
      <4>2. i \in 1 .. m /\ b \in Nat
        BY <1>1, <1>2, <3>1, <4>1, Payloads DEF FileOrdered
      <4>3. b \in 1 .. Size(containers[i].payload) /\ b <= k /\ Whole(i, k - b)
        BY <1>1, <2>4, <3>1, <4>1 DEF Placed
      <4>4. k - b \in Nat
        BY <1>2, <4>2, <4>3
      <4>5. Whole(i, k - b)'
        BY <2>7, <4>2, <4>3, <4>4
      <4>6. file'[k] = file[k] /\ containers'[i] = containers[i]
        BY <1>2, <3>1, <4>2
      <4>7. file'[k].of = i /\ file'[k].at = b
        BY <4>1, <4>6
      <4>. QED  BY <4>3, <4>5, <4>6, <4>7 DEF Whole, Holds, Size, HeaderLen, VersionEnd
    <3>2. CASE ~(k \in 1 .. l)
      <4>1. k - l \in 1 .. units /\ l + (k - l) = k /\ k - (k - l) = l
        BY <1>2, <3>2
      <4>2. file'[k] = [of |-> m + 1, at |-> k - l]
        BY <1>2, <4>1
      <4>3. file'[k].of = m + 1 /\ file'[k].at = k - l /\ k - l <= k
        BY <1>2, <4>2
      <4>4. Whole(m + 1, k - (k - l))'
        BY <2>6, <4>1
      <4>5. k - l \in 1 .. Size(containers'[m + 1].payload)
        BY <1>2, <2>5, <4>1
      <4>. QED  BY <4>3, <4>4, <4>5 DEF Whole, Holds, Size, HeaderLen, VersionEnd
    <3>. QED  BY <3>1, <3>2
  <2>10. Placed'
    BY <1>2, <2>8, <2>9 DEF Placed, Size, HeaderLen, VersionEnd
  <2>11. pos' = 0
    BY DEF Write, FileTyped
  <2>12. NoneSkipped'
    <3>1. \A q \in Nat : ~(q < pos')
      BY <2>11
    <3>2. pos' < Len(file') => file'[pos' + 1].at = 1
      <4>1. pos' < Len(file') => file'[1].at <= 1 /\ file'[1].at \in Nat /\ file'[1].at # 0
        <5>. SUFFICES ASSUME 0 < l + units
                      PROVE  file'[1].at <= 1 /\ file'[1].at \in Nat /\ file'[1].at # 0
          BY <1>2, <2>11
        <5>1. 1 \in 1 .. l + units
          BY <1>2
        <5>2. file'[1] \in Unit
          BY <1>2, <5>1
        <5>3. file'[1].at \in Nat
          BY <5>2 DEF Unit
        <5>. QED  BY <2>2, <2>9, <5>1, <5>3
      <4>. QED  BY <2>11, <4>1
    <3>. QED  BY <3>1, <3>2 DEF NoneSkipped, OnTrack
  <2>. QED  BY <2>10, <2>12
<1>. QED  BY <1>3, <1>4 DEF Found

LEMMA StepFound ==
  ASSUME ~SharedWriter, FileTyped, FileOrdered, Found, [ContainersNext]_containerVars
  PROVE  Found'
<1>1. ASSUME NEW d \in DOMAIN file, Damage(d) PROVE Found'
  <2>1. /\ d \in 1 .. Len(file) /\ file'[d].at = 0 /\ DOMAIN file' = 1 .. Len(file)
    BY <1>1, DamagedFile
  <2>2. ~Intact'
    BY <2>1 DEF Intact, Damaged
  <2>3. containers' = containers
    BY <1>1 DEF Damage
  <2>. QED  BY <2>2, <2>3 DEF Found, HashedAlone
<1>2. ASSUME UNCHANGED <<containers, file, pos, results>> PROVE Found'
  BY <1>2 DEF Found, HashedAlone, Intact, Torn, Damaged, Placed, NoneSkipped, OnTrack, Reached,
              Harmless, Searched, Consumed, Whole, Holds
<1>. QED  BY <1>1, <1>2, StepKinds, WriteKeepsFound, CallKeepsFound

\* With a writer of its own for each value, and nothing torn or damaged, an
\* accepted container is returned whatever the reader refused before it, if the
\* search behind every refused one leads to the next.
THEOREM RefusalsAreContained ==
  ASSUME ~SharedWriter
  PROVE  ContainersSpec => []RefusalsCostNothingElse
<1>1. ContainersInit => FileTyped /\ FileOrdered /\ Found
  <2>. SUFFICES ASSUME ContainersInit PROVE FileTyped /\ FileOrdered /\ Found
    OBVIOUS
  <2>1. Len(containers) = 0 /\ Len(file) = 0
    BY DEF ContainersInit
  <2>2. FileTyped /\ FileOrdered
    BY InitFile
  <2>3. pos = 0
    BY DEF ContainersInit
  <2>4. HashedAlone /\ Placed /\ NoneSkipped
    BY <2>1, <2>3 DEF HashedAlone, Placed, NoneSkipped, OnTrack
  <2>. QED  BY <2>2, <2>4 DEF Found
<1>2. FileTyped /\ FileOrdered /\ Found /\ [ContainersNext]_containerVars
        => (FileTyped /\ FileOrdered /\ Found)'
  BY StepTyped, StepOrdered, StepFound
<1>3. FileTyped /\ FileOrdered /\ Found => RefusalsCostNothingElse
  <2>. SUFFICES ASSUME FileTyped, Found, pos = Len(file), Intact,
                       NEW i \in DOMAIN containers, containers[i].kind = "accepted", Reached(i)
                PROVE  Got(i, 0, containers[i].payload) \in ToSet(results)
    BY DEF RefusalsCostNothingElse, Reached
  <2>1. Placed /\ NoneSkipped /\ i \in 1 .. Len(containers)
    BY Payloads DEF Found
  <2>2. PICK q \in Nat : Whole(i, q)
    BY <2>1 DEF Placed
  <2>3. q < pos
    <3>1. q + 1 \in 1 .. Len(file) /\ Len(file) \in Nat
      BY <2>1, <2>2, WholeStarts, Payloads
    <3>. QED  BY <3>1
  <2>4. PICK k \in 1 .. Len(results) : results[k] = Got(i, 0, containers[i].payload)
    BY <2>1, <2>2, <2>3 DEF NoneSkipped
  <2>5. DOMAIN results = 1 .. Len(results)
    BY DEF FileTyped
  <2>. QED  BY <2>4, <2>5 DEF ToSet
<1>. QED  BY <1>1, <1>2, <1>3, PTL DEF ContainersSpec
-----------------------------------------------------------------------------
(* Programs over a table.                                                  *)

LEMMA LeastNumber ==
  ASSUME NEW T, T \subseteq Nat, T # {}
  PROVE  \E m \in T : \A n \in T : ~(n < m)
<1>1. PICK m \in T : \A n \in T : ~(<<n, m>> \in OpToRel(<, Nat))
  BY NatLessThanWellFounded, WFMin
<1>. QED  BY <1>1 DEF OpToRel

\* Induction on numbers, for the set of those that have the property.
LEMMA Induction ==
  ASSUME NEW S, 0 \in S, \A n \in Nat : n \in S => n + 1 \in S
  PROVE  \A n \in Nat : n \in S
<1>1. SUFFICES ASSUME NEW T, T = Nat \ S, T # {} PROVE FALSE
  OBVIOUS
<1>2. PICK m \in T : \A n \in T : ~(n < m)
  BY <1>1, LeastNumber
<1>3. m \in Nat /\ m # 0 /\ m - 1 \in Nat /\ m - 1 < m /\ (m - 1) + 1 = m
  BY <1>1, <1>2
<1>4. m - 1 \in S
  BY <1>1, <1>2, <1>3
<1>. QED  BY <1>1, <1>2, <1>3, <1>4
-----------------------------------------------------------------------------
(* The tables that a program passes through.                               *)

Codes == Seq(Instructions)
Step(code, table, f, K) ==
  f = [j \in 0 .. K |-> IF j = 0 THEN table ELSE Applied(f[j - 1], code[j])]

LEMMA StepExists ==
  ASSUME NEW code, NEW table, NEW K \in Nat
  PROVE  \E f : Step(code, table, f, K)
<1> DEFINE S == {n \in Nat : \E f : Step(code, table, f, n)}
<1>1. 0 \in S
  <2> DEFINE f == [j \in 0 .. 0 |-> table]
  <2>1. f = [j \in 0 .. 0 |-> IF j = 0 THEN table ELSE Applied(f[j - 1], code[j])]
    OBVIOUS
  <2>. QED  BY <2>1 DEF Step
<1>2. ASSUME NEW n \in Nat, n \in S PROVE n + 1 \in S
  <2>1. PICK f : Step(code, table, f, n)
    BY <1>2
  <2> DEFINE g == [j \in 0 .. n + 1 |-> IF j = n + 1 THEN Applied(f[n], code[n + 1]) ELSE f[j]]
  <2>2. \A j \in 0 .. n : f[j] = IF j = 0 THEN table ELSE Applied(f[j - 1], code[j])
    BY <2>1 DEF Step
  <2>3. \A j \in 0 .. n + 1 : g[j] = IF j = 0 THEN table ELSE Applied(g[j - 1], code[j])
    <3>1. TAKE j \in 0 .. n + 1
    <3>2. CASE j = n + 1
      BY <3>2
    <3>3. CASE j # n + 1
      <4>1. j \in 0 .. n /\ (j # 0 => j - 1 \in 0 .. n)
        BY <3>3
      <4>2. g[j] = f[j] /\ (j # 0 => g[j - 1] = f[j - 1])
        BY <4>1
      <4>. QED  BY <2>2, <4>1, <4>2
    <3>. QED  BY <3>2, <3>3
  <2>4. g = [j \in 0 .. n + 1 |-> IF j = 0 THEN table ELSE Applied(g[j - 1], code[j])]
    BY <2>3
  <2>5. Step(code, table, g, n + 1)
    BY <2>4 DEF Step
  <2> HIDE DEF g
  <2>. QED  BY <2>5
<1>3. \A n \in Nat : n \in S
  <2> HIDE DEF S
  <2>. QED  BY <1>1, <1>2, Induction
<1>. QED  BY <1>3

LEMMA StagesStep ==
  ASSUME NEW code \in Codes, NEW table
  PROVE  /\ Stages(code, table)[0] = table
         /\ \A j \in 1 .. Len(code) :
              Stages(code, table)[j] = Applied(Stages(code, table)[j - 1], code[j])
<1>1. Len(code) \in Nat
  BY LenProperties DEF Codes
<1> DEFINE f == Stages(code, table)
<1>2. f = CHOOSE g : Step(code, table, g, Len(code))
  BY DEF Stages, Step
<1>3. Step(code, table, f, Len(code))
  BY <1>1, <1>2, StepExists
<1> HIDE DEF f
<1>4. \A j \in 0 .. Len(code) : f[j] = IF j = 0 THEN table ELSE Applied(f[j - 1], code[j])
  BY <1>3 DEF Step
<1>. QED  BY <1>1, <1>4 DEF f

\* A table: a function on names.
IsTable(t) == DOMAIN t \subseteq Names /\ t = [n \in DOMAIN t |-> t[n]]

LEMMA InstructionType ==
  ASSUME NEW code \in Codes, NEW j \in 1 .. Len(code)
  PROVE  /\ code[j] \in Instructions
         /\ code[j].inputs \in Seq(Names) /\ code[j].outputs \in Seq(Names)
         /\ IsInjective(code[j].outputs)
         /\ ToSet(code[j].outputs) \subseteq Names
<1>1. code[j] \in Instructions
  BY ElementOfSeq DEF Codes
<1>2. code[j].inputs \in Seq(Names) /\ code[j].outputs \in Seq(Names) /\ IsInjective(code[j].outputs)
  BY <1>1 DEF Instructions
<1>3. ToSet(code[j].outputs) \subseteq Names
  BY <1>2, ElementOfSeq, LenProperties DEF ToSet
<1>. QED  BY <1>1, <1>2, <1>3

LEMMA StagesAreTables ==
  ASSUME NEW code \in Codes, NEW table, IsTable(table)
  PROVE  \A j \in 0 .. Len(code) : IsTable(Stages(code, table)[j])
<1> DEFINE S == {n \in Nat : n <= Len(code) => IsTable(Stages(code, table)[n])}
<1>1. Len(code) \in Nat
  BY LenProperties DEF Codes
<1>2. 0 \in S
  BY StagesStep
<1>3. ASSUME NEW n \in Nat, n \in S PROVE n + 1 \in S
  <2>1. SUFFICES ASSUME n + 1 <= Len(code) PROVE IsTable(Stages(code, table)[n + 1])
    OBVIOUS
  <2>2. IsTable(Stages(code, table)[n]) /\ n + 1 \in 1 .. Len(code) /\ (n + 1) - 1 = n
    BY <1>1, <1>3, <2>1
  <2>3. Stages(code, table)[n + 1] = Applied(Stages(code, table)[n], code[n + 1])
    BY <2>2, StagesStep
  <2>4. ToSet(code[n + 1].outputs) \subseteq Names
    BY <2>2, InstructionType
  <2> DEFINE t == Stages(code, table)[n]
  <2>5. DOMAIN t \subseteq Names
    BY <2>2 DEF IsTable
  <2> HIDE DEF t
  <2>6. IsTable(Applied(t, code[n + 1]))
    BY <2>4, <2>5 DEF IsTable, Applied
  <2>. QED  BY <2>3, <2>6 DEF t
<1>4. \A n \in Nat : n \in S
  <2> HIDE DEF S
  <2>. QED  BY <1>2, <1>3, Induction
<1>. QED  BY <1>1, <1>4

\* What an instruction leaves in the table stays until another one writes it.
LEMMA StagesKeep ==
  ASSUME NEW code \in Codes, NEW table, NEW j \in 0 .. Len(code), NEW n,
         n \in DOMAIN Stages(code, table)[j], NEW r \in j .. Len(code)
  PROVE  /\ n \in DOMAIN Stages(code, table)[r]
         /\ (\A i \in j + 1 .. r : n \notin ToSet(code[i].outputs))
              => Stages(code, table)[r][n] = Stages(code, table)[j][n]
<1> DEFINE A(k) == Stages(code, table)[k]
           Untouched(k) == \A i \in j + 1 .. k : n \notin ToSet(code[i].outputs)
           S == {k \in Nat : j <= k /\ k <= Len(code)
                   => n \in DOMAIN A(k) /\ (Untouched(k) => A(k)[n] = A(j)[n])}
<1>1. Len(code) \in Nat
  BY LenProperties DEF Codes
<1>2. 0 \in S
  OBVIOUS
<1>3. ASSUME NEW k \in Nat, k \in S PROVE k + 1 \in S
  <2>1. SUFFICES ASSUME j <= k + 1, k + 1 <= Len(code)
                 PROVE  n \in DOMAIN A(k + 1) /\ (Untouched(k + 1) => A(k + 1)[n] = A(j)[n])
    OBVIOUS
  <2>2. CASE j = k + 1
    BY <2>2
  <2>3. CASE j <= k
    <3>1. /\ n \in DOMAIN A(k) /\ (Untouched(k) => A(k)[n] = A(j)[n])
          /\ k + 1 \in 1 .. Len(code) /\ (k + 1) - 1 = k /\ k + 1 \in j + 1 .. k + 1
      BY <1>1, <1>3, <2>1, <2>3
    <3>2. A(k + 1) = Applied(A(k), code[k + 1])
      BY <3>1, StagesStep
    <3>3. Untouched(k + 1) => Untouched(k) /\ n \notin ToSet(code[k + 1].outputs)
      BY <3>1
    <3> HIDE DEF A
    <3>. QED  BY <3>1, <3>2, <3>3 DEF Applied
  <2>. QED  BY <2>1, <2>2, <2>3
<1>4. \A k \in Nat : k \in S
  <2> HIDE DEF S
  <2>. QED  BY <1>2, <1>3, Induction
<1>5. r \in Nat /\ j <= r /\ r <= Len(code) /\ r \in S
  BY <1>1, <1>4
<1>. QED  BY <1>5

\* The first r instructions find their inputs.
InputsFound(code, table, r) ==
  \A j \in 1 .. r : ToSet(code[j].inputs) \subseteq DOMAIN Stages(code, table)[j - 1]

Once(code) ==
  \A j \in DOMAIN code : \A i \in 1 .. j :
    /\ ToSet(code[i].inputs) \cap ToSet(code[j].outputs) = {}
    /\ i < j => ToSet(code[i].outputs) \cap ToSet(code[j].outputs) = {}

\* What an instruction reads, for tables that agree on its inputs.
LEMMA SameInputs ==
  ASSUME NEW code \in Codes, NEW j \in 1 .. Len(code), NEW t, NEW u,
         \A n \in ToSet(code[j].inputs) : t[n] = u[n]
  PROVE  [a \in DOMAIN code[j].inputs |-> t[code[j].inputs[a]]]
           = [a \in DOMAIN code[j].inputs |-> u[code[j].inputs[a]]]
<1>1. \A a \in DOMAIN code[j].inputs : code[j].inputs[a] \in ToSet(code[j].inputs)
  BY InstructionType, LenProperties DEF ToSet
<1>. QED  BY <1>1

\* An instruction that is applied once more changes nothing, if every name is
\* written once.
LEMMA AppliedAgain ==
  ASSUME NEW code \in Codes, NEW table, IsTable(table), Once(code),
         NEW r \in 0 .. Len(code), InputsFound(code, table, r), NEW j \in 1 .. r
  PROVE  Applied(Stages(code, table)[r], code[j]) = Stages(code, table)[r]
<1> DEFINE A(k) == Stages(code, table)[k]
           in == code[j].inputs
           out == ToSet(code[j].outputs)
<1>1. /\ Len(code) \in Nat /\ DOMAIN code = 1 .. Len(code)
      /\ j \in 1 .. Len(code) /\ j - 1 \in 0 .. Len(code) /\ j \in 0 .. Len(code)
      /\ r \in j .. Len(code) /\ r \in j - 1 .. Len(code) /\ (j - 1) + 1 = j
  BY LenProperties DEF Codes
<1>2. IsTable(A(r)) /\ A(j) = Applied(A(j - 1), code[j])
  BY <1>1, StagesAreTables, StagesStep
<1>3. \A n \in out : n \in DOMAIN A(j)
  BY <1>2 DEF Applied
<1>4. \A n \in out : n \in DOMAIN A(r) /\ A(r)[n] = A(j)[n]
  <2>1. ASSUME NEW n \in out, NEW i \in j + 1 .. r PROVE n \notin ToSet(code[i].outputs)
    <3>1. i \in DOMAIN code /\ j \in 1 .. i /\ j < i
      BY <1>1
    <3>. QED  BY <3>1 DEF Once
  <2>. QED  BY <1>1, <1>3, <2>1, StagesKeep
<1>5. \A n \in ToSet(in) : A(r)[n] = A(j - 1)[n]
  <2>1. ASSUME NEW n \in ToSet(in), NEW i \in (j - 1) + 1 .. r PROVE n \notin ToSet(code[i].outputs)
    <3>1. i \in DOMAIN code /\ j \in 1 .. i
      BY <1>1
    <3>. QED  BY <3>1 DEF Once
  <2>2. ToSet(in) \subseteq DOMAIN A(j - 1)
    BY DEF InputsFound
  <2>. QED  BY <1>1, <2>1, <2>2, StagesKeep
<1>6. [a \in DOMAIN in |-> A(r)[in[a]]] = [a \in DOMAIN in |-> A(j - 1)[in[a]]]
  BY <1>1, <1>5, SameInputs
<1>7. \A n \in out : A(r)[n] = <<code[j].op, [a \in DOMAIN in |-> A(r)[in[a]]],
                                CHOOSE k \in DOMAIN code[j].outputs : code[j].outputs[k] = n>>
  BY <1>2, <1>4, <1>6 DEF Applied
<1>8. DOMAIN A(r) \cup out = DOMAIN A(r) /\ A(r) = [n \in DOMAIN A(r) |-> A(r)[n]]
  BY <1>2, <1>4 DEF IsTable
<1> DEFINE t == A(r)
           u == Applied(t, code[j])
<1>9. DOMAIN u = DOMAIN t /\ u = [n \in DOMAIN u |-> u[n]]
  BY <1>8 DEF Applied
<1>10. \A n \in DOMAIN t : u[n] = t[n]
  BY <1>7 DEF Applied
<1> HIDE DEF t, u
<1>11. u = t
  BY <1>8, <1>9, <1>10 DEF t
<1>. QED  BY <1>11 DEF t, u

\* A value that no instruction has needed or written yet may as well have been
\* there from the beginning.
LEMMA AppliedWith ==
  ASSUME NEW code \in Codes, NEW j \in 1 .. Len(code), NEW t, NEW n, NEW v,
         ToSet(code[j].inputs) \subseteq DOMAIN t,
         n \notin ToSet(code[j].outputs), n \notin DOMAIN t
  PROVE  Applied(With(t, n, v), code[j]) = With(Applied(t, code[j]), n, v)
<1> DEFINE u == With(t, n, v)
           in == code[j].inputs
<1>1. DOMAIN u = DOMAIN t \cup {n} /\ u[n] = v /\ \A m \in DOMAIN t : u[m] = t[m]
  BY DEF With
<1> HIDE DEF u
<1>2. \A m \in ToSet(in) : u[m] = t[m]
  BY <1>1
<1>3. [a \in DOMAIN in |-> u[in[a]]] = [a \in DOMAIN in |-> t[in[a]]]
  BY <1>2, SameInputs
<1> DEFINE l == Applied(u, code[j])
           m == With(Applied(t, code[j]), n, v)
<1>4. /\ DOMAIN l = DOMAIN m
      /\ l = [k \in DOMAIN l |-> l[k]] /\ m = [k \in DOMAIN m |-> m[k]]
  BY <1>1 DEF Applied, With
<1> DEFINE out == ToSet(code[j].outputs)
           Written(k) == CHOOSE i \in DOMAIN code[j].outputs : code[j].outputs[i] = k
<1>5. \A k \in DOMAIN l : l[k] = m[k]
  <2>1. TAKE k \in DOMAIN l
  <2>2. k \in DOMAIN t \cup {n} \cup out
    BY <1>1 DEF Applied
  <2>3. CASE k = n
    BY <1>1, <2>3 DEF Applied, With
  <2>4. CASE k # n /\ k \in out
    <3>1. l[k] = <<code[j].op, [a \in DOMAIN in |-> u[in[a]]], Written(k)>>
      BY <1>1, <2>4 DEF Applied
    <3>2. m[k] = <<code[j].op, [a \in DOMAIN in |-> t[in[a]]], Written(k)>>
      BY <2>4 DEF Applied, With
    <3>. QED  BY <1>3, <3>1, <3>2
  <2>5. CASE k # n /\ k \notin out
    BY <1>1, <2>2, <2>5 DEF Applied, With
  <2>. QED  BY <2>3, <2>4, <2>5
<1> HIDE DEF l, m
<1>6. l = m
  BY <1>4, <1>5
<1>. QED  BY <1>6 DEF l, m, u

LEMMA StagesWith ==
  ASSUME NEW code \in Codes, NEW table, NEW r \in 0 .. Len(code), InputsFound(code, table, r),
         NEW n, NEW v, n \notin DOMAIN Stages(code, table)[r]
  PROVE  \A j \in 0 .. r : Stages(code, With(table, n, v))[j] = With(Stages(code, table)[j], n, v)
<1> DEFINE A(k) == Stages(code, table)[k]
           B(k) == Stages(code, With(table, n, v))[k]
           S == {k \in Nat : k <= r => B(k) = With(A(k), n, v)}
<1>1. Len(code) \in Nat
  BY LenProperties DEF Codes
<1>2. 0 \in S
  BY <1>1, StagesStep
<1>3. ASSUME NEW k \in Nat, k \in S PROVE k + 1 \in S
  <2>1. SUFFICES ASSUME k + 1 <= r PROVE B(k + 1) = With(A(k + 1), n, v)
    OBVIOUS
  <2>2. /\ B(k) = With(A(k), n, v)
        /\ k + 1 \in 1 .. r /\ k + 1 \in 1 .. Len(code) /\ (k + 1) - 1 = k
        /\ k \in 0 .. Len(code) /\ r \in k .. Len(code) /\ r \in k + 1 .. Len(code)
        /\ k + 1 \in 0 .. Len(code)
    BY <1>1, <1>3, <2>1
  <2>3. /\ A(k + 1) = Applied(A(k), code[k + 1])
        /\ B(k + 1) = Applied(B(k), code[k + 1])
    BY <2>2, StagesStep
  <2>4. n \notin DOMAIN A(k) /\ n \notin DOMAIN A(k + 1)
    BY <2>2, StagesKeep
  <2>5. n \notin ToSet(code[k + 1].outputs)
    BY <2>3, <2>4 DEF Applied
  <2>6. ToSet(code[k + 1].inputs) \subseteq DOMAIN A(k)
    BY <2>2 DEF InputsFound
  <2> HIDE DEF A, B
  <2>. QED  BY <2>2, <2>3, <2>4, <2>5, <2>6, AppliedWith
<1>4. \A k \in Nat : k \in S
  <2> HIDE DEF S
  <2>. QED  BY <1>2, <1>3, Induction
<1>. QED  BY <1>1, <1>4

LEMMA InputsFoundWith ==
  ASSUME NEW code \in Codes, NEW table, NEW r \in 0 .. Len(code), InputsFound(code, table, r),
         NEW n, NEW v, n \notin DOMAIN Stages(code, table)[r]
  PROVE  InputsFound(code, With(table, n, v), r)
<1> SUFFICES ASSUME NEW j \in 1 .. r
             PROVE  ToSet(code[j].inputs) \subseteq DOMAIN Stages(code, With(table, n, v))[j - 1]
  BY DEF InputsFound
<1>1. j - 1 \in 0 .. r
  BY LenProperties DEF Codes
<1>2. Stages(code, With(table, n, v))[j - 1] = With(Stages(code, table)[j - 1], n, v)
  BY <1>1, StagesWith
<1>3. ToSet(code[j].inputs) \subseteq DOMAIN Stages(code, table)[j - 1]
  BY DEF InputsFound
<1>. QED  BY <1>2, <1>3 DEF With
-----------------------------------------------------------------------------
(* The invariant.                                                          *)

Events0 == [op : Operators, inputs : Nat, outputs : Nat]
Typed ==
  /\ program \in Programs
  /\ IsTable(symbols) /\ IsTable(base)
  /\ pc \in 1 .. Len(program) + 1
  /\ status \in {"idle", "running", "done", "failed"}
  /\ tracing \in BOOLEAN
  /\ trace \in Seq(Events0)
  /\ start.events \in Nat
  /\ pristine \in BOOLEAN

\* Where an evaluation can be when it is not running.
CodePlaces ==
  /\ status = "idle" => pc = 1 /\ symbols = base
  /\ status = "done" => pc = Len(program) + 1
  /\ status = "failed" => pc <= Len(program)

\* A running evaluation has done the instructions before pc.
RunsOn == status = "running" => symbols = Stages(program, start.symbols)[pc - 1]

\* Whatever was run before, the table is that of a prefix of the program, at
\* least as long as that of the current evaluation, run once over what the
\* host has put in.
OfPrefix(r) ==
  /\ symbols = Stages(program, base)[r]
  /\ InputsFound(program, base, r)
RunOnce == pristine /\ WrittenOnce => \E r \in pc - 1 .. Len(program) : OfPrefix(r)

ProgramInv == Typed /\ CodePlaces /\ TraceMatchesTable /\ RunsOn /\ RunOnce
-----------------------------------------------------------------------------
LEMMA InitProgram == ProgramInit => ProgramInv
<1> SUFFICES ASSUME ProgramInit PROVE ProgramInv
  OBVIOUS
<1>. USE DEF ProgramInit
<1>1. program \in Codes /\ Len(program) \in Nat
  BY ProgramAssumption, LenProperties DEF Codes
<1>2. IsTable(symbols)
  BY DEF IsTable
<1>3. Typed
  BY <1>1, <1>2 DEF Typed
<1>4. CodePlaces /\ TraceMatchesTable /\ RunsOn
  BY DEF CodePlaces, TraceMatchesTable, RunsOn
<1>5. OfPrefix(0)
  BY <1>1, StagesStep DEF OfPrefix, InputsFound
<1>6. RunOnce
  BY <1>1, <1>5 DEF RunOnce
<1>. QED  BY <1>3, <1>4, <1>6 DEF ProgramInv

\* What the steps need to know of the program.
LEMMA Code ==
  ASSUME Typed
  PROVE  /\ program \in Codes /\ Len(program) \in Nat /\ DOMAIN program = 1 .. Len(program)
         /\ pc \in Nat
<1>. QED  BY ProgramAssumption, LenProperties DEF Typed, Codes

LEMMA StepRegister ==
  ASSUME ProgramInv, NEW op \in Operators, Register(op) PROVE ProgramInv'
<1>. USE DEF Register, hostVars
<1>1. Typed'
  BY DEF ProgramInv, Typed
<1>2. CodePlaces' /\ TraceMatchesTable' /\ RunsOn'
  BY DEF ProgramInv, CodePlaces, TraceMatchesTable, Events, Instruction, RunsOn
<1>3. \A r : OfPrefix(r)' <=> OfPrefix(r)
  BY DEF OfPrefix
<1>4. RunOnce'
  BY <1>3 DEF ProgramInv, RunOnce, WrittenOnce
<1>. QED  BY <1>1, <1>2, <1>4 DEF ProgramInv

LEMMA TablesWith ==
  ASSUME NEW t, IsTable(t), NEW n \in Names, NEW v
  PROVE  IsTable(With(t, n, v)) /\ IsTable(Without(t, n))
<1>. QED  BY DEF IsTable, With, Without

LEMMA StepSetVar ==
  ASSUME ProgramInv, NEW n \in Names, SetVar(n) PROVE ProgramInv'
<1> DEFINE v == Value(n, edits + 1)
<1>. USE DEF SetVar
<1>1. program \in Codes /\ Len(program) \in Nat /\ pc \in Nat
  BY Code DEF ProgramInv
<1>2. Typed'
  BY TablesWith DEF ProgramInv, Typed
<1>3. CodePlaces' /\ TraceMatchesTable' /\ RunsOn'
  BY DEF ProgramInv, CodePlaces, TraceMatchesTable, Events, Instruction, RunsOn
<1>4. RunOnce'
  <2>1. SUFFICES ASSUME pristine', WrittenOnce' PROVE \E r \in pc - 1 .. Len(program) : OfPrefix(r)'
    BY DEF RunOnce
  <2>2. PICK r \in pc - 1 .. Len(program) : OfPrefix(r)
    BY <2>1 DEF ProgramInv, RunOnce, WrittenOnce
  <2>3. CASE status = "idle"
    <3>1. pc = 1 /\ symbols' = base' /\ 0 \in pc - 1 .. Len(program)
      BY <1>1, <2>3 DEF ProgramInv, CodePlaces
    <3>2. OfPrefix(0)'
      BY <1>1, <3>1, StagesStep DEF OfPrefix, InputsFound
    <3>. QED  BY <3>1, <3>2
  <2>4. CASE status # "idle"
    <3>1. n \notin DOMAIN symbols
      BY <2>1, <2>4
    <3>2. symbols = Stages(program, base)[r] /\ InputsFound(program, base, r)
      BY <2>2 DEF OfPrefix
    <3>3. r \in 0 .. Len(program) /\ r \in 0 .. r
      BY <1>1 DEF ProgramInv, Typed
    <3>4. Stages(program, With(base, n, v))[r] = With(Stages(program, base)[r], n, v)
      BY <1>1, <3>1, <3>2, <3>3, StagesWith
    <3>5. InputsFound(program, With(base, n, v), r)
      BY <1>1, <3>1, <3>2, <3>3, InputsFoundWith
    <3>6. OfPrefix(r)'
      BY <3>2, <3>4, <3>5 DEF OfPrefix
    <3>. QED  BY <3>6
  <2>. QED  BY <2>3, <2>4
<1>. QED  BY <1>2, <1>3, <1>4 DEF ProgramInv

LEMMA StepDelVar ==
  ASSUME ProgramInv, NEW n \in Names, DelVar(n) PROVE ProgramInv'
<1>. USE DEF DelVar
<1>1. program \in Codes /\ Len(program) \in Nat /\ pc \in Nat
  BY Code DEF ProgramInv
<1>2. Typed'
  BY TablesWith DEF ProgramInv, Typed
<1>3. CodePlaces' /\ TraceMatchesTable' /\ RunsOn'
  BY DEF ProgramInv, CodePlaces, TraceMatchesTable, Events, Instruction, RunsOn
<1>4. RunOnce'
  <2>1. SUFFICES ASSUME pristine' PROVE \E r \in pc - 1 .. Len(program) : OfPrefix(r)'
    BY DEF RunOnce
  <2>0. status = "idle"
    BY <2>1, Zenon
  <2>2. pc = 1 /\ symbols' = base' /\ 0 \in pc - 1 .. Len(program)
    BY <1>1, <2>0 DEF ProgramInv, CodePlaces
  <2>3. OfPrefix(0)'
    BY <1>1, <2>2, StagesStep DEF OfPrefix, InputsFound
  <2>. QED  BY <2>2, <2>3
<1>. QED  BY <1>2, <1>3, <1>4 DEF ProgramInv

LEMMA StepEval ==
  ASSUME ProgramInv, Eval PROVE ProgramInv'
<1>. USE DEF Eval, hostVars
<1>1. program \in Codes /\ Len(program) \in Nat /\ pc \in Nat
  BY Code DEF ProgramInv
<1>2. Len(trace) \in Nat
  BY LenProperties DEF ProgramInv, Typed
<1>3. Typed'
  BY <1>1, <1>2 DEF ProgramInv, Typed
<1>4. CodePlaces' /\ TraceMatchesTable'
  BY <1>2 DEF ProgramInv, CodePlaces, TraceMatchesTable, Events
<1>5. RunsOn'
  BY <1>1, StagesStep DEF RunsOn
<1>6. \A r : OfPrefix(r)' <=> OfPrefix(r)
  BY DEF OfPrefix
<1>7. RunOnce'
  <2>1. SUFFICES ASSUME pristine, WrittenOnce PROVE \E r \in 1 - 1 .. Len(program) : OfPrefix(r)
    BY <1>6 DEF RunOnce, WrittenOnce
  <2>2. PICK r \in pc - 1 .. Len(program) : OfPrefix(r)
    BY <2>1 DEF ProgramInv, RunOnce
  <2>3. r \in 1 - 1 .. Len(program)
    BY <1>1 DEF ProgramInv, Typed
  <2>. QED  BY <2>2, <2>3
<1>. QED  BY <1>3, <1>4, <1>5, <1>7 DEF ProgramInv

\* An event is added to the trace or it is not.
LEMMA StepEvalFails ==
  ASSUME ProgramInv, EvalFails PROVE ProgramInv'
<1>. USE DEF EvalFails, Stop, Unchanged, hostVars, RecordedFailure
<1>1. program \in Codes /\ Len(program) \in Nat /\ pc \in Nat /\ trace' = trace
  BY Code DEF ProgramInv
<1>2. Typed'
  BY <1>1 DEF ProgramInv, Typed
<1>3. CodePlaces' /\ RunsOn'
  BY DEF ProgramInv, CodePlaces, RunsOn
<1>4. TraceMatchesTable'
  <2>1. tracing => Events = pc - 1
    BY DEF ProgramInv, TraceMatchesTable
  <2>2. Events' = Events
    BY <1>1 DEF Events
  <2>. QED  BY <1>1, <2>1, <2>2 DEF TraceMatchesTable
<1>5. \A r : OfPrefix(r)' <=> OfPrefix(r)
  BY DEF OfPrefix
<1>6. RunOnce'
  BY <1>5 DEF ProgramInv, RunOnce, WrittenOnce
<1>. QED  BY <1>2, <1>3, <1>4, <1>6 DEF ProgramInv

LEMMA CalledType ==
  ASSUME Typed, Called
  PROVE  /\ pc \in 1 .. Len(program)
         /\ Instruction = program[pc] /\ Instruction.op \in Operators
         /\ Returns[Instruction.op] \in Nat
         /\ Instruction.outputs \in Seq(Names) /\ IsInjective(Instruction.outputs)
         /\ ToSet(Instruction.outputs) \subseteq Names
         /\ trace' \in Seq(Events0)
         /\ tracing => Len(trace') = Len(trace) + 1 /\ Last(trace').outputs = Returns[Instruction.op]
         /\ Len(trace) \in Nat
<1>1. program \in Codes /\ Len(program) \in Nat /\ pc \in 1 .. Len(program)
  BY Code DEF Typed, Called
<1>2. /\ program[pc] \in Instructions /\ ToSet(program[pc].outputs) \subseteq Names
      /\ program[pc].inputs \in Seq(Names) /\ program[pc].outputs \in Seq(Names)
      /\ IsInjective(program[pc].outputs)
  BY <1>1, InstructionType
<1>3. program[pc].op \in Operators /\ Returns[program[pc].op] \in Nat
  BY <1>2, ProgramAssumption DEF Instructions
<1> DEFINE e == [op |-> program[pc].op, inputs |-> Len(program[pc].inputs),
                 outputs |-> Returns[program[pc].op]]
<1>4. e \in Events0
  BY <1>2, <1>3, LenProperties DEF Events0
<1>5. trace' = IF tracing THEN Append(trace, e) ELSE trace
  BY DEF Called, Recorded, Instruction
<1>6. trace \in Seq(Events0) /\ Len(trace) \in Nat
  BY LenProperties DEF Typed
<1>7. e.outputs = Returns[program[pc].op]
  OBVIOUS
<1> HIDE DEF e
<1>8. /\ Append(trace, e) \in Seq(Events0) /\ Len(Append(trace, e)) = Len(trace) + 1
      /\ Append(trace, e)[Len(trace) + 1] = e
  BY <1>4, <1>6, AppendProperties
<1>9. Last(Append(trace, e)) = e
  BY <1>8 DEF Last
<1>. QED  BY <1>1, <1>2, <1>3, <1>5, <1>6, <1>7, <1>8, <1>9 DEF Instruction

LEMMA StepCountDiffers ==
  ASSUME ProgramInv, CountDiffers PROVE ProgramInv'
<1>. USE DEF CountDiffers, Stop, Unchanged, hostVars, NothingBound
<1>1. program \in Codes /\ Len(program) \in Nat /\ pc \in Nat
  BY Code DEF ProgramInv
<1>2. /\ pc \in 1 .. Len(program) /\ trace' \in Seq(Events0) /\ Len(trace) \in Nat
      /\ tracing => Len(trace') = Len(trace) + 1 /\ Last(trace').outputs = Returns[Instruction.op]
  BY CalledType DEF ProgramInv
<1>3. Typed'
  BY <1>2 DEF ProgramInv, Typed
<1>4. CodePlaces' /\ RunsOn'
  BY <1>2 DEF ProgramInv, CodePlaces, RunsOn
<1>5. TraceMatchesTable'
  <2>1. tracing => Events = pc - 1
    BY DEF ProgramInv, TraceMatchesTable, Called
  <2>2. tracing => Events' = Events + 1
    BY <1>2 DEF Events, ProgramInv, Typed
  <2>3. Returns[Instruction.op] # Len(Instruction.outputs)
    BY DEF CountMatches
  <2>4. Instruction' = Instruction
    BY DEF Instruction
  <2>. QED  BY <1>1, <1>2, <2>1, <2>2, <2>3, <2>4 DEF TraceMatchesTable
<1>6. \A r : OfPrefix(r)' <=> OfPrefix(r)
  BY DEF OfPrefix
<1>7. RunOnce'
  BY <1>6 DEF ProgramInv, RunOnce, WrittenOnce
<1>. QED  BY <1>3, <1>4, <1>5, <1>7 DEF ProgramInv

\* Binding what the operator has returned is what the instruction makes of the
\* table.
LEMMA BindIsApplied ==
  ASSUME Typed, Called, CountMatches
  PROVE  Bind = Applied(symbols, program[pc])
<1>1. /\ Instruction = program[pc] /\ Instruction.outputs \in Seq(Names)
      /\ Returns[Instruction.op] = Len(Instruction.outputs)
      /\ ToSet(Instruction.outputs) \subseteq Names
  BY CalledType DEF CountMatches
<1>2. DOMAIN Instruction.outputs = 1 .. Len(Instruction.outputs) /\ Len(Instruction.outputs) \in Nat
  BY <1>1, LenProperties
<1>3. \A n : Given(n) <=> n \in ToSet(Instruction.outputs)
  <2>1. ASSUME NEW n \in ToSet(Instruction.outputs) PROVE Place(n) <= Len(Instruction.outputs)
    <3>1. \E k \in DOMAIN Instruction.outputs : Instruction.outputs[k] = n
      BY <1>2 DEF ToSet
    <3>2. Place(n) \in DOMAIN Instruction.outputs
      BY <3>1 DEF Place
    <3>. QED  BY <1>2, <3>2
  <2>. QED  BY <1>1, <2>1 DEF Given
<1>4. {m \in Names : Given(m)} = ToSet(Instruction.outputs)
  BY <1>1, <1>3
<1> DEFINE b == Bind
           a == Applied(symbols, program[pc])
<1>5. DOMAIN b = DOMAIN a /\ b = [n \in DOMAIN b |-> b[n]] /\ a = [n \in DOMAIN a |-> a[n]]
  BY <1>1, <1>4 DEF Bind, Applied
<1>6. \A n \in DOMAIN a : b[n] = a[n]
  <2>1. TAKE n \in DOMAIN a
  <2>2. CASE n \in ToSet(Instruction.outputs)
    <3>1. b[n] = <<Instruction.op, Inputs, Place(n)>>
      BY <1>3, <1>4, <2>2 DEF Bind
    <3>2. a[n] = <<Instruction.op, Inputs, Place(n)>>
      BY <1>1, <2>2 DEF Applied, Inputs, Place
    <3>. QED  BY <3>1, <3>2
  <2>3. CASE n \notin ToSet(Instruction.outputs)
    BY <1>1, <1>3, <1>4, <2>3 DEF Bind, Applied
  <2>. QED  BY <2>2, <2>3
<1> HIDE DEF a, b
<1>7. b = a
  BY <1>5, <1>6
<1>. QED  BY <1>7 DEF a, b

LEMMA StepEvalInstruction ==
  ASSUME ProgramInv, EvalInstruction PROVE ProgramInv'
<1>. USE DEF EvalInstruction, Unchanged, hostVars
<1>1. program \in Codes /\ Len(program) \in Nat /\ pc \in Nat /\ DOMAIN program = 1 .. Len(program)
  BY Code DEF ProgramInv
<1>2. /\ pc \in 1 .. Len(program) /\ trace' \in Seq(Events0) /\ Len(trace) \in Nat
      /\ tracing => Len(trace') = Len(trace) + 1
      /\ ToSet(program[pc].outputs) \subseteq Names
  BY CalledType DEF ProgramInv
<1>3. symbols' = Applied(symbols, program[pc])
  BY BindIsApplied DEF ProgramInv
<1>4. IsTable(symbols')
  BY <1>2, <1>3 DEF IsTable, Applied, ProgramInv, Typed
<1>5. Typed'
  BY <1>1, <1>2, <1>4 DEF ProgramInv, Typed
<1>6. CodePlaces'
  BY <1>2 DEF CodePlaces, Called
<1>7. TraceMatchesTable'
  <2>1. tracing => Events = pc - 1
    BY DEF ProgramInv, TraceMatchesTable, Called
  <2>2. tracing => Events' = Events + 1
    BY <1>2 DEF Events, ProgramInv, Typed
  <2>. QED  BY <1>1, <1>2, <2>1, <2>2 DEF TraceMatchesTable, Called
<1>8. RunsOn'
  <2>1. symbols = Stages(program, start.symbols)[pc - 1]
    BY DEF ProgramInv, RunsOn, Called
  <2>2. Stages(program, start.symbols)[pc] = Applied(symbols, program[pc])
    BY <1>1, <1>2, <2>1, StagesStep
  <2>3. pc' - 1 = pc
    BY <1>1
  <2>. QED  BY <1>3, <2>2, <2>3 DEF RunsOn
<1>9. RunOnce'
  <2>1. SUFFICES ASSUME pristine', WrittenOnce'
                 PROVE  \E r \in (pc + 1) - 1 .. Len(program) : OfPrefix(r)'
    BY DEF RunOnce
  <2>2. pristine /\ WrittenOnce
    BY <2>1 DEF WrittenOnce
  <2>3. PICK r \in pc - 1 .. Len(program) : OfPrefix(r)
    BY <2>2 DEF ProgramInv, RunOnce
  <2>4. symbols = Stages(program, base)[r] /\ InputsFound(program, base, r) /\ IsTable(base)
    BY <2>3 DEF OfPrefix, ProgramInv, Typed
  <2>5. Once(program)
    BY <2>2 DEF Once, WrittenOnce
  <2>6. CASE pc <= r
    <3>1. r \in 0 .. Len(program) /\ pc \in 1 .. r /\ r \in (pc + 1) - 1 .. Len(program)
      BY <1>1, <1>2, <2>6
    <3>2. Applied(symbols, program[pc]) = symbols
      BY <1>1, <2>4, <2>5, <3>1, AppliedAgain
    <3>3. OfPrefix(r)'
      BY <1>3, <2>4, <3>2 DEF OfPrefix
    <3>. QED  BY <3>1, <3>3
  <2>7. CASE r = pc - 1
    <3>1. Stages(program, base)[pc] = Applied(symbols, program[pc])
      BY <1>1, <1>2, <2>4, <2>7, StagesStep
    <3>2. ToSet(program[pc].inputs) \subseteq DOMAIN symbols
      BY DEF Called, Bound, Instruction
    <3>3. InputsFound(program, base, pc)
      <4>1. SUFFICES ASSUME NEW j \in 1 .. pc
                     PROVE  ToSet(program[j].inputs) \subseteq DOMAIN Stages(program, base)[j - 1]
        BY DEF InputsFound
      <4>2. CASE j = pc
        BY <2>4, <2>7, <3>2, <4>2
      <4>3. CASE j # pc
        <5>1. j \in 1 .. r
          BY <1>1, <2>7, <4>3
        <5>. QED  BY <2>4, <5>1 DEF InputsFound
      <4>. QED  BY <4>2, <4>3
    <3>4. PICK k \in Nat : k = pc
      BY <1>1
    <3>5. OfPrefix(k)'
      BY <1>3, <3>1, <3>3, <3>4 DEF OfPrefix
    <3>6. k \in (pc + 1) - 1 .. Len(program)
      BY <1>1, <1>2, <3>4
    <3>. QED  BY <3>5, <3>6
  <2>8. pc <= r \/ r = pc - 1
    BY <1>1
  <2>. QED  BY <2>6, <2>7, <2>8
<1>. QED  BY <1>5, <1>6, <1>7, <1>8, <1>9 DEF ProgramInv

LEMMA StepEvalReturns ==
  ASSUME ProgramInv, EvalReturns PROVE ProgramInv'
<1>. USE DEF EvalReturns, Stop, Unchanged, hostVars
<1>1. program \in Codes /\ Len(program) \in Nat /\ pc \in Nat
  BY Code DEF ProgramInv
<1>2. Typed' /\ RunsOn'
  BY DEF ProgramInv, Typed, RunsOn
<1>3. CodePlaces'
  BY <1>1 DEF ProgramInv, Typed, CodePlaces
<1>4. TraceMatchesTable'
  BY DEF ProgramInv, TraceMatchesTable, Events, Instruction
<1>5. \A r : OfPrefix(r)' <=> OfPrefix(r)
  BY DEF OfPrefix
<1>6. RunOnce'
  BY <1>5 DEF ProgramInv, RunOnce, WrittenOnce
<1>. QED  BY <1>2, <1>3, <1>4, <1>6 DEF ProgramInv

LEMMA StepStutters ==
  ASSUME ProgramInv, UNCHANGED programVars PROVE ProgramInv'
<1>. USE DEF programVars, hostVars
<1>1. Typed' /\ CodePlaces' /\ TraceMatchesTable' /\ RunsOn'
  BY DEF ProgramInv, Typed, CodePlaces, TraceMatchesTable, Events, Instruction, RunsOn
<1>2. \A r : OfPrefix(r)' <=> OfPrefix(r)
  BY DEF OfPrefix
<1>3. RunOnce'
  BY <1>2 DEF ProgramInv, RunOnce, WrittenOnce
<1>. QED  BY <1>1, <1>3 DEF ProgramInv

LEMMA ProgramInvHolds == ProgramSpec => []ProgramInv
<1>1. ProgramInit => ProgramInv
  BY InitProgram
<1>2. ProgramInv /\ [ProgramNext]_programVars => ProgramInv'
  <2> SUFFICES ASSUME ProgramInv, [ProgramNext]_programVars PROVE ProgramInv'
    OBVIOUS
  <2>. QED  BY StepRegister, StepSetVar, StepDelVar, StepEval, StepEvalFails, StepCountDiffers,
               StepEvalInstruction, StepEvalReturns, StepStutters DEF ProgramNext
<1>. QED  BY <1>1, <1>2, PTL DEF ProgramSpec
-----------------------------------------------------------------------------
(* The theorems.                                                           *)

\* The events of the current evaluation are those of the instructions whose
\* results are in the table, and one more only if its outputs were refused
\* (program.rs, NamedRuntimeProgram::eval).
THEOREM TraceAgrees == ProgramSpec => []TraceMatchesTable
<1>1. ProgramInv => TraceMatchesTable
  BY DEF ProgramInv
<1>. QED  BY <1>1, ProgramInvHolds, PTL

\* A program that writes no name it has read or written leaves, once it gets to
\* its end, what one run over the host's values leaves, however often it failed
\* before (program.rs; the host adds what was missing and runs it again).
THEOREM RerunsAreFresh == ProgramSpec => []RerunIsFresh
<1>1. ProgramInv => RerunIsFresh
  <2> SUFFICES ASSUME ProgramInv, status = "done", pristine, WrittenOnce
               PROVE  symbols = After(base, Len(program))
    BY DEF RerunIsFresh
  <2>1. Len(program) \in Nat /\ pc = Len(program) + 1
    BY Code DEF ProgramInv, CodePlaces
  <2>2. PICK r \in pc - 1 .. Len(program) : OfPrefix(r)
    BY DEF ProgramInv, RunOnce
  <2>3. r = Len(program)
    BY <2>1
  <2>. QED  BY <2>2, <2>3 DEF OfPrefix, After
<1>. QED  BY <1>1, ProgramInvHolds, PTL

\* Every step of an evaluation leaves the table of a prefix of the program, run
\* over the table the evaluation began with: no instruction is done in part
\* (program.rs, NamedRuntimeProgram::eval).
THEOREM PrefixIsLeft == ProgramSpec => LeavesPrefix
<1>1. ProgramInv /\ ProgramInv' /\ [ProgramNext]_programVars
        => [status = "running" => symbols' = After(start.symbols, pc' - 1)]_programVars
  <2> SUFFICES ASSUME ProgramInv, ProgramInv', ProgramNext, status = "running"
               PROVE  symbols' = Stages(program, start.symbols)[pc' - 1]
    BY DEF After
  <2>1. symbols = Stages(program, start.symbols)[pc - 1]
    BY DEF ProgramInv, RunsOn
  <2>2. CASE EvalFails \/ CountDiffers \/ EvalReturns
    BY <2>1, <2>2 DEF EvalFails, CountDiffers, EvalReturns, NothingBound
  <2>3. CASE EvalInstruction
    <3>1. status' = "running" /\ program' = program /\ start' = start
      BY <2>3 DEF EvalInstruction, Unchanged
    <3>. QED  BY <3>1 DEF ProgramInv, RunsOn
  <2>. QED  BY <2>2, <2>3 DEF ProgramNext, Register, SetVar, DelVar, Eval
<1>. QED  BY <1>1, ProgramInvHolds, PTL DEF ProgramSpec, LeavesPrefix
=============================================================================
