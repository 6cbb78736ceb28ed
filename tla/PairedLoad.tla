----------------------------- MODULE PairedLoad -----------------------------
(***************************************************************************)
(* Loading values into the memory of both parties with the BKS-AHSS engine *)
(* (bks_ahss.rs).  The share of party 0 is masked with +PRF(K, id), that   *)
(* of party 1 with -PRF(K, id), so a pair of shares is worth anything only *)
(* if both were made with one instruction id, and an id must mask one      *)
(* value only.                                                             *)
(*                                                                         *)
(* The engine's own load_full takes an id once.  The generic load_full     *)
(* (ahss.rs) calls load_share for each party: party 0 leaves the id in a   *)
(* slot of the engine, party 1 takes it from there.  The engine is shared  *)
(* by reference, and the mutex of the slot is free between the two calls.  *)
(***************************************************************************)
EXTENDS Naturals

CONSTANTS
  Loads,     \* calls of load_full, in any threads
  NoId

ASSUME NoIdNotAnId == NoId \notin Nat

VARIABLES
  counter,   \* instruction_counter
  slot,      \* paired_load_instruction: an id or NoId
  generic,   \* loads that go through load_share
  foreign,   \* loads whose ciphertext is not of the engine's ring
  badKeys,   \* parties whose key share is not: the engine never checked it
  state,     \* state[n]: where load n is
  id,        \* id[n][b]: instruction id of party b in load n
  disturbed  \* history: loads between whose two ids the slot was touched

vars == <<counter, slot, generic, foreign, badKeys, state, id, disturbed>>
input == <<generic, foreign, badKeys>>

Parties == {0, 1}

Init ==
  /\ counter = 1
  /\ slot = NoId
  /\ generic \in SUBSET Loads
  /\ foreign \in SUBSET Loads
  /\ badKeys \in SUBSET Parties
  /\ state = [n \in Loads |-> "start"]
  /\ id = [n \in Loads |-> [b \in Parties |-> NoId]]
  /\ disturbed = {}

Goto(n, s) == state' = [state EXCEPT ![n] = s]

\* Generic loads that wait for party 1 to find what party 0 left.
Between == {n \in generic : state[n] \in {"id 0", "share 0"}}
Disturb(n) == disturbed' = disturbed \union (Between \ {n})
-----------------------------------------------------------------------------
\* next_instruction_id: fetch_add returns the value before the addition.
FetchedAfter == counter + 1
Fetched == counter

\* paired_load_instruction_id of party 0: what a load that failed may have
\* left is overwritten.
KeptIfPresent == IF slot = NoId THEN Fetched ELSE slot
Stored == Fetched

TakeId0(n) ==
  /\ n \in generic
  /\ state[n] = "start"
  /\ counter' = counter + 1
  /\ slot' = Stored
  /\ id' = [id EXCEPT ![n][0] = Fetched]
  /\ Disturb(n)
  /\ Goto(n, "id 0")
  /\ UNCHANGED input

\* The engine's own load_full.
TakeIds(n) ==
  /\ n \in Loads \ generic
  /\ state[n] = "start"
  /\ counter' = counter + 1
  /\ id' = [id EXCEPT ![n] = [b \in Parties |-> Fetched]]
  /\ Goto(n, "id 0")
  /\ UNCHANGED <<slot, input, disturbed>>

\* material.validate, cert.validate or an empty list of coordinates: the call
\* returns before it takes an id.
Rejected(n) ==
  /\ state[n] = "start"
  /\ Goto(n, "failed")
  /\ UNCHANGED <<counter, slot, input, id, disturbed>>

\* HssEvaluator::load of party b; its failure ends the call.
Refuses(n, b) == n \in foreign \/ b \in badKeys
Loaded(b) == IF b = 0 THEN "share 0" ELSE "done"
MaskShare(n, b) ==
  /\ state[n] = (IF b = 0 THEN "id 0" ELSE "id 1")
  /\ ~Refuses(n, b)
  /\ Goto(n, Loaded(b))
  /\ UNCHANGED <<counter, slot, input, id, disturbed>>

LoadFails(n, b) ==
  /\ state[n] = (IF b = 0 THEN "id 0" ELSE "id 1")
  /\ Refuses(n, b)
  /\ Goto(n, "failed")
  /\ UNCHANGED <<counter, slot, input, id, disturbed>>

\* The id stays in the slot for another call to find.
LeftInPlace == slot
Emptied == NoId

\* paired_load_instruction_id of party 1 takes the id out of the slot.
TakeId1(n) ==
  /\ n \in generic
  /\ state[n] = "share 0"
  /\ slot # NoId
  /\ slot' = Emptied
  /\ id' = [id EXCEPT ![n][1] = slot]
  /\ Disturb(n)
  /\ Goto(n, "id 1")
  /\ UNCHANGED <<counter, input>>

\* "party 1 load observed before party 0 load"
SlotEmpty(n) ==
  /\ n \in generic
  /\ state[n] = "share 0"
  /\ slot = NoId
  /\ Goto(n, "failed")
  /\ UNCHANGED <<counter, slot, input, id, disturbed>>

SecondShare(n) ==
  /\ n \in Loads \ generic
  /\ state[n] = "share 0"
  /\ Goto(n, "id 1")
  /\ UNCHANGED <<counter, slot, input, id, disturbed>>
-----------------------------------------------------------------------------
Next ==
  \/ \E n \in Loads : TakeId0(n)
  \/ \E n \in Loads : TakeIds(n)
  \/ \E n \in Loads : Rejected(n)
  \/ \E n \in Loads, b \in Parties : MaskShare(n, b)
  \/ \E n \in Loads, b \in Parties : LoadFails(n, b)
  \/ \E n \in Loads : TakeId1(n)
  \/ \E n \in Loads : SlotEmpty(n)
  \/ \E n \in Loads : SecondShare(n)

Spec == Init /\ [][Next]_vars
-----------------------------------------------------------------------------
States == {"start", "id 0", "share 0", "id 1", "done", "failed"}

\* The shape of the engine and of the loads; ids in use have been issued.
Issued == 1 .. counter - 1
TypeOK ==
  /\ counter \in Nat \ {0}
  /\ slot \in Issued \union {NoId}
  /\ generic \subseteq Loads
  /\ foreign \subseteq Loads
  /\ badKeys \subseteq Parties
  /\ state \in [Loads -> States]
  /\ id \in [Loads -> [Parties -> Issued \union {NoId}]]
  /\ disturbed \subseteq Loads

\* A pair of shares is usable exactly if no other load touched the slot
\* between its two calls: then the masks cancel, even right after loads that
\* failed half-way and left their id behind; otherwise the call fails or,
\* unnoticed, returns shares that do not belong together.  The engine's own
\* load_full is not affected.
PairsCancel ==
  \A n \in Loads : state[n] = "done" =>
    (id[n][0] = id[n][1] <=> n \notin disturbed)

\* No party masks two values with one id, whatever interleaves or fails.
MasksFresh ==
  \A m, n \in Loads : \A b \in Parties :
    id[m][b] = id[n][b] /\ id[m][b] # NoId => m = n
=============================================================================
