-------------------------- MODULE MCRuntimeSession --------------------------
(***************************************************************************)
(* Instances of RuntimeSession.  Two parties of one session; three parties *)
(* of which one has another parameter set and one a larger limit.          *)
(***************************************************************************)
EXTENDS RuntimeSession

CONSTANT MaxSends  \* bound on the frames each party puts on its streams

TwoParties == {0, 1}
ThreeParties == {0, 1, 2}

\* A one-word u64 vector and a two-word runtime value.
BothPayloads == {"vec", "val"}
OnePayload == {"vec"}
MCPayloadLen == [v \in Payloads |-> IF v = "vec" THEN 1 ELSE 2]
MCCodec == [v \in Payloads |-> IF v = "vec" THEN "u64vec" ELSE "value"]
MCCodecs == {"raw", "u64vec", "value"}

SameSession == [p \in Parties |-> "s"]
SameWire == [p \in Parties |-> "w"]
SameLimit == [p \in Parties |-> 2]
\* Party 2 runs another parameter set; only party 0 accepts the runtime value.
ForeignWireAt2 == [p \in Parties |-> IF p = 2 THEN "x" ELSE "w"]
LargeLimitAt0 == [p \in Parties |-> IF p = 0 THEN 2 ELSE 1]

ThreeAndOne == [p \in Parties |-> IF p = 0 THEN 3 ELSE 1]
OneEach == [p \in Parties |-> IF p = 1 THEN 0 ELSE 1]

\* A party with no budget sends nothing at all.
Bound ==
  \A p \in Parties :
    /\ Len(log[p]) <= MaxSends[p]
    /\ MaxSends[p] = 0 => \A t \in Tasks : cursor[p][t] = 0
=============================================================================
