-------------------------- MODULE MCRuntimeDrivers --------------------------
(* Programs of two calls for the single-threaded drivers, with payloads that *)
(* are empty, one chunk, several chunks, and above the limit; and three      *)
(* iterations of the ping-pong between two processes.                        *)
EXTENDS RuntimeDrivers

Sizes == 0 .. 3
Calls ==
  {Convert(n) : n \in 0 .. 4} \union {SendClientToServer(n) : n \in Sizes}
  \union {ExchangeOneflow(n) : n \in Sizes} \union {ValueRoundtrip(n) : n \in {2}}

MCDrivers == {[t \in {"driver"} |-> <<a, b>>] : a, b \in Calls}

MCPingPong ==
  {[t \in {"party0", "party1"} |->
      IF t = "party0" THEN <<Ping(n), Ping(n), Ping(n)>> ELSE <<Pong(n), Pong(n), Pong(n)>>] :
     n \in 1 .. 3}

MCPrograms == MCDrivers \cup MCPingPong
=============================================================================
