SPECIFICATION Spec
CONSTANTS
  SessionIds = {"s"}
  Tasks = {"t1"}
  Kinds = {"Data"}
  MaxU64 = 2
  Parties <- ThreeParties
  Payloads <- BothPayloads
  PayloadLen <- MCPayloadLen
  Codec <- MCCodec
  Codecs <- MCCodecs
  Raw = "raw"
  SessionOf <- SameSession
  Wires = {"w", "x"}
  WireOf <- ForeignWireAt2
  LimitOf <- LargeLimitAt0
  HeaderSize = 3
  MaxSends <- OneEach
CONSTRAINT Bound
INVARIANTS NoPoison StatsAgree
CHECK_DEADLOCK FALSE
