SPECIFICATION Spec
CONSTANTS
  SessionIds = {"s"}
  Tasks = {"t1", "t2"}
  Kinds = {"Data"}
  MaxU64 = 2
  Parties <- TwoParties
  Payloads <- OnePayload
  PayloadLen <- MCPayloadLen
  Codec <- MCCodec
  Codecs <- MCCodecs
  Raw = "raw"
  SessionOf <- SameSession
  Wires = {"w", "x"}
  WireOf <- SameWire
  LimitOf <- SameLimit
  HeaderSize = 3
  MaxSends <- ThreeAndOne
CONSTRAINT Bound
INVARIANTS TypeOK DeliveredInSendOrder ExpectedOnce RouteNeverReused
CHECK_DEADLOCK FALSE
