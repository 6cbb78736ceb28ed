CONSTANTS
  Foreign = Foreign
  Nothing = Nothing
  Offers <- MCOffers
  Unencodable <- MCUnencodable
  Unspoken <- MCUnspoken
  HandshakeVersion = 1
SPECIFICATION FairSpec
INVARIANTS Agreement WithinOffers
PROPERTY Concludes
CHECK_DEADLOCK FALSE
