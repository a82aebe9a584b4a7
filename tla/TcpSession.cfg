SPECIFICATION FairSpec
CONSTANTS
  Mss = 2
  Window = 3
  Features = {"retransmit", "close", "refuse"}
  MaxGuest = 2
  MaxPeer = 3
  MaxConns = 2
  MaxResent = 1
INVARIANTS HostStreamInOrder AckedIsRelayed GuestStreamInOrder FinAfterData
PROPERTIES PeerStreamDelivered
