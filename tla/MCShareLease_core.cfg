SPECIFICATION Spec
CONSTANTS
  Session = {s1, s2}
  Token = {t1, t2}
  Peer = {p1, p2, p3}
  None = None
  OneOfferPerLease = TRUE
  DiskMayFail = FALSE
SYMMETRY Symmetry
INVARIANTS
  SingleLiveShare
  RegisteredPeerHoldsLease
  ServerInv
  PeerControlFollowsLease
  ConnectionModeTruthful
  FileFollowsMemory
PROPERTIES
  EndedShareStaysEnded
  ImplementsControlLease
