SPECIFICATION FairSpec
CONSTANTS
  Session = {s1}
  Token = {t1, t2}
  Peer = {p1, p2}
  None = None
  OneOfferPerLease = TRUE
  DiskMayFail = TRUE
PROPERTIES
  NegotiationEnds
  PeerOutlivesNoLease
