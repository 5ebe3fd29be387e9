SPECIFICATION FairSpec
CONSTANTS
  None = None
  g1 = g1
  g2 = g2
  g3 = g3
  a1 = a1
  a2 = a2
  Guest = {g1, g2, g3}
  Host = {a1, a2}
  Settings <- Evenings
  Attempts = 2
INVARIANTS TypeOK OneGuestPerTable PositionsDense KeepsPlace
PROPERTIES GoneStaysGone ClaimEnds
