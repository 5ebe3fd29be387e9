SPECIFICATION SpecClosures
CONSTANTS
  None = None
  p1 = p1
  p2 = p2
  m1 = m1
  m2 = m2
  r1 = r1
  r2 = r2
  h1 = h1
  s1 = s1
  t1 = t1
  t2 = t2
  c1 = c1
  c2 = c2
  Proc = {p1}
  Mgr = {m1}
  Rsv = {r1, r2}
  Hold = {h1}
  Session = {s1}
  Table = {t1, t2}
  Closure = {c1}
  Windowed = {c1}
  Decisions = {"move"}
  MaxVersion = 1
  Time <- MCTime
  Slot <- ShortSlots
  Band <- VenueBands
  Patch <- NoPatch
  Doors <- SeatDoors
SYMMETRY Symmetry
INVARIANTS NoDoubleBooking HoldsGuardSlot
