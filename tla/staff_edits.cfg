SPECIFICATION Spec
CONSTANTS
  None = None
  p1 = p1
  p2 = p2
  r1 = r1
  r2 = r2
  h1 = h1
  h2 = h2
  s1 = s1
  s2 = s2
  t1 = t1
  t2 = t2
  Proc = {p1, p2}
  Rsv = {r1, r2}
  Hold = {}
  Session = {}
  Table = {t1, t2}
  Closure = {}
  Time <- MCTime
  Slot <- TouchingSlots
  Band <- NoBand
  Patch <- WholePatches
  Doors <- StaffDoors
SYMMETRY Symmetry
INVARIANT NoDoubleBooking
PROPERTIES DeadStaysPut BooksAsOneStep
