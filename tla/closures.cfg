SPECIFICATION SpecClosures
CONSTANTS
  None = None
  p1 = p1
  p2 = p2
  m1 = m1
  m2 = m2
  r1 = r1
  r2 = r2
  h1 = h1
  s1 = s1
  t1 = t1
  t2 = t2
  c1 = c1
  c2 = c2
  Proc = {p1}
  Mgr = {m1, m2}
  Rsv = {r1, r2}
  Hold = {}
  Session = {}
  Table = {t1}
  Closure = {c1, c2}
  Windowed = {c1}
  Decisions = {"cancel", "keep"}
  MaxVersion = 2
  Time <- MCTime
  Slot <- ShortSlots
  Band <- TableBands
  Patch <- ShiftOnly
  Doors <- DeskDoors
SYMMETRY Symmetry
INVARIANTS NoUndecidedStart GateVerdictHolds
PROPERTIES OnlyTheSeen NoLostSave
