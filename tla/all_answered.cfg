SPECIFICATION FairClosures
CONSTANTS
  None = None
  p1 = p1
  p2 = p2
  m1 = m1
  m2 = m2
  r1 = r1
  r2 = r2
  h1 = h1
  s1 = s1
  t1 = t1
  t2 = t2
  c1 = c1
  c2 = c2
  Proc = {p1, p2}
  Mgr = {m1}
  Rsv = {r1}
  Hold = {}
  Session = {}
  Table = {t1}
  Closure = {c1}
  Windowed = {c1}
  Decisions = {"move"}
  MaxVersion = 1
  Time <- MCTime
  Slot <- ShortSlots
  Band <- VenueBands
  Patch <- OneShift
  Doors <- DeskDoors
PROPERTY AllAnswered
