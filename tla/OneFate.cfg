SPECIFICATION Spec
CONSTANTS
  None = None
  Web = Web
  s1 = s1
  i1 = i1
  a1 = a1
  v1 = v1
  v2 = v2
  f1 = f1
  d1 = d1
  d2 = d2
  r1 = r1
  r2 = r2
  c = c
  a = a
  b = b
  Steps = {s1}
  Boxes = {}
  Inputs = {i1, a1}
  Values = {v1, v2}
  Files = {f1}
  Notes = {}
  Names = {}
  Contents <- MCContents
  Started <- MCStarted
  What <- MCWhat
  EventIds = {r1, r2, c}
  WithFiles = {}
  Devices = {d1, d2}
  MaxCrashes = 0
  MaxDrops = 1
INVARIANT OneFate
CHECK_DEADLOCK FALSE
