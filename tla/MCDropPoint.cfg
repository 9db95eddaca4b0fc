SPECIFICATION LiveSpec
CONSTANTS
  step = step
  input = input
  d1 = d1
  d2 = d2
  u1 = u1
  u2 = u2
  None = None
  Steps = {step}
  Boxes = {}
  Inputs = {input}
  Values = {}
  Files = {u1, u2}
  Notes = {}
  Names = {}
  Contents <- MCContents
  Sessions = {d1, d2}
  TargetStep = step
  TargetInput = input
  Begun <- MCBegun
  Spoiled = {u2}
  MaxStops = 2
INVARIANTS
  TypeOK
  AcknowledgedIsDurable
  RecordedOnce
  PrivateStateIsTrue
  CompleteLeavesNothing
  OneSession
PROPERTIES
  DroppedArrives
  StopIsCarriedOut
