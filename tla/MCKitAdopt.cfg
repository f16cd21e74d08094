SPECIFICATION Spec
CONSTANTS
  f = f
  c = c
  u = u
  h = h
  i1 = i1
  i2 = i2
  Zero = Zero
  One = One
  Null = Null
  Unknown = Unknown
  NoId = NoId
  NoState = NoState
  Absent = Absent
  NoEdit = NoEdit
  Field = {f}
  ReadOnly = {}
  NullZero = {u}
  Hook = {u}
  HookOwned = {h}
  Computed = {f, u, h}
  Slots = {}
  Discards = {}
  NameAttr = f
  Values = {Zero, One}
  Ids = {i1}
  Preexisting = {i1}
  MaskedCreate = TRUE
  MaxEdits = 1
INVARIANTS StateMirrorsController AdminEditSurvives
PROPERTIES PlanWins
