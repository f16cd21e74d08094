SPECIFICATION Spec
CONSTANTS
  f = f
  c = c
  u = u
  h = h
  i1 = i1
  i2 = i2
  Zero = Zero
  One = One
  Null = Null
  Unknown = Unknown
  NoId = NoId
  NoState = NoState
  Absent = Absent
  NoEdit = NoEdit
  Field = {f, c}
  ReadOnly = {}
  NullZero = {f}
  Hook = {}
  HookOwned = {}
  Computed = {c}
  Slots = {c}
  Discards = {}
  NameAttr = f
  Values = {Zero, One}
  Ids = {i1, i2}
  Preexisting = {i1}
  MaskedCreate = FALSE
  MaxEdits = 1
INVARIANTS TypeOK StateMirrorsController NoSilentOrphan IdentityMatchesState
PROPERTIES AppliedReachesController ImplementsLifecycle
