\* Two middleware calls with the same cookie options, and a third object: a
\* session to replace one of theirs, or an object of the application's own.
SPECIFICATION Spec
CONSTANTS
  Ids = {i1, i2, i3}
  Data = {Empty, changed}
  Empty = Empty
  Configs = {options}
  Null = Null
  Undefined = Undefined
  MaxPresented = 1
  MaxHooks = 2
  MaxObjects = 3
SYMMETRY IdSymmetry
CHECK_DEADLOCK FALSE
INVARIANTS
  EndedIsStored
  RetiredStayGone
  CookiesDelivered
PROPERTIES
  SettledByEnd
