SPECIFICATION Spec
CONSTANTS
  Proc = {p, q}
  LOW = 2
  HIGH = 4
  PT_ENTRY_COUNT = 2
  Obj = {o1, o2, o3, o4}
  Val = {0, 1}
  Sizes = {1}
  Fixed = {3}
  MaxAreas = 2
  Prots = {"rw"}
  Image <- MCImage
  Brks <- MCBrks
  SHADOWD = TRUE
  NULL = NULL
SYMMETRY Symmetry
INVARIANTS
  AddressSpaces
  RefCounts
  Translations
PROPERTIES
  ImplementsMem
