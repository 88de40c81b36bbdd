CONSTANTS
  Programs <- SomePrograms
  AnyType = AnyType
  Bits = Bits
  Buf = Buf
SPECIFICATION Spec
INVARIANTS ComponentsExact ForestSorted EveryHandlerHasContext ContextShared
CHECK_DEADLOCK FALSE
