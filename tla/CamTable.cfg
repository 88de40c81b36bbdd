CONSTANTS
  Keys = {k1, k2, k3}
  Values = {v1, v2}
  SLOTS = 2
  LOOKUP_PORTS = 1
  RES_SIZE = 3
  INIT_CYCLES = 5
  None = None
SPECIFICATION Spec
INVARIANTS LookupFresh OneSlotPerKey
PROPERTY DropsExplained
SYMMETRY Interchangeable
