SPECIFICATION FairSpec
CONSTANTS
  a = a
  b = b
  c = c
  d = d
  first = first
  second = second
  Extractions = {a, b, c, d}
  Layers = {first, second}
  Realm = Realm
  LayerOf <- MCLayerOf
  LayerLimit = 2
  RealmLimit = 1
INVARIANTS
  SlotsAreOwned
  NoSlotIdles
PROPERTIES
  ServedInOrderAndInTime
  WaitIsServed
