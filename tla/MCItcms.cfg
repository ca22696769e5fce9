SPECIFICATION Spec
CONSTANTS
  o1 = o1
  o2 = o2
  s = s
  Objects = {o1, o2, s}
  Pointerfree = {s}
  MaxRefs = 1
  MaxPins = 1
  MayPinIter = FALSE
INVARIANT Safe
PROPERTY TriColourMarking
PROPERTY CollectFreesGarbage
SYMMETRY Alike
