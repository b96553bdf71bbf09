\* Up to five bytes, two to a fragment, headers of two, cut anywhere; two faults.
\* The peer stops after its last message.
SPECIFICATION Spec
CONSTANTS
  Objects = {o1, o2}
  MaxLen = 5
  MaxPayload = 2
  HeaderLen = 2
  MaxFaults = 2
SYMMETRY ObjectSymmetry
CHECK_DEADLOCK FALSE
INVARIANTS
  ReturnedWhole
  ReturnedInOrder
