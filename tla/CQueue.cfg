\* Four elements: one or two segments of up to three, at every pair of indices.
CONSTANTS
  Size = 4
  MaxLaps = 1
SPECIFICATION Spec
INVARIANTS
  CountAndRoomAgree
  ReadsBackInOrder
  EnDeRightOnlyIf
