SPECIFICATION Spec
CONSTANTS
  RedLen = 7
  MaxBlock = 7
INVARIANTS RangesAgree StoredIsKept DeliveredIsWhole SparseIsBounded
