SPECIFICATION Spec
CONSTANTS
  Workers = {w1, w2}
  Emails = {e1}
  Addresses = {a1, a2}
  NoAddress = NoAddress
  NoOne = NoOne
  Threshold = 2
  MaxCount = 3
SYMMETRY Symmetry
INVARIANTS LocksAreEarned LockedIsRefused LInv
