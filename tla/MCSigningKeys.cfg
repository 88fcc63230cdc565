SPECIFICATION Spec
CONSTANTS
  Workers = {w1, w2}
  Kids = {k1, k2}
  Operators = {o1, o2}
  NoOne = NoOne
  Unset = Unset
  Ttl = 1
  MaxAge = 1
  Lifetime = 1
  Propagation = 3
  ValidDays = {1, 8}
  MaxNow = 8
SYMMETRY Symmetry
INVARIANTS CirculatingVerifies PairsMatch HalfWrittenKeysStayOut KInv
