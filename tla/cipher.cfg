SPECIFICATION Spec
CONSTANTS
  N = 4
  XorBytes <- MCXor
  Transform <- MCTransform
  Advances = 5
  Extra <- MCExtra
  Data = {0, 3}
  MaxBytes = 4
INVARIANTS TypeOK RoundTrip Permutation
