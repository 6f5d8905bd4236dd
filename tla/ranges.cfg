CONSTANTS
  Dims <- MCDims
SPECIFICATION Spec
INVARIANTS Exact Canonical
