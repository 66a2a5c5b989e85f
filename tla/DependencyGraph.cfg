SPECIFICATION Spec
CONSTANTS
  Names = {a, b, c, d}
  DepLists <- MCDepLists
INVARIANTS ValidatedSound ResultsCorrect
SYMMETRY MCSymmetry
