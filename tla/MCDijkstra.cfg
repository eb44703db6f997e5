SPECIFICATION Spec
CONSTANTS
  NNODE = 4
  INF = 5
  Costs = {0, 1, 3, 5}
  Matrices <- MCMatrices
INVARIANTS Shortest Predecessors
