SPECIFICATION FairSpec
CONSTANTS
  Child = {c1, c2, c3}
  Backlog = 2
INVARIANTS NeverHeldUp AtMostOneMore
PROPERTIES ConnectionServed
