\* A perfect and an imperfect nest, evaluated by two threads at a time.
SPECIFICATION Spec
CONSTANTS
  Threads = {"t1", "t2"}
  Nests = {"even", "odd"}
  ImperfectNests = {"odd"}
  MaxEvaluations = 2
INVARIANTS
  CyclesFollowNest
CHECK_DEADLOCK FALSE
