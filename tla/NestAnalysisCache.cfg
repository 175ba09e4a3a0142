\* Nests of a perfect and of an imperfect mapping, for cached, rejected and
\* abandoned analyses in every order.
SPECIFICATION Spec
CONSTANTS
  Threads = {"t1", "t2"}
  Nests = {"even", "odd"}
  ImperfectNests = {"odd"}
  MaxEvaluations = 3
INVARIANTS
  WorkingSetsAreCurrent
CHECK_DEADLOCK FALSE
