CONSTANTS
  c1 = c1
  c2 = c2
  c3 = c3
  Commands = {c1, c2, c3}
  Params = {"p1", "p2"}
SYMMETRY Symmetry
SPECIFICATION Spec
INVARIANTS EmptyExplained
PROPERTY FileKept
CHECK_DEADLOCK FALSE
