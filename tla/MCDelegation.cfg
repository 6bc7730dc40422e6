CONSTANTS
  d1 = d1
  d2 = d2
  d3 = d3
  s1 = s1
  s2 = s2
  a = a
  b = b
  Deployments = {d1, d2, d3}
  Stacks = {"prod", "test"}
  SetIds = {s1, s2}
  Servers = {a, b}
  NameServers <- MCNameServers
  MaxTries = 2
SYMMETRY Symmetry
SPECIFICATION Spec
INVARIANTS UndisturbedNotRefused
PROPERTY NextTimeHeals
CHECK_DEADLOCK FALSE
