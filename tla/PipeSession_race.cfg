SPECIFICATION Spec
CONSTANTS
  Clis = {c1, c2}
  Daemons = {d1, d2, d3}
  None = None
  Torn = Torn
  Modes = {"ensure", "replace", "exec", "close"}
  LateClose = FALSE
SYMMETRY PidSymmetry
INVARIANTS
  SingleHandle
