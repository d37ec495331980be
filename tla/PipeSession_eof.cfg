SPECIFICATION Spec
CONSTANTS
  Clis = {c1}
  Daemons = {d1, d2}
  None = None
  Torn = Torn
  Modes = {"ensure", "replace", "exec", "close"}
  LateClose = FALSE
SYMMETRY PidSymmetry
INVARIANTS
  SuccessMeansAnswered
