SPECIFICATION Spec
CONSTANTS
  Keys = {k1}
  Handlers = {h1, h2}
  Capacity = 4
  Cost = 2
  IdleTime = 6
  Delay = 1
  Horizon = 10
  NoKey = NoKey
SYMMETRY Symmetry
CHECK_DEADLOCK FALSE
INVARIANT BudgetKept
