SPECIFICATION Spec
CONSTANTS
  a = a  b = b  service = service  once = once  o1 = o1  o2 = o2
  Machines <- TwoMachines
  Runners <- TwoRunners
  Operators <- TwoOperators
  MaxUses = 1
  MaxTokens = 3
  MaxFaults = 2
SYMMETRY Symmetry
INVARIANTS LockoutOnlyByLoss
PROPERTIES FileNeverGoesBack
