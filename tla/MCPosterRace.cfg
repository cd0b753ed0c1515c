SPECIFICATION Spec
CONSTANTS
  Scan = scan
  Hooks = {h1}
  Faults = {}
  MaxFaults = 0
INVARIANTS NothingStacks
