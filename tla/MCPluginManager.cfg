CONSTANTS
  greeter = greeter
  copy = copy
  other = other
  Plugins <- MCPlugins
  BadFiles = {broken}
  NameOf <- MCNameOf
  Hole = hole
  MaxSlots = 4
  MaxPaths = 2

SPECIFICATION Spec

PROPERTIES
  RefinesRegistry
  ReleasedInReverse
