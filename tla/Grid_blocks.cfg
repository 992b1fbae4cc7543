SPECIFICATION Spec
CONSTANTS
  Panel = 32
  MaxRows = 225
  Lengths = {1, 60, 230}
INVARIANTS
  BlocksInPanel
  BlocksVisible
