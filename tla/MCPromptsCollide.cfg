CONSTANTS
  w = w
  a = a
  b = b
  Nobody = Nobody
  Call = {a, b}
  Writes = {}
  Asks = {a, b}
  IdOf <- MCIdOf
SPECIFICATION Spec
INVARIANTS OwnAnswer
