CONSTANTS
  w = w
  a = a
  b = b
  Nobody = Nobody
  Call = {a, b}
  Writes = {b}
  Asks = {a, b}
  IdOf <- MCIdOf
SPECIFICATION FairSpec
INVARIANTS TypeOK RunsOnlyIfAllowed WaitingIsKnown NothingLeft
PROPERTIES KeepsPromise CallsEnd
