CONSTANTS
  a = a
  b = b
  c = c
  d = d
  Sources = {a, b, c, d}
  Ids = {1, 2, 3}
  IdOf <- MCIdOf
  None = None
  MaxLocal = 2
SPECIFICATION Spec
INVARIANT QuietPassIsExact
INVARIANT SteadyIsAnnounced
