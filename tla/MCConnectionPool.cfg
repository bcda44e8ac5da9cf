CONSTANTS
  p = p
  q = q
  r = r
  Clients = {p, q, r}
  Conns = {1, 2, 3, 4}
  None = None
  MinSize = 1
  MaxSize = 3
SPECIFICATION Spec
INVARIANTS OneOwner NeverOverLimit ProducerAwakeWhenEmpty
PROPERTIES FreeIsTaken
