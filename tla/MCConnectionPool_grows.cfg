CONSTANTS
  p = p
  q = q
  r = r
  Clients = {p, q, r}
  Conns = {1, 2, 3, 4}
  None = None
  MinSize = 2
  MaxSize = 4
SPECIFICATION Spec
PROPERTIES GrowsOnDemand
