SPECIFICATION Spec
CONSTANTS
  Agents = {a1}
  Laptops = {a1}
  Admins = {m1, m2}
  Conns = {c1, c2}
  Reqs = {r1}
  Addrs = {d1}
  Statuses = {s1}
  None = None
INVARIANT ServingHasAddress
