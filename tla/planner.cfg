SPECIFICATION Spec
CONSTANTS
  a = a  b = b  c = c
  r1 = r1
  NoToken = NoToken
  Pools = {1, 2, 3, 4}
  Tokens = {a, b, c}
  Triggers = {r1}
  MaxHops = 3
SYMMETRY TokenSymmetry
INVARIANT IndexExact
PROPERTY EachRingOnce
