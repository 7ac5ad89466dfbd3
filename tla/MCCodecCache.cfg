SPECIFICATION Spec
CONSTANTS
  g1 = g1
  g2 = g2
  g3 = g3
  s1 = s1
  s2 = s2
  a1 = a1
  a2 = a2
  b1 = b1
  t1 = t1
  t2 = t2
  None = None
  Goroutines = {g1, g2, g3}
  Structs = {s1, s2}
  Types = {t1, t2}
  StructIn <- MCStructIn
  Analyses <- MCAnalyses
  Flat = {b1}
INVARIANTS
  TypeOK
  CachesAgree
PROPERTIES
  Settled
  IsMemo
  EveryCallEnds
