SPECIFICATION FairSpec
CONSTANTS
  s1 = s1 s2 = s2 s3 = s3 r1 = r1 r2 = r2 r3 = r3 t1 = t1 t2 = t2 g1 = g1 g2 = g2
  Null = Null Blank = Blank u1 = u1 u2 = u2 w1 = w1
  User = {u1, u2}
  Worker = {w1}
  Strategy = {s1, s2, s3}
  SystemStrategy = {s1}
  Rule = {r1, r2, r3}
  SystemRule = {r1}
  Signature = {g1, g2}
  Template = {t1, t2}
  Default = t1
  InitialState <- MCInitialState
  InitialRule <- MCInitialRule
  InitialContent <- MCInitialContent
  MaxEdits = 2
PROPERTIES EngineCatchesUp
CHECK_DEADLOCK FALSE
