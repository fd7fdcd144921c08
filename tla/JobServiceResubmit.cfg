SPECIFICATION Spec
CONSTANTS
  c1 = c1  c2 = c2  c3 = c3  w1 = w1  w2 = w2  s1 = s1  s2 = s2
  Jobs = {j1}
  Requests = {r1, r2}
  JobOf <- SameId
  Services = {s1, s2}
  Callers = {c1, c2, c3}
  Workers = {w1, w2}
  Home <- TwoHomes
  None = None

PROPERTIES ResubmissionAnswered
