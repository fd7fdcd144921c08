SPECIFICATION FairSpec
CONSTANTS
  c1 = c1  c2 = c2  c3 = c3  w1 = w1  w2 = w2  s1 = s1  s2 = s2
  Jobs = {j1, j2}
  Requests = {r1, r2}
  JobOf <- OwnId
  Services = {s1}
  Callers = {c1}
  Workers = {w1}
  Home <- OneHome
  None = None
PROPERTIES JobsEnd CloseReturns
