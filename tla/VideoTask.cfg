SPECIFICATION FairSpec
CONSTANTS
  Clients = {p1, p2, p3}
  Requests = {r1, r2}
  TaskIds = {t1, t2}
  None = None
INVARIANTS TypeOK AtMostOneCreation DurableTrace
PROPERTIES SuccessIsEarned ImplementsPaidTask CallsReturn
