SPECIFICATION Spec
CONSTANTS
  Documents = {d1, d2}
  Requests = {r1}
  Workers = {w1, w2}
  Scripts = {}
  Faulty = {w1}
  MaxJobs = 3
  NoDocument = NoDocument
INVARIANT ActiveIsLatest
PROPERTIES CompletedStays ImplementsQueue ActiveJobEnds
