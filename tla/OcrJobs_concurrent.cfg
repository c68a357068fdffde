SPECIFICATION Spec
CONSTANTS
  Documents = {d1}
  Requests = {r1, r2}
  Workers = {w1, w2}
  Scripts = {s1}
  Faulty = {w1, s1}
  MaxJobs = 2
  NoDocument = NoDocument
SYMMETRY Symmetry
INVARIANTS TypeOK OneActiveJob ExclusiveRun ProcessingIsRun
