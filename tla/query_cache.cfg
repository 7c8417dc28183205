\* Two searches and two workers; every fault but a failed bump or version read.
SPECIFICATION Spec
CONSTANTS
  Tenants = {acme}
  Queries = {q1, q2}
  Searches = {s1, s2}
  Workers = {w1, w2}
  MaxWrites = 2
  Faults = {"get", "set", "job", "service"}
  Unavailable = Unavailable
  None = None
SYMMETRY Symmetry
INVARIANTS
  TypeOK
  AnswersAreFresh
PROPERTIES
  ImplementsFreshSearch
