\* Fair searches; every call to Redis may fail.
SPECIFICATION FairSpec
CONSTANTS
  Tenants = {acme}
  Queries = {q1}
  Searches = {s1, s2}
  Workers = {w1}
  MaxWrites = 1
  Faults = {"version", "get", "set", "bump"}
  Unavailable = Unavailable
  None = None
PROPERTIES
  SearchIsAnswered
