\* Two registrations of up to two items for two tenants; three files to upload,
\* two of them alike; and the smoke test.  Everything is done once: the system
\* comes to rest.
SPECIFICATION MCSpec
CONSTANTS
  r1 = r1
  acme = acme
  n1 = n1
  n2 = n2
  Tenants = {acme, bolt}
  ExternalIds = {n1, n2}
  Requests = {r1, r2}
  Feedbacks = {f1}
  MaxBatch = 2
  BadType = BadType
  None = None
  a = a
  b = b
  Images = {a, b}
  Files <- TwoAlike
  RETRIES = 2
  MaxPolls = 2
  Nobody = Nobody
  MaxWaits = 2
INVARIANTS
  TypeOK
  UniqueExternalId
  FeedbackHasItem
  RetriesNeverQueueTwice
  SuccessIsIndexed
  VerdictIsRight
PROPERTIES
  RegistersAtOnce
  ClientsEnd
CHECK_DEADLOCK FALSE
