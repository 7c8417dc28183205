\* Two workers and three items of two tenants; four points to page through; calls
\* of up to three inputs; three items to list; every list of up to three hashes of
\* three bits; and every evaluation set of up to two queries over three results, cut
\* at the second or before the first.
\* Everything is done once: the system comes to rest.
SPECIFICATION MCSpec
CONSTANTS
  acme = acme
  bolt = bolt
  i1 = i1
  i2 = i2
  i3 = i3
  base = base
  large = large
  Tenants = {acme, bolt}
  Items = {i1, i2, i3}
  TenantOf <- Owners
  Processes = {p1, p2}
  Searches = {s1}
  Encoders = {base, large}
  SizeOf <- Sizes
  MaxAttempts = 2
  None = None
  Points = {1, 2, 3, 4}
  Matching = {1, 2, 4}
  Leanings = {0, 3}
  TopKs = {1, 2}
  MinScores = {0, 5}
  MaxAsks = 2
  NoModifier = NoModifier
  Pictures = {pic1, pic2, noise}
  Broken = {noise}
  Texts = {words}
  MaxInputs = 3
  MaxItems = 3
  MaxUpdates = 2
  Limit = 1
  Results = {x1, x2, x3}
  MaxEvals = 2
  Ks = {0, 2}
  Scale = 6
  Discount <- Discounts
  Threshold <- Thresholds
  HashBits = {1, 2, 3}
  NoHash = NoHash
  MaxDistance = 2
  MaxStored = 3
SYMMETRY Symmetry
INVARIANTS
  TypeOK
  LostRaceCostsOneAttempt
  SearchesFindTheTenants
  PagesPartitionTheRanking
  ResultsBelongToInputs
  ListingsMissNothing
  FirstOfTheClosest
PROPERTY
  RegressionsNeverScoreBetter
CHECK_DEADLOCK FALSE
