SPECIFICATION FairSpec
CONSTANTS
  d1 = d1  d2 = d2  m1 = m1  m2 = m2  V = V
  Undecodable = Undecodable
  NoRow = NoRow
  Model0 = Model0
  AnyVendor = AnyVendor
  Slots <- MCSlots
  Seeded <- MCSeeded
  Docs = {d1, d2}
  Malformed = {}
  Vendors = {V}
  Rank <- MCRank
  PageSizes = {0, 1, 5}
  DefaultPageSize = 2
  MaxPageSize = 3
  OffsetLimit = 8
  MaxWrites = 2
  Faults = TRUE
  FirstId = 4
  SeedId <- MCSeedId
  SeedDoc <- MCSeedDoc
  Decoded <- MCDecoded
INVARIANTS TypeOK SteadyWalkExact SingleAnswerComplete ChangelogWalkMissesNothing
PROPERTIES WalksEnd EmptyTokenOnLastPage
