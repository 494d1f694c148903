SPECIFICATION FairSpec
CONSTANTS
  p1 = p1  p2 = p2
  d1 = d1  d2 = d2  bad = bad
  Undecodable = Undecodable
  NoRow = NoRow
  Nil = Nil
  NoEntry = NoEntry
  Slots <- VendorRequest
  Seeded <- MCSeeded
  Procs = {p1, p2}
  Docs = {d1, d2}
  Ops = {"Get", "GetVersion", "Upsert", "ChangeStatus"}
  MaxWrites = 2
  MaxVersion = 2
  RepoFaults = FALSE
  CacheFaults = TRUE
  Crashes = TRUE
  FirstId = 3
  SeedId <- MCSeedId
  SeedDoc <- MCSeedDoc
  Decoded <- MCDecoded
  Malformed <- MCMalformed
INVARIANTS CopiesAuthentic EntriesAnswerLookup
PROPERTY EventuallyCoherent
