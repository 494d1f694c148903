SPECIFICATION QuietSpec
CONSTANTS
  p1 = p1  p2 = p2
  d1 = d1  d2 = d2  bad = bad
  Undecodable = Undecodable
  NoRow = NoRow
  Nil = Nil
  NoEntry = NoEntry
  Slots <- GenericPair
  Seeded <- MCSeeded
  Procs = {p1}
  Docs = {d1}
  Ops = {"Get", "Delete"}
  MaxWrites = 1
  MaxVersion = 1
  RepoFaults = TRUE
  CacheFaults = FALSE
  Crashes = FALSE
  FirstId = 3
  SeedId <- MCSeedId
  SeedDoc <- MCSeedDoc
  Decoded <- MCDecoded
  Malformed <- MCMalformed
PROPERTY DeletedIsGone
