SPECIFICATION QuietSpec
CONSTANTS
  p1 = p1  p2 = p2
  d1 = d1  d2 = d2  bad = bad
  Undecodable = Undecodable
  NoRow = NoRow
  Nil = Nil
  NoEntry = NoEntry
  Slots <- GenericPair
  Seeded <- MCSeeded
  Procs = {p1, p2}
  Docs = {d1, d2, bad}
  Ops = {"GetVersion", "Add", "AddPair", "Upsert", "Delete", "ChangeStatus"}
  MaxWrites = 3
  MaxVersion = 2
  RepoFaults = FALSE
  CacheFaults = FALSE
  Crashes = FALSE
  FirstId = 3
  SeedId <- MCSeedId
  SeedDoc <- MCSeedDoc
  Decoded <- MCDecoded
  Malformed <- MCMalformed
INVARIANTS QuietTypeOK CoherentAtRest PairsWhole CopiesOnceVerified
PROPERTY DeletedIsGone
SYMMETRY MCSymmetry
