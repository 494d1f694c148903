SPECIFICATION ApiSpec
CONSTANTS
  p1 = p1  p2 = p2
  d1 = d1  d2 = d2
  Undecodable = Undecodable
  NoRow = NoRow
  Nil = Nil
  NoEntry = NoEntry
  Slots <- MCSlots
  Seeded <- MCSeeded
  Procs = {p1, p2}
  Docs <- MCDocs
  Ops = {"Get", "GetVersion", "AddPair", "Upsert", "Delete", "ChangeStatus"}
  MaxWrites = 2
  MaxVersion = 2
  MaxPageSize = 2
  RepoFaults = TRUE
  CacheFaults = TRUE
  Crashes = TRUE
  FirstId = 3
  SeedId <- MCSeedId
  SeedDoc <- MCSeedDoc
  Decoded <- MCDecoded
  Malformed <- MCMalformed
  GrpcRequests <- MCGrpcRequests
  McpArguments <- MCMcpArguments
SYMMETRY MCSymmetry
INVARIANTS TypeOK ApiTypeOK CopiesAuthentic EntriesAnswerLookup GrpcCallsNamed ChangelogAboutSchema
PROPERTY StatusDecided
