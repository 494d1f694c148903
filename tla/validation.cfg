SPECIFICATION FairValidation
CONSTANTS
  p1 = p1  p2 = p2
  d1 = d1  d2 = d2  x = x
  Undecodable = Undecodable
  NoRow = NoRow
  Nil = Nil
  NoEntry = NoEntry
  NoJson = NoJson
  NoAction = NoAction
  Slots <- MCSlots
  Seeded <- MCSeeded
  Procs = {p1, p2}
  Validators = {p1}
  Batches <- MCBatches
  MaxBulkMessages = 2
  Payloads = {x}
  Conforms <- MCConforms
  Uncompiled = {}
  Docs = {d1, d2}
  Ops = {"Get", "Upsert", "ChangeStatus"}
  MaxWrites = 1
  MaxVersion = 1
  RepoFaults = FALSE
  CacheFaults = FALSE
  Crashes = TRUE
  FirstId = 3
  SeedId <- MCSeedId
  SeedDoc <- MCSeedDoc
  Decoded <- MCDecoded
  Malformed = {}
INVARIANTS BatchTypeOK VerdictsAuthentic QuietBatchCurrent
PROPERTY BatchesReturn
