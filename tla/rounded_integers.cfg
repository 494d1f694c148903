SPECIFICATION Spec
CONSTANTS
  a = a  c1 = c1  c2 = c2
  d1 = d1  d2 = d2  big1 = big1  big2 = big2  huge = huge  bad = bad
  Undecodable = Undecodable
  NoRow = NoRow
  Slots = {a}
  Seeded = {a}
  Clients = {c1}
  Docs = {big1, big2}
  MaxCalls = 2
  Faults = FALSE
  TranslateError = FALSE
  FirstId = 2
  SeedId <- MCSeedId
  SeedDoc <- MCSeedDoc
  Decoded <- MCDecoded
  Malformed <- MCMalformed
INVARIANT AcknowledgedIsStored
