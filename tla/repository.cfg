SPECIFICATION Spec
CONSTANTS
  a = a  c1 = c1  c2 = c2
  d1 = d1  d2 = d2  big1 = big1  big2 = big2  huge = huge  bad = bad
  Undecodable = Undecodable
  NoRow = NoRow
  Slots = {a}
  Seeded = {a}
  Clients = {c1, c2}
  Docs = {d1, d2, bad}
  MaxCalls = 3
  Faults = TRUE
  TranslateError = FALSE
  FirstId = 2
  SeedId <- MCSeedId
  SeedDoc <- MCSeedDoc
  Decoded <- MCDecoded
  Malformed <- MCMalformed
SYMMETRY MCSymmetry
INVARIANTS TypeOK UniqueRows ChangelogComplete LockDiscipline AcknowledgedIsLogged
PROPERTIES RevisionStep LogImmutable ImplementsStore
