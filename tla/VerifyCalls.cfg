SPECIFICATION FairSpec
CONSTANTS
  c1 = c1
  c2 = c2
  NoCert = NoCert
  Certs = {c1, c2}
  Applications <- BothApplications
INVARIANTS
  VerdictIsCurrent
  EstablishedIsTrusted
  EmittedToApplication
PROPERTIES
  VerificationEnds
CHECK_DEADLOCK FALSE
