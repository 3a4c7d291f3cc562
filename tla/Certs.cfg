SPECIFICATION DbSpec
CONSTANTS
  t1 = t1
  t2 = t2
  f1 = f1
  f2 = f2
  Threads = {t1, t2}
  Files = {f1, f2}
  Contents <- SomeContents
  Unreadable = Unreadable
  Nothing = Nothing
  PeerLists <- SomeLists
  Identities <- SomeIdentities
  HashOf <- Hashes
  MaxWrites = 1
INVARIANTS
  TrustMatchesTables
  LookupsAreRight
  AcceptsOnlyAnchored
  ChainIsComplete
SYMMETRY Symmetry
