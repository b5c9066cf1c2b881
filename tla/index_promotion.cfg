\* Merge ingests, a staged rebuild and its promotion, with kills in between.
SPECIFICATION Spec
CONSTANTS
  None = None
  p1 = p1  p2 = p2  p3 = p3
  c1 = c1  c2 = c2
  u1 = u1  u2 = u2  u3 = u3
  k1 = k1  k2 = k2  k3 = k3  k4 = k4
  d1 = d1
  Path = {p1, p2, p3}
  Content = {c1, c2}
  Draft = {d1}
  PathPos <- MCPathPos
  UriOrder <- MCUriOrder
  KeyOf <- MCKeyOf
  UriOf <- MCUriOf
  NameOf <- MCNameOf
  RootOf <- MCRootOf
  RankOf <- MCRankOf
  InitDisks <- MCInitDisks
  MaxMisses = 1
  MaxEdits = 1
  MaxMade = 1
  MaxRollbacks = 1
INVARIANTS TypeOK   
