SPECIFICATION Spec
CONSTANTS
  Commits = {c1, c2}
  Builds = {b1, b2}
  Strays = {}
  Instances = {"i1"}
  IndexEnabled = TRUE
SYMMETRY AnyName
CONSTRAINTS OneRefreshed Beside
INVARIANTS TypeOK OneBuild CurrentIsGated ServedIsSound
PROPERTY OnlyIndexRewrites
