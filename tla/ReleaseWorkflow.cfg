SPECIFICATION Spec
CONSTANTS
  Runs = {r1, r2}
  Commits = {c1, c2, c3}
  OnMain = {c1, c2}
  Platforms = {"linux", "darwin"}
  NoRelease = NoRelease
  MaxPushes = 2
  MaxBuilds = 4
INVARIANTS
  OnlyFromMain
  WholeWhenDone
