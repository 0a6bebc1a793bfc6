SPECIFICATION FairSpec
CONSTANTS
  Texts <- MCTexts
  Blank = "blank"
  Models <- MCModels
  NoModel = ""
  Globs <- MCGlobs
  GlobMatches <- MCGlobMatches
  BlankGlobs = {" "}
  BadGlobs = {"["}
  Requests = {r1, r2}
  Clients <- NarrowClients
  RawConfigs <- TwoRawConfigs
  HandOver = {"intercepted"}
  TextSize <- MCTextSize
  Unset = Unset
PROPERTY EveryRequestAnswered
