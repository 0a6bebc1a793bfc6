SPECIFICATION Spec
CONSTANTS
  Texts <- MCTexts
  Blank = "blank"
  Models <- MCModels
  NoModel = ""
  Globs <- MCGlobs
  GlobMatches <- MCGlobMatches
  BlankGlobs = {" "}
  BadGlobs = {"["}
  Requests = {r1}
  Clients <- WideClients
  RawConfigs <- FewRawConfigs
  HandOver = {"intercepted"}
  TextSize <- MCTextSize
  Unset = Unset
INVARIANT OpaqueOnlyUnderItsRule
