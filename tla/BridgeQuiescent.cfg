SPECIFICATION QuiescentSpec
CONSTANTS
  Texts <- MCTexts
  Blank = "blank"
  Models <- MCModels
  NoModel = ""
  Globs <- MCGlobs
  GlobMatches <- MCGlobMatches
  BlankGlobs = {" "}
  BadGlobs = {"["}
  Requests = {r1}
  Clients <- WideClients
  RawConfigs <- MCRawConfigs
  HandOver = {"client", "intercepted"}
  TextSize <- MCTextSize
  Unset = Unset
INVARIANTS
  StateTableDecides
  CompactTurnOwned
  NoExecutorFallback
  HeldConfigIsValid
