SPECIFICATION FairSession
CONSTANTS
  Texts <- MCTexts
  Blank = {}
  Models <- MCModels
  NoModel = ""
  Globs = {"glm*", "gpt*"}
  GlobMatches <- MCGlobMatches
  BlankGlobs = {}
  BadGlobs = {}
  Requests = {r1}
  Clients <- MCClients
  RawConfigs <- MCRawConfigs
  HandOver = {"intercepted"}
  TextSize <- MCTextSize
  Unset = Unset
  MaxTurns = 4
  MaxRetries = 1
  Nobody = Nobody
INVARIANTS
  SessionTypeOK
  NothingForgotten
  RefusedOnlyForNativeState
  OneStateAtMost
  UsersWordsKept
PROPERTY TurnEnds
