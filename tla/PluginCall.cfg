SPECIFICATION AbiSpec
CONSTANTS
  Callers = {h1, h2}
  Addresses = {a1, a2}
  Null = Null
  Free = Free
  Bodies = {"one", "two"}
  HostReplies <- MCHostReplies
  Cells = {m1, m2}
  Word = 8
  Lengths = {3, 4, 9}
SYMMETRY Symmetry
INVARIANTS
  BuffersReturned
  ReplyIsOwn
  NothingLeaks
  AnswerIsOwn
  RequestIsWhole
