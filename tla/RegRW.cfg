SPECIFICATION FairSpec
CONSTANTS
  c1 = c1
  c2 = c2
  Ctx = {c1, c2}
  None = None
  Regs <- MCRegs
  UnclaimedRegs <- MCUnclaimedRegs
INVARIANTS
  TypeOK
  RequestMatchesHolders
  HeldStaysAwake
  ReadWhileUp
  BlameIsMine
PROPERTIES
  ImplementsPowerVote
  CallsReturn
