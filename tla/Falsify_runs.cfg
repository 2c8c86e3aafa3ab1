SPECIFICATION UsedSpec
CONSTANTS
  p1 = p1
  p2 = p2
  m1 = m1
  m2 = m2
  c1 = c1
  c2 = c2
  NoRow = NoRow
  NoRun = NoRun
  NoClaim = NoClaim
  Agents <- Models
  Procs <- TwoProcs
  Ids <- TwoIds
  K = 1
  MaxReopens = 1
  Rounds = {1, 2}
  Metamorph = {TRUE, FALSE}
  Deletes = TRUE
  MaxRuns = 1
  MaxRows = 2
  MaxFaults = 1
  Uses <- TwoUses
SYMMETRY Symmetries
CHECK_DEADLOCK FALSE

INVARIANTS SurvivalIsEarned BooksAgree
PROPERTIES NothingForgotten DeadUnlessAnswered
