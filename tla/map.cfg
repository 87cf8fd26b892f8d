\* Two visits, positions at the edges and outside, every state of the database.
SPECIFICATION FairSpec
CONSTANTS
  m1 = m1
  m2 = m2
  Maps = {m1, m2}
  NoMap = NoMap
  Width = 4
  Height = 4
  Reach = 2
  Radius = 1
  Nudge = 1
  Fixes <- AllAround
  MaxVisits = 2
  MaxMail = 2
INVARIANTS PictureIsExplained NothingOutlivesTheScreen
PROPERTIES SignalAlertIsTrue WaitingEnds
CHECK_DEADLOCK FALSE
