SPECIFICATION FairSpec
CONSTANTS
  Chain = {c1, c2}
  main = main
  flaky = flaky
  good = good
  web = web
  MainTracker = main
  TrackerUrls <- List
  Http = {web}
  Responsive = {good}
  TryOut = 3
  ReadWait <- Waits
  None = None
CHECK_DEADLOCK FALSE
INVARIANTS
  TypeOK
  TimerReachable
  ListFindsResponsive
  SomeChainLives
PROPERTIES
  KeepsAnnouncing
  FirstAnnouncementGetsThrough
