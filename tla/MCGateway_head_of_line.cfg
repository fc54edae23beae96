CONSTANTS
  Actions <- TwoActions
  Contents = {c1}
  NoContent = NoContent
  Clients = {t1}
  Workers = {w}
  NoThread = NoThread
  LegacyActions <- OneAction
  StoreMayFail = FALSE
  MaxCrashes = 0
SPECIFICATION FairSpec
PROPERTY OthersAreSettled
