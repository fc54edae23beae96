CONSTANTS
  Actions <- TwoActions
  Contents = {c1}
  NoContent = NoContent
  Clients = {t1, t2}
  Workers = {t2}
  NoThread = NoThread
  LegacyActions <- NoActions
  StoreMayFail = FALSE
  MaxCrashes = 2
SPECIFICATION FairSpec
INVARIANT RefusedHasNoEffect
PROPERTIES
  KeepsPromise
  IntentIsSettled
