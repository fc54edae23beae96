CONSTANTS
  Actions <- OneAction
  Contents = {c1}
  NoContent = NoContent
  Clients = {t1}
  Workers = {w}
  NoThread = NoThread
  LegacyActions <- NoActions
  StoreMayFail = TRUE
  MaxCrashes = 0
SPECIFICATION Spec
INVARIANT RefusedHasNoEffect
