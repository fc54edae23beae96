CONSTANTS
  Actions <- OneAction
  Contents = {c1, c2}
  NoContent = NoContent
  Clients = {t1}
  Workers = {w}
  NoThread = NoThread
  LegacyActions <- NoActions
  StoreMayFail = FALSE
  MaxCrashes = 0
SPECIFICATION Spec
PROPERTY ResumeKeepsBinding
