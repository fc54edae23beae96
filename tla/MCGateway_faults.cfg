CONSTANTS
  Actions <- TwoActions
  Contents = {c1, c2}
  NoContent = NoContent
  Clients = {t1, t2}
  Workers = {w}
  NoThread = NoThread
  LegacyActions <- OneAction
  StoreMayFail = TRUE
  MaxCrashes = 2
SPECIFICATION Spec
SYMMETRY Symmetry
INVARIANTS
  IInv
  TypeOK
  Mediated
  EffectIsOnRecord
  CommittedIsReal
PROPERTIES
  NoSecondCommit
  SettledIsFinal
  IntentIsNeverDropped
