SPECIFICATION Spec
CONSTANTS
  TmWorkers = {w1}
  TmOversized = {2}
  TmMessages = 2
  TmMaxCount = 1
  TmFaults = 2
  JzWorkers = {w1, w2}
  JzOversized = {2}
  JzMessages = 3
  WbCapacity = 1
  WbMessages = 2
INVARIANTS
  ProvidersTypeOK
  TmOneLive TmCloseReleases TmConserved
  JzInOrder
  WbEndIsNews
PROPERTIES
  TmLossRepaired TmCloseEnds
  JzCloseEnds
CHECK_DEADLOCK FALSE
