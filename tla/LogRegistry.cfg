CONSTANTS
  root = root
  a = a
  b = b
  Mods = {root, a, b}
  Loggers = {l1}
  Formatters = {Default, f1}
  Default = Default
  Levels <- TwoLevels
  StartLevel = 1
  LocalName <- Names
  Null = Null
  Threads = {t1, t2}
  Uses <- BothLog
  t1 = t1
  t2 = t2
  Writers = {t1}
  Nesting = {t1}
  Programs = {p}
  Parent <- Chain
  MaxChanges = 2
  MaxCalls = 2
SPECIFICATION Spec
INVARIANTS EffectiveIsNearest CopyIsCurrent UsesLatest DataFound TreeAgrees RunningLoggerKept

