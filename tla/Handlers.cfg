SPECIFICATION Spec
CONSTANTS
  a = a
  b = b
  c = c
  m1 = m1
  m2 = m2
  Names = {a, b, c}
  Keys = {k1, k2}
  All = All
  Unknown = Unknown
  Modules = {m1, m2}
  Priorities = {1, 2}
  ModuleOf <- MCModuleOf
  Target = {a}
  MaxRequests = 1
INVARIANTS VerdictPrevails EveryHandlerHeard
CHECK_DEADLOCK FALSE
