SPECIFICATION Spec
CONSTANTS
  c1 = c1  c2 = c2  p1 = p1  t1 = t1  t2 = t2
  k1 = k1  k2 = k2  k3 = k3  k4 = k4
  plain = plain  nan = nan  left = left  right = right  lost = lost
  Callers = {c1}
  Processes = {p1}
  Dirs = {c1}
  Requests = {plain}
  Keys = {k1, k2, k3, k4}
  Templates = {t1, t2}
  ProcessOf <- OneCaller
  DirOf <- PrivateDirs
  TemplateOf <- MCTemplateOf
  KeyOf <- MCKeyOf
  Ambiguous <- MCAmbiguous
  Unresolvable <- MCUnresolvable
  Unreproducible <- MCUnreproducible
  Caching = TRUE
  StaleSilentExit = TRUE
  Absent = Absent  Empty = Empty  Torn = Torn
  Free = Free  NoRequest = NoRequest  NoEntry = NoEntry
INVARIANT SilentExitRaises
