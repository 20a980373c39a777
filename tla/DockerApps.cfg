SPECIFICATION Spec
CONSTANTS
  Apps = {a, b, c}
  ProxyApps = {a, b}
  Tasks = {t1, t2}
  a = a
  b = b
  c = c
  t1 = t1
  t2 = t2
  MaxBegun = 3
INVARIANTS TypeOK DeployedAppsAreRouted NoDanglingRoute ProxyIsOwed
PROPERTIES ProxyReturns
CHECK_DEADLOCK FALSE
