CONSTANTS
  a = a
  c1 = c1
  c2 = c2
  ip = ip
  Nobody = Nobody
  Pages = {a}
  Commands = {c1, c2}
  PageOf <- MCPageOf
  Broadcasting = {c1}
  PoolSize = 2
  Keys = {ip}
  KeyOf <- MCKeyOf
  Window = 2
  Limit = 1
  MaxLoads = 2
  MaxWork = 1
  MaxFaults = 1
SPECIFICATION Spec
INVARIANTS PagesKeepUp TimelineCoversRow AdmittedWithinLimit
PROPERTIES PageNeverGoesBack RequestsEnd
