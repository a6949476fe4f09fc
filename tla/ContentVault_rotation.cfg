SPECIFICATION VaultSpec
CONSTANTS
  Tenants = {t1, default}
  ShortNamed = {default}
  Requests = {r1, r2, r3}
  Missing = missing
  MaxDrops = 2
CHECK_DEADLOCK FALSE
PROPERTIES
  RotationKeepsContent
