\* Three administrators, three versions, five commands.
CONSTANTS
  t1 = t1  t2 = t2  t3 = t3  v1 = v1  v2 = v2  v3 = v3
  Transactions = {t1, t2, t3}
  Versions = {v1, v2, v3}
  Seed = v1
  None = None
  MaxCommands = 5
SPECIFICATION Spec
SYMMETRY Interchangeable
INVARIANTS OneActive LastAnnouncedIsActive
