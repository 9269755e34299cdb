SPECIFICATION Spec
CONSTANTS
  Jtis = {j1, j2}
  Attempts = {a1, a2, a3}
  BackupCodes = {b1}
  NoJti = NoJti
  NoCode = NoCode
  MaxFails = 2
  MaxClock = 2
  RedisMayFail = FALSE
SYMMETRY Symmetry
INVARIANT BackupCodeSpentOnce
CHECK_DEADLOCK FALSE
