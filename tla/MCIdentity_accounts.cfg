SPECIFICATION IdentitySpec
CONSTANTS
  Tab = {t1, t2}
  Email = {e1, e2, e3}
  Home = e1
  Taken = {e3}
  None = None
  IdleTtl = 2
  AbsoluteTtl = 3
  LinkTtl = 1
  LoginLimit = 1
  Window = 2
  MaxTime = 2
  MaxSessions = 2
  MaxLinks = 2
  MaxPasswords = 2
  MaxFaults = 1
SYMMETRY Tabs
INVARIANTS
  PasswordEndsSessions
  AddressProven
  EffectReported
CHECK_DEADLOCK FALSE
