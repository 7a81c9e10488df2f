SPECIFICATION Spec
CONSTANTS
  None = None
  default = default
  work = work
  m1 = m1
  m2 = m2
  u1 = u1
  u2 = u2
  d1 = d1
  d2 = d2
  desktop = desktop
  DefaultAccount = default
  Account = work
  Accounts = {default, work}
  Mobiles = {m1, m2}
  Users = {u1, u2}
  Devices = {d1}
  BaseUrls = {"hub"}
  MaxSeen = 2
  Bindings <- FormerBinding
  Events <- ClaimEvents
  Starts <- ClaimStarts
INVARIANT ReachesPaired
CHECK_DEADLOCK FALSE
