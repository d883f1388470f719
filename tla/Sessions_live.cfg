\* One account, two concurrent requests, three tokens and a key; no symmetry,
\* for the clean-up's liveness.
CONSTANTS
  admin = admin
  r1 = r1  r2 = r2  old = old  new = new
  Users = {admin}
  Admin <- admin
  Passwords = {old, new}
  FirstPassword <- old
  MaxTokens = 3
  Keys = {k1}
  Requests <- RequestsMC
  NoUser = NoUser
  RefreshLife = 2
  AccessLife = 1
  KeyLife = 1
  MaxTime = 3
SPECIFICATION FairSpec
CHECK_DEADLOCK FALSE
INVARIANTS OneLiveToken
PROPERTIES LoginsSpec OnlyLoginReopens ExpiredAreRemoved
