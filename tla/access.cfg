\* Two distributors, one of them with a verified phone, an admin, one browser
\* with its tabs, two workers; two settings pages, two payout days, bounds of 0 or 1.
SPECIFICATION AccessSpec
CONSTANTS
  kofi = kofi
  efua = efua
  admin = admin
  browser = browser
  w1 = w1
  w2 = w2
  NoOne = NoOne
  Distributors <- MCDistributors
  Workers <- MCWorkers
  Admins = {admin}
  Browsers = {browser}
  Reachable = {kofi}
  ProvenBefore = {efua}
  MaxFailed = 2
  MaxGuesses = 1
  MaxRequests = 3
  MaxFaults = 1
  FirstNumber = 9
  LastNumber = 10
  Pages = {p1, p2}
  PayoutDays = {monday, friday}
  FirstDay = friday
  MostBound = 1
  MaxEdits = 3
SYMMETRY Alike
INVARIANTS LimitsHold CodesProveThePhone IdentityIsSound DecisionsAreToldOnce
PROPERTIES SettingsStand

CHECK_DEADLOCK FALSE
