SPECIFICATION DrawerSpec
CONSTANTS
  Accounts = {ann, bob}
  NoAccount = NoAccount
  Gets = {f1, f2}
  Saves = {s1}
  NoCall = NoCall
  MaxChoices = 2
  MaxLeft = 2
SYMMETRY Alike
INVARIANTS
  SettingsInv
CHECK_DEADLOCK FALSE
