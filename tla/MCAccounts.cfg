SPECIFICATION Spec
CONSTANTS
  Worker = {w1, w2}
  Email = {boss, chief}
  AdminEmail = {boss}
  SuperEmail = {chief}
  MaxUses = 1
  MaxAccounts = 3
  MaxCodes = 2
INVARIANTS
  UsesAreAccounts
  AccountsPassTheGate
  AnAdminStays
  ConfiguredAreAdmins
PROPERTIES
  RequestsEnd
\* With every account made, deleted and the code expired nothing is left to do.
CHECK_DEADLOCK FALSE
