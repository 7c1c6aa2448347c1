\* A start after the last administrator was removed.
SPECIFICATION Spec
CONSTANTS
  Tabs = {t1}
  Names = {admin, alice}
  DefaultAdmin = admin
  Databases = {d1, d2}
  Quoted = {}
  DefaultDatabase = d1
  NoDatabase = NoDatabase
  Faults = {"crash"}
INVARIANT AdminEnsured
CHECK_DEADLOCK FALSE
