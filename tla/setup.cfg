\* Two tabs, every environment, crashes and failing steps.
SPECIFICATION FairSpec
CONSTANTS
  Tabs = {t1, t2}
  Names = {admin, alice}
  DefaultAdmin = admin
  Databases = {d1, d2}
  Quoted = {d2}
  DefaultDatabase = d1
  NoDatabase = NoDatabase
  Faults = {"crash", "db"}
INVARIANTS
  TypeOK
  ConfigIsSetUp
  DefaultOnlyAfterRemoval
  AnsweredSurvives
PROPERTIES
  SetupCompletes
CHECK_DEADLOCK FALSE
