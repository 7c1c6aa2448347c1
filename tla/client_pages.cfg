SPECIFICATION WebSpec
CONSTANTS
  NoData = NoData
  t1 = t1
  t2 = t2
  Tabs = {t1, t2}
  Addresses <- TabAddresses
  MaxTokens = 2
  CallSlots = {1, 2}
  MaxWrites = 2
  Targets = {x, y}
  Widgets = {"buttons", "dialog"}
  MaxSends = 2
  MaxEdits = 6
  SettingValues = {a, b}
  DefaultValue = a
  MaxSaves = 2
  MaxMonitors = 2
  HistoryLimit = 4
  BarCount = 3
  RowCount = 3
  Times = {0, 3}
  Days = {1, 8}
INVARIANTS
  WebTypeOK
  OwnSavesShown
  TogglesKept
  SelectorStartsTrue
  ListIsLastCall
  SentFormsWork
  SavedSettingsShown
  FiguresHonest
PROPERTIES
  FreshSessionKept
  SessionEndsEverywhere
  ShownConverges
CHECK_DEADLOCK FALSE
