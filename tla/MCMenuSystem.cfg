SPECIFICATION Spec
CONSTANTS
  Menus <- RichMenus
  Root = "m_root"
  Entries <- RichEntries
  Ui = "ui_event_notify"
  Apps <- MenuApps
  RegDump = {"rf_debug_notify"}
  Drops <- RichDrops
  Value = {0, 9}
  MAX_HANDLERS = 3
  MAX_MENU_DEPTH = 4
  Visible = 5
  Depth <- RichDepth
  AppDepth <- RichAppDepth
  None = None
INVARIANT TypeOK MenuPath StartedMatchesMenu HandlersMatchMenu ScreenShowsMenu OpenDropdownIsCurrent DumpStaysOnChip DumpShown
CHECK_DEADLOCK FALSE
