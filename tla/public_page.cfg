\* Somebody who is not signed in opens a public status page.
SPECIFICATION SessionSpec
CONSTANTS
  Tabs = {t1}
  Addresses <- StatusOnly
  MaxTokens = 1
PROPERTIES
  AnonymousStays
CHECK_DEADLOCK FALSE
