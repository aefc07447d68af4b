\* A page and a template; two changes of the disk.
SPECIFICATION FairSpec
CONSTANTS
  page = page
  template = template
  Name <- MCName
  Script <- MCScript
  Addr = {x, y}
  Fd = {3, 4}
  MaxSize = 2
  PageSize = 2
  Changes = 2
INVARIANTS EntriesHold EventsHitEntries RightContent OnlyKnownCrashes
PROPERTIES EventReloads
\* The server crashes, or nothing happens any more.
CHECK_DEADLOCK FALSE
