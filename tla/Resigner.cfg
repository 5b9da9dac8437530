SPECIFICATION FairSpec
CONSTANTS
  Failed = Failed
  NotAZip = NotAZip
  Apps <- MCApps
  MaxVersion = 2
INVARIANTS TypeOK InstalledIsClamped PlatformAccepts NothingTorn
PROPERTIES DropInstalled Settles
CHECK_DEADLOCK FALSE
