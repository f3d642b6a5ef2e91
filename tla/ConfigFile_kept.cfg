SPECIFICATION Spec
CONSTANTS
  disk = disk
  stick = stick
  Dirs = {disk, stick}
  Template = Template
  Removable = {stick}
  Home = Home
  elsewhere = elsewhere
  Places = {Home, elsewhere}
  MaxSettings = 2
  Faults = {"crash", "truncate", "cancel", "unplug"}
INVARIANT TypeOK
INVARIANT NoDirectoryTwice
INVARIANT SearchedDirectoriesAreOnFile
INVARIANT DirectoriesAreKept
INVARIANT ChosenThemeIsKept
INVARIANT LastPathIsKept
