SPECIFICATION Spec
CONSTANTS
  disk = disk
  stick = stick
  Dirs = {disk, stick}
  Template = Template
  Removable = {stick}
  Home = Home
  elsewhere = elsewhere
  Places = {Home, elsewhere}
  MaxSettings = 1
  Faults = {}
PROPERTY AddedDirectoriesAreSearched
