SPECIFICATION Spec
CONSTANTS
  root = root
  a = a
  b = b
  bios = bios
  Root = root
  Subdirs = {a, b, bios}
  Excluded = {bios}
  Universe <- MCUniverse
  Contents <- MCContents
  InWorkingDir <- MCInWorkingDir
  MaxFiles = 3
INVARIANT OnlyTheCueShows
