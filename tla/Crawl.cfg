SPECIFICATION CrawlSpec
CONSTANTS
  i1 = i1
  i2 = i2
  i3 = i3
  i4 = i4
  i5 = i5
  b1 = b1
  b2 = b2
  b3 = b3
  b4 = b4
  k1 = k1
  k2 = k2
  Day = {1, 2}
  Inode = {i1, i2, i3}
  Build = {b1, b2}
  Crawler = {k1}
  Server = Server
  NoFile = NoFile
  NoBuild = NoBuild
  MaxFaults = 3
INVARIANTS
  SkippedStaysDue
PROPERTIES
  RunsIndexEverything
  SwapPublishesRun
  LiveOnlyReplacedByWhole
