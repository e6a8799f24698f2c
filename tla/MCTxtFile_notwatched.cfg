SPECIFICATION FairSpec
CONSTANTS
  Workers = {w1}
  a = a
  b = b
  Addresses = {a, b}
  NoAddress = NoAddress
  Contents <- SmallFiles
  Missing = Missing
  DefaultFile = DefaultFile
  ConfigFile = ConfigFile
  NoFile = NoFile
  NoThread = NoThread
  EventLoop = EventLoop
  MaxEdits = 2
PROPERTIES
  ConfiguredChangesTakeEffect
