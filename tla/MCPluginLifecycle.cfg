SPECIFICATION Spec
CONSTANTS
  Workers = {w1, w2}
  PluginLists <- AllLists
  MAX_PLUGINS = 3
  CONFIG_SLOTS_BLOCKSIZE = 4
  CORE_OPTIONS = 3
SYMMETRY Symmetry
INVARIANTS
  TypeOK
  OptionsFit
  HooksFindTheirPlugin
  ConnectedWhileServing
  LeaksAccountedFor
  LibrariesBalanced
