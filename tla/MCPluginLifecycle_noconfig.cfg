SPECIFICATION Spec
CONSTANTS
  Workers = {w1}
  PluginLists <- AllLists
  MAX_PLUGINS = 3
  CONFIG_SLOTS_BLOCKSIZE = 4
  CORE_OPTIONS = 3
INVARIANTS
  ContinuesWithDefaults
