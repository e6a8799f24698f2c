SPECIFICATION Spec
CONSTANTS
  Workers = {w1, w2}
  Addresses = {a, b}
  Hosts = {h, g}
  PluginOrders <- BothOrders
  deny_by_default = FALSE
  None = None
  MaxChanges = 2
SYMMETRY Symmetry
INVARIANTS
  TypeOK
  OnlyDirectoryDecides
  FirstDecisionCounts
  CacheSettles
