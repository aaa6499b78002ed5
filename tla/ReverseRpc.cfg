SPECIFICATION FairSpec
CONSTANTS
  Clients = {phone, desktop, cli}
  Agents = {cli}
  Sessions = {s1, s2}
  Requests = {r1}
  MaxDrops = 1
  MaxOpens = 2
PROPERTIES
  PromptRouting
  WatcherIsShown
CHECK_DEADLOCK FALSE
