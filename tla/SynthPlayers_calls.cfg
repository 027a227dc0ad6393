\* Two slots for buffers, two for players; a sample is two units.
CONSTANTS
  Channels = 1
  Sizes = {2, 3}
  MaxBuffers = 4
  MaxPlayers = 2
  MaxRefs = 8
  Grain = 2
  Speeds <- Steps
  Modulations <- Modulates
  Positions <- Places
  Requests = {2}
  Needs = {0, 2}
  Scripts <- AllScripts
SPECIFICATION Spec
INVARIANTS
  TypeOK
  RefsCover
  SourcesReadable
PROPERTIES
  OnlyExchangeUnfits
  RunsStayInside
CHECK_DEADLOCK FALSE
