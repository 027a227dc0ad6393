\* Two slots of each kind, every order of calls, failing allocations.
CONSTANTS
  MaxTilesets = 2
  MaxTilemaps = 2
  MaxLayers = 2
  MaxCells = 1
  Sheets <- ResourceSheets
  MapSizes <- ResourceMapSizes
  Rects <- ResourceRects
  Buffers <- ResourceBuffers
  Windows <- ResourcePairs
  Scrolls <- ResourcePairs
  Positions <- ResourcePairs
  Scales <- ResourceScales
  Word = 65536
SPECIFICATION Spec
INVARIANTS
  TypeOK
  RefsCount
  NoDangling
  TextureCurrent
  NothingLeaks
PROPERTIES
  KeptWhileReferenced
