\* One tilemap and one layer over two tilesets: parts, windows and scrolling.
CONSTANTS
  MaxTilesets = 2
  MaxTilemaps = 1
  MaxLayers = 1
  MaxCells = 4
  Sheets <- DrawingSheets
  MapSizes <- DrawingMapSizes
  Rects <- DrawingRects
  Buffers <- DrawingBuffers
  Windows <- DrawingWindows
  Scrolls <- DrawingScrolls
  Positions <- DrawingPositions
  Scales <- DrawingScales
  Word = 65536
SPECIFICATION Spec
INVARIANTS
  NoOverrun
  WindowCovered
  Seamless
PROPERTIES
  OnlyRetilingUnfits
  UpdatesAddUp
