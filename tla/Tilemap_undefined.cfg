\* Parts of a tilemap that were never drawn.
CONSTANTS
  MaxTilesets = 2
  MaxTilemaps = 1
  MaxLayers = 1
  MaxCells = 4
  Sheets <- DrawingSheets
  MapSizes <- DrawingMapSizes
  Rects <- DrawingRects
  Buffers <- DrawingBuffers
  Windows <- DrawingWindows
  Scrolls <- DrawingScrolls
  Positions <- DrawingPositions
  Scales <- DrawingScales
  Word = 65536
SPECIFICATION Spec
INVARIANTS
  PictureDefined
