----------------------------- MODULE MCTilemap -----------------------------
(* Small instances of Tilemap for TLC. *)
EXTENDS Tilemap

Sheet(w, h, tw, th) == [w |-> w, h |-> h, tw |-> tw, th |-> th]
Rect(x, y, w, h)    == [x |-> x, y |-> y, w |-> w, h |-> h]
Buffer(p, n, tile)  == [pitch |-> p, size |-> n, tile |-> tile]
Dims(w, h)          == [w |-> w, h |-> h]

(* Resources: two of each kind, maps of one tile, tiles of two sizes. *)
ResourceSheets    == {Sheet(2, 1, 1, 1), Sheet(2, 1, 2, 1)}
ResourceMapSizes  == {Dims(1, 1)}
ResourceRects     == {Rect(0, 0, 0, 0)}
ResourceBuffers   == {Buffer(-1, 1, 0)}
ResourcePairs     == {<<0, 0>>}
ResourceScales    == {<<2, 2>>}

(* Drawing: one tilemap of two by two tiles and one layer. *)
DrawingSheets    == {Sheet(2, 1, 1, 1), Sheet(2, 1, 2, 1)}
DrawingMapSizes  == {Dims(2, 2)}
DrawingRects     == {Rect(0, 0, 0, 0), Rect(0, 1, 2, 1), Rect(1, 1, 2, 1)}
DrawingBuffers   == {Buffer(-1, 3, 0), Buffer(0, 2, 1)}
DrawingWindows   == {<<0, 0>>, <<1, 2>>, <<3, 1>>}
DrawingScrolls   == {<<1, 0>>, <<1, 1>>, <<2, 1>>}
DrawingPositions == {<<0, 0>>, <<1, 3>>}
DrawingScales    == {<<2, 2>>, <<3, 1>>}
=============================================================================
