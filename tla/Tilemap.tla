------------------------------ MODULE Tilemap ------------------------------
(***************************************************************************)
(* The graphics resources of src/tilemap.c: tilesets, tilemaps that are    *)
(* drawn from a tileset into a cached texture, and layers that show a      *)
(* window of a tilemap.  A script creates, changes and frees them by       *)
(* number through the gfx_ callbacks.  A callback that fails ends the      *)
(* program, which then frees the whole layer list.                         *)
(*                                                                         *)
(* Each kind lives in an array of slots that doubles when it is full; a    *)
(* slot that was never handed out is "null", as is one that was freed, and *)
(* "raw" is memory that nobody has written.  A map's cells are numbered as *)
(* in memory, row by row.  Scales are counted in halves.                   *)
(***************************************************************************)
EXTENDS Integers, FiniteSets

CONSTANTS
  MaxTilesets, MaxTilemaps, MaxLayers,  \* bounds: slots of the three arrays
  MaxCells,   \* bound: the cells of the largest map
  Sheets,     \* graphics to make tilesets of: [w, h, tw, th], in pixels
  MapSizes,   \* sizes of tilemaps: [w, h], in tiles
  Rects,      \* parts of a map to set or draw: [x, y, w, h], in tiles
  Buffers,    \* data for a part of a map: [pitch, size, tile]
  Windows, Scrolls, Positions, Scales,  \* pairs of numbers, for layers
  Word        \* 2^32 in the code: the modulus of an unsigned int

TilesetIds == 0 .. (MaxTilesets - 1)
TilemapIds == 0 .. (MaxTilemaps - 1)
LayerIds   == 0 .. (MaxLayers - 1)
Cells      == 0 .. (MaxCells - 1)

ASSUME BoundsAssumption ==
  /\ MaxTilesets \in Nat \ {0} /\ MaxTilemaps \in Nat \ {0}
  /\ MaxLayers \in Nat \ {0} /\ MaxCells \in Nat /\ Word \in Nat \ {0}

(* The callbacks hand on ints that are not negative: less than Word / 2. *)
IsInt(n) == n \in Nat /\ 2 * n < Word

ASSUME InputsAssumption ==
  /\ Sheets \subseteq [w : Nat, h : Nat, tw : Nat, th : Nat]
  /\ MapSizes \subseteq [w : Nat, h : Nat]
  /\ \A m \in MapSizes : IsInt(m.w) /\ IsInt(m.h) /\ m.w * m.h <= MaxCells
  /\ Rects \subseteq [x : Nat, y : Nat, w : Nat, h : Nat]
  /\ \A r \in Rects : IsInt(r.x) /\ IsInt(r.y) /\ IsInt(r.w) /\ IsInt(r.h)
  /\ Buffers \subseteq [pitch : Int, size : Nat, tile : Nat]
  /\ Windows \subseteq Nat \X Nat /\ Scrolls \subseteq Nat \X Nat
  /\ Positions \subseteq Int \X Int /\ Scales \subseteq Int \X Int

VARIABLES
  (* fields of LayerList *)
  tileset, tilesetsmem, tilemap, tilemapsmem, layer, layersmem,
  status,            \* of the program: "running", "ended" or "freed"
  textures, blocks,  \* SDL textures and blocks of memory that are allocated
  picture,           \* what the last call drew of a layer, if it drew one
  faults             \* history: what an access to memory must not do, and
                     \* whether the test of a buffer's size has wrapped

sets   == <<tileset, tilesetsmem>>
maps   == <<tilemap, tilemapsmem>>
layers == <<layer, layersmem>>
heap   == <<textures, blocks>>
vars   == <<sets, maps, layers, status, heap, picture, faults>>

Undefined == -1      \* of a cell of a texture: nothing the program drew

NoTileset == [tex |-> "null", tw |-> 0, th |-> 0, max |-> 0, refs |-> 0]
NoTexture == [w |-> 0, h |-> 0, from |-> 0, shown |-> [c \in Cells |-> Undefined]]
NoTilemap == [kind |-> "null", tileset |-> 0, w |-> 0, h |-> 0,
              map |-> [c \in Cells |-> 0], flags |-> {}, colormod |-> {},
              tex |-> NoTexture, refs |-> 0]
NoLayer   == [tilemap |-> -1, x |-> 0, y |-> 0, w |-> 0, h |-> 0,
              scroll_x |-> 0, scroll_y |-> 0, scale_x |-> 2, scale_y |-> 2]
NoPicture == [layer |-> -1, pieces |-> {}]

(* What get_tileset, get_tilemap and get_layer accept. *)
LiveTileset(s) == tileset[s].tex = "live"
LiveTilemap(t) == tilemap[t].kind = "live"
LiveLayer(l)   == layer[l].tilemap # -1

HasTexture(t)  == tilemap[t].tex.w # 0

(* A tilemap's size in pixels. *)
Width(t)  == tilemap[t].w * tileset[tilemap[t].tileset].tw
Height(t) == tilemap[t].h * tileset[tilemap[t].tileset].th

Init ==
  /\ tileset = [s \in TilesetIds |-> NoTileset] /\ tilesetsmem = 0
  /\ tilemap = [t \in TilemapIds |-> NoTilemap] /\ tilemapsmem = 0
  /\ layer = [l \in LayerIds |-> NoLayer] /\ layersmem = 0
  /\ status = "running"
  /\ textures = 0 /\ blocks = 0
  /\ picture = NoPicture
  /\ faults = {}

-----------------------------------------------------------------------------
(* The arrays of slots: the first free slot is taken, a full array doubles *)
(* and the slot behind its old end is taken.                               *)

FaultySlot(free, mem) == 0      \* the first slot, whether it is free or not

Slot(free, mem) ==
  IF free = {} THEN mem ELSE CHOOSE i \in free : \A j \in free : i <= j

Grown(free, mem) ==
  IF mem = 0 THEN 1 ELSE IF free = {} THEN 2 * mem ELSE mem

(* The first use of an array allocates it; realloc keeps it one block. *)
FirstBlock(mem) == IF mem = 0 THEN 1 ELSE 0

FreeTilesets == {s \in TilesetIds : s < tilesetsmem /\ tileset[s].tex = "null"}
FreeTilemaps == {t \in TilemapIds : t < tilemapsmem /\ tilemap[t].kind = "null"}
FreeLayers   == {l \in LayerIds : l < layersmem /\ layer[l].tilemap = -1}

Unref(refs) == IF refs = 0 THEN 0 ELSE refs - 1

(* What every successful call but a drawing one leaves alone. *)
Succeeds == picture' = NoPicture /\ UNCHANGED status

-----------------------------------------------------------------------------
(* Tilesets.                                                               *)

AddTileset(sheet) ==
  LET s   == Slot(FreeTilesets, tilesetsmem)
      mem == Grown(FreeTilesets, tilesetsmem)
  IN  /\ status = "running"
      /\ sheet.tw # 0 /\ sheet.th # 0
      /\ sheet.tw <= sheet.w /\ sheet.th <= sheet.h
      /\ mem <= MaxTilesets
      /\ tileset' = [tileset EXCEPT ![s] =
           [tex |-> "live", tw |-> sheet.tw, th |-> sheet.th,
            max |-> (sheet.w \div sheet.tw) * (sheet.h \div sheet.th),
            refs |-> 0]]
      /\ tilesetsmem' = mem
      /\ textures' = textures + 1
      /\ blocks' = blocks + FirstBlock(tilesetsmem)
      /\ Succeeds
      /\ UNCHANGED <<maps, layers, faults>>

FaultyFreeTileset(s) ==         \* freed while a tilemap refers to it
  /\ status = "running"
  /\ LiveTileset(s)
  /\ tileset' = [tileset EXCEPT ![s] = NoTileset]
  /\ textures' = textures - 1
  /\ Succeeds
  /\ UNCHANGED <<tilesetsmem, maps, layers, blocks, faults>>

FreeTileset(s) ==
  /\ status = "running"
  /\ LiveTileset(s)
  /\ tileset[s].refs = 0
  /\ tileset' = [tileset EXCEPT ![s] = NoTileset]
  /\ textures' = textures - 1
  /\ Succeeds
  /\ UNCHANGED <<tilesetsmem, maps, layers, blocks, faults>>

-----------------------------------------------------------------------------
(* Tilemaps.                                                               *)

AddTilemap(s, size) ==
  LET t   == Slot(FreeTilemaps, tilemapsmem)
      mem == Grown(FreeTilemaps, tilemapsmem)
  IN  /\ status = "running"
      /\ LiveTileset(s)
      /\ size.w # 0 /\ size.h # 0
      /\ mem <= MaxTilemaps
      /\ tilemap' = [tilemap EXCEPT ![t] =
           [NoTilemap EXCEPT !.kind = "live", !.tileset = s,
                             !.w = size.w, !.h = size.h]]
      /\ tilemapsmem' = mem
      /\ tileset' = [tileset EXCEPT ![s].refs = @ + 1]
      /\ blocks' = blocks + FirstBlock(tilemapsmem) + 1
      /\ Succeeds
      /\ UNCHANGED <<tilesetsmem, layers, textures, faults>>

(* The map of the new tilemap cannot be allocated: the array stays as it   *)
(* was grown, its slot has no map, and those behind it were never written. *)
AddTilemapFails(s, size) ==
  LET t   == Slot(FreeTilemaps, tilemapsmem)
      mem == Grown(FreeTilemaps, tilemapsmem)
  IN  /\ status = "running"
      /\ LiveTileset(s)
      /\ size.w # 0 /\ size.h # 0
      /\ mem <= MaxTilemaps
      /\ tilemap' = [u \in TilemapIds |->
           IF t < u /\ tilemapsmem <= u /\ u < mem
             THEN [tilemap[u] EXCEPT !.kind = "raw"] ELSE tilemap[u]]
      /\ tilemapsmem' = mem
      /\ blocks' = blocks + FirstBlock(tilemapsmem)
      /\ status' = "ended"
      /\ picture' = NoPicture
      /\ UNCHANGED <<sets, layers, textures, faults>>

(* Blocks of memory, and textures, that a tilemap owns. *)
Owned(t) == 1 + (IF tilemap[t].flags = {} THEN 0 ELSE 1)
              + (IF tilemap[t].colormod = {} THEN 0 ELSE 1)
Cached(t) == IF HasTexture(t) THEN 1 ELSE 0

FaultyFreeTilemap(t) ==         \* the cached texture is forgotten
  LET s == tilemap[t].tileset
  IN  /\ status = "running"
      /\ LiveTilemap(t)
      /\ tilemap[t].refs = 0
      /\ LiveTileset(s)
      /\ tileset' = [tileset EXCEPT ![s].refs = Unref(@)]
      /\ tilemap' = [tilemap EXCEPT ![t] = NoTilemap]
      /\ blocks' = blocks - Owned(t)
      /\ Succeeds
      /\ UNCHANGED <<tilesetsmem, tilemapsmem, layers, textures, faults>>

FreeTilemap(t) ==
  LET s == tilemap[t].tileset
  IN  /\ status = "running"
      /\ LiveTilemap(t)
      /\ tilemap[t].refs = 0
      /\ LiveTileset(s)
      /\ tileset' = [tileset EXCEPT ![s].refs = Unref(@)]
      /\ tilemap' = [tilemap EXCEPT ![t] = NoTilemap]
      /\ blocks' = blocks - Owned(t)
      /\ textures' = textures - Cached(t)
      /\ Succeeds
      /\ UNCHANGED <<tilesetsmem, tilemapsmem, layers, faults>>

FaultySetTileset(t, s) ==       \* the cached texture stays
  LET old == tilemap[t].tileset
  IN  /\ status = "running"
      /\ LiveTilemap(t) /\ LiveTileset(old) /\ LiveTileset(s)
      /\ tileset' = [[tileset EXCEPT ![old].refs = Unref(@)]
                       EXCEPT ![s].refs = @ + 1]
      /\ tilemap' = [tilemap EXCEPT ![t].tileset = s]
      /\ Succeeds
      /\ UNCHANGED <<tilesetsmem, tilemapsmem, layers, heap, faults>>

FaultyMoveRef(t, s) ==          \* the old tileset's reference is not freed
  LET old == tilemap[t].tileset
  IN  /\ status = "running"
      /\ LiveTilemap(t) /\ LiveTileset(old) /\ LiveTileset(s)
      /\ tileset' = [tileset EXCEPT ![s].refs = @ + 1]
      /\ tilemap' = [tilemap EXCEPT ![t].tileset = s, ![t].tex = NoTexture]
      /\ textures' = textures - Cached(t)
      /\ Succeeds
      /\ UNCHANGED <<tilesetsmem, tilemapsmem, layers, blocks, faults>>

SetTilemapTileset(t, s) ==
  LET old == tilemap[t].tileset
  IN  /\ status = "running"
      /\ LiveTilemap(t) /\ LiveTileset(old) /\ LiveTileset(s)
      /\ tileset' = [[tileset EXCEPT ![old].refs = Unref(@)]
                       EXCEPT ![s].refs = @ + 1]
      /\ tilemap' = [tilemap EXCEPT ![t].tileset = s, ![t].tex = NoTexture]
      /\ textures' = textures - Cached(t)
      /\ Succeeds
      /\ UNCHANGED <<tilesetsmem, tilemapsmem, layers, blocks, faults>>

-----------------------------------------------------------------------------
(* Parts of a map.                                                         *)

(* A width or height of 0 stands for the whole map's. *)
Resolved(t, r) == [r EXCEPT !.w = IF @ = 0 THEN tilemap[t].w ELSE @,
                            !.h = IF @ = 0 THEN tilemap[t].h ELSE @]

Inside(t, r) ==
  /\ r.x <= tilemap[t].w /\ r.y <= tilemap[t].h
  /\ (r.x + r.w) % Word <= tilemap[t].w
  /\ (r.y + r.h) % Word <= tilemap[t].h

(* The cells of a rectangle, in the order of memory. *)
CellsOf(t, r) == {tilemap[t].w * j + i : i \in r.x .. (r.x + r.w - 1),
                                         j \in r.y .. (r.y + r.h - 1)}

PitchOf(t, b) == IF b.pitch < 0 THEN tilemap[t].w ELSE b.pitch

FaultyHolds(t, r, b) ==         \* the last row is forgotten
  ((r.h - 1) * PitchOf(t, b)) % Word <= b.size

(* The buffer has what the rows of the rectangle read of it. *)
Holds(t, r, b) == ((r.h - 1) * PitchOf(t, b) + r.w) % Word <= b.size

(* More than fits an unsigned int.                                         *)
Wraps(t, r, b)    == (r.h - 1) * PitchOf(t, b) + r.w >= Word
Overread(t, r, b) == (r.h - 1) * PitchOf(t, b) + r.w > b.size
Overrun(t, r)     == ~(CellsOf(t, r) \subseteq 0 .. (tilemap[t].w * tilemap[t].h - 1))

Copying(t, r, b) ==
  /\ status = "running"
  /\ LiveTilemap(t)
  /\ Holds(t, r, b)
  /\ Inside(t, r)
  /\ faults' = faults \cup (IF Overread(t, r, b) THEN {"overread"} ELSE {})
                      \cup (IF Overrun(t, r) THEN {"overrun"} ELSE {})
                      \cup (IF Wraps(t, r, b) THEN {"wrapped"} ELSE {})
  /\ Succeeds

SetTilemapMap(t, rect, b) ==
  LET r == Resolved(t, rect)
  IN  /\ Copying(t, r, b)
      /\ tilemap' = [tilemap EXCEPT ![t].map =
           [c \in Cells |-> IF c \in CellsOf(t, r) THEN b.tile ELSE @[c]]]
      /\ UNCHANGED <<sets, tilemapsmem, layers, heap>>

(* An attribute map is allocated when it is first set, and then only as    *)
(* many of its cells as the update has are zeroed.  The model keeps which  *)
(* cells have been written; the empty set is the null pointer.             *)
FaultyWritten(attr, t, r) ==    \* one more is zeroed
  attr \cup CellsOf(t, r) \cup (IF attr = {} THEN 0 .. (r.w * r.h) ELSE {})

Written(attr, t, r) ==
  attr \cup CellsOf(t, r) \cup (IF attr = {} THEN 0 .. (r.w * r.h - 1) ELSE {})

SetTilemapAttrFlags(t, rect, b) ==
  LET r == Resolved(t, rect)
  IN  /\ Copying(t, r, b)
      /\ tilemap' = [tilemap EXCEPT ![t].flags = Written(@, t, r)]
      /\ blocks' = blocks + (IF tilemap[t].flags = {} THEN 1 ELSE 0)
      /\ UNCHANGED <<sets, tilemapsmem, layers, textures>>

SetTilemapAttrColormod(t, rect, b) ==
  LET r == Resolved(t, rect)
  IN  /\ Copying(t, r, b)
      /\ tilemap' = [tilemap EXCEPT ![t].colormod = Written(@, t, r)]
      /\ blocks' = blocks + (IF tilemap[t].colormod = {} THEN 1 ELSE 0)
      /\ UNCHANGED <<sets, tilemapsmem, layers, textures>>

-----------------------------------------------------------------------------
(* tilemap_update_tilemap: the texture is created when there is none (the  *)
(* clear that follows is of the screen, as the render target is set after  *)
(* it), and the tiles of a rectangle are drawn to it.                      *)

NewTexture(t) == [NoTexture EXCEPT !.w = Width(t), !.h = Height(t),
                                   !.from = tilemap[t].tileset]
Texture(t) == IF HasTexture(t) THEN tilemap[t].tex ELSE NewTexture(t)

(* The attributes that apply to a cell have been written. *)
AttrsWritten(t, c) == /\ tilemap[t].flags = {} \/ c \in tilemap[t].flags
                      /\ tilemap[t].colormod = {} \/ c \in tilemap[t].colormod

FaultyDrawn(t, r) ==            \* what was drawn before is lost
  [c \in Cells |-> IF c \in CellsOf(t, r) /\ AttrsWritten(t, c)
                     THEN tilemap[t].map[c] ELSE Undefined]

Drawn(t, r) ==
  [c \in Cells |-> IF c \notin CellsOf(t, r) THEN Texture(t).shown[c]
                   ELSE IF AttrsWritten(t, c) THEN tilemap[t].map[c]
                   ELSE Undefined]

(* The test of a tile's number lets the number of tiles itself pass. *)
UpdateTilemap(t, rect) ==
  LET r == Resolved(t, rect)
      s == tilemap[t].tileset
  IN  /\ status = "running"
      /\ LiveTilemap(t) /\ LiveTileset(s)
      /\ Inside(t, r)
      /\ \A c \in CellsOf(t, r) : ~(tilemap[t].map[c] > tileset[s].max)
      /\ tilemap' = [tilemap EXCEPT ![t].tex =
                       [Texture(t) EXCEPT !.shown = Drawn(t, r)]]
      /\ textures' = textures + 1 - Cached(t)
      /\ Succeeds
      /\ UNCHANGED <<sets, tilemapsmem, layers, blocks, faults>>

(* It fails after the texture was created, before or at some tile: a call  *)
(* of SDL fails, a tile has no such number, or would be turned but is not  *)
(* square.                                                                 *)
UpdateTilemapFails(t, rect) ==
  LET r == Resolved(t, rect)
  IN  /\ status = "running"
      /\ LiveTilemap(t) /\ LiveTileset(tilemap[t].tileset)
      /\ Inside(t, r)
      /\ tilemap' = [tilemap EXCEPT ![t].tex = Texture(t)]
      /\ textures' = textures + 1 - Cached(t)
      /\ status' = "ended"
      /\ picture' = NoPicture
      /\ UNCHANGED <<sets, tilemapsmem, layers, blocks, faults>>

-----------------------------------------------------------------------------
(* Layers.                                                                 *)

AddLayer(t) ==
  LET l   == Slot(FreeLayers, layersmem)
      mem == Grown(FreeLayers, layersmem)
  IN  /\ status = "running"
      /\ LiveTilemap(t) /\ LiveTileset(tilemap[t].tileset)
      /\ mem <= MaxLayers
      /\ layer' = [layer EXCEPT ![l] =
           [NoLayer EXCEPT !.tilemap = t, !.w = Width(t), !.h = Height(t)]]
      /\ layersmem' = mem
      /\ tilemap' = [tilemap EXCEPT ![t].refs = @ + 1]
      /\ blocks' = blocks + FirstBlock(layersmem)
      /\ Succeeds
      /\ UNCHANGED <<sets, tilemapsmem, textures, faults>>

FreeLayer(l) ==
  LET t == layer[l].tilemap
  IN  /\ status = "running"
      /\ LiveLayer(l) /\ LiveTilemap(t)
      /\ tilemap' = [tilemap EXCEPT ![t].refs = Unref(@)]
      /\ layer' = [layer EXCEPT ![l] = NoLayer]
      /\ Succeeds
      /\ UNCHANGED <<sets, tilemapsmem, layersmem, heap, faults>>

SetLayerPos(l, p) ==
  /\ status = "running"
  /\ LiveLayer(l)
  /\ layer' = [layer EXCEPT ![l].x = p[1], ![l].y = p[2]]
  /\ Succeeds
  /\ UNCHANGED <<sets, maps, layersmem, heap, faults>>

SetLayerScale(l, p) ==
  /\ status = "running"
  /\ LiveLayer(l)
  /\ layer' = [layer EXCEPT ![l].scale_x = p[1], ![l].scale_y = p[2]]
  /\ Succeeds
  /\ UNCHANGED <<sets, maps, layersmem, heap, faults>>

SetLayerWindow(l, p) ==
  LET t == layer[l].tilemap
      w == IF p[1] = 0 THEN Width(t) ELSE p[1]
      h == IF p[2] = 0 THEN Height(t) ELSE p[2]
  IN  /\ status = "running"
      /\ LiveLayer(l) /\ LiveTilemap(t) /\ LiveTileset(tilemap[t].tileset)
      /\ w <= Width(t) /\ h <= Height(t)
      /\ layer' = [layer EXCEPT ![l].w = w, ![l].h = h]
      /\ Succeeds
      /\ UNCHANGED <<sets, maps, layersmem, heap, faults>>

FaultyScroll(l, p) ==           \* one past the last position passes
  LET t == layer[l].tilemap
  IN  /\ status = "running"
      /\ LiveLayer(l) /\ LiveTilemap(t) /\ LiveTileset(tilemap[t].tileset)
      /\ p[1] <= Width(t) /\ p[2] <= Height(t)
      /\ layer' = [layer EXCEPT ![l].scroll_x = p[1], ![l].scroll_y = p[2]]
      /\ Succeeds
      /\ UNCHANGED <<sets, maps, layersmem, heap, faults>>

SetLayerScrollPos(l, p) ==
  LET t == layer[l].tilemap
  IN  /\ status = "running"
      /\ LiveLayer(l) /\ LiveTilemap(t) /\ LiveTileset(tilemap[t].tileset)
      /\ p[1] <= Width(t) - 1 /\ p[2] <= Height(t) - 1
      /\ layer' = [layer EXCEPT ![l].scroll_x = p[1], ![l].scroll_y = p[2]]
      /\ Succeeds
      /\ UNCHANGED <<sets, maps, layersmem, heap, faults>>

-----------------------------------------------------------------------------
(* tilemap_draw_layer: the window is drawn in up to four pieces, as it may *)
(* extend once past the right and the bottom edge of the tilemap.          *)

(* Conversion of a double to int cuts it off towards zero. *)
Half(n) == IF n < 0 THEN -((-n) \div 2) ELSE n \div 2

(* A piece of sw * sh pixels at (sx, sy) of the texture, (ox, oy) into the *)
(* window, and where on the screen it goes.                                *)
Piece(r, ox, oy, sx, sy, sw, sh) ==
  [ox |-> ox, oy |-> oy, sx |-> sx, sy |-> sy, sw |-> sw, sh |-> sh,
   dx |-> Half(2 * r.x + ox * r.scale_x), dw |-> Half(sw * r.scale_x),
   dy |-> Half(2 * r.y + oy * r.scale_y), dh |-> Half(sh * r.scale_y)]

FaultyPieces(r, tmw, tmh) ==    \* the corner is not drawn
  LET overRight  == r.scroll_x + r.w - tmw
      overBottom == r.scroll_y + r.h - tmh
      w == IF overRight > 0 THEN r.w - overRight ELSE r.w
      h == IF overBottom > 0 THEN r.h - overBottom ELSE r.h
  IN  {Piece(r, 0, 0, r.scroll_x, r.scroll_y, w, h)}
      \cup (IF overRight > 0
              THEN {Piece(r, w, 0, 0, r.scroll_y, overRight, h)} ELSE {})
      \cup (IF overBottom > 0
              THEN {Piece(r, 0, h, r.scroll_x, 0, w, overBottom)} ELSE {})

FaultySeam(r, tmw, tmh) ==      \* the pieces are put where they are unscaled
  LET overRight  == r.scroll_x + r.w - tmw
      overBottom == r.scroll_y + r.h - tmh
      w == IF overRight > 0 THEN r.w - overRight ELSE r.w
      h == IF overBottom > 0 THEN r.h - overBottom ELSE r.h
      At(ox, oy, sx, sy, sw, sh) ==
        [Piece(r, ox, oy, sx, sy, sw, sh) EXCEPT !.dx = r.x + ox, !.dy = r.y + oy]
  IN  {At(0, 0, r.scroll_x, r.scroll_y, w, h)}
      \cup (IF overRight > 0 THEN {At(w, 0, 0, r.scroll_y, overRight, h)} ELSE {})
      \cup (IF overBottom > 0 THEN {At(0, h, r.scroll_x, 0, w, overBottom)} ELSE {})
      \cup (IF overRight > 0 /\ overBottom > 0
              THEN {At(w, h, 0, 0, overRight, overBottom)} ELSE {})

Pieces(r, tmw, tmh) ==
  LET overRight  == r.scroll_x + r.w - tmw
      overBottom == r.scroll_y + r.h - tmh
      w == IF overRight > 0 THEN r.w - overRight ELSE r.w
      h == IF overBottom > 0 THEN r.h - overBottom ELSE r.h
  IN  {Piece(r, 0, 0, r.scroll_x, r.scroll_y, w, h)}
      \cup (IF overRight > 0
              THEN {Piece(r, w, 0, 0, r.scroll_y, overRight, h)} ELSE {})
      \cup (IF overBottom > 0
              THEN {Piece(r, 0, h, r.scroll_x, 0, w, overBottom)} ELSE {})
      \cup (IF overRight > 0 /\ overBottom > 0
              THEN {Piece(r, w, h, 0, 0, overRight, overBottom)} ELSE {})

DrawLayer(l) ==
  LET t == layer[l].tilemap
  IN  /\ status = "running"
      /\ LiveLayer(l) /\ LiveTilemap(t) /\ LiveTileset(tilemap[t].tileset)
      /\ HasTexture(t)
      /\ picture' = [layer |-> l, pieces |-> Pieces(layer[l], Width(t), Height(t))]
      /\ UNCHANGED <<sets, maps, layers, status, heap, faults>>

-----------------------------------------------------------------------------
(* The program ends: its script says so, or a callback that changed        *)
(* nothing fails (a number that is not in use, a tileset or tilemap that   *)
(* is referenced, a rectangle outside the map, no memory).                 *)
End ==
  /\ status = "running"
  /\ status' = "ended"
  /\ picture' = NoPicture
  /\ UNCHANGED <<sets, maps, layers, heap, faults>>

(* layerlist_free takes any slot that is not null for one in use. *)
LayerlistFree ==
  LET S == {s \in TilesetIds : LiveTileset(s)}
      T == {t \in TilemapIds : LiveTilemap(t)}
  IN  /\ status = "ended"
      /\ status' = "freed"
      /\ tileset' = [s \in TilesetIds |-> NoTileset] /\ tilesetsmem' = 0
      /\ tilemap' = [t \in TilemapIds |-> NoTilemap] /\ tilemapsmem' = 0
      /\ layer' = [l \in LayerIds |-> NoLayer] /\ layersmem' = 0
      /\ textures' = textures - Cardinality(S)
                     - Cardinality({t \in T : HasTexture(t)})
      /\ blocks' = blocks - Cardinality(T)
           - Cardinality({t \in T : tilemap[t].flags # {}})
           - Cardinality({t \in T : tilemap[t].colormod # {}})
           - Cardinality({m \in {1, 2, 3} : <<tilesetsmem, tilemapsmem, layersmem>>[m] # 0})
      /\ faults' = faults \cup
           (IF \E t \in TilemapIds : tilemap[t].kind = "raw" THEN {"wild free"} ELSE {})
      /\ picture' = NoPicture

(* The process is over. *)
Over == status = "freed" /\ UNCHANGED vars

TilesetCall ==
  \/ \E sheet \in Sheets : AddTileset(sheet)
  \/ \E s \in TilesetIds : FreeTileset(s)

TilemapCall ==
  \/ \E s \in TilesetIds, size \in MapSizes :
       AddTilemap(s, size) \/ AddTilemapFails(s, size)
  \/ \E t \in TilemapIds : FreeTilemap(t)
  \/ \E t \in TilemapIds, s \in TilesetIds : SetTilemapTileset(t, s)
  \/ \E t \in TilemapIds, r \in Rects :
       \/ UpdateTilemap(t, r)
       \/ UpdateTilemapFails(t, r)
       \/ \E b \in Buffers : \/ SetTilemapMap(t, r, b)
                             \/ SetTilemapAttrFlags(t, r, b)
                             \/ SetTilemapAttrColormod(t, r, b)

LayerCall ==
  \/ \E t \in TilemapIds : AddLayer(t)
  \/ \E l \in LayerIds :
       \/ FreeLayer(l)
       \/ \E p \in Positions : SetLayerPos(l, p)
       \/ \E p \in Scales : SetLayerScale(l, p)
       \/ \E p \in Windows : SetLayerWindow(l, p)
       \/ \E p \in Scrolls : SetLayerScrollPos(l, p)
       \/ DrawLayer(l)

Next == TilesetCall \/ TilemapCall \/ LayerCall \/ End \/ LayerlistFree \/ Over

Spec == Init /\ [][Next]_vars

-----------------------------------------------------------------------------
(* Properties.                                                             *)

TilesetRecs == [tex : {"null", "live"}, tw : Nat, th : Nat, max : Nat, refs : Nat]
TextureRecs == [w : Nat, h : Nat, from : TilesetIds,
                shown : [Cells -> Nat \cup {Undefined}]]
TilemapRecs == [kind : {"null", "live", "raw"}, tileset : TilesetIds,
                w : Nat, h : Nat, map : [Cells -> Nat],
                flags : SUBSET Cells, colormod : SUBSET Cells,
                tex : TextureRecs, refs : Nat]
LayerRecs   == [tilemap : TilemapIds \cup {-1}, x : Int, y : Int, w : Nat, h : Nat,
                scroll_x : Nat, scroll_y : Nat, scale_x : Int, scale_y : Int]

(* Every field has its type; an update of a map, of its attributes or of   *)
(* its texture stays among the map's own cells.                            *)
TypeOK ==
  /\ tileset \in [TilesetIds -> TilesetRecs] /\ tilesetsmem \in 0 .. MaxTilesets
  /\ tilemap \in [TilemapIds -> TilemapRecs] /\ tilemapsmem \in 0 .. MaxTilemaps
  /\ layer \in [LayerIds -> LayerRecs] /\ layersmem \in 0 .. MaxLayers
  /\ status \in {"running", "ended", "freed"}
  /\ picture.layer \in LayerIds \cup {-1}
  /\ faults \subseteq {"overread", "overrun", "wild free", "wrapped"}

(* The reference counts count: a tileset's the tilemaps that are drawn     *)
(* from it, a tilemap's the layers that show it.  Six operations keep      *)
(* them, and the two free operations rely on nothing else.                 *)
Users(s)   == {t \in TilemapIds : LiveTilemap(t) /\ tilemap[t].tileset = s}
Showing(t) == {l \in LayerIds : layer[l].tilemap = t}

RefsCount ==
  /\ \A s \in TilesetIds : LiveTileset(s) => tileset[s].refs = Cardinality(Users(s))
  /\ \A t \in TilemapIds : LiveTilemap(t) => tilemap[t].refs = Cardinality(Showing(t))

(* No tilemap refers to a tileset that was freed, and no layer to a        *)
(* tilemap that was freed: the number might by now be another's.           *)
NoDangling ==
  /\ \A t \in TilemapIds : LiveTilemap(t) => LiveTileset(tilemap[t].tileset)
  /\ \A l \in LayerIds : LiveLayer(l) => LiveTilemap(layer[l].tilemap)

(* A number stays the resource's while something refers to it: adding      *)
(* never takes a slot in use, and a slot is given up only by a free that   *)
(* found no reference.                                                     *)
SameTileset(s) == /\ LiveTileset(s)'
                  /\ tileset'[s].tw = tileset[s].tw
                  /\ tileset'[s].th = tileset[s].th
                  /\ tileset'[s].max = tileset[s].max
SameTilemap(t) == /\ LiveTilemap(t)'
                  /\ tilemap'[t].w = tilemap[t].w
                  /\ tilemap'[t].h = tilemap[t].h

KeptTilesets == \A s \in TilesetIds : LiveTileset(s) =>
                  SameTileset(s) \/ (~LiveTileset(s)' /\ Users(s) = {})
KeptTilemaps == \A t \in TilemapIds : LiveTilemap(t) =>
                  SameTilemap(t) \/ (~LiveTilemap(t)' /\ Showing(t) = {})

KeptWhileReferenced == [][status' # "freed" => KeptTilesets /\ KeptTilemaps]_vars

(* A cached texture was drawn from the tileset the tilemap has now, in the *)
(* size it gives the map: tilesets change without the map being drawn.     *)
TextureCurrent ==
  \A t \in TilemapIds : LiveTilemap(t) /\ HasTexture(t) =>
    /\ tilemap[t].tex.from = tilemap[t].tileset
    /\ tilemap[t].tex.w = Width(t)
    /\ tilemap[t].tex.h = Height(t)

(* What is allocated is what the slots in use own, and the program's end   *)
(* frees it all.                                                           *)
NothingLeaks ==
  LET T == {t \in TilemapIds : LiveTilemap(t)}
  IN  /\ textures = Cardinality({s \in TilesetIds : LiveTileset(s)})
                    + Cardinality({t \in T : HasTexture(t)})
      /\ blocks = Cardinality(T)
                  + Cardinality({t \in T : tilemap[t].flags # {}})
                  + Cardinality({t \in T : tilemap[t].colormod # {}})
                  + Cardinality({m \in {1, 2, 3} : <<tilesetsmem, tilemapsmem, layersmem>>[m] # 0})

(* Copying to a map or its attributes stays within the map and within the  *)
(* buffer that the script gave.                                            *)
NoOverrun == faults \cap {"overread", "overrun"} = {}

(* The window and the scroll position of a layer fit its tilemap.          *)
Fits(l) == LET t == layer[l].tilemap
           IN  /\ 0 < layer[l].w /\ layer[l].w <= Width(t)
               /\ 0 < layer[l].h /\ layer[l].h <= Height(t)
               /\ layer[l].scroll_x < Width(t) /\ layer[l].scroll_y < Height(t)

(* A layer stops to fit only when its tilemap gets another tileset.        *)
OnlyRetilingUnfits ==
  [][\A l \in LayerIds :
       LiveLayer(l) /\ Fits(l) /\ LiveLayer(l)' /\ ~Fits(l)' =>
         tilemap'[layer[l].tilemap].tileset # tilemap[layer[l].tilemap].tileset]_vars

(* The pieces drawn of a layer that fits put every pixel of its window on  *)
(* the screen once, and it is the pixel of the tilemap, continued past its *)
(* right and bottom edges, that the scroll position puts there.            *)
Shows(q, i, j) == /\ q.ox <= i /\ i < q.ox + q.sw
                  /\ q.oy <= j /\ j < q.oy + q.sh

WindowCovered ==
  picture.layer # -1 /\ Fits(picture.layer) =>
    LET l == picture.layer
        t == layer[l].tilemap
    IN  /\ \A i \in 0 .. (layer[l].w - 1), j \in 0 .. (layer[l].h - 1) :
             /\ Cardinality({q \in picture.pieces : Shows(q, i, j)}) = 1
             /\ \A q \in picture.pieces : Shows(q, i, j) =>
                  /\ q.sx + (i - q.ox) = (layer[l].scroll_x + i) % Width(t)
                  /\ q.sy + (j - q.oy) = (layer[l].scroll_y + j) % Height(t)
        /\ \A q \in picture.pieces :
             /\ 0 < q.sw /\ q.ox + q.sw <= layer[l].w
             /\ 0 < q.sh /\ q.oy + q.sh <= layer[l].h

(* Scaled, the pieces of a layer still meet on the screen, where it does   *)
(* not lie across the screen's left or top edge and is not mirrored, of    *)
(* which tilemap_set_layer_scale warns.                                    *)
Upright(l) == /\ layer[l].x >= 0 /\ layer[l].scale_x >= 0
              /\ layer[l].y >= 0 /\ layer[l].scale_y >= 0

Seamless ==
  picture.layer # -1 /\ Fits(picture.layer) /\ Upright(picture.layer) =>
    \A p, q \in picture.pieces :
      /\ q.ox = p.ox + p.sw => q.dx = p.dx + p.dw
      /\ q.oy = p.oy + p.sh => q.dy = p.dy + p.dh

(* What a layer shows was drawn there, and is a tile of the tileset.       *)
PictureDefined ==
  picture.layer # -1 /\ Fits(picture.layer) =>
    LET t == layer[picture.layer].tilemap
        s == tilemap[t].tileset
        Under(q) == {tilemap[t].w * (j \div tileset[s].th) + (i \div tileset[s].tw) :
                       i \in q.sx .. (q.sx + q.sw - 1), j \in q.sy .. (q.sy + q.sh - 1)}
    IN  \A q \in picture.pieces, c \in Cells :
          c \in Under(q) => tilemap[t].tex.shown[c] \in 0 .. (tileset[s].max - 1)

(* An update draws its rectangle's tiles as the map has them and leaves    *)
(* the rest of the texture as it was: parts of a map may be updated alone. *)
UpdatesAddUp ==
  [][\A t \in TilemapIds, c \in Cells :
       LiveTilemap(t) /\ HasTexture(t) /\ HasTexture(t)' =>
         \/ tilemap'[t].tex.shown[c] = tilemap[t].tex.shown[c]
         \/ tilemap'[t].tex.shown[c] = tilemap[t].map[c]
         \/ ~AttrsWritten(t, c)]_vars
=============================================================================
