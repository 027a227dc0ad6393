--------------------------- MODULE TilemapProofs ---------------------------
(***************************************************************************)
(* Theorems about Tilemap, for any number of slots, sheets, maps and       *)
(* inputs.                                                                 *)
(***************************************************************************)
EXTENDS Tilemap, FiniteSetTheorems, WellFoundedInduction, TLAPS

(* Slots behind the end of an array are in no use. *)
NoneBehind ==
  /\ \A s \in TilesetIds : s >= tilesetsmem => ~LiveTileset(s)
  /\ \A t \in TilemapIds : t >= tilemapsmem => ~LiveTilemap(t)
  /\ \A l \in LayerIds : l >= layersmem => ~LiveLayer(l)

(* A map has one of the sizes that maps are made in. *)
SizesKept ==
  \A t \in TilemapIds : LiveTilemap(t) =>
    \E m \in MapSizes : tilemap[t].w = m.w /\ tilemap[t].h = m.h

IInv == TypeOK /\ NoneBehind /\ SizesKept /\ RefsCount /\ NoDangling

-----------------------------------------------------------------------------
(* The operators the model is built from.                                  *)

(* A set of numbers that is not empty has a least one: CHOOSE finds it. *)
LEMMA LeastExists ==
  ASSUME NEW free \in SUBSET Nat, free # {}
  PROVE  (CHOOSE i \in free : \A j \in free : i <= j) \in free
<1> DEFINE R == {p \in Nat \X Nat : p[1] < p[2]}
<1>1. IsWellFoundedOn(R, Nat)
  BY NatLessThanWellFounded, Zenon DEF OpToRel
<1> HIDE DEF R
<1>2. PICK i \in free : \A j \in free : <<j, i>> \notin R
  BY <1>1, WFMin
<1>3. ASSUME NEW j \in free PROVE i <= j
  <2>1. ~(j < i)
    <3>1. <<j, i>> \in Nat \X Nat /\ <<j, i>>[1] = j /\ <<j, i>>[2] = i
      OBVIOUS
    <3>2. <<j, i>> \notin R
      BY <1>2
    <3> QED
      BY <3>1, <3>2 DEF R
  <2> QED
    BY <2>1
<1> QED
  BY <1>3

(* The slot that is taken was free or lies behind the old end, and lies    *)
(* before the new end, which is not before the old.                        *)
LEMMA SlotTaken ==
  ASSUME NEW mem \in Nat, NEW max \in Nat, NEW free \in SUBSET (0 .. (mem - 1)),
         Grown(free, mem) <= max
  PROVE  /\ Slot(free, mem) \in 0 .. (max - 1)
         /\ Slot(free, mem) \in free \/ Slot(free, mem) = mem
         /\ Slot(free, mem) < Grown(free, mem)
         /\ Grown(free, mem) \in 0 .. max
         /\ mem <= Grown(free, mem)
<1>1. CASE free = {}
  BY <1>1 DEF Slot, Grown
<1>2. CASE free # {}
  <2>0. free \subseteq Nat
    OBVIOUS
  <2>1. Slot(free, mem) \in free
    <3>1. (CHOOSE i \in free : \A j \in free : i <= j) \in free
      BY <1>2, <2>0, LeastExists
    <3> QED
      BY <1>2, <3>1, Zenon DEF Slot
  <2>2. mem # 0
    <3>1. PICK i \in free : TRUE
      BY <1>2
    <3> QED
      BY <3>1
  <2>3. Grown(free, mem) = mem
    BY <1>2, <2>2 DEF Grown
  <2>4. Slot(free, mem) \in 0 .. (mem - 1)
    BY <2>1
  <2> QED
    BY <2>1, <2>3, <2>4
<1> QED
  BY <1>1, <1>2

(* The cell in column i of row j of a map is a cell of the map. *)
LEMMA CellInMap ==
  ASSUME NEW w \in Nat, NEW h \in Nat, NEW i \in Nat, NEW j \in Nat, i < w, j < h
  PROVE  w * j + i \in Nat /\ w * j + i < w * h
<1>1. w * j + i < w * (j + 1)
  OBVIOUS
<1>2. PICK k \in Nat : h = j + 1 + k
  <2>1. h - (j + 1) \in Nat /\ h = j + 1 + (h - (j + 1))
    OBVIOUS
  <2> QED
    BY <2>1
<1>3. w * h = w * (j + 1) + w * k
  BY <1>2
<1>4. w * k \in Nat /\ w * j \in Nat
  OBVIOUS
<1> QED
  BY <1>1, <1>3, <1>4

-----------------------------------------------------------------------------
(* Type correctness.                                                       *)

LEMMA NothingTyped ==
  /\ NoTileset \in TilesetRecs
  /\ NoTexture \in TextureRecs
  /\ NoTilemap \in TilemapRecs
  /\ NoLayer \in LayerRecs
<1>1. 0 \in TilesetIds /\ 0 \in TilemapIds
  BY BoundsAssumption DEF TilesetIds, TilemapIds
<1>2. NoTileset \in TilesetRecs
  BY DEF NoTileset, TilesetRecs
<1>3. NoTexture \in TextureRecs
  BY <1>1 DEF NoTexture, TextureRecs
<1>4. NoTilemap \in TilemapRecs
  BY <1>1, <1>3 DEF NoTilemap, TilemapRecs
<1>5. NoLayer \in LayerRecs
  BY DEF NoLayer, LayerRecs
<1> QED
  BY <1>2, <1>3, <1>4, <1>5

LEMMA InitIInv == Init => IInv
<1> SUFFICES ASSUME Init PROVE IInv
  OBVIOUS
<1>1. TypeOK
  <2>1. tileset \in [TilesetIds -> TilesetRecs] /\ tilemap \in [TilemapIds -> TilemapRecs]
        /\ layer \in [LayerIds -> LayerRecs]
    BY NothingTyped DEF Init
  <2>2. tilesetsmem \in 0 .. MaxTilesets /\ tilemapsmem \in 0 .. MaxTilemaps
        /\ layersmem \in 0 .. MaxLayers
    BY BoundsAssumption DEF Init
  <2> QED
    BY <2>1, <2>2 DEF Init, TypeOK, NoPicture
<1>2. /\ \A s \in TilesetIds : ~LiveTileset(s)
      /\ \A t \in TilemapIds : ~LiveTilemap(t)
      /\ \A l \in LayerIds : ~LiveLayer(l)
  BY DEF Init, LiveTileset, LiveTilemap, LiveLayer, NoTileset, NoTilemap, NoLayer
<1> QED
  BY <1>1, <1>2 DEF IInv, NoneBehind, SizesKept, RefsCount, NoDangling

-----------------------------------------------------------------------------
(* The invariant, call by call.                                            *)

LEMMA UsersFinite ==
  /\ \A s : IsFiniteSet(Users(s)) /\ Cardinality(Users(s)) \in Nat
  /\ \A t : IsFiniteSet(Showing(t)) /\ Cardinality(Showing(t)) \in Nat
<1>1. IsFiniteSet(TilemapIds) /\ IsFiniteSet(LayerIds)
  BY FS_Interval, BoundsAssumption DEF TilemapIds, LayerIds
<1>2. (\A s : Users(s) \subseteq TilemapIds) /\ (\A t : Showing(t) \subseteq LayerIds)
  BY DEF Users, Showing
<1> QED
  BY <1>1, <1>2, FS_Subset, FS_CardinalityType

(* A call that leaves alone what is in use, who refers to what and the     *)
(* counts keeps the invariant if it keeps the types.                       *)
LEMMA ReferencesUntouched ==
  ASSUME IInv, TypeOK', tilesetsmem' = tilesetsmem, layersmem' = layersmem,
         tilemapsmem <= tilemapsmem',
         \A s \in TilesetIds : /\ tileset'[s].tex = tileset[s].tex
                               /\ tileset'[s].refs = tileset[s].refs,
         \A t \in TilemapIds : LiveTilemap(t)' <=> LiveTilemap(t),
         \A t \in TilemapIds : LiveTilemap(t) =>
                               /\ tilemap'[t].tileset = tilemap[t].tileset
                               /\ tilemap'[t].w = tilemap[t].w
                               /\ tilemap'[t].h = tilemap[t].h
                               /\ tilemap'[t].refs = tilemap[t].refs,
         \A l \in LayerIds : layer'[l].tilemap = layer[l].tilemap
  PROVE  IInv'
<1>1. /\ \A s \in TilesetIds : LiveTileset(s)' <=> LiveTileset(s)
      /\ \A l \in LayerIds : LiveLayer(l)' <=> LiveLayer(l)
  BY DEF LiveTileset, LiveLayer
<1>2. (\A s : Users(s)' = Users(s)) /\ (\A t : Showing(t)' = Showing(t))
  BY DEF Users, Showing
<1>3. RefsCount'
  BY <1>1, <1>2 DEF IInv, RefsCount
<1>4. NoDangling'
  <2>1. \A t \in TilemapIds : tilemap[t].tileset \in TilesetIds
    BY DEF IInv, TypeOK, TilemapRecs
  <2>2. \A l \in LayerIds : LiveLayer(l) => layer[l].tilemap \in TilemapIds
    BY DEF IInv, TypeOK, LayerRecs, LiveLayer
  <2> QED
    BY <1>1, <2>1, <2>2 DEF IInv, NoDangling
<1>5. NoneBehind'
  <2>1. tilemapsmem \in 0 .. MaxTilemaps /\ tilemapsmem' \in 0 .. MaxTilemaps
    BY DEF IInv, TypeOK
  <2>2. \A t \in TilemapIds : t >= tilemapsmem' => t >= tilemapsmem
    BY <2>1, BoundsAssumption DEF TilemapIds
  <2> QED
    BY <1>1, <2>2 DEF IInv, NoneBehind
<1>6. SizesKept'
  BY DEF IInv, SizesKept
<1> QED
  BY <1>3, <1>4, <1>5, <1>6 DEF IInv

(* What the slot taken for a new tileset, tilemap or layer is like. *)
Takes(slot, ids, mem, newmem) == /\ slot \in ids /\ slot < newmem
                                 /\ newmem \in Nat /\ mem \in Nat /\ mem <= newmem

LEMMA TilesetSlot ==
  ASSUME IInv, Grown(FreeTilesets, tilesetsmem) <= MaxTilesets
  PROVE  LET s == Slot(FreeTilesets, tilesetsmem)
             mem == Grown(FreeTilesets, tilesetsmem)
         IN  /\ Takes(s, TilesetIds, tilesetsmem, mem) /\ mem \in 0 .. MaxTilesets
             /\ ~LiveTileset(s)
<1>1. MaxTilesets \in Nat
  BY BoundsAssumption
<1>2. tilesetsmem \in 0 .. MaxTilesets
  BY DEF IInv, TypeOK
<1>3. tilesetsmem \in Nat
  BY <1>1, <1>2
<1>4. FreeTilesets \in SUBSET (0 .. (tilesetsmem - 1))
  BY <1>1, <1>3 DEF FreeTilesets, TilesetIds
<1>5. ASSUME NEW s, s = Slot(FreeTilesets, tilesetsmem),
             NEW mem, mem = Grown(FreeTilesets, tilesetsmem)
      PROVE  /\ Takes(s, TilesetIds, tilesetsmem, mem) /\ mem \in 0 .. MaxTilesets
             /\ ~LiveTileset(s)
  <2>1. /\ s \in 0 .. (MaxTilesets - 1)
        /\ s \in FreeTilesets \/ s = tilesetsmem
        /\ s < mem /\ mem \in 0 .. MaxTilesets /\ tilesetsmem <= mem
    BY <1>1, <1>3, <1>4, <1>5, SlotTaken
  <2>2. s \in TilesetIds
    BY <2>1 DEF TilesetIds
  <2>3. s \in FreeTilesets => ~LiveTileset(s)
    BY DEF FreeTilesets, LiveTileset
  <2>4. s = tilesetsmem => ~LiveTileset(s)
    BY <1>3, <2>2 DEF IInv, NoneBehind
  <2>5. mem \in Nat
    BY <1>1, <2>1
  <2> QED
    BY <1>3, <2>1, <2>2, <2>3, <2>4, <2>5 DEF Takes
<1> QED
  BY <1>5

LEMMA TilemapSlot ==
  ASSUME IInv, Grown(FreeTilemaps, tilemapsmem) <= MaxTilemaps
  PROVE  LET s == Slot(FreeTilemaps, tilemapsmem)
             mem == Grown(FreeTilemaps, tilemapsmem)
         IN  /\ Takes(s, TilemapIds, tilemapsmem, mem) /\ mem \in 0 .. MaxTilemaps
             /\ ~LiveTilemap(s)
<1>1. MaxTilemaps \in Nat
  BY BoundsAssumption
<1>2. tilemapsmem \in 0 .. MaxTilemaps
  BY DEF IInv, TypeOK
<1>3. tilemapsmem \in Nat
  BY <1>1, <1>2
<1>4. FreeTilemaps \in SUBSET (0 .. (tilemapsmem - 1))
  BY <1>1, <1>3 DEF FreeTilemaps, TilemapIds
<1>5. ASSUME NEW s, s = Slot(FreeTilemaps, tilemapsmem),
             NEW mem, mem = Grown(FreeTilemaps, tilemapsmem)
      PROVE  /\ Takes(s, TilemapIds, tilemapsmem, mem) /\ mem \in 0 .. MaxTilemaps
             /\ ~LiveTilemap(s)
  <2>1. /\ s \in 0 .. (MaxTilemaps - 1)
        /\ s \in FreeTilemaps \/ s = tilemapsmem
        /\ s < mem /\ mem \in 0 .. MaxTilemaps /\ tilemapsmem <= mem
    BY <1>1, <1>3, <1>4, <1>5, SlotTaken
  <2>2. s \in TilemapIds
    BY <2>1 DEF TilemapIds
  <2>3. s \in FreeTilemaps => ~LiveTilemap(s)
    BY DEF FreeTilemaps, LiveTilemap
  <2>4. s = tilemapsmem => ~LiveTilemap(s)
    BY <1>3, <2>2 DEF IInv, NoneBehind
  <2>5. mem \in Nat
    BY <1>1, <2>1
  <2> QED
    BY <1>3, <2>1, <2>2, <2>3, <2>4, <2>5 DEF Takes
<1> QED
  BY <1>5

LEMMA LayerSlot ==
  ASSUME IInv, Grown(FreeLayers, layersmem) <= MaxLayers
  PROVE  LET s == Slot(FreeLayers, layersmem)
             mem == Grown(FreeLayers, layersmem)
         IN  /\ Takes(s, LayerIds, layersmem, mem) /\ mem \in 0 .. MaxLayers
             /\ ~LiveLayer(s)
<1>1. MaxLayers \in Nat
  BY BoundsAssumption
<1>2. layersmem \in 0 .. MaxLayers
  BY DEF IInv, TypeOK
<1>3. layersmem \in Nat
  BY <1>1, <1>2
<1>4. FreeLayers \in SUBSET (0 .. (layersmem - 1))
  BY <1>1, <1>3 DEF FreeLayers, LayerIds
<1>5. ASSUME NEW s, s = Slot(FreeLayers, layersmem),
             NEW mem, mem = Grown(FreeLayers, layersmem)
      PROVE  /\ Takes(s, LayerIds, layersmem, mem) /\ mem \in 0 .. MaxLayers
             /\ ~LiveLayer(s)
  <2>1. /\ s \in 0 .. (MaxLayers - 1)
        /\ s \in FreeLayers \/ s = layersmem
        /\ s < mem /\ mem \in 0 .. MaxLayers /\ layersmem <= mem
    BY <1>1, <1>3, <1>4, <1>5, SlotTaken
  <2>2. s \in LayerIds
    BY <2>1 DEF LayerIds
  <2>3. s \in FreeLayers => ~LiveLayer(s)
    BY DEF FreeLayers, LiveLayer
  <2>4. s = layersmem => ~LiveLayer(s)
    BY <1>3, <2>2 DEF IInv, NoneBehind
  <2>5. mem \in Nat
    BY <1>1, <2>1
  <2> QED
    BY <1>3, <2>1, <2>2, <2>3, <2>4, <2>5 DEF Takes
<1> QED
  BY <1>5

LEMMA AddTilesetStep ==
  ASSUME IInv, NEW sheet \in Sheets, AddTileset(sheet)
  PROVE  IInv'
<1> DEFINE new == [tex |-> "live", tw |-> sheet.tw, th |-> sheet.th,
                   max |-> (sheet.w \div sheet.tw) * (sheet.h \div sheet.th),
                   refs |-> 0]
<1>1. PICK s, mem :
        /\ s = Slot(FreeTilesets, tilesetsmem)
        /\ mem = Grown(FreeTilesets, tilesetsmem)
        /\ tileset' = [tileset EXCEPT ![s] = new] /\ tilesetsmem' = mem
        /\ mem <= MaxTilesets /\ sheet.tw # 0 /\ sheet.th # 0
        /\ UNCHANGED <<maps, layers, faults, status>> /\ picture' = NoPicture
  BY DEF AddTileset, Succeeds
<1>2. /\ Takes(s, TilesetIds, tilesetsmem, mem) /\ mem \in 0 .. MaxTilesets
      /\ ~LiveTileset(s)
  BY <1>1, TilesetSlot
<1>3. TypeOK'
  <2>1. sheet.w \in Nat /\ sheet.h \in Nat /\ sheet.tw \in Nat /\ sheet.th \in Nat
    BY InputsAssumption
  <2>2. sheet.w \div sheet.tw \in Nat /\ sheet.h \div sheet.th \in Nat
    BY <1>1, <2>1
  <2>3. new \in TilesetRecs
    BY <2>1, <2>2 DEF TilesetRecs
  <2>4. tileset' \in [TilesetIds -> TilesetRecs]
    BY <1>1, <2>3 DEF IInv, TypeOK
  <2> QED
    BY <1>1, <1>2, <2>4 DEF IInv, TypeOK, maps, layers, NoPicture
<1>4. /\ LiveTileset(s)' /\ tileset'[s].refs = 0
      /\ \A u \in TilesetIds \ {s} : tileset'[u] = tileset[u]
  BY <1>1, <1>2 DEF IInv, TypeOK, LiveTileset, Takes
<1>5. /\ \A t \in TilemapIds : LiveTilemap(t)' <=> LiveTilemap(t)
      /\ \A l \in LayerIds : LiveLayer(l)' <=> LiveLayer(l)
      /\ \A u : Users(u)' = Users(u)
      /\ \A t : Showing(t)' = Showing(t)
  BY <1>1 DEF LiveTilemap, LiveLayer, Users, Showing, maps, layers
<1>6. Users(s) = {}
  BY <1>2 DEF Users, IInv, NoDangling
<1>7. RefsCount'
  <2>1. Cardinality({}) = 0
    BY FS_EmptySet
  <2>2. ASSUME NEW u \in TilesetIds, LiveTileset(u)'
        PROVE  tileset'[u].refs = Cardinality(Users(u)')
    <3>1. CASE u = s
      BY <1>4, <1>5, <1>6, <2>1, <3>1
    <3>2. CASE u # s
      BY <1>4, <1>5, <2>2, <3>2 DEF IInv, RefsCount, LiveTileset
    <3> QED
      BY <3>1, <3>2
  <2>3. \A t \in TilemapIds : LiveTilemap(t)' => tilemap'[t].refs = Cardinality(Showing(t)')
    BY <1>1, <1>5 DEF IInv, RefsCount, maps
  <2> QED
    BY <2>2, <2>3 DEF RefsCount
<1>8. NoDangling'
  <2>1. \A u \in TilesetIds : LiveTileset(u) => LiveTileset(u)'
    BY <1>4 DEF LiveTileset
  <2>2. \A t \in TilemapIds : tilemap[t].tileset \in TilesetIds
    BY DEF IInv, TypeOK, TilemapRecs
  <2> QED
    BY <1>1, <1>5, <2>1, <2>2 DEF IInv, NoDangling, maps, layers, LiveTilemap
<1>9. NoneBehind'
  <2>1. ASSUME NEW u \in TilesetIds, u >= tilesetsmem' PROVE ~LiveTileset(u)'
    <3>1. u # s /\ u >= tilesetsmem
      BY <1>1, <1>2, <2>1 DEF TilesetIds, Takes
    <3> QED
      BY <1>4, <3>1 DEF IInv, NoneBehind, LiveTileset
  <2> QED
    BY <1>1, <1>5, <2>1 DEF IInv, NoneBehind, maps, layers
<1>10. SizesKept'
  BY <1>1, <1>5 DEF IInv, SizesKept, maps
<1> QED
  BY <1>3, <1>7, <1>8, <1>9, <1>10 DEF IInv

LEMMA FreeTilesetStep ==
  ASSUME IInv, NEW s \in TilesetIds, FreeTileset(s)
  PROVE  IInv'
<1>1. /\ LiveTileset(s) /\ tileset[s].refs = 0
      /\ tileset' = [tileset EXCEPT ![s] = NoTileset]
      /\ UNCHANGED <<tilesetsmem, maps, layers, faults, status>> /\ picture' = NoPicture
  BY DEF FreeTileset, Succeeds
<1>2. TypeOK'
  <2>1. tileset' \in [TilesetIds -> TilesetRecs]
    BY <1>1, NothingTyped DEF IInv, TypeOK
  <2> QED
    BY <1>1, <2>1 DEF IInv, TypeOK, maps, layers, NoPicture
<1>3. /\ ~LiveTileset(s)'
      /\ \A u \in TilesetIds \ {s} : tileset'[u] = tileset[u]
  BY <1>1 DEF IInv, TypeOK, LiveTileset, NoTileset
<1>4. /\ \A t \in TilemapIds : LiveTilemap(t)' <=> LiveTilemap(t)
      /\ \A l \in LayerIds : LiveLayer(l)' <=> LiveLayer(l)
      /\ \A u : Users(u)' = Users(u)
      /\ \A t : Showing(t)' = Showing(t)
  BY <1>1 DEF LiveTilemap, LiveLayer, Users, Showing, maps, layers
<1>5. Users(s) = {}
  <2>1. Cardinality(Users(s)) = 0
    BY <1>1 DEF IInv, RefsCount
  <2> QED
    BY <2>1, UsersFinite, FS_EmptySet
<1>6. RefsCount'
  <2>1. ASSUME NEW u \in TilesetIds, LiveTileset(u)'
        PROVE  tileset'[u].refs = Cardinality(Users(u)')
    <3>1. u # s /\ tileset'[u] = tileset[u]
      BY <1>3, <2>1
    <3> QED
      BY <1>4, <2>1, <3>1 DEF IInv, RefsCount, LiveTileset
  <2>2. \A t \in TilemapIds : LiveTilemap(t)' => tilemap'[t].refs = Cardinality(Showing(t)')
    BY <1>1, <1>4 DEF IInv, RefsCount, maps
  <2> QED
    BY <2>1, <2>2 DEF RefsCount
<1>7. NoDangling'
  <2>1. \A u \in TilesetIds \ {s} : LiveTileset(u) => LiveTileset(u)'
    BY <1>3 DEF LiveTileset
  <2>2. \A t \in TilemapIds : LiveTilemap(t) => tilemap[t].tileset \in TilesetIds \ {s}
    BY <1>5 DEF IInv, TypeOK, TilemapRecs, Users
  <2> QED
    BY <1>1, <1>4, <2>1, <2>2 DEF IInv, NoDangling, maps, layers, LiveTilemap
<1>8. NoneBehind'
  BY <1>1, <1>3, <1>4 DEF IInv, NoneBehind, LiveTileset, maps, layers
<1>9. SizesKept'
  BY <1>1, <1>4 DEF IInv, SizesKept, maps
<1> QED
  BY <1>2, <1>6, <1>7, <1>8, <1>9 DEF IInv

LEMMA AddTilemapStep ==
  ASSUME IInv, NEW s \in TilesetIds, NEW size \in MapSizes, AddTilemap(s, size)
  PROVE  IInv'
<1> DEFINE new == [NoTilemap EXCEPT !.kind = "live", !.tileset = s,
                                    !.w = size.w, !.h = size.h]
<1>1. PICK t, mem :
        /\ t = Slot(FreeTilemaps, tilemapsmem)
        /\ mem = Grown(FreeTilemaps, tilemapsmem)
        /\ LiveTileset(s) /\ mem <= MaxTilemaps
        /\ tilemap' = [tilemap EXCEPT ![t] = new] /\ tilemapsmem' = mem
        /\ tileset' = [tileset EXCEPT ![s].refs = @ + 1]
        /\ UNCHANGED <<tilesetsmem, layers, faults, status>> /\ picture' = NoPicture
  BY DEF AddTilemap, Succeeds
<1>2. /\ Takes(t, TilemapIds, tilemapsmem, mem) /\ mem \in 0 .. MaxTilemaps
      /\ ~LiveTilemap(t)
  BY <1>1, TilemapSlot
<1>3. TypeOK'
  <2>1. size.w \in Nat /\ size.h \in Nat
    BY InputsAssumption
  <2>2. new \in TilemapRecs
    BY <2>1, NothingTyped DEF TilemapRecs
  <2>3. tilemap' \in [TilemapIds -> TilemapRecs]
    BY <1>1, <2>2 DEF IInv, TypeOK
  <2>4. tileset' \in [TilesetIds -> TilesetRecs]
    <3>1. tileset[s] \in TilesetRecs
      BY DEF IInv, TypeOK
    <3>2. [tileset[s] EXCEPT !.refs = @ + 1] \in TilesetRecs
      BY <3>1 DEF TilesetRecs
    <3> QED
      BY <1>1, <3>2 DEF IInv, TypeOK
  <2> QED
    BY <1>1, <1>2, <2>3, <2>4 DEF IInv, TypeOK, layers, NoPicture
<1>4. /\ LiveTilemap(t)' /\ tilemap'[t].refs = 0 /\ tilemap'[t].tileset = s
      /\ tilemap'[t].w = size.w /\ tilemap'[t].h = size.h
      /\ \A u \in TilemapIds \ {t} : tilemap'[u] = tilemap[u]
  <2>1. t \in TilemapIds
    BY <1>2 DEF Takes
  <2>2. tilemap'[t] = new /\ \A u \in TilemapIds \ {t} : tilemap'[u] = tilemap[u]
    BY <1>1, <2>1 DEF IInv, TypeOK
  <2>3. new.kind = "live" /\ new.refs = 0 /\ new.tileset = s
        /\ new.w = size.w /\ new.h = size.h
    BY DEF NoTilemap
  <2> QED
    BY <2>2, <2>3 DEF LiveTilemap
<1>5. /\ tileset'[s].refs = tileset[s].refs + 1
      /\ \A u \in TilesetIds \ {s} : tileset'[u] = tileset[u]
      /\ \A u \in TilesetIds : LiveTileset(u)' <=> LiveTileset(u)
  BY <1>1 DEF IInv, TypeOK, TilesetRecs, LiveTileset
<1>6. /\ Users(s)' = Users(s) \cup {t} /\ t \notin Users(s)
      /\ \A u \in TilesetIds \ {s} : Users(u)' = Users(u)
      /\ \A u : Showing(u)' = Showing(u)
  BY <1>1, <1>2, <1>4 DEF Users, Showing, LiveTilemap, Takes, layers
<1>7. Showing(t) = {}
  BY <1>2 DEF IInv, NoDangling, Showing, LiveLayer, Takes, TilemapIds
<1>8. RefsCount'
  <2>1. ASSUME NEW u \in TilesetIds, LiveTileset(u)'
        PROVE  tileset'[u].refs = Cardinality(Users(u)')
    <3>1. tileset[u].refs = Cardinality(Users(u))
      BY <1>5, <2>1 DEF IInv, RefsCount
    <3>2. Cardinality(Users(s) \cup {t}) = Cardinality(Users(s)) + 1
      BY <1>6, UsersFinite, FS_AddElement
    <3> QED
      BY <1>5, <1>6, <3>1, <3>2
  <2>2. ASSUME NEW u \in TilemapIds, LiveTilemap(u)'
        PROVE  tilemap'[u].refs = Cardinality(Showing(u)')
    <3>1. CASE u = t
      BY <1>4, <1>6, <1>7, <3>1, FS_EmptySet
    <3>2. CASE u # t
      BY <1>4, <1>6, <2>2, <3>2 DEF IInv, RefsCount, LiveTilemap
    <3> QED
      BY <3>1, <3>2
  <2> QED
    BY <2>1, <2>2 DEF RefsCount
<1>9. NoDangling'
  <2>1. ASSUME NEW u \in TilemapIds, LiveTilemap(u)'
        PROVE  LiveTileset(tilemap[u].tileset)'
    <3>1. CASE u = t
      BY <1>1, <1>4, <1>5, <3>1
    <3>2. CASE u # t
      <4>1. tilemap'[u] = tilemap[u] /\ LiveTilemap(u)
        BY <1>4, <2>1, <3>2 DEF LiveTilemap
      <4>2. tilemap[u].tileset \in TilesetIds
        BY DEF IInv, TypeOK, TilemapRecs
      <4> QED
        BY <1>5, <4>1, <4>2 DEF IInv, NoDangling
    <3> QED
      BY <3>1, <3>2
  <2>2. ASSUME NEW l \in LayerIds, LiveLayer(l)'
        PROVE  LiveTilemap(layer[l].tilemap)'
    <3>1. layer'[l] = layer[l] /\ LiveLayer(l)
      BY <1>1, <2>2 DEF layers, LiveLayer
    <3>2. layer[l].tilemap \in TilemapIds
      BY <3>1 DEF IInv, TypeOK, LayerRecs, LiveLayer
    <3>3. LiveTilemap(layer[l].tilemap)
      BY <3>1 DEF IInv, NoDangling
    <3> QED
      BY <1>4, <3>1, <3>2, <3>3 DEF LiveTilemap
  <2> QED
    BY <2>1, <2>2 DEF NoDangling
<1>10. NoneBehind'
  <2>1. ASSUME NEW u \in TilemapIds, u >= tilemapsmem' PROVE ~LiveTilemap(u)'
    <3>1. u # t /\ u >= tilemapsmem
      BY <1>1, <1>2, <2>1 DEF TilemapIds, Takes
    <3> QED
      BY <1>4, <3>1 DEF IInv, NoneBehind, LiveTilemap
  <2> QED
    BY <1>1, <1>5, <2>1 DEF IInv, NoneBehind, LiveLayer, layers
<1>11. SizesKept'
  BY <1>4 DEF IInv, SizesKept, LiveTilemap
<1> QED
  BY <1>3, <1>8, <1>9, <1>10, <1>11 DEF IInv

LEMMA AddTilemapFailsStep ==
  ASSUME IInv, NEW s \in TilesetIds, NEW size \in MapSizes, AddTilemapFails(s, size)
  PROVE  IInv'
<1>1. PICK t, mem :
        /\ t = Slot(FreeTilemaps, tilemapsmem)
        /\ mem = Grown(FreeTilemaps, tilemapsmem)
        /\ mem <= MaxTilemaps
        /\ tilemap' = [u \in TilemapIds |->
             IF t < u /\ tilemapsmem <= u /\ u < mem
               THEN [tilemap[u] EXCEPT !.kind = "raw"] ELSE tilemap[u]]
        /\ tilemapsmem' = mem /\ status' = "ended" /\ picture' = NoPicture
        /\ UNCHANGED <<sets, layers, faults>>
  BY DEF AddTilemapFails
<1>2. Takes(t, TilemapIds, tilemapsmem, mem) /\ mem \in 0 .. MaxTilemaps
  BY <1>1, TilemapSlot
<1>3. TypeOK'
  <2>1. \A u \in TilemapIds : [tilemap[u] EXCEPT !.kind = "raw"] \in TilemapRecs
    BY DEF IInv, TypeOK, TilemapRecs
  <2>2. tilemap' \in [TilemapIds -> TilemapRecs]
    BY <1>1, <2>1 DEF IInv, TypeOK
  <2> QED
    BY <1>1, <1>2, <2>2 DEF IInv, TypeOK, sets, layers, NoPicture
<1>4. ASSUME NEW u \in TilemapIds
      PROVE  /\ LiveTilemap(u)' <=> LiveTilemap(u)
             /\ LiveTilemap(u) => tilemap'[u] = tilemap[u]
  <2>1. CASE t < u /\ tilemapsmem <= u /\ u < mem
    <3>1. ~LiveTilemap(u)
      BY <1>2, <2>1 DEF IInv, NoneBehind, Takes, TilemapIds
    <3>2. tilemap'[u].kind = "raw"
      BY <1>1, <2>1 DEF IInv, TypeOK, TilemapRecs
    <3> QED
      BY <3>1, <3>2 DEF LiveTilemap
  <2>2. CASE ~(t < u /\ tilemapsmem <= u /\ u < mem)
    BY <1>1, <2>2 DEF LiveTilemap
  <2> QED
    BY <2>1, <2>2
<1> QED
  BY <1>1, <1>2, <1>3, <1>4, ReferencesUntouched DEF Takes, sets, layers

(* One referrer less: the count that is not yet 0 goes down by one. *)
LEMMA OneLess ==
  ASSUME NEW S, IsFiniteSet(S), NEW x \in S
  PROVE  /\ Cardinality(S) \in Nat \ {0}
         /\ Cardinality(S \ {x}) = Unref(Cardinality(S))
<1>1. Cardinality(S \ {x}) = Cardinality(S) - 1 /\ IsFiniteSet(S \ {x})
  BY FS_RemoveElement
<1>2. Cardinality(S) \in Nat /\ Cardinality(S \ {x}) \in Nat
  BY <1>1, FS_CardinalityType
<1> QED
  BY <1>1, <1>2 DEF Unref

LEMMA UnrefTyped ==
  ASSUME NEW r \in TilesetRecs
  PROVE  /\ [r EXCEPT !.refs = Unref(@)] \in TilesetRecs
         /\ [r EXCEPT !.refs = @ + 1] \in TilesetRecs
<1>1. Unref(r.refs) \in Nat /\ r.refs + 1 \in Nat
  BY DEF TilesetRecs, Unref
<1> QED
  BY <1>1 DEF TilesetRecs

LEMMA FreeTilemapStep ==
  ASSUME IInv, NEW t \in TilemapIds, FreeTilemap(t)
  PROVE  IInv'
<1>1. PICK s :
        /\ s = tilemap[t].tileset
        /\ LiveTilemap(t) /\ tilemap[t].refs = 0 /\ LiveTileset(s)
        /\ tileset' = [tileset EXCEPT ![s].refs = Unref(@)]
        /\ tilemap' = [tilemap EXCEPT ![t] = NoTilemap]
        /\ UNCHANGED <<tilesetsmem, tilemapsmem, layers, faults, status>>
        /\ picture' = NoPicture
  BY DEF FreeTilemap, Succeeds
<1>2. s \in TilesetIds
  BY <1>1 DEF IInv, TypeOK, TilemapRecs
<1>3. TypeOK'
  <2>1. tilemap' \in [TilemapIds -> TilemapRecs]
    BY <1>1, NothingTyped DEF IInv, TypeOK
  <2>2. tileset[s] \in TilesetRecs
    BY <1>2 DEF IInv, TypeOK
  <2>3. tileset' \in [TilesetIds -> TilesetRecs]
    BY <1>1, <2>2, UnrefTyped DEF IInv, TypeOK
  <2> QED
    BY <1>1, <2>1, <2>3 DEF IInv, TypeOK, layers, NoPicture
<1>4. /\ ~LiveTilemap(t)'
      /\ \A u \in TilemapIds \ {t} : tilemap'[u] = tilemap[u]
  BY <1>1 DEF IInv, TypeOK, LiveTilemap, NoTilemap
<1>5. /\ tileset'[s].refs = Unref(tileset[s].refs)
      /\ \A u \in TilesetIds \ {s} : tileset'[u] = tileset[u]
      /\ \A u \in TilesetIds : LiveTileset(u)' <=> LiveTileset(u)
  BY ZenonT(60), <1>1, <1>2 DEF IInv, TypeOK, TilesetRecs, LiveTileset
<1>6. /\ Users(s)' = Users(s) \ {t} /\ t \in Users(s)
      /\ \A u \in TilesetIds \ {s} : Users(u)' = Users(u)
      /\ \A u : Showing(u)' = Showing(u)
  BY <1>1, <1>4 DEF Users, Showing, LiveTilemap, layers
<1>7. Showing(t) = {}
  <2>1. Cardinality(Showing(t)) = 0
    BY <1>1 DEF IInv, RefsCount
  <2> QED
    BY <2>1, UsersFinite, FS_EmptySet
<1>8. RefsCount'
  <2>1. ASSUME NEW u \in TilesetIds, LiveTileset(u)'
        PROVE  tileset'[u].refs = Cardinality(Users(u)')
    <3>1. tileset[u].refs = Cardinality(Users(u))
      BY <1>5, <2>1 DEF IInv, RefsCount
    <3>2. Cardinality(Users(s) \ {t}) = Unref(Cardinality(Users(s)))
      BY <1>6, UsersFinite, OneLess
    <3> QED
      BY <1>5, <1>6, <3>1, <3>2
  <2>2. ASSUME NEW u \in TilemapIds, LiveTilemap(u)'
        PROVE  tilemap'[u].refs = Cardinality(Showing(u)')
    BY <1>4, <1>6, <2>2 DEF IInv, RefsCount, LiveTilemap
  <2> QED
    BY <2>1, <2>2 DEF RefsCount
<1>9. NoDangling'
  <2>1. ASSUME NEW u \in TilemapIds, LiveTilemap(u)'
        PROVE  LiveTileset(tilemap[u].tileset)'
    <3>1. tilemap'[u] = tilemap[u] /\ LiveTilemap(u)
      BY <1>4, <2>1 DEF LiveTilemap
    <3>2. tilemap[u].tileset \in TilesetIds
      BY DEF IInv, TypeOK, TilemapRecs
    <3> QED
      BY <1>5, <3>1, <3>2 DEF IInv, NoDangling
  <2>2. ASSUME NEW l \in LayerIds, LiveLayer(l)'
        PROVE  LiveTilemap(layer[l].tilemap)'
    <3>1. layer'[l] = layer[l] /\ LiveLayer(l)
      BY <1>1, <2>2 DEF layers, LiveLayer
    <3>2. layer[l].tilemap \in TilemapIds \ {t}
      BY <1>7, <3>1 DEF IInv, TypeOK, LayerRecs, LiveLayer, Showing
    <3>3. LiveTilemap(layer[l].tilemap)
      BY <3>1 DEF IInv, NoDangling
    <3> QED
      BY <1>4, <3>1, <3>2, <3>3 DEF LiveTilemap
  <2> QED
    BY <2>1, <2>2 DEF NoDangling
<1>10. NoneBehind'
  BY <1>1, <1>4, <1>5 DEF IInv, NoneBehind, LiveTilemap, LiveLayer, layers
<1>11. SizesKept'
  BY <1>4 DEF IInv, SizesKept, LiveTilemap
<1> QED
  BY <1>3, <1>8, <1>9, <1>10, <1>11 DEF IInv

LEMMA SetTilemapTilesetStep ==
  ASSUME IInv, NEW t \in TilemapIds, NEW s \in TilesetIds, SetTilemapTileset(t, s)
  PROVE  IInv'
<1>1. PICK old :
        /\ old = tilemap[t].tileset
        /\ LiveTilemap(t) /\ LiveTileset(old) /\ LiveTileset(s)
        /\ tileset' = [[tileset EXCEPT ![old].refs = Unref(@)]
                         EXCEPT ![s].refs = @ + 1]
        /\ tilemap' = [tilemap EXCEPT ![t].tileset = s, ![t].tex = NoTexture]
        /\ UNCHANGED <<tilesetsmem, tilemapsmem, layers, faults, status>>
        /\ picture' = NoPicture
  BY DEF SetTilemapTileset, Succeeds
<1>2. old \in TilesetIds
  BY <1>1 DEF IInv, TypeOK, TilemapRecs
<1>3. PICK ts \in [TilesetIds -> TilesetRecs] :
        ts = [tileset EXCEPT ![old].refs = Unref(@)]
  <2>1. tileset[old] \in TilesetRecs
    BY <1>2 DEF IInv, TypeOK
  <2>2. [tileset EXCEPT ![old].refs = Unref(@)] \in [TilesetIds -> TilesetRecs]
    BY <1>2, <2>1, UnrefTyped DEF IInv, TypeOK
  <2> QED
    BY <2>2
<1>4. tileset' = [ts EXCEPT ![s].refs = @ + 1]
  BY <1>1, <1>3
<1>5. TypeOK'
  <2>1. ts[s] \in TilesetRecs
    OBVIOUS
  <2>2. tileset' \in [TilesetIds -> TilesetRecs]
    BY <1>4, <2>1, UnrefTyped
  <2>3. [[tilemap[t] EXCEPT !.tileset = s] EXCEPT !.tex = NoTexture] \in TilemapRecs
    BY NothingTyped DEF IInv, TypeOK, TilemapRecs
  <2>4. tilemap' \in [TilemapIds -> TilemapRecs]
    BY <1>1, <2>3 DEF IInv, TypeOK
  <2> QED
    BY <1>1, <2>2, <2>4 DEF IInv, TypeOK, layers, NoPicture
<1>6. /\ tilemap'[t].kind = tilemap[t].kind /\ tilemap'[t].tileset = s
      /\ tilemap'[t].refs = tilemap[t].refs
      /\ tilemap'[t].w = tilemap[t].w /\ tilemap'[t].h = tilemap[t].h
      /\ \A u \in TilemapIds \ {t} : tilemap'[u] = tilemap[u]
  BY <1>1 DEF IInv, TypeOK, TilemapRecs
<1>7. \A u \in TilemapIds : LiveTilemap(u)' <=> LiveTilemap(u)
  BY <1>6 DEF LiveTilemap
<1>8. \A u \in TilesetIds :
        /\ LiveTileset(u)' <=> LiveTileset(u)
        /\ tileset'[u].refs = IF old = s /\ u = s THEN Unref(tileset[u].refs) + 1
                              ELSE IF u = old THEN Unref(tileset[u].refs)
                              ELSE IF u = s THEN tileset[u].refs + 1
                              ELSE tileset[u].refs
  <2>1. /\ ts[old].refs = Unref(tileset[old].refs) /\ ts[old].tex = tileset[old].tex
        /\ \A u \in TilesetIds \ {old} : ts[u] = tileset[u]
    BY <1>2, <1>3 DEF IInv, TypeOK, TilesetRecs
  <2>2. /\ tileset'[s].refs = ts[s].refs + 1 /\ tileset'[s].tex = ts[s].tex
        /\ \A u \in TilesetIds \ {s} : tileset'[u] = ts[u]
    BY <1>4 DEF TilesetRecs
  <2> QED
    BY <2>1, <2>2 DEF LiveTileset
<1>9. /\ t \in Users(old)
      /\ \A u : Showing(u)' = Showing(u)
      /\ old = s => \A u \in TilesetIds : Users(u)' = Users(u)
      /\ old # s => /\ Users(old)' = Users(old) \ {t}
                    /\ Users(s)' = Users(s) \cup {t} /\ t \notin Users(s)
                    /\ \A u \in TilesetIds \ {old, s} : Users(u)' = Users(u)
  BY ZenonT(60), <1>1, <1>6, <1>7 DEF Users, Showing, layers
<1>10. RefsCount'
  <2>1. \A u \in TilesetIds : LiveTileset(u) => tileset[u].refs = Cardinality(Users(u))
    BY DEF IInv, RefsCount
  <2>2. /\ Cardinality(Users(old)) \in Nat \ {0}
        /\ Cardinality(Users(old) \ {t}) = Unref(Cardinality(Users(old)))
    BY <1>9, UsersFinite, OneLess
  <2>3. ASSUME NEW u \in TilesetIds, LiveTileset(u)'
        PROVE  tileset'[u].refs = Cardinality(Users(u)')
    <3>1. CASE old = s /\ u = s
      BY <1>8, <1>9, <2>1, <2>2, <2>3, <3>1 DEF Unref
    <3>2. CASE old # s /\ u = old
      BY <1>8, <1>9, <2>1, <2>2, <2>3, <3>2
    <3>3. CASE old # s /\ u = s
      <4>1. Cardinality(Users(s) \cup {t}) = Cardinality(Users(s)) + 1
        BY <1>9, <3>3, UsersFinite, FS_AddElement
      <4> QED
        BY <1>8, <1>9, <2>1, <2>3, <3>3, <4>1
    <3>4. CASE u # old /\ u # s
      BY <1>8, <1>9, <2>1, <2>3, <3>4
    <3> QED
      BY <3>1, <3>2, <3>3, <3>4
  <2>4. \A u \in TilemapIds : LiveTilemap(u)' => tilemap'[u].refs = Cardinality(Showing(u)')
    BY <1>6, <1>7, <1>9 DEF IInv, RefsCount
  <2> QED
    BY <2>3, <2>4 DEF RefsCount
<1>11. NoDangling'
  <2>1. ASSUME NEW u \in TilemapIds, LiveTilemap(u)'
        PROVE  LiveTileset(tilemap[u].tileset)'
    <3>1. CASE u = t
      BY <1>1, <1>6, <1>8, <3>1
    <3>2. CASE u # t
      <4>1. tilemap'[u] = tilemap[u] /\ LiveTilemap(u)
        BY <1>6, <1>7, <2>1, <3>2
      <4>2. tilemap[u].tileset \in TilesetIds
        BY DEF IInv, TypeOK, TilemapRecs
      <4> QED
        BY <1>8, <4>1, <4>2 DEF IInv, NoDangling
    <3> QED
      BY <3>1, <3>2
  <2>2. ASSUME NEW l \in LayerIds, LiveLayer(l)'
        PROVE  LiveTilemap(layer[l].tilemap)'
    <3>1. layer'[l] = layer[l] /\ LiveLayer(l)
      BY <1>1, <2>2 DEF layers, LiveLayer
    <3>2. layer[l].tilemap \in TilemapIds
      BY <3>1 DEF IInv, TypeOK, LayerRecs, LiveLayer
    <3> QED
      BY <1>7, <3>1, <3>2 DEF IInv, NoDangling
  <2> QED
    BY <2>1, <2>2 DEF NoDangling
<1>12. NoneBehind'
  BY <1>1, <1>7, <1>8 DEF IInv, NoneBehind, LiveLayer, layers
<1>13. SizesKept'
  BY <1>6, <1>7 DEF IInv, SizesKept
<1> QED
  BY <1>5, <1>10, <1>11, <1>12, <1>13 DEF IInv

LEMMA SizesTyped ==
  ASSUME IInv, NEW t \in TilemapIds, LiveTilemap(t)
  PROVE  Width(t) \in Nat /\ Height(t) \in Nat
<1>1. tilemap[t].w \in Nat /\ tilemap[t].h \in Nat /\ tilemap[t].tileset \in TilesetIds
  BY DEF IInv, TypeOK, TilemapRecs
<1>2. tileset[tilemap[t].tileset].tw \in Nat /\ tileset[tilemap[t].tileset].th \in Nat
  BY <1>1 DEF IInv, TypeOK, TilesetRecs
<1> QED
  BY <1>1, <1>2 DEF Width, Height

LEMMA AddLayerStep ==
  ASSUME IInv, NEW t \in TilemapIds, AddLayer(t)
  PROVE  IInv'
<1> DEFINE new == [NoLayer EXCEPT !.tilemap = t, !.w = Width(t), !.h = Height(t)]
<1>1. PICK l, mem :
        /\ l = Slot(FreeLayers, layersmem) /\ mem = Grown(FreeLayers, layersmem)
        /\ LiveTilemap(t) /\ mem <= MaxLayers
        /\ layer' = [layer EXCEPT ![l] = new] /\ layersmem' = mem
        /\ tilemap' = [tilemap EXCEPT ![t].refs = @ + 1]
        /\ UNCHANGED <<sets, tilemapsmem, faults, status>> /\ picture' = NoPicture
  BY DEF AddLayer, Succeeds
<1>2. /\ Takes(l, LayerIds, layersmem, mem) /\ mem \in 0 .. MaxLayers
      /\ ~LiveLayer(l)
  BY <1>1, LayerSlot
<1>3. TypeOK'
  <2>1. Width(t) \in Nat /\ Height(t) \in Nat
    BY <1>1, SizesTyped
  <2> HIDE DEF NoLayer
  <2>2. new \in LayerRecs
    BY <2>1, NothingTyped DEF LayerRecs
  <2>3. layer' \in [LayerIds -> LayerRecs]
    BY <1>1, <2>2 DEF IInv, TypeOK
  <2>4. [tilemap[t] EXCEPT !.refs = @ + 1] \in TilemapRecs
    <3>1. tilemap[t] \in TilemapRecs
      BY DEF IInv, TypeOK
    <3>2. tilemap[t].refs + 1 \in Nat
      BY <3>1 DEF TilemapRecs
    <3> QED
      BY <3>1, <3>2 DEF TilemapRecs
  <2>5. tilemap' \in [TilemapIds -> TilemapRecs]
    BY <1>1, <2>4 DEF IInv, TypeOK
  <2> QED
    BY <1>1, <1>2, <2>3, <2>5 DEF IInv, TypeOK, sets, NoPicture
<1>4. /\ layer'[l].tilemap = t
      /\ \A m \in LayerIds \ {l} : layer'[m] = layer[m]
  <2>1. new.tilemap = t
    BY DEF NoLayer
  <2> QED
    BY <1>1, <1>2, <2>1 DEF IInv, TypeOK, Takes
<1>5. /\ tilemap'[t].refs = tilemap[t].refs + 1
      /\ \A u \in TilemapIds \ {t} : tilemap'[u] = tilemap[u]
      /\ \A u \in TilemapIds : /\ LiveTilemap(u)' <=> LiveTilemap(u)
                               /\ tilemap'[u].tileset = tilemap[u].tileset
                               /\ tilemap'[u].w = tilemap[u].w
                               /\ tilemap'[u].h = tilemap[u].h
  BY <1>1 DEF IInv, TypeOK, TilemapRecs, LiveTilemap
<1>6. -1 \notin TilemapIds
  BY BoundsAssumption DEF TilemapIds
<1>7. /\ Showing(t)' = Showing(t) \cup {l} /\ l \notin Showing(t)
      /\ \A u \in TilemapIds \ {t} : Showing(u)' = Showing(u)
      /\ \A u : Users(u)' = Users(u)
  BY <1>2, <1>4, <1>5, <1>6 DEF Users, Showing, LiveLayer, Takes
<1>8. RefsCount'
  <2>1. ASSUME NEW u \in TilemapIds, LiveTilemap(u)'
        PROVE  tilemap'[u].refs = Cardinality(Showing(u)')
    <3>1. tilemap[u].refs = Cardinality(Showing(u))
      BY <1>5, <2>1 DEF IInv, RefsCount
    <3>2. Cardinality(Showing(t) \cup {l}) = Cardinality(Showing(t)) + 1
      BY <1>7, UsersFinite, FS_AddElement
    <3> QED
      BY <1>5, <1>7, <3>1, <3>2
  <2>2. \A u \in TilesetIds : LiveTileset(u)' => tileset'[u].refs = Cardinality(Users(u)')
    BY <1>1, <1>7 DEF IInv, RefsCount, sets, LiveTileset
  <2> QED
    BY <2>1, <2>2 DEF RefsCount
<1>9. NoDangling'
  <2>1. \A u \in TilemapIds : LiveTilemap(u)' => LiveTileset(tilemap[u].tileset)'
    BY <1>1, <1>5 DEF IInv, NoDangling, sets, LiveTileset
  <2>2. ASSUME NEW m \in LayerIds, LiveLayer(m)'
        PROVE  LiveTilemap(layer[m].tilemap)'
    <3>1. CASE m = l
      BY <1>1, <1>4, <1>5, <3>1
    <3>2. CASE m # l
      <4>1. layer'[m] = layer[m] /\ LiveLayer(m)
        BY <1>4, <2>2, <3>2 DEF LiveLayer
      <4>2. layer[m].tilemap \in TilemapIds
        BY <4>1 DEF IInv, TypeOK, LayerRecs, LiveLayer
      <4> QED
        BY <1>5, <4>1, <4>2 DEF IInv, NoDangling
    <3> QED
      BY <3>1, <3>2
  <2> QED
    BY <2>1, <2>2 DEF NoDangling
<1>10. NoneBehind'
  <2>1. ASSUME NEW m \in LayerIds, m >= layersmem' PROVE ~LiveLayer(m)'
    <3>1. m # l /\ m >= layersmem
      BY <1>1, <1>2, <2>1 DEF LayerIds, Takes
    <3> QED
      BY <1>4, <3>1 DEF IInv, NoneBehind, LiveLayer
  <2> QED
    BY <1>1, <1>5, <2>1 DEF IInv, NoneBehind, LiveTileset, sets
<1>11. SizesKept'
  BY <1>5 DEF IInv, SizesKept
<1> QED
  BY <1>3, <1>8, <1>9, <1>10, <1>11 DEF IInv

LEMMA FreeLayerStep ==
  ASSUME IInv, NEW l \in LayerIds, FreeLayer(l)
  PROVE  IInv'
<1>1. PICK t :
        /\ t = layer[l].tilemap /\ LiveLayer(l) /\ LiveTilemap(t)
        /\ tilemap' = [tilemap EXCEPT ![t].refs = Unref(@)]
        /\ layer' = [layer EXCEPT ![l] = NoLayer]
        /\ UNCHANGED <<sets, tilemapsmem, layersmem, faults, status>>
        /\ picture' = NoPicture
  BY DEF FreeLayer, Succeeds
<1>2. t \in TilemapIds /\ -1 \notin TilemapIds
  <2>1. t \in TilemapIds
    BY <1>1 DEF IInv, TypeOK, LayerRecs, LiveLayer
  <2>2. -1 \notin TilemapIds
    BY BoundsAssumption DEF TilemapIds
  <2> QED
    BY <2>1, <2>2
<1>3. TypeOK'
  <2>1. layer' \in [LayerIds -> LayerRecs]
    BY <1>1, NothingTyped DEF IInv, TypeOK
  <2>2. tilemap[t] \in TilemapRecs
    BY <1>2 DEF IInv, TypeOK
  <2>3. Unref(tilemap[t].refs) \in Nat
    BY <2>2 DEF TilemapRecs, Unref
  <2>4. [tilemap[t] EXCEPT !.refs = Unref(@)] \in TilemapRecs
    BY <2>2, <2>3 DEF TilemapRecs
  <2>5. tilemap' \in [TilemapIds -> TilemapRecs]
    BY <1>1, <2>4 DEF IInv, TypeOK
  <2> QED
    BY <1>1, <2>1, <2>5 DEF IInv, TypeOK, sets, NoPicture
<1>4. /\ layer'[l].tilemap = -1
      /\ \A m \in LayerIds \ {l} : layer'[m] = layer[m]
  BY <1>1 DEF IInv, TypeOK, NoLayer
<1>5. /\ tilemap'[t].refs = Unref(tilemap[t].refs)
      /\ \A u \in TilemapIds \ {t} : tilemap'[u] = tilemap[u]
      /\ \A u \in TilemapIds : /\ LiveTilemap(u)' <=> LiveTilemap(u)
                               /\ tilemap'[u].tileset = tilemap[u].tileset
                               /\ tilemap'[u].w = tilemap[u].w
                               /\ tilemap'[u].h = tilemap[u].h
  BY ZenonT(60), <1>1, <1>2 DEF IInv, TypeOK, TilemapRecs, LiveTilemap
<1>6. /\ Showing(t)' = Showing(t) \ {l} /\ l \in Showing(t)
      /\ \A u \in TilemapIds \ {t} : Showing(u)' = Showing(u)
      /\ \A u : Users(u)' = Users(u)
  BY <1>1, <1>2, <1>4, <1>5 DEF Users, Showing
<1>7. RefsCount'
  <2>1. ASSUME NEW u \in TilemapIds, LiveTilemap(u)'
        PROVE  tilemap'[u].refs = Cardinality(Showing(u)')
    <3>1. tilemap[u].refs = Cardinality(Showing(u))
      BY <1>5, <2>1 DEF IInv, RefsCount
    <3>2. Cardinality(Showing(t) \ {l}) = Unref(Cardinality(Showing(t)))
      BY <1>6, UsersFinite, OneLess
    <3> QED
      BY <1>5, <1>6, <3>1, <3>2
  <2>2. \A u \in TilesetIds : LiveTileset(u)' => tileset'[u].refs = Cardinality(Users(u)')
    BY <1>1, <1>6 DEF IInv, RefsCount, sets, LiveTileset
  <2> QED
    BY <2>1, <2>2 DEF RefsCount
<1>8. NoDangling'
  <2>1. \A u \in TilemapIds : LiveTilemap(u)' => LiveTileset(tilemap[u].tileset)'
    BY <1>1, <1>5 DEF IInv, NoDangling, sets, LiveTileset
  <2>2. ASSUME NEW m \in LayerIds, LiveLayer(m)'
        PROVE  LiveTilemap(layer[m].tilemap)'
    <3>1. layer'[m] = layer[m] /\ LiveLayer(m)
      BY <1>4, <2>2 DEF LiveLayer
    <3>2. layer[m].tilemap \in TilemapIds
      BY <3>1 DEF IInv, TypeOK, LayerRecs, LiveLayer
    <3> QED
      BY <1>5, <3>1, <3>2 DEF IInv, NoDangling
  <2> QED
    BY <2>1, <2>2 DEF NoDangling
<1>9. NoneBehind'
  BY <1>1, <1>4, <1>5 DEF IInv, NoneBehind, LiveTileset, LiveLayer, sets
<1>10. SizesKept'
  BY <1>5 DEF IInv, SizesKept
<1> QED
  BY <1>3, <1>7, <1>8, <1>9, <1>10 DEF IInv

LEMMA LayerlistFreeStep ==
  ASSUME IInv, LayerlistFree
  PROVE  IInv'
<1>1. /\ tileset' = [s \in TilesetIds |-> NoTileset] /\ tilesetsmem' = 0
      /\ tilemap' = [t \in TilemapIds |-> NoTilemap] /\ tilemapsmem' = 0
      /\ layer' = [l \in LayerIds |-> NoLayer] /\ layersmem' = 0
      /\ status' = "freed" /\ picture' = NoPicture
      /\ faults' \subseteq faults \cup {"wild free"}
  BY DEF LayerlistFree
<1>2. TypeOK'
  <2>1. tileset' \in [TilesetIds -> TilesetRecs] /\ tilemap' \in [TilemapIds -> TilemapRecs]
        /\ layer' \in [LayerIds -> LayerRecs]
    BY <1>1, NothingTyped
  <2>2. tilesetsmem' \in 0 .. MaxTilesets /\ tilemapsmem' \in 0 .. MaxTilemaps
        /\ layersmem' \in 0 .. MaxLayers
    <3>1. MaxTilesets \in Nat /\ MaxTilemaps \in Nat /\ MaxLayers \in Nat
      BY BoundsAssumption
    <3>2. tilesetsmem' = 0 /\ tilemapsmem' = 0 /\ layersmem' = 0
      BY <1>1
    <3> QED
      BY <3>1, <3>2
  <2>3. faults' \subseteq {"overread", "overrun", "wild free", "wrapped"}
    BY <1>1 DEF IInv, TypeOK
  <2> QED
    BY <1>1, <2>1, <2>2, <2>3 DEF TypeOK, NoPicture
<1>3. /\ \A s \in TilesetIds : ~LiveTileset(s)'
      /\ \A t \in TilemapIds : ~LiveTilemap(t)'
      /\ \A l \in LayerIds : ~LiveLayer(l)'
  BY <1>1 DEF LiveTileset, LiveTilemap, LiveLayer, NoTileset, NoTilemap, NoLayer
<1> QED
  BY <1>2, <1>3 DEF IInv, NoneBehind, SizesKept, RefsCount, NoDangling

-----------------------------------------------------------------------------
(* Parts of a map.                                                         *)

(* A rectangle inside a map, with the whole map's width and height for 0,  *)
(* does not wrap and covers cells of that map only.                        *)
LEMMA RectInMap ==
  ASSUME IInv, NEW t \in TilemapIds, LiveTilemap(t), NEW rect \in Rects,
         NEW r, r = Resolved(t, rect), Inside(t, r)
  PROVE  /\ CellsOf(t, r) \subseteq 0 .. (tilemap[t].w * tilemap[t].h - 1)
         /\ 0 .. (r.w * r.h - 1) \subseteq 0 .. (tilemap[t].w * tilemap[t].h - 1)
         /\ 0 .. (tilemap[t].w * tilemap[t].h - 1) \subseteq Cells
<1> DEFINE w == tilemap[t].w
           h == tilemap[t].h
<1>1. PICK m \in MapSizes : w = m.w /\ h = m.h
  BY DEF IInv, SizesKept
<1>2. IsInt(w) /\ IsInt(h) /\ w * h <= MaxCells
  BY <1>1, InputsAssumption
<1>3. IsInt(rect.x) /\ IsInt(rect.y) /\ IsInt(rect.w) /\ IsInt(rect.h)
  BY InputsAssumption
<1>4. /\ r.x = rect.x /\ r.y = rect.y
      /\ r.w = (IF rect.w = 0 THEN w ELSE rect.w)
      /\ r.h = (IF rect.h = 0 THEN h ELSE rect.h)
  <2>1. rect \in [x : Nat, y : Nat, w : Nat, h : Nat]
    BY InputsAssumption
  <2> QED
    BY <2>1 DEF Resolved
<1>5. IsInt(r.x) /\ IsInt(r.y) /\ IsInt(r.w) /\ IsInt(r.h)
  BY <1>2, <1>3, <1>4
<1> HIDE DEF w, h
<1>6. r.x + r.w <= w /\ r.y + r.h <= h
  <2>1. Word \in Nat \ {0}
    BY BoundsAssumption
  <2>2. ASSUME NEW a \in Nat, NEW b \in Nat, 2 * a < Word, 2 * b < Word
        PROVE  (a + b) % Word = a + b
    <3>1. a + b \in Nat /\ a + b < Word
      BY <2>1, <2>2
    <3> DEFINE c == a + b
    <3> HIDE DEF c
    <3>2. c \in Nat /\ c < Word
      BY <3>1 DEF c
    <3>3. c % Word = c
      BY <2>1, <3>2
    <3> QED
      BY <3>3 DEF c
  <2>3. (r.x + r.w) % Word = r.x + r.w /\ (r.y + r.h) % Word = r.y + r.h
    BY <1>5, <2>2 DEF IsInt
  <2> QED
    BY <2>3 DEF Inside, w, h
<1>7. w \in Nat /\ h \in Nat /\ MaxCells \in Nat
      /\ r.x \in Nat /\ r.y \in Nat /\ r.w \in Nat /\ r.h \in Nat
  BY <1>2, <1>5, BoundsAssumption DEF IsInt
<1>8. CellsOf(t, r) \subseteq 0 .. (w * h - 1)
  <2>1. ASSUME NEW i \in r.x .. (r.x + r.w - 1), NEW j \in r.y .. (r.y + r.h - 1)
        PROVE  w * j + i \in 0 .. (w * h - 1)
    <3>1. i \in Nat /\ j \in Nat /\ i < w /\ j < h
      BY <1>6, <1>7
    <3>2. w * j + i \in Nat /\ w * j + i < w * h
      BY <1>7, <3>1, CellInMap
    <3>3. w * h \in Nat
      BY <1>7
    <3> QED
      BY <3>2, <3>3
  <2> QED
    BY <2>1 DEF CellsOf, w
<1>9. r.w * r.h <= w * h /\ r.w * r.h \in Nat /\ w * h \in Nat
  <2>1. r.w <= w /\ r.h <= h
    BY <1>6, <1>7
  <2>2. r.w * r.h <= w * r.h
    BY <1>7, <2>1
  <2>3. w * r.h <= w * h
    BY <1>7, <2>1
  <2> QED
    BY <1>7, <2>2, <2>3
<1>10. 0 .. (r.w * r.h - 1) \subseteq 0 .. (w * h - 1)
  BY <1>9
<1>11. 0 .. (w * h - 1) \subseteq Cells
  BY <1>2, <1>7, <1>9 DEF Cells
<1> QED
  BY <1>8, <1>10, <1>11 DEF w, h

LEMMA NoFewerSlots ==
  ASSUME IInv
  PROVE  tilemapsmem <= tilemapsmem
<1>1. tilemapsmem \in 0 .. MaxTilemaps /\ MaxTilemaps \in Nat
  BY BoundsAssumption DEF IInv, TypeOK
<1> QED
  BY <1>1

(* A call that changes neither the kind, the tileset, the size nor the     *)
(* references of a tilemap, and nothing but that tilemap.                  *)
LEMMA TilemapOnly ==
  ASSUME IInv, NEW t \in TilemapIds, NEW rec \in TilemapRecs,
         tilemap' = [tilemap EXCEPT ![t] = rec],
         rec.kind = tilemap[t].kind, rec.tileset = tilemap[t].tileset,
         rec.w = tilemap[t].w, rec.h = tilemap[t].h, rec.refs = tilemap[t].refs,
         UNCHANGED <<sets, tilemapsmem, layers>>,
         status' \in {"running", "ended"}, picture' = NoPicture,
         faults' \subseteq {"overread", "overrun", "wild free", "wrapped"}
  PROVE  IInv'
<1>1. tilemap' \in [TilemapIds -> TilemapRecs]
  BY DEF IInv, TypeOK
<1>2. TypeOK'
  BY <1>1 DEF IInv, TypeOK, NoPicture, sets, layers
<1>3. /\ tilemap'[t] = rec
      /\ \A u \in TilemapIds \ {t} : tilemap'[u] = tilemap[u]
  BY DEF IInv, TypeOK
<1>4. \A u \in TilemapIds : /\ LiveTilemap(u)' <=> LiveTilemap(u)
                            /\ tilemap'[u].tileset = tilemap[u].tileset
                            /\ tilemap'[u].w = tilemap[u].w
                            /\ tilemap'[u].h = tilemap[u].h
                            /\ tilemap'[u].refs = tilemap[u].refs
  BY ZenonT(60), <1>3 DEF LiveTilemap
<1>5. tilemapsmem <= tilemapsmem'
  <2>1. tilemapsmem' = tilemapsmem
    OBVIOUS
  <2> QED
    BY <2>1, NoFewerSlots, Zenon
<1> QED
  BY <1>2, <1>4, <1>5, ReferencesUntouched DEF sets, layers

(* Such a call for a layer: all but its tilemap may change. *)
LEMMA LayerOnly ==
  ASSUME IInv, NEW l \in LayerIds, NEW rec \in LayerRecs,
         layer' = [layer EXCEPT ![l] = rec], rec.tilemap = layer[l].tilemap,
         UNCHANGED <<sets, maps, layersmem, status, faults>>, picture' = NoPicture
  PROVE  IInv'
<1>1. layer' \in [LayerIds -> LayerRecs]
  BY DEF IInv, TypeOK
<1>2. TypeOK'
  BY <1>1 DEF IInv, TypeOK, NoPicture, sets, maps
<1>3. \A m \in LayerIds : layer'[m].tilemap = layer[m].tilemap
  BY DEF IInv, TypeOK
<1>4. tilemapsmem <= tilemapsmem'
  <2>1. tilemapsmem' = tilemapsmem
    BY DEF maps
  <2> QED
    BY <2>1, NoFewerSlots, Zenon
<1> QED
  BY <1>2, <1>3, <1>4, ReferencesUntouched DEF sets, maps, LiveTilemap

(* Whatever part of a map is copied to, nothing behind the map is written. *)
LEMMA CopyingInMap ==
  ASSUME IInv, NEW t \in TilemapIds, NEW rect \in Rects, NEW b \in Buffers,
         NEW r, r = Resolved(t, rect), Copying(t, r, b)
  PROVE  /\ ~Overrun(t, r)
         /\ faults' \subseteq {"overread", "overrun", "wild free", "wrapped"}
         /\ "overrun" \in faults' => "overrun" \in faults
         /\ CellsOf(t, r) \subseteq Cells /\ 0 .. (r.w * r.h - 1) \subseteq Cells
         /\ status' = "running" /\ picture' = NoPicture
<1>1. /\ LiveTilemap(t) /\ Inside(t, r)
      /\ status' = "running" /\ picture' = NoPicture
      /\ faults' = faults \cup (IF Overread(t, r, b) THEN {"overread"} ELSE {})
                          \cup (IF Overrun(t, r) THEN {"overrun"} ELSE {})
                          \cup (IF Wraps(t, r, b) THEN {"wrapped"} ELSE {})
  BY DEF Copying, Succeeds
<1>2. /\ CellsOf(t, r) \subseteq 0 .. (tilemap[t].w * tilemap[t].h - 1)
      /\ 0 .. (r.w * r.h - 1) \subseteq 0 .. (tilemap[t].w * tilemap[t].h - 1)
      /\ 0 .. (tilemap[t].w * tilemap[t].h - 1) \subseteq Cells
  BY <1>1, RectInMap
<1>3. ~Overrun(t, r)
  BY <1>2 DEF Overrun
<1>4. faults \subseteq {"overread", "overrun", "wild free", "wrapped"}
  BY DEF IInv, TypeOK
<1>5. CellsOf(t, r) \subseteq Cells /\ 0 .. (r.w * r.h - 1) \subseteq Cells
  BY <1>2
<1> QED
  BY <1>1, <1>3, <1>4, <1>5

LEMMA SetTilemapMapStep ==
  ASSUME IInv, NEW t \in TilemapIds, NEW rect \in Rects, NEW b \in Buffers,
         SetTilemapMap(t, rect, b)
  PROVE  IInv'
<1>1. PICK r :
        /\ r = Resolved(t, rect) /\ Copying(t, r, b)
        /\ tilemap' = [tilemap EXCEPT ![t].map =
             [c \in Cells |-> IF c \in CellsOf(t, r) THEN b.tile ELSE @[c]]]
        /\ UNCHANGED <<sets, tilemapsmem, layers>>
  BY DEF SetTilemapMap
<1>2. /\ status' = "running" /\ picture' = NoPicture
      /\ faults' \subseteq {"overread", "overrun", "wild free", "wrapped"}
  BY <1>1, CopyingInMap
<1>3. PICK new : new = [c \in Cells |-> IF c \in CellsOf(t, r) THEN b.tile
                                        ELSE tilemap[t].map[c]]
  OBVIOUS
<1>4. tilemap[t] \in TilemapRecs /\ b.tile \in Nat
  BY InputsAssumption DEF IInv, TypeOK
<1>5. new \in [Cells -> Nat]
  BY <1>3, <1>4 DEF TilemapRecs
<1>6. PICK rec : rec = [tilemap[t] EXCEPT !.map = new]
  OBVIOUS
<1>7. rec \in TilemapRecs /\ rec.kind = tilemap[t].kind /\ rec.tileset = tilemap[t].tileset
      /\ rec.w = tilemap[t].w /\ rec.h = tilemap[t].h /\ rec.refs = tilemap[t].refs
  BY <1>4, <1>5, <1>6 DEF TilemapRecs
<1>8. tilemap' = [tilemap EXCEPT ![t] = rec]
  BY <1>1, <1>3, <1>6
<1> QED
  BY <1>1, <1>2, <1>7, <1>8, TilemapOnly

(* The cells of an attribute map that are written are cells of the map. *)
LEMMA WrittenTyped ==
  ASSUME NEW t, NEW r, NEW attr \in SUBSET Cells,
         CellsOf(t, r) \subseteq Cells, 0 .. (r.w * r.h - 1) \subseteq Cells
  PROVE  Written(attr, t, r) \in SUBSET Cells
BY DEF Written

LEMMA SetTilemapAttrFlagsStep ==
  ASSUME IInv, NEW t \in TilemapIds, NEW rect \in Rects, NEW b \in Buffers,
         SetTilemapAttrFlags(t, rect, b)
  PROVE  IInv'
<1>1. PICK r :
        /\ r = Resolved(t, rect) /\ Copying(t, r, b)
        /\ tilemap' = [tilemap EXCEPT ![t].flags = Written(@, t, r)]
        /\ UNCHANGED <<sets, tilemapsmem, layers>>
  BY DEF SetTilemapAttrFlags
<1>2. /\ status' = "running" /\ picture' = NoPicture
      /\ faults' \subseteq {"overread", "overrun", "wild free", "wrapped"}
      /\ CellsOf(t, r) \subseteq Cells /\ 0 .. (r.w * r.h - 1) \subseteq Cells
  BY <1>1, CopyingInMap
<1>3. tilemap[t] \in TilemapRecs
  BY DEF IInv, TypeOK
<1>4. PICK new : new = Written(tilemap[t].flags, t, r)
  OBVIOUS
<1>5. new \in SUBSET Cells
  <2>1. tilemap[t].flags \in SUBSET Cells
    BY <1>3 DEF TilemapRecs
  <2> QED
    BY <1>2, <1>4, <2>1, WrittenTyped
<1>6. PICK rec : rec = [tilemap[t] EXCEPT !.flags = new]
  OBVIOUS
<1>7. rec \in TilemapRecs /\ rec.kind = tilemap[t].kind /\ rec.tileset = tilemap[t].tileset
      /\ rec.w = tilemap[t].w /\ rec.h = tilemap[t].h /\ rec.refs = tilemap[t].refs
  BY <1>3, <1>5, <1>6 DEF TilemapRecs
<1>8. tilemap' = [tilemap EXCEPT ![t] = rec]
  BY <1>1, <1>4, <1>6
<1> QED
  BY <1>1, <1>2, <1>7, <1>8, TilemapOnly

LEMMA SetTilemapAttrColormodStep ==
  ASSUME IInv, NEW t \in TilemapIds, NEW rect \in Rects, NEW b \in Buffers,
         SetTilemapAttrColormod(t, rect, b)
  PROVE  IInv'
<1>1. PICK r :
        /\ r = Resolved(t, rect) /\ Copying(t, r, b)
        /\ tilemap' = [tilemap EXCEPT ![t].colormod = Written(@, t, r)]
        /\ UNCHANGED <<sets, tilemapsmem, layers>>
  BY DEF SetTilemapAttrColormod
<1>2. /\ status' = "running" /\ picture' = NoPicture
      /\ faults' \subseteq {"overread", "overrun", "wild free", "wrapped"}
      /\ CellsOf(t, r) \subseteq Cells /\ 0 .. (r.w * r.h - 1) \subseteq Cells
  BY <1>1, CopyingInMap
<1>3. tilemap[t] \in TilemapRecs
  BY DEF IInv, TypeOK
<1>4. PICK new : new = Written(tilemap[t].colormod, t, r)
  OBVIOUS
<1>5. new \in SUBSET Cells
  <2>1. tilemap[t].colormod \in SUBSET Cells
    BY <1>3 DEF TilemapRecs
  <2> QED
    BY <1>2, <1>4, <2>1, WrittenTyped
<1>6. PICK rec : rec = [tilemap[t] EXCEPT !.colormod = new]
  OBVIOUS
<1>7. rec \in TilemapRecs /\ rec.kind = tilemap[t].kind /\ rec.tileset = tilemap[t].tileset
      /\ rec.w = tilemap[t].w /\ rec.h = tilemap[t].h /\ rec.refs = tilemap[t].refs
  BY <1>3, <1>5, <1>6 DEF TilemapRecs
<1>8. tilemap' = [tilemap EXCEPT ![t] = rec]
  BY <1>1, <1>4, <1>6
<1> QED
  BY <1>1, <1>2, <1>7, <1>8, TilemapOnly

-----------------------------------------------------------------------------
(* Updates of the cached texture.                                          *)

LEMMA TextureTyped ==
  ASSUME IInv, NEW t \in TilemapIds, LiveTilemap(t)
  PROVE  Texture(t) \in TextureRecs
<1>1. tilemap[t].tex \in TextureRecs /\ tilemap[t].tileset \in TilesetIds
  BY DEF IInv, TypeOK, TilemapRecs
<1>2. Width(t) \in Nat /\ Height(t) \in Nat
  BY SizesTyped
<1>3. NewTexture(t) \in TextureRecs
  <2> HIDE DEF NoTexture
  <2> QED
    BY <1>1, <1>2, NothingTyped DEF NewTexture, TextureRecs
<1> QED
  BY <1>1, <1>3 DEF Texture

(* A call that changes a tilemap's texture only. *)
LEMMA TextureOnly ==
  ASSUME IInv, NEW t \in TilemapIds, NEW tex \in TextureRecs,
         tilemap' = [tilemap EXCEPT ![t].tex = tex],
         UNCHANGED <<sets, tilemapsmem, layers, faults>>,
         status' \in {"running", "ended"}, picture' = NoPicture
  PROVE  IInv'
<1>1. tilemap[t] \in TilemapRecs
  BY DEF IInv, TypeOK
<1>2. PICK rec : rec = [tilemap[t] EXCEPT !.tex = tex]
  OBVIOUS
<1>3. rec \in TilemapRecs /\ rec.kind = tilemap[t].kind /\ rec.tileset = tilemap[t].tileset
      /\ rec.w = tilemap[t].w /\ rec.h = tilemap[t].h /\ rec.refs = tilemap[t].refs
  BY <1>1, <1>2 DEF TilemapRecs
<1>4. tilemap' = [tilemap EXCEPT ![t] = rec]
  BY <1>2
<1>5. faults' \subseteq {"overread", "overrun", "wild free", "wrapped"}
  BY DEF IInv, TypeOK
<1> QED
  BY <1>3, <1>4, <1>5, TilemapOnly

LEMMA UpdateTilemapStep ==
  ASSUME IInv, NEW t \in TilemapIds, NEW rect \in Rects, UpdateTilemap(t, rect)
  PROVE  IInv'
<1>1. PICK r :
        /\ LiveTilemap(t)
        /\ tilemap' = [tilemap EXCEPT ![t].tex =
                         [Texture(t) EXCEPT !.shown = Drawn(t, r)]]
        /\ UNCHANGED <<sets, tilemapsmem, layers, faults>>
        /\ status = "running" /\ status' = status /\ picture' = NoPicture
  BY DEF UpdateTilemap, Succeeds
<1>2. Texture(t) \in TextureRecs
  BY <1>1, TextureTyped
<1>3. tilemap[t].map \in [Cells -> Nat]
  BY DEF IInv, TypeOK, TilemapRecs
<1>4. Drawn(t, r) \in [Cells -> Nat \cup {Undefined}]
  <2>1. \A c \in Cells : /\ Texture(t).shown[c] \in Nat \cup {Undefined}
                         /\ tilemap[t].map[c] \in Nat
    BY <1>2, <1>3 DEF TextureRecs
  <2> QED
    BY <2>1 DEF Drawn
<1>5. [Texture(t) EXCEPT !.shown = Drawn(t, r)] \in TextureRecs
  BY <1>2, <1>4 DEF TextureRecs
<1> QED
  BY <1>1, <1>5, TextureOnly

LEMMA UpdateTilemapFailsStep ==
  ASSUME IInv, NEW t \in TilemapIds, NEW rect \in Rects, UpdateTilemapFails(t, rect)
  PROVE  IInv'
<1>1. /\ LiveTilemap(t)
      /\ tilemap' = [tilemap EXCEPT ![t].tex = Texture(t)]
      /\ UNCHANGED <<sets, tilemapsmem, layers, faults>>
      /\ status' = "ended" /\ picture' = NoPicture
  BY DEF UpdateTilemapFails
<1>2. Texture(t) \in TextureRecs
  BY <1>1, TextureTyped
<1> QED
  BY <1>1, <1>2, TextureOnly

-----------------------------------------------------------------------------
(* Changes of a layer, and calls that change no resource.                  *)

LEMMA SetLayerPosStep ==
  ASSUME IInv, NEW l \in LayerIds, NEW p \in Positions, SetLayerPos(l, p)
  PROVE  IInv'
<1>1. layer[l] \in LayerRecs /\ p[1] \in Int /\ p[2] \in Int
  BY InputsAssumption DEF IInv, TypeOK
<1>2. PICK rec : rec = [layer[l] EXCEPT !.x = p[1], !.y = p[2]]
  OBVIOUS
<1>3. rec \in LayerRecs /\ rec.tilemap = layer[l].tilemap
  BY <1>1, <1>2 DEF LayerRecs
<1>4. layer' = [layer EXCEPT ![l] = rec]
  BY <1>2 DEF SetLayerPos, IInv, TypeOK
<1> QED
  BY <1>3, <1>4, LayerOnly DEF SetLayerPos, Succeeds

LEMMA SetLayerScaleStep ==
  ASSUME IInv, NEW l \in LayerIds, NEW p \in Scales, SetLayerScale(l, p)
  PROVE  IInv'
<1>1. layer[l] \in LayerRecs /\ p[1] \in Int /\ p[2] \in Int
  BY InputsAssumption DEF IInv, TypeOK
<1>2. PICK rec : rec = [layer[l] EXCEPT !.scale_x = p[1], !.scale_y = p[2]]
  OBVIOUS
<1>3. rec \in LayerRecs /\ rec.tilemap = layer[l].tilemap
  BY <1>1, <1>2 DEF LayerRecs
<1>4. layer' = [layer EXCEPT ![l] = rec]
  BY <1>2 DEF SetLayerScale, IInv, TypeOK
<1> QED
  BY <1>3, <1>4, LayerOnly DEF SetLayerScale, Succeeds

LEMMA SetLayerWindowStep ==
  ASSUME IInv, NEW l \in LayerIds, NEW p \in Windows, SetLayerWindow(l, p)
  PROVE  IInv'
<1>1. PICK w, h :
        /\ LiveLayer(l) /\ LiveTilemap(layer[l].tilemap)
        /\ w = (IF p[1] = 0 THEN Width(layer[l].tilemap) ELSE p[1])
        /\ h = (IF p[2] = 0 THEN Height(layer[l].tilemap) ELSE p[2])
        /\ layer' = [layer EXCEPT ![l].w = w, ![l].h = h]
        /\ UNCHANGED <<sets, maps, layersmem, status, faults>> /\ picture' = NoPicture
  BY DEF SetLayerWindow, Succeeds
<1>2. layer[l] \in LayerRecs /\ p[1] \in Nat /\ p[2] \in Nat
  BY InputsAssumption DEF IInv, TypeOK
<1>3. w \in Nat /\ h \in Nat
  <2>1. layer[l].tilemap \in TilemapIds
    BY <1>1, <1>2 DEF LayerRecs, LiveLayer
  <2>2. Width(layer[l].tilemap) \in Nat /\ Height(layer[l].tilemap) \in Nat
    BY <1>1, <2>1, SizesTyped
  <2> QED
    BY <1>1, <1>2, <2>2
<1>4. PICK rec : rec = [layer[l] EXCEPT !.w = w, !.h = h]
  OBVIOUS
<1>5. rec \in LayerRecs /\ rec.tilemap = layer[l].tilemap
  BY <1>2, <1>3, <1>4 DEF LayerRecs
<1>6. layer' = [layer EXCEPT ![l] = rec]
  BY <1>1, <1>4 DEF IInv, TypeOK
<1> QED
  BY <1>1, <1>5, <1>6, LayerOnly

LEMMA SetLayerScrollPosStep ==
  ASSUME IInv, NEW l \in LayerIds, NEW p \in Scrolls, SetLayerScrollPos(l, p)
  PROVE  IInv'
<1>1. layer[l] \in LayerRecs /\ p[1] \in Nat /\ p[2] \in Nat
  BY InputsAssumption DEF IInv, TypeOK
<1>2. PICK rec : rec = [layer[l] EXCEPT !.scroll_x = p[1], !.scroll_y = p[2]]
  OBVIOUS
<1>3. rec \in LayerRecs /\ rec.tilemap = layer[l].tilemap
  BY <1>1, <1>2 DEF LayerRecs
<1>4. layer' = [layer EXCEPT ![l] = rec]
  BY <1>2 DEF SetLayerScrollPos, IInv, TypeOK
<1> QED
  BY <1>3, <1>4, LayerOnly DEF SetLayerScrollPos, Succeeds

(* No resource changes. *)
LEMMA NothingChanged ==
  ASSUME IInv, UNCHANGED <<sets, maps, layers, faults>>,
         status' \in {"running", "ended", "freed"},
         picture'.layer \in LayerIds \cup {-1}
  PROVE  IInv'
<1>1. TypeOK'
  BY DEF IInv, TypeOK, sets, maps, layers
<1>2. tilemapsmem <= tilemapsmem'
  <2>1. tilemapsmem' = tilemapsmem
    BY DEF maps
  <2> QED
    BY <2>1, NoFewerSlots, Zenon
<1> QED
  BY <1>1, <1>2, ReferencesUntouched DEF sets, maps, layers, LiveTilemap

LEMMA OtherStep ==
  ASSUME IInv,
         (\E l \in LayerIds : DrawLayer(l)) \/ End \/ UNCHANGED vars
  PROVE  IInv'
<1>1. status \in {"running", "ended", "freed"} /\ picture.layer \in LayerIds \cup {-1}
  BY DEF IInv, TypeOK
<1>2. CASE \E l \in LayerIds : DrawLayer(l)
  <2>1. PICK l \in LayerIds : DrawLayer(l)
    BY <1>2
  <2>2. picture'.layer = l /\ UNCHANGED <<sets, maps, layers, faults, status>>
    BY <2>1 DEF DrawLayer
  <2> QED
    BY <1>1, <2>2, NothingChanged
<1>3. CASE End
  <2>1. picture'.layer = -1 /\ status' = "ended" /\ UNCHANGED <<sets, maps, layers, faults>>
    BY <1>3 DEF End, NoPicture
  <2> QED
    BY <2>1, NothingChanged
<1>4. CASE UNCHANGED vars
  <2>1. picture' = picture /\ status' = status /\ UNCHANGED <<sets, maps, layers, faults>>
    BY <1>4 DEF vars
  <2> QED
    BY <1>1, <2>1, NothingChanged
<1> QED
  BY <1>2, <1>3, <1>4

-----------------------------------------------------------------------------
(* The theorems.                                                           *)

LEMMA NextIInv == IInv /\ [Next]_vars => IInv'
<1> SUFFICES ASSUME IInv, [Next]_vars PROVE IInv'
  OBVIOUS
<1>1. CASE TilesetCall
  BY <1>1, AddTilesetStep, FreeTilesetStep DEF TilesetCall
<1>2. CASE TilemapCall
  BY <1>2, AddTilemapStep, AddTilemapFailsStep, FreeTilemapStep, SetTilemapTilesetStep,
     UpdateTilemapStep, UpdateTilemapFailsStep, SetTilemapMapStep,
     SetTilemapAttrFlagsStep, SetTilemapAttrColormodStep DEF TilemapCall
<1>3. CASE LayerCall
  BY <1>3, AddLayerStep, FreeLayerStep, SetLayerPosStep, SetLayerScaleStep,
     SetLayerWindowStep, SetLayerScrollPosStep, OtherStep DEF LayerCall
<1>4. CASE End \/ Over \/ UNCHANGED vars
  BY <1>4, OtherStep DEF Over
<1>5. CASE LayerlistFree
  BY <1>5, LayerlistFreeStep
<1> QED
  BY <1>1, <1>2, <1>3, <1>4, <1>5 DEF Next

(* Throughout, IInv holds of the layer list. *)
LEMMA IInvAlways == Spec => []IInv
<1> QED
  BY InitIInv, NextIInv, PTL DEF Spec

(* The layer list is typed, for every number of slots: whatever part of a  *)
(* map, its attributes or its texture is changed, the cells that are       *)
(* written are cells of that map.                                          *)
THEOREM TypeCorrect == Spec => []TypeOK
<1>1. IInv => TypeOK
  BY DEF IInv
<1> QED
  BY <1>1, IInvAlways, PTL

(* The reference counts of tilesets and tilemaps are the number of         *)
(* tilemaps and of layers that refer to them.                              *)
THEOREM RefsAlwaysCount == Spec => []RefsCount
<1>1. IInv => RefsCount
  BY DEF IInv
<1> QED
  BY <1>1, IInvAlways, PTL

(* No tilemap is left with a freed tileset, nor a layer with a freed       *)
(* tilemap.                                                                *)
THEOREM NeverDangling == Spec => []NoDangling
<1>1. IInv => NoDangling
  BY DEF IInv
<1> QED
  BY <1>1, IInvAlways, PTL

-----------------------------------------------------------------------------
(* What is referred to is kept.                                            *)

(* A call that leaves a kind of resource alone keeps it. *)
LEMMA TilesetsKept ==
  ASSUME \A s \in TilesetIds : /\ tileset'[s].tex = tileset[s].tex
                               /\ tileset'[s].tw = tileset[s].tw
                               /\ tileset'[s].th = tileset[s].th
                               /\ tileset'[s].max = tileset[s].max
  PROVE  KeptTilesets
BY DEF KeptTilesets, SameTileset, LiveTileset

LEMMA TilemapsKept ==
  ASSUME \A t \in TilemapIds : /\ tilemap'[t].kind = tilemap[t].kind
                               /\ tilemap'[t].w = tilemap[t].w
                               /\ tilemap'[t].h = tilemap[t].h
  PROVE  KeptTilemaps
BY DEF KeptTilemaps, SameTilemap, LiveTilemap

(* A slot given to a new resource was in no use. *)
LEMMA AddTilesetKeeps ==
  ASSUME IInv, NEW sheet \in Sheets, AddTileset(sheet)
  PROVE  KeptTilesets
<1>1. PICK s : /\ s = Slot(FreeTilesets, tilesetsmem)
               /\ Grown(FreeTilesets, tilesetsmem) <= MaxTilesets
               /\ \E new : tileset' = [tileset EXCEPT ![s] = new]
  BY DEF AddTileset
<1>2. ~LiveTileset(s)
  BY <1>1, TilesetSlot
<1>3. \A u \in TilesetIds \ {s} : tileset'[u] = tileset[u]
  BY <1>1 DEF IInv, TypeOK
<1> QED
  BY <1>2, <1>3 DEF KeptTilesets, SameTileset, LiveTileset

LEMMA AddTilemapKeeps ==
  ASSUME IInv, NEW s \in TilesetIds, NEW size \in MapSizes, AddTilemap(s, size)
  PROVE  KeptTilesets /\ KeptTilemaps
<1>1. PICK t : /\ t = Slot(FreeTilemaps, tilemapsmem)
               /\ Grown(FreeTilemaps, tilemapsmem) <= MaxTilemaps
               /\ \E new : tilemap' = [tilemap EXCEPT ![t] = new]
               /\ tileset' = [tileset EXCEPT ![s].refs = @ + 1]
  BY DEF AddTilemap
<1>2. ~LiveTilemap(t)
  BY <1>1, TilemapSlot
<1>3. \A u \in TilemapIds \ {t} : tilemap'[u] = tilemap[u]
  BY <1>1 DEF IInv, TypeOK
<1>4. KeptTilemaps
  BY <1>2, <1>3 DEF KeptTilemaps, SameTilemap, LiveTilemap
<1>5. KeptTilesets
  <2>1. \A u \in TilesetIds : /\ tileset'[u].tex = tileset[u].tex
                               /\ tileset'[u].tw = tileset[u].tw
                               /\ tileset'[u].th = tileset[u].th
                               /\ tileset'[u].max = tileset[u].max
    <3>1. tileset' = [tileset EXCEPT ![s].refs = @ + 1]
      BY <1>1
    <3>2. \A u \in TilesetIds : tileset[u] \in TilesetRecs
      BY DEF IInv, TypeOK
    <3>3. \A u \in TilesetIds \ {s} : tileset'[u] = tileset[u]
      BY <3>1 DEF IInv, TypeOK
    <3>4. tileset'[s] = [tileset[s] EXCEPT !.refs = @ + 1]
      BY <3>1 DEF IInv, TypeOK
    <3> QED
      BY <3>2, <3>3, <3>4 DEF TilesetRecs
  <2> QED
    BY <2>1, TilesetsKept
<1> QED
  BY <1>4, <1>5

LEMMA AddTilemapFailsKeeps ==
  ASSUME IInv, NEW s \in TilesetIds, NEW size \in MapSizes, AddTilemapFails(s, size)
  PROVE  KeptTilesets /\ KeptTilemaps
<1>1. PICK t, mem :
        /\ tilemap' = [u \in TilemapIds |->
             IF t < u /\ tilemapsmem <= u /\ u < mem
               THEN [tilemap[u] EXCEPT !.kind = "raw"] ELSE tilemap[u]]
        /\ UNCHANGED sets
  BY DEF AddTilemapFails
<1>2. \A u \in TilemapIds : LiveTilemap(u) => ~(tilemapsmem <= u)
  <2>1. \A u \in TilemapIds : tilemapsmem <= u => u >= tilemapsmem
    OBVIOUS
  <2> QED
    BY <2>1 DEF IInv, NoneBehind
<1>3. KeptTilemaps
  BY <1>1, <1>2 DEF KeptTilemaps, SameTilemap, LiveTilemap
<1>4. KeptTilesets
  BY <1>1, TilesetsKept DEF sets
<1> QED
  BY <1>3, <1>4

(* A free that finds no reference finds nothing that refers to the slot. *)
LEMMA FreeTilesetKeeps ==
  ASSUME IInv, NEW s \in TilesetIds, FreeTileset(s)
  PROVE  KeptTilesets
<1>1. /\ LiveTileset(s) /\ tileset[s].refs = 0
      /\ tileset' = [tileset EXCEPT ![s] = NoTileset]
  BY DEF FreeTileset
<1>2. Users(s) = {}
  <2>1. Cardinality(Users(s)) = 0
    BY <1>1 DEF IInv, RefsCount
  <2> QED
    BY <2>1, UsersFinite, FS_EmptySet
<1>3. ~LiveTileset(s)' /\ \A u \in TilesetIds \ {s} : tileset'[u] = tileset[u]
  BY <1>1 DEF IInv, TypeOK, LiveTileset, NoTileset
<1> QED
  BY <1>2, <1>3 DEF KeptTilesets, SameTileset, LiveTileset

LEMMA FreeTilemapKeeps ==
  ASSUME IInv, NEW t \in TilemapIds, FreeTilemap(t)
  PROVE  KeptTilesets /\ KeptTilemaps
<1>1. PICK s :
        /\ LiveTilemap(t) /\ tilemap[t].refs = 0
        /\ tilemap' = [tilemap EXCEPT ![t] = NoTilemap]
        /\ tileset' = [tileset EXCEPT ![s].refs = Unref(@)]
  BY DEF FreeTilemap
<1>2. Showing(t) = {}
  <2>1. Cardinality(Showing(t)) = 0
    BY <1>1 DEF IInv, RefsCount
  <2> QED
    BY <2>1, UsersFinite, FS_EmptySet
<1>3. ~LiveTilemap(t)' /\ \A u \in TilemapIds \ {t} : tilemap'[u] = tilemap[u]
  BY <1>1 DEF IInv, TypeOK, LiveTilemap, NoTilemap
<1>4. KeptTilemaps
  BY <1>2, <1>3 DEF KeptTilemaps, SameTilemap, LiveTilemap
<1>5. KeptTilesets
  <2>1. \A u \in TilesetIds : /\ tileset'[u].tex = tileset[u].tex
                               /\ tileset'[u].tw = tileset[u].tw
                               /\ tileset'[u].th = tileset[u].th
                               /\ tileset'[u].max = tileset[u].max
    BY <1>1 DEF IInv, TypeOK, TilesetRecs
  <2> QED
    BY <2>1, TilesetsKept
<1> QED
  BY <1>4, <1>5

LEMMA SetTilemapTilesetKeeps ==
  ASSUME IInv, NEW t \in TilemapIds, NEW s \in TilesetIds, SetTilemapTileset(t, s)
  PROVE  KeptTilesets /\ KeptTilemaps
<1>1. PICK old :
        /\ tileset' = [[tileset EXCEPT ![old].refs = Unref(@)] EXCEPT ![s].refs = @ + 1]
        /\ tilemap' = [tilemap EXCEPT ![t].tileset = s, ![t].tex = NoTexture]
  BY DEF SetTilemapTileset
<1>2. KeptTilesets
  <2>1. \A u \in TilesetIds : /\ tileset'[u].tex = tileset[u].tex
                               /\ tileset'[u].tw = tileset[u].tw
                               /\ tileset'[u].th = tileset[u].th
                               /\ tileset'[u].max = tileset[u].max
    BY ZenonT(60), <1>1 DEF IInv, TypeOK, TilesetRecs
  <2> QED
    BY <2>1, TilesetsKept
<1>3. KeptTilemaps
  <2>1. \A u \in TilemapIds : /\ tilemap'[u].kind = tilemap[u].kind
                               /\ tilemap'[u].w = tilemap[u].w
                               /\ tilemap'[u].h = tilemap[u].h
    BY <1>1 DEF IInv, TypeOK, TilemapRecs
  <2> QED
    BY <2>1, TilemapsKept
<1> QED
  BY <1>2, <1>3

(* The calls that change a field of tilemaps that is neither kind nor size. *)
LEMMA OtherTilemapCallKeeps ==
  ASSUME IInv, NEW t \in TilemapIds, NEW r \in Rects,
         \/ UpdateTilemap(t, r) \/ UpdateTilemapFails(t, r)
         \/ \E b \in Buffers : \/ SetTilemapMap(t, r, b) \/ SetTilemapAttrFlags(t, r, b)
                               \/ SetTilemapAttrColormod(t, r, b)
  PROVE  KeptTilesets /\ KeptTilemaps
<1>1. /\ \E new : \/ tilemap' = [tilemap EXCEPT ![t].tex = new]
                  \/ tilemap' = [tilemap EXCEPT ![t].map = new]
                  \/ tilemap' = [tilemap EXCEPT ![t].flags = new]
                  \/ tilemap' = [tilemap EXCEPT ![t].colormod = new]
      /\ UNCHANGED sets
  BY DEF UpdateTilemap, UpdateTilemapFails, SetTilemapMap, SetTilemapAttrFlags,
         SetTilemapAttrColormod
<1>2. KeptTilemaps
  <2>1. \A u \in TilemapIds : /\ tilemap'[u].kind = tilemap[u].kind
                               /\ tilemap'[u].w = tilemap[u].w
                               /\ tilemap'[u].h = tilemap[u].h
    <3>1. PICK rec : /\ tilemap' = [tilemap EXCEPT ![t] = rec]
                     /\ \E new : \/ rec = [tilemap[t] EXCEPT !.tex = new]
                                \/ rec = [tilemap[t] EXCEPT !.map = new]
                                \/ rec = [tilemap[t] EXCEPT !.flags = new]
                                \/ rec = [tilemap[t] EXCEPT !.colormod = new]
      BY <1>1
    <3>2. tilemap[t] \in TilemapRecs
      BY DEF IInv, TypeOK
    <3>3. rec.kind = tilemap[t].kind /\ rec.w = tilemap[t].w /\ rec.h = tilemap[t].h
      BY <3>1, <3>2 DEF TilemapRecs
    <3> QED
      BY <3>1, <3>3 DEF IInv, TypeOK
  <2> QED
    BY <2>1, TilemapsKept
<1>3. KeptTilesets
  BY <1>1, TilesetsKept DEF sets
<1> QED
  BY <1>2, <1>3

LEMMA LayerCallKeeps ==
  ASSUME IInv, LayerCall
  PROVE  KeptTilesets /\ KeptTilemaps
<1>1. /\ \/ \E t, new : tilemap' = [tilemap EXCEPT ![t].refs = new]
         \/ tilemap' = tilemap
      /\ UNCHANGED sets
  BY DEF LayerCall, AddLayer, FreeLayer, SetLayerPos, SetLayerScale, SetLayerWindow,
         SetLayerScrollPos, DrawLayer, maps
<1>2. KeptTilemaps
  <2>1. \A u \in TilemapIds : /\ tilemap'[u].kind = tilemap[u].kind
                               /\ tilemap'[u].w = tilemap[u].w
                               /\ tilemap'[u].h = tilemap[u].h
    <3>1. CASE tilemap' = tilemap
      BY <3>1
    <3>2. CASE \E t, new : tilemap' = [tilemap EXCEPT ![t].refs = new]
      <4>1. PICK t, new : tilemap' = [tilemap EXCEPT ![t].refs = new]
        BY <3>2
      <4>2. \A u \in TilemapIds : tilemap[u] \in TilemapRecs
        BY DEF IInv, TypeOK
      <4>3. ASSUME NEW u \in TilemapIds
            PROVE  tilemap'[u] = IF u = t THEN [tilemap[u] EXCEPT !.refs = new]
                                 ELSE tilemap[u]
        BY <4>1 DEF IInv, TypeOK
      <4> QED
        BY <4>2, <4>3 DEF TilemapRecs
    <3> QED
      BY <1>1, <3>1, <3>2
  <2> QED
    BY <2>1, TilemapsKept
<1>3. KeptTilesets
  BY <1>1, TilesetsKept DEF sets
<1> QED
  BY <1>2, <1>3

LEMMA NextKeeps ==
  IInv /\ [Next]_vars => (status' # "freed" => KeptTilesets /\ KeptTilemaps)
<1> SUFFICES ASSUME IInv, [Next]_vars, status' # "freed" PROVE KeptTilesets /\ KeptTilemaps
  OBVIOUS
<1>1. CASE TilesetCall
  <2>1. UNCHANGED maps
    BY <1>1 DEF TilesetCall, AddTileset, FreeTileset
  <2>2. KeptTilemaps
    BY <2>1, TilemapsKept DEF maps
  <2> QED
    BY <1>1, <2>2, AddTilesetKeeps, FreeTilesetKeeps DEF TilesetCall
<1>2. CASE TilemapCall
  BY <1>2, AddTilemapKeeps, AddTilemapFailsKeeps, FreeTilemapKeeps,
     SetTilemapTilesetKeeps, OtherTilemapCallKeeps DEF TilemapCall
<1>3. CASE LayerCall
  BY <1>3, LayerCallKeeps
<1>4. CASE End \/ Over \/ UNCHANGED vars
  <2>1. UNCHANGED <<sets, maps>>
    BY <1>4 DEF End, Over, vars
  <2> QED
    BY <2>1, TilesetsKept, TilemapsKept DEF sets, maps
<1>5. CASE LayerlistFree
  BY <1>5 DEF LayerlistFree
<1> QED
  BY <1>1, <1>2, <1>3, <1>4, <1>5 DEF Next

(* A tileset is given up, or its slot taken, only when no tilemap is drawn *)
(* from it, and a tilemap only when no layer shows it.                     *)
THEOREM ReferencedIsKept == Spec => KeptWhileReferenced
<1> QED
  BY IInvAlways, NextKeeps, PTL DEF Spec, KeptWhileReferenced

-----------------------------------------------------------------------------
(* The maps in memory.                                                     *)

NothingOverrun == "overrun" \notin faults

LEMMA CopiesWithin ==
  ASSUME IInv, NothingOverrun, NEW t \in TilemapIds, NEW rect \in Rects, NEW b \in Buffers,
         \/ SetTilemapMap(t, rect, b) \/ SetTilemapAttrFlags(t, rect, b)
         \/ SetTilemapAttrColormod(t, rect, b)
  PROVE  NothingOverrun'
<1>1. Copying(t, Resolved(t, rect), b)
  BY DEF SetTilemapMap, SetTilemapAttrFlags, SetTilemapAttrColormod
<1> QED
  BY <1>1, CopyingInMap DEF NothingOverrun

LEMMA NextNothingOverrun ==
  IInv /\ NothingOverrun /\ [Next]_vars => NothingOverrun'
<1> SUFFICES ASSUME IInv, NothingOverrun, [Next]_vars PROVE NothingOverrun'
  OBVIOUS
<1>1. CASE TilesetCall
  BY <1>1 DEF NothingOverrun, TilesetCall, AddTileset, FreeTileset
<1>2. CASE TilemapCall
  <2> SUFFICES ASSUME faults' # faults PROVE NothingOverrun'
    BY DEF NothingOverrun
  <2> QED
    BY <1>2, CopiesWithin DEF TilemapCall, AddTilemap, AddTilemapFails, FreeTilemap,
       SetTilemapTileset, UpdateTilemap, UpdateTilemapFails
<1>3. CASE LayerCall
  BY <1>3 DEF NothingOverrun, LayerCall, AddLayer, FreeLayer, SetLayerPos,
     SetLayerScale, SetLayerWindow, SetLayerScrollPos, DrawLayer
<1>4. CASE End \/ Over \/ UNCHANGED vars
  BY <1>4 DEF NothingOverrun, End, Over, vars
<1>5. CASE LayerlistFree
  BY <1>5 DEF NothingOverrun, LayerlistFree
<1> QED
  BY <1>1, <1>2, <1>3, <1>4, <1>5 DEF Next

(* No call writes behind the end of a map or of its attributes, although   *)
(* the tests of a rectangle are sums of unsigned numbers that can wrap.    *)
THEOREM MapsNeverOverrun == Spec => []NothingOverrun
<1>1. Init => NothingOverrun
  BY DEF Init, NothingOverrun
<1> QED
  BY <1>1, IInvAlways, NextNothingOverrun, PTL DEF Spec

=============================================================================
