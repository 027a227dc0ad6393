------------------------ MODULE TilemapPictureProofs ------------------------
(***************************************************************************)
(* Theorems about what Tilemap keeps in textures and in memory and what    *)
(* it puts on the screen, for any number of slots, sheets, maps and        *)
(* inputs.                                                                 *)
(***************************************************************************)
EXTENDS TilemapProofs

-----------------------------------------------------------------------------
(* Drawing a layer: the pieces, for a layer and a tilemap of any size.     *)

(* What an axis of a window of length n is cut into by an edge that it     *)
(* reaches over by over: a part up to the edge, and one that goes on at    *)
(* the texture's start.  A part has its offset o in the window, its start  *)
(* s in the texture and its length l.                                      *)
Cut(n, over) == IF over > 0 THEN n - over ELSE n

Before(scroll, n, over) == [o |-> 0, s |-> scroll, l |-> Cut(n, over)]
Behind(n, over)         == [o |-> Cut(n, over), s |-> 0, l |-> over]

Parts(scroll, n, over) ==
  {Before(scroll, n, over)} \cup (IF over > 0 THEN {Behind(n, over)} ELSE {})

PieceOf(r, a, b) == Piece(r, a.o, b.o, a.s, b.s, a.l, b.l)

(* The pieces are the products of the parts of both axes. *)
LEMMA PiecesAre ==
  ASSUME NEW r, NEW tmw, NEW tmh
  PROVE  Pieces(r, tmw, tmh) =
           {PieceOf(r, a, b) : a \in Parts(r.scroll_x, r.w, r.scroll_x + r.w - tmw),
                               b \in Parts(r.scroll_y, r.h, r.scroll_y + r.h - tmh)}
<1>1. PICK ox, oy : ox = r.scroll_x + r.w - tmw /\ oy = r.scroll_y + r.h - tmh
  OBVIOUS
<1>2. PICK w, h : w = Cut(r.w, ox) /\ h = Cut(r.h, oy)
  OBVIOUS
<1>3. Pieces(r, tmw, tmh) =
        {Piece(r, 0, 0, r.scroll_x, r.scroll_y, w, h)}
        \cup (IF ox > 0 THEN {Piece(r, w, 0, 0, r.scroll_y, ox, h)} ELSE {})
        \cup (IF oy > 0 THEN {Piece(r, 0, h, r.scroll_x, 0, w, oy)} ELSE {})
        \cup (IF ox > 0 /\ oy > 0 THEN {Piece(r, w, h, 0, 0, ox, oy)} ELSE {})
  BY <1>1, <1>2 DEF Pieces, Cut
<1>4. PICK a, c, b, d : /\ a = Before(r.scroll_x, r.w, ox) /\ c = Behind(r.w, ox)
                        /\ b = Before(r.scroll_y, r.h, oy) /\ d = Behind(r.h, oy)
  OBVIOUS
<1>5. /\ PieceOf(r, a, b) = Piece(r, 0, 0, r.scroll_x, r.scroll_y, w, h)
      /\ PieceOf(r, c, b) = Piece(r, w, 0, 0, r.scroll_y, ox, h)
      /\ PieceOf(r, a, d) = Piece(r, 0, h, r.scroll_x, 0, w, oy)
      /\ PieceOf(r, c, d) = Piece(r, w, h, 0, 0, ox, oy)
  BY <1>2, <1>4 DEF PieceOf, Before, Behind
<1>6. /\ Parts(r.scroll_x, r.w, ox) = {a} \cup (IF ox > 0 THEN {c} ELSE {})
      /\ Parts(r.scroll_y, r.h, oy) = {b} \cup (IF oy > 0 THEN {d} ELSE {})
  BY <1>4 DEF Parts
<1>7. Pieces(r, tmw, tmh) =
        {PieceOf(r, x, y) : x \in Parts(r.scroll_x, r.w, ox), y \in Parts(r.scroll_y, r.h, oy)}
  BY <1>3, <1>5, <1>6
<1>. QED
  BY <1>1, <1>7

(* Going on past the edge of a texture is going round.                     *)
LEMMA GoesRound ==
  ASSUME NEW n \in Nat, NEW x \in Nat
  PROVE  /\ x < n => x % n = x
         /\ n <= x /\ x < n + n => x % n = x - n
OBVIOUS

OnPart(a, i) == a.o <= i /\ i < a.o + a.l

(* Every place i of an axis is on one part of it and shows what lies at    *)
(* that distance behind the scroll position, going round.                  *)
Covers(parts, scroll, n, size) ==
  /\ \A a \in parts :
       /\ a.o \in Nat /\ a.l \in Nat /\ a.s \in Nat
       /\ 0 < a.l /\ a.o + a.l <= n
       /\ \A i \in 0 .. (n - 1) : OnPart(a, i) =>
            a.s + (i - a.o) = (scroll + i) % size
  /\ \A i \in 0 .. (n - 1) : \E a \in parts : OnPart(a, i)
  /\ \A i \in 0 .. (n - 1) : \A a, b \in parts :
       OnPart(a, i) /\ OnPart(b, i) => a = b

LEMMA AxisCovered ==
  ASSUME NEW n \in Nat \ {0}, NEW size \in Nat, n <= size,
         NEW scroll \in Nat, scroll < size
  PROVE  Covers(Parts(scroll, n, scroll + n - size), scroll, n, size)
<1>. DEFINE over == scroll + n - size
<1>1. PICK a : a = Before(scroll, n, over)
  OBVIOUS
<1>2. PICK c : c = Behind(n, over)
  OBVIOUS
<1>3. CASE over > 0
  <2>1. PICK w \in Nat : w = n - over /\ 0 < w /\ scroll + w = size /\ w + over = n
    BY <1>3
  <2>2. a = [o |-> 0, s |-> scroll, l |-> w] /\ c = [o |-> w, s |-> 0, l |-> over]
    BY <1>1, <1>2, <1>3, <2>1 DEF Before, Behind, Cut
  <2>3. a.o = 0 /\ a.s = scroll /\ a.l = w /\ c.o = w /\ c.s = 0 /\ c.l = over
    BY <2>2
  <2>4. Parts(scroll, n, over) = {a, c}
    BY <1>1, <1>2, <1>3 DEF Parts
  <2>5. ASSUME NEW i \in 0 .. (n - 1)
        PROVE  /\ OnPart(a, i) <=> i < w
               /\ OnPart(c, i) <=> w <= i
               /\ i < w => scroll + i = (scroll + i) % size
               /\ w <= i => i - w = (scroll + i) % size
    <3>1. i \in Nat /\ i < n
      OBVIOUS
    <3>2. (OnPart(a, i) <=> i < w) /\ (OnPart(c, i) <=> w <= i)
      BY <2>1, <2>3, <3>1, <1>3 DEF OnPart
    <3>3. ASSUME i < w PROVE scroll + i = (scroll + i) % size
      <4>1. PICK x \in Nat : x = scroll + i
        BY <3>1
      <4>2. x < size
        BY <2>1, <3>1, <3>3, <4>1
      <4>3. x % size = x
        BY <4>2, GoesRound
      <4>. QED
        BY <4>1, <4>3
    <3>4. ASSUME w <= i PROVE i - w = (scroll + i) % size
      <4>1. PICK x \in Nat : x = scroll + i
        BY <3>1
      <4>2. size <= x /\ x < size + size
        BY <2>1, <3>1, <3>4, <4>1
      <4>3. x % size = x - size
        BY <4>2, GoesRound
      <4>4. i - w = x - size
        BY <2>1, <3>1, <4>1
      <4>. QED
        BY <4>1, <4>3, <4>4
    <3>. QED
      BY <3>2, <3>3, <3>4
  <2>6. ASSUME NEW i \in 0 .. (n - 1) PROVE OnPart(a, i) <=> ~OnPart(c, i)
    BY <2>1, <2>5
  <2>7. ASSUME NEW i \in 0 .. (n - 1)
        PROVE  /\ OnPart(a, i) => a.s + (i - a.o) = (scroll + i) % size
               /\ OnPart(c, i) => c.s + (i - c.o) = (scroll + i) % size
    BY <2>1, <2>3, <2>5
  <2>. QED
    BY <1>3, <2>1, <2>3, <2>4, <2>6, <2>7 DEF Covers
<1>4. CASE ~(over > 0)
  <2>1. scroll + n <= size
    BY <1>4
  <2>2. a.o = 0 /\ a.s = scroll /\ a.l = n
    BY <1>1, <1>4 DEF Before, Cut
  <2>3. Parts(scroll, n, over) = {a}
    BY <1>1, <1>4 DEF Parts
  <2>4. ASSUME NEW i \in 0 .. (n - 1)
        PROVE  OnPart(a, i) /\ a.s + (i - a.o) = (scroll + i) % size
    <3>1. i \in Nat /\ i < n /\ scroll + i < size /\ scroll + i \in Nat
      BY <2>1
    <3>2. (scroll + i) % size = scroll + i
      BY <3>1, GoesRound
    <3>. QED
      BY <2>2, <3>1, <3>2 DEF OnPart
  <2>. QED
    BY <2>2, <2>3, <2>4 DEF Covers
<1>. QED
  BY <1>3, <1>4

(* The last picture is of a layer in use and made of its pieces.           *)
PictureOf(l) ==
  [layer |-> l, pieces |-> Pieces(layer[l], Width(layer[l].tilemap), Height(layer[l].tilemap))]

PictureMade ==
  picture = NoPicture \/ \E l \in LayerIds : LiveLayer(l) /\ picture = PictureOf(l)

LEMMA NextPictureMade == PictureMade /\ [Next]_vars => PictureMade'
<1>. SUFFICES ASSUME PictureMade, [Next]_vars PROVE PictureMade'
  OBVIOUS
<1>1. CASE picture' = NoPicture
  BY <1>1 DEF PictureMade, NoPicture
<1>2. ASSUME UNCHANGED <<sets, maps, layers>>,
             \/ UNCHANGED picture
             \/ \E l \in LayerIds : LiveLayer(l) /\ picture' = PictureOf(l)
      PROVE  PictureMade'
  <2>1. CASE picture' = NoPicture
    BY <1>1, <2>1
  <2>2. ASSUME NEW l \in LayerIds, LiveLayer(l), picture' = PictureOf(l)
        PROVE  PictureMade'
    <3>1. layer' = layer /\ tilemap' = tilemap /\ tileset' = tileset
      BY <1>2 DEF sets, maps, layers
    <3>2. LiveLayer(l)'
      BY <2>2, <3>1 DEF LiveLayer
    <3>3. PICK t : t = layer[l].tilemap /\ t = layer'[l].tilemap
      BY <3>1
    <3>4. Width(t)' = Width(t) /\ Height(t)' = Height(t)
      BY <3>1 DEF Width, Height
    <3>5. PICK r, w, h : /\ r = layer[l] /\ w = Width(t) /\ h = Height(t)
                         /\ r = layer'[l] /\ w = Width(t)' /\ h = Height(t)'
      BY <3>1, <3>4
    <3>6. PictureOf(l) = [layer |-> l, pieces |-> Pieces(r, w, h)]
      BY <3>3, <3>5 DEF PictureOf
    <3>7. PictureOf(l)' = [layer |-> l, pieces |-> Pieces(r, w, h)]
      BY <3>3, <3>5 DEF PictureOf
    <3>8. picture' = PictureOf(l)'
      BY <2>2, <3>6, <3>7
    <3>. QED
      BY <3>2, <3>8 DEF PictureMade
  <2>. QED
    BY <1>2, <2>1, <2>2 DEF PictureMade
<1>3. CASE TilesetCall
  BY <1>1, <1>3 DEF TilesetCall, AddTileset, FreeTileset, Succeeds
<1>4. CASE TilemapCall
  <2>1. ASSUME NEW t, NEW s, NEW size,
               AddTilemap(s, size) \/ AddTilemapFails(s, size) \/ FreeTilemap(t)
                 \/ SetTilemapTileset(t, s)
        PROVE  picture' = NoPicture
    BY <2>1 DEF AddTilemap, AddTilemapFails, FreeTilemap, SetTilemapTileset, Succeeds
  <2>2. ASSUME NEW t, NEW r, UpdateTilemap(t, r) \/ UpdateTilemapFails(t, r)
        PROVE  picture' = NoPicture
    BY <2>2 DEF UpdateTilemap, UpdateTilemapFails, Succeeds
  <2>3. ASSUME NEW t, NEW r, NEW b,
               SetTilemapMap(t, r, b) \/ SetTilemapAttrFlags(t, r, b)
                 \/ SetTilemapAttrColormod(t, r, b)
        PROVE  picture' = NoPicture
    BY <2>3 DEF SetTilemapMap, SetTilemapAttrFlags, SetTilemapAttrColormod, Copying, Succeeds
  <2>. QED
    BY <1>1, <1>4, <2>1, <2>2, <2>3 DEF TilemapCall
<1>5. CASE LayerCall
  BY <1>1, <1>2, <1>5 DEF LayerCall, AddLayer, FreeLayer, SetLayerPos, SetLayerScale,
     SetLayerWindow, SetLayerScrollPos, DrawLayer, PictureOf, Succeeds
<1>6. CASE End \/ LayerlistFree
  BY <1>1, <1>6 DEF End, LayerlistFree
<1>7. CASE Over \/ UNCHANGED vars
  BY <1>2, <1>7 DEF Over, vars
<1>. QED
  BY <1>3, <1>4, <1>5, <1>6, <1>7 DEF Next

LEMMA PictureMadeAlways == Spec => [](IInv /\ PictureMade)
<1>1. Init => PictureMade
  BY DEF Init, PictureMade
<1>. QED
  BY <1>1, InitIInv, NextIInv, NextPictureMade, PTL DEF Spec

(* A layer that fits, in the terms of its pieces. *)
LEMMA DrawnLayer ==
  ASSUME IInv, PictureMade, picture.layer # -1, Fits(picture.layer),
         NEW l, l = picture.layer, NEW t, t = layer[l].tilemap
  PROVE  /\ l \in LayerIds /\ layer[l] \in LayerRecs
         /\ picture.pieces = Pieces(layer[l], Width(t), Height(t))
         /\ Width(t) \in Nat /\ Height(t) \in Nat
         /\ layer[l].w \in Nat \ {0} /\ layer[l].w <= Width(t)
         /\ layer[l].h \in Nat \ {0} /\ layer[l].h <= Height(t)
         /\ layer[l].scroll_x \in Nat /\ layer[l].scroll_x < Width(t)
         /\ layer[l].scroll_y \in Nat /\ layer[l].scroll_y < Height(t)
<1>1. l \in LayerIds /\ LiveLayer(l) /\ picture = PictureOf(l)
  BY DEF PictureMade, NoPicture, PictureOf
<1>2. layer[l] \in LayerRecs
  BY <1>1 DEF IInv, TypeOK
<1>3. t \in TilemapIds /\ LiveTilemap(t)
  BY <1>1, <1>2 DEF IInv, NoDangling, LiveLayer, LayerRecs
<1>4. tilemap[t] \in TilemapRecs
  BY <1>3 DEF IInv, TypeOK
<1>5. tileset[tilemap[t].tileset] \in TilesetRecs
  BY <1>4 DEF IInv, TypeOK, TilemapRecs
<1>6. Width(t) \in Nat /\ Height(t) \in Nat
  BY SMTT(60), <1>4, <1>5 DEF Width, Height, TilemapRecs, TilesetRecs
<1>7. picture.pieces = Pieces(layer[l], Width(t), Height(t))
  BY <1>1 DEF PictureOf
<1>8. /\ layer[l].w \in Nat /\ layer[l].h \in Nat
      /\ layer[l].scroll_x \in Nat /\ layer[l].scroll_y \in Nat
  BY <1>2 DEF LayerRecs
<1>9. /\ 0 < layer[l].w /\ layer[l].w <= Width(t)
      /\ 0 < layer[l].h /\ layer[l].h <= Height(t)
      /\ layer[l].scroll_x < Width(t) /\ layer[l].scroll_y < Height(t)
  BY DEF Fits
<1>10. layer[l].w \in Nat \ {0} /\ layer[l].h \in Nat \ {0}
  BY <1>8, <1>9
<1>. QED
  BY <1>1, <1>2, <1>6, <1>7, <1>8, <1>9, <1>10

LEMMA PiecesCover ==
  ASSUME IInv, PictureMade PROVE WindowCovered
<1>1. SUFFICES ASSUME picture.layer # -1, Fits(picture.layer),
                      NEW l, l = picture.layer, NEW t, t = layer[l].tilemap
      PROVE  /\ \A i \in 0 .. (layer[l].w - 1), j \in 0 .. (layer[l].h - 1) :
                  /\ Cardinality({q \in picture.pieces : Shows(q, i, j)}) = 1
                  /\ \A q \in picture.pieces : Shows(q, i, j) =>
                       /\ q.sx + (i - q.ox) = (layer[l].scroll_x + i) % Width(t)
                       /\ q.sy + (j - q.oy) = (layer[l].scroll_y + j) % Height(t)
             /\ \A q \in picture.pieces :
                  /\ 0 < q.sw /\ q.ox + q.sw <= layer[l].w
                  /\ 0 < q.sh /\ q.oy + q.sh <= layer[l].h
  BY DEF WindowCovered
<1>2. PICK r, tmw, tmh : /\ r = layer[l] /\ tmw = Width(t) /\ tmh = Height(t)
                         /\ tmw \in Nat /\ tmh \in Nat
  BY <1>1, DrawnLayer
<1>3. /\ r.w \in Nat \ {0} /\ r.w <= tmw /\ r.scroll_x \in Nat /\ r.scroll_x < tmw
      /\ r.h \in Nat \ {0} /\ r.h <= tmh /\ r.scroll_y \in Nat /\ r.scroll_y < tmh
  BY <1>1, <1>2, DrawnLayer
<1>4. PICK X, Y, ox, oy :
        /\ ox = r.scroll_x + r.w - tmw /\ X = Parts(r.scroll_x, r.w, ox)
        /\ oy = r.scroll_y + r.h - tmh /\ Y = Parts(r.scroll_y, r.h, oy)
  OBVIOUS
<1>5. picture.pieces = {PieceOf(r, a, b) : a \in X, b \in Y}
  <2>1. picture.pieces = Pieces(r, tmw, tmh)
    BY <1>1, <1>2, DrawnLayer
  <2>. QED
    BY <1>4, <2>1, PiecesAre
<1>6. Covers(X, r.scroll_x, r.w, tmw)
  <2>1. PICK n \in Nat \ {0}, s \in Nat :
          n = r.w /\ s = r.scroll_x /\ n <= tmw /\ s < tmw
    BY <1>3
  <2>2. Covers(Parts(s, n, s + n - tmw), s, n, tmw)
    BY <1>2, <2>1, AxisCovered
  <2>. QED
    BY <1>4, <2>1, <2>2
<1>7. Covers(Y, r.scroll_y, r.h, tmh)
  <2>1. PICK n \in Nat \ {0}, s \in Nat :
          n = r.h /\ s = r.scroll_y /\ n <= tmh /\ s < tmh
    BY <1>3
  <2>2. Covers(Parts(s, n, s + n - tmh), s, n, tmh)
    BY <1>2, <2>1, AxisCovered
  <2>. QED
    BY <1>4, <2>1, <2>2
<1>8. ASSUME NEW a \in X, NEW b \in Y, NEW q, q = PieceOf(r, a, b)
      PROVE  /\ q.ox = a.o /\ q.sx = a.s /\ q.sw = a.l
             /\ q.oy = b.o /\ q.sy = b.s /\ q.sh = b.l
             /\ \A i, j : Shows(q, i, j) <=> OnPart(a, i) /\ OnPart(b, j)
  <2>1. /\ q.ox = a.o /\ q.sx = a.s /\ q.sw = a.l
        /\ q.oy = b.o /\ q.sy = b.s /\ q.sh = b.l
    BY <1>8 DEF PieceOf, Piece
  <2>. QED
    BY <2>1 DEF Shows, OnPart
<1>9. ASSUME NEW i \in 0 .. (r.w - 1), NEW j \in 0 .. (r.h - 1)
      PROVE  Cardinality({q \in picture.pieces : Shows(q, i, j)}) = 1
  <2>1. PICK a \in X, b \in Y : OnPart(a, i) /\ OnPart(b, j)
    BY <1>6, <1>7 DEF Covers
  <2>2. PICK p : p = PieceOf(r, a, b)
    OBVIOUS
  <2>3. p \in picture.pieces /\ Shows(p, i, j)
    BY <1>5, <1>8, <2>1, <2>2
  <2>4. ASSUME NEW q \in picture.pieces, Shows(q, i, j) PROVE q = p
    <3>1. PICK c \in X, d \in Y : q = PieceOf(r, c, d)
      BY <1>5
    <3>2. OnPart(c, i) /\ OnPart(d, j)
      BY <1>8, <2>4, <3>1
    <3>3. c = a /\ d = b
      BY <1>6, <1>7, <2>1, <3>2 DEF Covers
    <3>. QED
      BY <2>2, <3>1, <3>3
  <2>5. {q \in picture.pieces : Shows(q, i, j)} = {p}
    BY <2>3, <2>4
  <2>. QED
    BY <2>5, FS_Singleton
<1>10. ASSUME NEW q \in picture.pieces
       PROVE  /\ 0 < q.sw /\ q.ox + q.sw <= r.w
              /\ 0 < q.sh /\ q.oy + q.sh <= r.h
              /\ \A i \in 0 .. (r.w - 1), j \in 0 .. (r.h - 1) : Shows(q, i, j) =>
                   /\ q.sx + (i - q.ox) = (r.scroll_x + i) % tmw
                   /\ q.sy + (j - q.oy) = (r.scroll_y + j) % tmh
  <2>1. PICK a \in X, b \in Y : q = PieceOf(r, a, b)
    BY <1>5
  <2>2. /\ q.ox = a.o /\ q.sx = a.s /\ q.sw = a.l
        /\ q.oy = b.o /\ q.sy = b.s /\ q.sh = b.l
        /\ \A i, j : Shows(q, i, j) <=> OnPart(a, i) /\ OnPart(b, j)
    BY <1>8, <2>1
  <2>. QED
    BY <1>6, <1>7, <2>2 DEF Covers
<1>. QED
  BY <1>2, <1>9, <1>10

(* What tilemap_draw_layer draws of a layer that fits covers its window    *)
(* without gap or overlap, and each pixel is the tilemap's that the scroll *)
(* position puts there, going round at the right and the bottom edge: for  *)
(* every size of tilemap and window and every scroll position.             *)
THEOREM WindowsAreCovered == Spec => []WindowCovered
<1>1. IInv /\ PictureMade => WindowCovered
  BY PiecesCover
<1>. QED
  BY <1>1, PictureMadeAlways, PTL

-----------------------------------------------------------------------------
(* Where the pieces go on the screen.                                      *)

LEMMA PartsMeet ==
  ASSUME NEW n \in Nat \ {0}, NEW size \in Nat, n <= size,
         NEW scroll \in Nat, scroll < size,
         NEW parts, parts = Parts(scroll, n, scroll + n - size),
         NEW a \in parts, NEW c \in parts, c.o = a.o + a.l
  PROVE  a.o = 0 /\ a.l \in Nat /\ c.o = a.l
<1>1. PICK over \in Int : over = scroll + n - size
  OBVIOUS
<1>2. PICK b, d : b = Before(scroll, n, over) /\ d = Behind(n, over)
  OBVIOUS
<1>3. parts = {b} \cup (IF over > 0 THEN {d} ELSE {})
  BY <1>1, <1>2 DEF Parts
<1>4. b.o = 0 /\ b.l = Cut(n, over) /\ d.o = Cut(n, over) /\ d.l = over
  BY <1>2 DEF Before, Behind
<1>5. PICK w \in Nat : w = Cut(n, over) /\ 0 < w
  <2>1. CASE over > 0
    <3>1. n - over \in Nat /\ 0 < n - over
      BY <1>1, <2>1
    <3>. QED
      BY <2>1, <3>1 DEF Cut
  <2>2. CASE ~(over > 0)
    BY <2>2 DEF Cut
  <2>. QED
    BY <2>1, <2>2
<1>6. a = b
  BY <1>1, <1>3, <1>4, <1>5
<1>. QED
  BY <1>4, <1>5, <1>6

(* Halves add up when none of them is negative. *)
LEMMA HalvesAdd ==
  ASSUME NEW x \in Nat, NEW n \in Nat, NEW scale \in Nat
  PROVE  Half(2 * x + n * scale) = Half(2 * x + 0 * scale) + Half(n * scale)
<1>1. PICK m \in Nat : m = n * scale
  OBVIOUS
<1>2. 0 * scale = 0
  OBVIOUS
<1>. QED
  BY <1>1, <1>2 DEF Half

LEMMA PiecesMeet ==
  ASSUME IInv, PictureMade PROVE Seamless
<1>1. SUFFICES ASSUME picture.layer # -1, Fits(picture.layer), Upright(picture.layer),
                      NEW p \in picture.pieces, NEW q \in picture.pieces
      PROVE  /\ q.ox = p.ox + p.sw => q.dx = p.dx + p.dw
             /\ q.oy = p.oy + p.sh => q.dy = p.dy + p.dh
  BY DEF Seamless
<1>2. PICK l, t : l = picture.layer /\ t = layer[l].tilemap
  OBVIOUS
<1>3. PICK r, tmw, tmh : /\ r = layer[l] /\ tmw = Width(t) /\ tmh = Height(t)
                         /\ tmw \in Nat /\ tmh \in Nat /\ r \in LayerRecs
                         /\ picture.pieces = Pieces(r, tmw, tmh)
                         /\ r.w \in Nat \ {0} /\ r.w <= tmw
                         /\ r.scroll_x \in Nat /\ r.scroll_x < tmw
                         /\ r.h \in Nat \ {0} /\ r.h <= tmh
                         /\ r.scroll_y \in Nat /\ r.scroll_y < tmh
  BY <1>1, <1>2, DrawnLayer
<1>4. /\ r.x \in Nat /\ r.scale_x \in Nat /\ r.y \in Nat /\ r.scale_y \in Nat
  BY <1>1, <1>2, <1>3 DEF Upright, LayerRecs
<1>5. PICK X, Y, ox, oy :
        /\ ox = r.scroll_x + r.w - tmw /\ X = Parts(r.scroll_x, r.w, ox)
        /\ oy = r.scroll_y + r.h - tmh /\ Y = Parts(r.scroll_y, r.h, oy)
  OBVIOUS
<1>6. picture.pieces = {PieceOf(r, a, b) : a \in X, b \in Y}
  BY <1>3, <1>5, PiecesAre
<1>7. PICK a \in X, b \in Y : p = PieceOf(r, a, b)
  BY <1>6
<1>8. PICK c \in X, d \in Y : q = PieceOf(r, c, d)
  BY <1>6
<1>9. /\ p.ox = a.o /\ p.sw = a.l /\ p.dx = Half(2 * r.x + a.o * r.scale_x)
      /\ p.dw = Half(a.l * r.scale_x)
      /\ p.oy = b.o /\ p.sh = b.l /\ p.dy = Half(2 * r.y + b.o * r.scale_y)
      /\ p.dh = Half(b.l * r.scale_y)
      /\ q.ox = c.o /\ q.dx = Half(2 * r.x + c.o * r.scale_x)
      /\ q.oy = d.o /\ q.dy = Half(2 * r.y + d.o * r.scale_y)
  BY <1>7, <1>8 DEF PieceOf, Piece
<1>10. ASSUME q.ox = p.ox + p.sw PROVE q.dx = p.dx + p.dw
  <2>1. PICK n \in Nat \ {0}, s \in Nat : n = r.w /\ s = r.scroll_x /\ n <= tmw /\ s < tmw
    BY <1>3
  <2>2. X = Parts(s, n, s + n - tmw) /\ c.o = a.o + a.l
    BY <1>5, <1>9, <1>10, <2>1
  <2>3. a.o = 0 /\ a.l \in Nat /\ c.o = a.l
    BY <1>3, <1>7, <1>8, <2>1, <2>2, PartsMeet
  <2>4. Half(2 * r.x + a.l * r.scale_x) =
          Half(2 * r.x + 0 * r.scale_x) + Half(a.l * r.scale_x)
    BY <1>4, <2>3, HalvesAdd
  <2>. QED
    BY <1>9, <2>3, <2>4
<1>11. ASSUME q.oy = p.oy + p.sh PROVE q.dy = p.dy + p.dh
  <2>1. PICK n \in Nat \ {0}, s \in Nat : n = r.h /\ s = r.scroll_y /\ n <= tmh /\ s < tmh
    BY <1>3
  <2>2. Y = Parts(s, n, s + n - tmh) /\ d.o = b.o + b.l
    BY <1>5, <1>9, <1>11, <2>1
  <2>3. b.o = 0 /\ b.l \in Nat /\ d.o = b.l
    BY <1>3, <1>7, <1>8, <2>1, <2>2, PartsMeet
  <2>4. Half(2 * r.y + b.l * r.scale_y) =
          Half(2 * r.y + 0 * r.scale_y) + Half(b.l * r.scale_y)
    BY <1>4, <2>3, HalvesAdd
  <2>. QED
    BY <1>9, <2>3, <2>4
<1>. QED
  BY <1>10, <1>11

(* Scaled by any factor that is not negative, the pieces of a layer whose  *)
(* place on the screen is not negative meet without a gap: cutting the     *)
(* products off in tilemap_draw_layer loses no pixel between them.         *)
THEOREM PiecesStaySeamless == Spec => []Seamless
<1>1. IInv /\ PictureMade => Seamless
  BY PiecesMeet
<1>. QED
  BY <1>1, PictureMadeAlways, PTL

-----------------------------------------------------------------------------
(* The cached textures.                                                    *)

(* A tilemap that is in use before or after a step has no texture after    *)
(* it, or was in use and keeps its texture, or some cells were drawn to it. *)
Retained(t) == /\ tilemap'[t].tileset = tilemap[t].tileset
               /\ tilemap'[t].tex = tilemap[t].tex

DrawnFor(t) ==
  /\ tilemap'[t].tileset = tilemap[t].tileset
  /\ tilemap'[t].tex.from = Texture(t).from
  /\ tilemap'[t].tex.w = Texture(t).w
  /\ tilemap'[t].tex.h = Texture(t).h
  /\ \A c \in Cells : \/ tilemap'[t].tex.shown[c] = Texture(t).shown[c]
                      \/ tilemap'[t].tex.shown[c] = tilemap[t].map[c]
                      \/ ~AttrsWritten(t, c)

Textured ==
  \A t \in TilemapIds : LiveTilemap(t) \/ LiveTilemap(t)' =>
    ~HasTexture(t)' \/ (LiveTilemap(t) /\ (Retained(t) \/ DrawnFor(t)))

LEMMA SameTilemapTextured ==
  ASSUME \A t \in TilemapIds : LiveTilemap(t) \/ LiveTilemap(t)' =>
           LiveTilemap(t) /\ Retained(t)
  PROVE  Textured
BY DEF Textured

LEMMA OneTextured ==
  ASSUME IInv, NEW t, NEW rec, tilemap' = [tilemap EXCEPT ![t] = rec],
         t \in TilemapIds =>
           rec.tex.w = 0 \/ (LiveTilemap(t) /\ (Retained(t) \/ DrawnFor(t)))
  PROVE  Textured
<1>1. \A u \in TilemapIds : tilemap'[u] = IF u = t THEN rec ELSE tilemap[u]
  BY DEF IInv, TypeOK
<1>. QED
  BY <1>1 DEF Textured, Retained, LiveTilemap, HasTexture

(* A call that changes a field of a tilemap that is not about its texture. *)
LEMMA OtherFieldTextured ==
  ASSUME IInv, NEW t, NEW new, t \in TilemapIds => LiveTilemap(t),
         \/ tilemap' = [tilemap EXCEPT ![t].refs = new]
         \/ tilemap' = [tilemap EXCEPT ![t].map = new]
         \/ tilemap' = [tilemap EXCEPT ![t].flags = new]
         \/ tilemap' = [tilemap EXCEPT ![t].colormod = new]
  PROVE  Textured
<1>1. PICK rec : /\ tilemap' = [tilemap EXCEPT ![t] = rec]
                 /\ \/ rec = [tilemap[t] EXCEPT !.refs = new]
                    \/ rec = [tilemap[t] EXCEPT !.map = new]
                    \/ rec = [tilemap[t] EXCEPT !.flags = new]
                    \/ rec = [tilemap[t] EXCEPT !.colormod = new]
  OBVIOUS
<1>2. ASSUME t \in TilemapIds PROVE LiveTilemap(t) /\ Retained(t)
  <2>1. tilemap[t] \in TilemapRecs /\ tilemap'[t] = rec
    BY <1>1, <1>2 DEF IInv, TypeOK
  <2>2. rec.tileset = tilemap[t].tileset /\ rec.tex = tilemap[t].tex
    BY <1>1, <2>1 DEF TilemapRecs
  <2>. QED
    BY <1>2, <2>1, <2>2 DEF Retained
<1>. QED
  BY <1>1, <1>2, OneTextured

LEMMA TexturedByUpdate ==
  ASSUME IInv, NEW t \in TilemapIds, NEW rect \in Rects,
         UpdateTilemap(t, rect) \/ UpdateTilemapFails(t, rect)
  PROVE  Textured
<1>1. PICK shown, tex, rec :
        /\ LiveTilemap(t)
        /\ \/ shown = Texture(t).shown
           \/ shown = Drawn(t, Resolved(t, rect))
        /\ tex = [Texture(t) EXCEPT !.shown = shown]
        /\ rec = [tilemap[t] EXCEPT !.tex = tex]
        /\ tilemap' = [tilemap EXCEPT ![t] = rec]
  <2>0. LiveTilemap(t)
    BY DEF UpdateTilemap, UpdateTilemapFails
  <2>1. Texture(t) \in TextureRecs
    BY <2>0, TextureTyped
  <2>2. PICK old : old = Texture(t) /\ old \in TextureRecs
    BY <2>1
  <2>3. CASE UpdateTilemap(t, rect)
    BY <2>0, <2>3 DEF UpdateTilemap
  <2>4. CASE UpdateTilemapFails(t, rect)
    <3>1. [old EXCEPT !.shown = old.shown] = old
      BY <2>2 DEF TextureRecs
    <3>. QED
      BY <2>0, <2>2, <2>4, <3>1 DEF UpdateTilemapFails
  <2>. QED
    BY <2>3, <2>4
<1>2. Texture(t) \in TextureRecs /\ tilemap[t] \in TilemapRecs
  <2>1. Texture(t) \in TextureRecs
    BY <1>1, TextureTyped
  <2>. QED
    BY <2>1 DEF IInv, TypeOK
<1>3. tilemap'[t] = rec
  BY <1>1 DEF IInv, TypeOK
<1>4. rec.tex = tex /\ rec.tileset = tilemap[t].tileset
  BY <1>1, <1>2 DEF TilemapRecs
<1>5. /\ tex.from = Texture(t).from /\ tex.w = Texture(t).w /\ tex.h = Texture(t).h
      /\ tex.shown = shown
  BY <1>1, <1>2 DEF TextureRecs
<1>6. \A c \in Cells : \/ shown[c] = Texture(t).shown[c]
                       \/ shown[c] = tilemap[t].map[c]
                       \/ ~AttrsWritten(t, c)
  BY <1>1 DEF Drawn
<1>7. DrawnFor(t)
  BY <1>3, <1>4, <1>5, <1>6 DEF DrawnFor
<1>. QED
  BY <1>1, <1>7, OneTextured

LEMMA TexturedByTilemapCall ==
  ASSUME IInv, TilemapCall PROVE Textured
<1>1. ASSUME NEW s \in TilesetIds, NEW size \in MapSizes, AddTilemap(s, size)
      PROVE  Textured
  <2>1. PICK t, rec :
          /\ tilemap' = [tilemap EXCEPT ![t] = rec]
          /\ rec = [NoTilemap EXCEPT !.kind = "live", !.tileset = s,
                                     !.w = size.w, !.h = size.h]
    BY <1>1 DEF AddTilemap
  <2>2. rec.tex.w = 0
    BY <2>1 DEF NoTilemap, NoTexture
  <2>. QED
    BY <2>1, <2>2, OneTextured
<1>2. ASSUME NEW s \in TilesetIds, NEW size \in MapSizes, AddTilemapFails(s, size)
      PROVE  Textured
  <2>1. PICK t, mem :
          tilemap' = [u \in TilemapIds |->
            IF t < u /\ tilemapsmem <= u /\ u < mem
              THEN [tilemap[u] EXCEPT !.kind = "raw"] ELSE tilemap[u]]
    BY <1>2 DEF AddTilemapFails
  <2>2. ASSUME NEW u \in TilemapIds, LiveTilemap(u) \/ LiveTilemap(u)'
        PROVE  LiveTilemap(u) /\ Retained(u)
    <3>1. tilemap[u] \in TilemapRecs
      BY DEF IInv, TypeOK
    <3>2. CASE t < u /\ tilemapsmem <= u /\ u < mem
      <4>1. tilemap'[u].kind = "raw"
        BY <2>1, <3>1, <3>2 DEF TilemapRecs
      <4>2. ~LiveTilemap(u)
        BY <3>2 DEF IInv, NoneBehind
      <4>. QED
        BY <2>2, <4>1, <4>2 DEF LiveTilemap
    <3>3. CASE ~(t < u /\ tilemapsmem <= u /\ u < mem)
      BY <2>1, <2>2, <3>3 DEF LiveTilemap, Retained
    <3>. QED
      BY <3>2, <3>3
  <2>. QED
    BY <2>2, SameTilemapTextured
<1>3. ASSUME NEW t \in TilemapIds, FreeTilemap(t) PROVE Textured
  <2>1. tilemap' = [tilemap EXCEPT ![t] = NoTilemap]
    BY <1>3 DEF FreeTilemap
  <2>2. NoTilemap.tex.w = 0
    BY DEF NoTilemap, NoTexture
  <2>. QED
    BY <2>1, <2>2, OneTextured
<1>4. ASSUME NEW t \in TilemapIds, NEW s \in TilesetIds, SetTilemapTileset(t, s)
      PROVE  Textured
  <2>1. PICK rec : /\ tilemap' = [tilemap EXCEPT ![t] = rec]
                   /\ rec = [tilemap[t] EXCEPT !.tileset = s, !.tex = NoTexture]
    BY <1>4 DEF SetTilemapTileset
  <2>2. rec.tex.w = 0
    <3>1. tilemap[t] \in TilemapRecs
      BY DEF IInv, TypeOK
    <3>. QED
      BY <2>1, <3>1 DEF TilemapRecs, NoTexture
  <2>. QED
    BY <2>1, <2>2, OneTextured
<1>5. ASSUME NEW t \in TilemapIds, NEW r \in Rects, NEW b \in Buffers,
             \/ SetTilemapMap(t, r, b) \/ SetTilemapAttrFlags(t, r, b)
             \/ SetTilemapAttrColormod(t, r, b)
      PROVE  Textured
  <2>1. PICK new : /\ LiveTilemap(t)
                   /\ \/ tilemap' = [tilemap EXCEPT ![t].map = new]
                      \/ tilemap' = [tilemap EXCEPT ![t].flags = new]
                      \/ tilemap' = [tilemap EXCEPT ![t].colormod = new]
    BY <1>5 DEF SetTilemapMap, SetTilemapAttrFlags, SetTilemapAttrColormod, Copying
  <2>. QED
    BY <2>1, OtherFieldTextured
<1>. QED
  BY <1>1, <1>2, <1>3, <1>4, <1>5, TexturedByUpdate DEF TilemapCall

LEMMA NextTextured == IInv /\ [Next]_vars => Textured
<1>. SUFFICES ASSUME IInv, [Next]_vars PROVE Textured
  OBVIOUS
<1>1. CASE tilemap' = tilemap
  BY <1>1, SameTilemapTextured DEF LiveTilemap, Retained
<1>2. CASE TilesetCall \/ End \/ Over \/ UNCHANGED vars
  BY <1>1, <1>2 DEF TilesetCall, AddTileset, FreeTileset, End, Over, vars, maps
<1>3. CASE LayerCall
  <2>1. ASSUME NEW t, NEW new, t \in TilemapIds => LiveTilemap(t),
               tilemap' = [tilemap EXCEPT ![t].refs = new]
        PROVE  Textured
    BY <2>1, OtherFieldTextured
  <2>2. ASSUME NEW t \in TilemapIds, AddLayer(t) PROVE Textured
    BY <2>1, <2>2 DEF AddLayer
  <2>3. ASSUME NEW l \in LayerIds, FreeLayer(l) PROVE Textured
    BY <2>1, <2>3 DEF FreeLayer
  <2>. QED
    BY <1>1, <1>3, <2>2, <2>3 DEF LayerCall, SetLayerPos, SetLayerScale,
       SetLayerWindow, SetLayerScrollPos, DrawLayer, maps
<1>4. CASE LayerlistFree
  <2>1. \A t \in TilemapIds : tilemap'[t] = NoTilemap
    BY <1>4 DEF LayerlistFree
  <2>2. NoTilemap.tex.w = 0
    BY DEF NoTilemap, NoTexture
  <2>. QED
    BY <2>1, <2>2 DEF Textured, HasTexture
<1>. QED
  <2>1. TilemapCall => Textured
    BY TexturedByTilemapCall
  <2>. QED
    BY <1>2, <1>3, <1>4, <2>1 DEF Next

(* The tileset of a tilemap in use keeps the size of its tiles. *)
LEMMA SizeKept ==
  ASSUME IInv, KeptTilesets, NEW t \in TilemapIds, LiveTilemap(t),
         tilemap'[t].tileset = tilemap[t].tileset,
         tilemap'[t].w = tilemap[t].w, tilemap'[t].h = tilemap[t].h
  PROVE  Width(t)' = Width(t) /\ Height(t)' = Height(t)
<1>1. PICK s \in TilesetIds : s = tilemap[t].tileset
  BY DEF IInv, TypeOK, TilemapRecs
<1>2. LiveTileset(s) /\ t \in Users(s)
  BY <1>1 DEF IInv, NoDangling, Users
<1>3. SameTileset(s)
  BY <1>2 DEF KeptTilesets
<1>. QED
  BY <1>1, <1>3 DEF SameTileset, Width, Height

(* Only layerlist_free ends in the state in which all is freed. *)
LEMMA EndsFreeing ==
  ASSUME [Next]_vars
  PROVE  LayerlistFree \/ UNCHANGED vars \/ status' # "freed"
<1>1. CASE TilesetCall
  BY <1>1 DEF TilesetCall, AddTileset, FreeTileset, Succeeds
<1>2. CASE TilemapCall
  <2>1. ASSUME NEW t \in TilemapIds, NEW r \in Rects, NEW b \in Buffers,
               \/ SetTilemapMap(t, r, b) \/ SetTilemapAttrFlags(t, r, b)
               \/ SetTilemapAttrColormod(t, r, b)
        PROVE  status' # "freed"
    BY <2>1 DEF SetTilemapMap, SetTilemapAttrFlags, SetTilemapAttrColormod, Copying,
       Succeeds
  <2>2. ASSUME NEW t \in TilemapIds, NEW r \in Rects,
               UpdateTilemap(t, r) \/ UpdateTilemapFails(t, r)
        PROVE  status' # "freed"
    BY <2>2 DEF UpdateTilemap, UpdateTilemapFails, Succeeds
  <2>. QED
    BY <1>2, <2>1, <2>2 DEF TilemapCall, AddTilemap, AddTilemapFails, FreeTilemap,
       SetTilemapTileset, Succeeds
<1>3. CASE LayerCall
  BY <1>3 DEF LayerCall, AddLayer, FreeLayer, SetLayerPos, SetLayerScale,
     SetLayerWindow, SetLayerScrollPos, DrawLayer, Succeeds
<1>4. CASE End \/ Over
  BY <1>4 DEF End, Over
<1>. QED
  BY <1>1, <1>2, <1>3, <1>4 DEF Next

LEMMA NextTextureCurrent ==
  IInv /\ TextureCurrent /\ [Next]_vars => TextureCurrent'
<1>. SUFFICES ASSUME IInv, TextureCurrent, [Next]_vars,
                     NEW t \in TilemapIds, LiveTilemap(t)', HasTexture(t)'
              PROVE  /\ tilemap'[t].tex.from = tilemap'[t].tileset
                     /\ tilemap'[t].tex.w = Width(t)'
                     /\ tilemap'[t].tex.h = Height(t)'
  BY DEF TextureCurrent
<1>1. CASE LayerlistFree
  BY <1>1 DEF LayerlistFree, LiveTilemap, NoTilemap
<1>2. CASE UNCHANGED vars
  BY <1>2 DEF TextureCurrent, LiveTilemap, HasTexture, Width, Height, vars, maps, sets
<1>3. CASE status' # "freed"
  <2>1. KeptTilesets /\ KeptTilemaps
    BY <1>3, NextKeeps
  <2>2. LiveTilemap(t) /\ (Retained(t) \/ DrawnFor(t))
    BY NextTextured DEF Textured
  <2>3. /\ tilemap'[t].tileset = tilemap[t].tileset
        /\ tilemap'[t].w = tilemap[t].w /\ tilemap'[t].h = tilemap[t].h
    BY <2>1, <2>2 DEF Retained, DrawnFor, KeptTilemaps, SameTilemap
  <2>4. Width(t)' = Width(t) /\ Height(t)' = Height(t)
    BY <2>1, <2>2, <2>3, SizeKept
  <2>5. CASE HasTexture(t)
    <3>1. /\ tilemap[t].tex.from = tilemap[t].tileset
          /\ tilemap[t].tex.w = Width(t) /\ tilemap[t].tex.h = Height(t)
      BY <2>2, <2>5 DEF TextureCurrent
    <3>2. /\ tilemap'[t].tex.from = tilemap[t].tex.from
          /\ tilemap'[t].tex.w = tilemap[t].tex.w /\ tilemap'[t].tex.h = tilemap[t].tex.h
      BY <2>2, <2>5 DEF Retained, DrawnFor, Texture
    <3>. QED
      BY <2>3, <2>4, <3>1, <3>2
  <2>6. CASE ~HasTexture(t)
    <3>1. DrawnFor(t)
      BY <2>2, <2>6 DEF Retained, HasTexture
    <3>2. /\ Texture(t).from = tilemap[t].tileset
          /\ Texture(t).w = Width(t) /\ Texture(t).h = Height(t)
      BY <2>6 DEF Texture, NewTexture, NoTexture
    <3>. QED
      BY <2>3, <2>4, <3>1, <3>2 DEF DrawnFor
  <2>. QED
    BY <2>5, <2>6
<1>. QED
  BY <1>1, <1>2, <1>3, EndsFreeing

(* A cached texture is of the tileset that its tilemap has now and of the  *)
(* size that it gives the map: tilemap_set_tilemap_tileset drops it, and   *)
(* a tileset in use is never exchanged for another under its number.       *)
THEOREM TexturesStayCurrent == Spec => []TextureCurrent
<1>1. Init => TextureCurrent
  BY DEF Init, TextureCurrent, LiveTilemap, NoTilemap
<1>. QED
  BY <1>1, IInvAlways, NextTextureCurrent, PTL DEF Spec

(* Updates of parts of a map add up: a texture keeps what was drawn        *)
(* before, cell for cell, wherever tilemap_update_tilemap does not draw.   *)
THEOREM DrawnIsKept == Spec => UpdatesAddUp
<1>1. IInv /\ [Next]_vars =>
        \A t \in TilemapIds, c \in Cells :
          LiveTilemap(t) /\ HasTexture(t) /\ HasTexture(t)' =>
            \/ tilemap'[t].tex.shown[c] = tilemap[t].tex.shown[c]
            \/ tilemap'[t].tex.shown[c] = tilemap[t].map[c]
            \/ ~AttrsWritten(t, c)
  <2>. SUFFICES ASSUME IInv, [Next]_vars, NEW t \in TilemapIds, NEW c \in Cells,
                       LiveTilemap(t), HasTexture(t), HasTexture(t)'
                PROVE  \/ tilemap'[t].tex.shown[c] = tilemap[t].tex.shown[c]
                       \/ tilemap'[t].tex.shown[c] = tilemap[t].map[c]
                       \/ ~AttrsWritten(t, c)
    OBVIOUS
  <2>1. Retained(t) \/ DrawnFor(t)
    BY NextTextured DEF Textured
  <2>. QED
    BY <2>1 DEF Retained, DrawnFor, Texture
<1>. QED
  BY <1>1, IInvAlways, PTL DEF Spec, UpdatesAddUp

-----------------------------------------------------------------------------
(* What keeps a layer within its tilemap.                                  *)

(* The window and the scroll position of a record lie in w * h pixels. *)
Within(r, w, h) == /\ 0 < r.w /\ r.w <= w /\ 0 < r.h /\ r.h <= h
                   /\ r.scroll_x < w /\ r.scroll_y < h

LEMMA WindowStaysWithin ==
  ASSUME IInv, NEW l \in LayerIds, NEW p \in Windows, SetLayerWindow(l, p), Fits(l)
  PROVE  LET t == layer[l].tilemap
         IN  layer'[l].tilemap = t /\ Within(layer'[l], Width(t), Height(t))
<1>1. PICK t : t = layer[l].tilemap /\ LiveTilemap(t) /\ t \in TilemapIds
  BY DEF SetLayerWindow, LiveLayer, IInv, TypeOK, LayerRecs
<1>2. PICK tmw \in Nat, tmh \in Nat : tmw = Width(t) /\ tmh = Height(t)
  BY <1>1, SizesTyped
<1>3. PICK w, h : /\ w = IF p[1] = 0 THEN tmw ELSE p[1]
                  /\ h = IF p[2] = 0 THEN tmh ELSE p[2]
                  /\ w <= tmw /\ h <= tmh
                  /\ layer' = [layer EXCEPT ![l].w = w, ![l].h = h]
  BY <1>1, <1>2 DEF SetLayerWindow
<1>4. p[1] \in Nat /\ p[2] \in Nat
  BY InputsAssumption
<1>5. layer[l] \in LayerRecs
  BY DEF IInv, TypeOK
<1>6. Within(layer[l], tmw, tmh)
  BY <1>1, <1>2 DEF Fits, Within
<1>7. /\ layer'[l].tilemap = t /\ layer'[l].w = w /\ layer'[l].h = h
      /\ layer'[l].scroll_x = layer[l].scroll_x /\ layer'[l].scroll_y = layer[l].scroll_y
  BY <1>1, <1>3, <1>5 DEF IInv, TypeOK, LayerRecs
<1>8. 0 < w /\ 0 < h
  BY <1>2, <1>3, <1>4, <1>5, <1>6 DEF Within, LayerRecs
<1>. QED
  BY <1>1, <1>2, <1>3, <1>6, <1>7, <1>8 DEF Within

LEMMA ScrollStaysWithin ==
  ASSUME IInv, NEW l \in LayerIds, NEW p \in Scrolls, SetLayerScrollPos(l, p), Fits(l)
  PROVE  LET t == layer[l].tilemap
         IN  layer'[l].tilemap = t /\ Within(layer'[l], Width(t), Height(t))
<1>1. PICK t : t = layer[l].tilemap /\ LiveTilemap(t) /\ t \in TilemapIds
  BY DEF SetLayerScrollPos, LiveLayer, IInv, TypeOK, LayerRecs
<1>2. PICK tmw \in Nat, tmh \in Nat : tmw = Width(t) /\ tmh = Height(t)
  BY <1>1, SizesTyped
<1>3. PICK x \in Nat, y \in Nat :
        /\ x <= tmw - 1 /\ y <= tmh - 1
        /\ layer' = [layer EXCEPT ![l].scroll_x = x, ![l].scroll_y = y]
  BY <1>1, <1>2, InputsAssumption DEF SetLayerScrollPos
<1>4. layer[l] \in LayerRecs
  BY DEF IInv, TypeOK
<1>5. Within(layer[l], tmw, tmh)
  BY <1>1, <1>2 DEF Fits, Within
<1>6. /\ layer'[l].tilemap = t /\ layer'[l].w = layer[l].w /\ layer'[l].h = layer[l].h
      /\ layer'[l].scroll_x = x /\ layer'[l].scroll_y = y
  BY <1>1, <1>3, <1>4 DEF IInv, TypeOK, LayerRecs
<1>. QED
  BY <1>1, <1>2, <1>3, <1>5, <1>6 DEF Within

(* A layer in use keeps its tilemap, and fits it by what is tested before  *)
(* its window or its scroll position change.                               *)
SameWindow(l) ==
  /\ layer'[l].tilemap = layer[l].tilemap
  /\ layer'[l].w = layer[l].w /\ layer'[l].h = layer[l].h
  /\ layer'[l].scroll_x = layer[l].scroll_x /\ layer'[l].scroll_y = layer[l].scroll_y

LEMMA OneLayerChanged ==
  ASSUME IInv, NEW l \in LayerIds, NEW m, NEW rec, layer' = [layer EXCEPT ![m] = rec],
         l # m
  PROVE  SameWindow(l)
BY DEF IInv, TypeOK, SameWindow

LEMMA SameWindowStaysWithin ==
  ASSUME IInv, NEW l \in LayerIds, SameWindow(l), Fits(l)
  PROVE  LET t == layer[l].tilemap
         IN  layer'[l].tilemap = t /\ Within(layer'[l], Width(t), Height(t))
BY DEF SameWindow, Fits, Within

LEMMA LayerStaysWithin ==
  ASSUME IInv, [Next]_vars, NEW l \in LayerIds, LiveLayer(l), LiveLayer(l)', Fits(l)
  PROVE  LET t == layer[l].tilemap
         IN  layer'[l].tilemap = t /\ Within(layer'[l], Width(t), Height(t))
<1>. DEFINE Stays == LET t == layer[l].tilemap
                     IN  layer'[l].tilemap = t /\ Within(layer'[l], Width(t), Height(t))
<1>. HIDE DEF Stays
<1>. SUFFICES Stays
  BY DEF Stays
<1>1. ASSUME SameWindow(l) PROVE Stays
  BY <1>1, SameWindowStaysWithin DEF Stays
<1>2. ASSUME NEW m, NEW rec, layer' = [layer EXCEPT ![m] = rec], l # m PROVE Stays
  BY <1>1, <1>2, OneLayerChanged
<1>3. CASE layer' = layer
  BY <1>1, <1>3 DEF SameWindow
<1>4. CASE LayerCall
  <2>1. ASSUME NEW t \in TilemapIds, AddLayer(t) PROVE Stays
    <3>1. PICK m, rec : /\ m = Slot(FreeLayers, layersmem)
                        /\ Grown(FreeLayers, layersmem) <= MaxLayers
                        /\ layer' = [layer EXCEPT ![m] = rec]
      BY <2>1 DEF AddLayer
    <3>2. l # m
      BY <3>1, LayerSlot
    <3>. QED
      BY <1>2, <3>1, <3>2
  <2>2. ASSUME NEW m \in LayerIds, FreeLayer(m) PROVE Stays
    <3>1. layer' = [layer EXCEPT ![m] = NoLayer]
      BY <2>2 DEF FreeLayer
    <3>2. l # m
      BY <3>1 DEF IInv, TypeOK, LiveLayer, NoLayer
    <3>. QED
      BY <1>2, <3>1, <3>2
  <2>3. ASSUME NEW m \in LayerIds, NEW a, NEW b,
               \/ layer' = [layer EXCEPT ![m].x = a, ![m].y = b]
               \/ layer' = [layer EXCEPT ![m].scale_x = a, ![m].scale_y = b]
        PROVE  Stays
    <3>1. PICK rec : /\ layer' = [layer EXCEPT ![m] = rec]
                     /\ \/ rec = [layer[m] EXCEPT !.x = a, !.y = b]
                        \/ rec = [layer[m] EXCEPT !.scale_x = a, !.scale_y = b]
      BY ZenonT(60), <2>3
    <3>2. CASE l = m
      <4>1. layer[l] \in LayerRecs /\ layer'[l] = rec
        BY <3>1, <3>2 DEF IInv, TypeOK
      <4>2. SameWindow(l)
        BY ZenonT(60), <3>1, <3>2, <4>1 DEF SameWindow, LayerRecs
      <4>. QED
        BY <1>1, <4>2
    <3>. QED
      BY <1>2, <3>1, <3>2
  <2>4. ASSUME NEW m \in LayerIds, NEW p \in Positions, SetLayerPos(m, p) PROVE Stays
    BY <2>3, <2>4 DEF SetLayerPos
  <2>5. ASSUME NEW m \in LayerIds, NEW p \in Scales, SetLayerScale(m, p) PROVE Stays
    BY <2>3, <2>5 DEF SetLayerScale
  <2>6. ASSUME NEW m \in LayerIds, NEW p \in Windows, SetLayerWindow(m, p) PROVE Stays
    <3>1. PICK rec : layer' = [layer EXCEPT ![m] = rec]
      BY <2>6 DEF SetLayerWindow
    <3>2. CASE l = m
      BY <2>6, <3>2, WindowStaysWithin DEF Stays
    <3>. QED
      BY <1>2, <3>1, <3>2
  <2>7. ASSUME NEW m \in LayerIds, NEW p \in Scrolls, SetLayerScrollPos(m, p) PROVE Stays
    <3>1. PICK rec : layer' = [layer EXCEPT ![m] = rec]
      BY <2>7 DEF SetLayerScrollPos
    <3>2. CASE l = m
      BY <2>7, <3>2, ScrollStaysWithin DEF Stays
    <3>. QED
      BY <1>2, <3>1, <3>2
  <2>8. ASSUME NEW m \in LayerIds, DrawLayer(m) PROVE Stays
    BY <1>3, <2>8 DEF DrawLayer, layers
  <2>. QED
    BY <1>4, <2>1, <2>2, <2>4, <2>5, <2>6, <2>7, <2>8 DEF LayerCall
<1>5. CASE TilesetCall \/ TilemapCall \/ End \/ Over \/ UNCHANGED vars
  <2>1. UNCHANGED layers
    BY ZenonT(60), <1>5 DEF TilesetCall, AddTileset, FreeTileset, TilemapCall, AddTilemap,
       AddTilemapFails, FreeTilemap, SetTilemapTileset, UpdateTilemap,
       UpdateTilemapFails, SetTilemapMap, SetTilemapAttrFlags,
       SetTilemapAttrColormod, End, Over, vars
  <2>. QED
    BY <1>3, <2>1 DEF layers
<1>6. CASE LayerlistFree
  BY <1>6 DEF LayerlistFree, LiveLayer, NoLayer
<1>. QED
  BY <1>4, <1>5, <1>6 DEF Next

LEMMA NextOnlyRetilingUnfits ==
  ASSUME IInv, [Next]_vars, NEW l \in LayerIds,
         LiveLayer(l), Fits(l), LiveLayer(l)', ~Fits(l)'
  PROVE  tilemap'[layer[l].tilemap].tileset # tilemap[layer[l].tilemap].tileset
<1>1. PICK t : t = layer[l].tilemap /\ t \in TilemapIds /\ LiveTilemap(t) /\ l \in Showing(t)
  BY DEF LiveLayer, IInv, TypeOK, LayerRecs, NoDangling, Showing
<1>2. layer'[l].tilemap = t /\ Within(layer'[l], Width(t), Height(t))
  BY <1>1, LayerStaysWithin
<1>3. SUFFICES ASSUME tilemap'[t].tileset = tilemap[t].tileset PROVE Fits(l)'
  BY <1>1
<1>4. CASE LayerlistFree
  BY <1>4 DEF LayerlistFree, LiveLayer, NoLayer
<1>5. CASE UNCHANGED vars
  BY <1>5 DEF Fits, Width, Height, vars, sets, maps, layers
<1>6. CASE status' # "freed"
  <2>1. KeptTilesets /\ KeptTilemaps
    BY <1>6, NextKeeps
  <2>2. tilemap'[t].w = tilemap[t].w /\ tilemap'[t].h = tilemap[t].h
    BY <1>1, <2>1 DEF KeptTilemaps, SameTilemap
  <2>3. Width(t)' = Width(t) /\ Height(t)' = Height(t)
    BY <1>1, <1>3, <2>1, <2>2, SizeKept
  <2>. QED
    BY <1>2, <2>3 DEF Fits, Within
<1>. QED
  BY <1>4, <1>5, <1>6, EndsFreeing

(* A layer that fits its tilemap stops to fit it only when the tilemap     *)
(* gets another tileset: tilemap_set_layer_window and                      *)
(* tilemap_set_layer_scroll_pos test the size of a tilemap that nothing    *)
(* else can change while the layer refers to it.                           *)
THEOREM FitsUntilRetiled == Spec => OnlyRetilingUnfits
<1>1. IInv /\ [Next]_vars =>
        \A l \in LayerIds :
          LiveLayer(l) /\ Fits(l) /\ LiveLayer(l)' /\ ~Fits(l)' =>
            tilemap'[layer[l].tilemap].tileset # tilemap[layer[l].tilemap].tileset
  BY NextOnlyRetilingUnfits
<1>. QED
  BY <1>1, IInvAlways, PTL DEF Spec, OnlyRetilingUnfits

-----------------------------------------------------------------------------
(* The buffers in memory.                                                  *)

(* A rectangle inside a map is no larger than the map. *)
LEMMA RectNoLarger ==
  ASSUME IInv, NEW t \in TilemapIds, LiveTilemap(t), NEW rect \in Rects,
         NEW r, r = Resolved(t, rect), Inside(t, r)
  PROVE  \E m \in MapSizes : /\ m.w = tilemap[t].w /\ m.h = tilemap[t].h
                             /\ m.w \in Nat /\ m.h \in Nat /\ 2 * m.w < Word
                             /\ r.w \in Nat /\ r.w <= m.w
                             /\ r.h \in Nat /\ r.h <= m.h
<1>1. PICK m \in MapSizes : m.w = tilemap[t].w /\ m.h = tilemap[t].h
  BY DEF IInv, SizesKept
<1>2. PICK w \in Nat, h \in Nat : /\ w = m.w /\ h = m.h /\ 2 * w < Word /\ 2 * h < Word
  BY InputsAssumption DEF IsInt
<1>3. PICK x \in Nat, y \in Nat, rw \in Nat, rh \in Nat :
        /\ x = rect.x /\ y = rect.y /\ rw = rect.w /\ rh = rect.h
        /\ 2 * x < Word /\ 2 * y < Word /\ 2 * rw < Word /\ 2 * rh < Word
  BY InputsAssumption DEF IsInt
<1>4. PICK a \in Nat, b \in Nat :
        /\ a = (IF rw = 0 THEN w ELSE rw) /\ b = (IF rh = 0 THEN h ELSE rh)
        /\ 2 * a < Word /\ 2 * b < Word
  BY <1>2, <1>3
<1>5. rect \in [x : Nat, y : Nat, w : Nat, h : Nat]
  BY InputsAssumption
<1>6. r.x = x /\ r.y = y /\ r.w = a /\ r.h = b
  BY <1>1, <1>2, <1>3, <1>4, <1>5 DEF Resolved
<1>7. (x + a) % Word <= w /\ (y + b) % Word <= h
  BY <1>1, <1>2, <1>6 DEF Inside
<1>8. Word \in Nat
  BY BoundsAssumption
<1>9. (x + a) % Word = x + a /\ (y + b) % Word = y + b
  <2>1. /\ x + a \in Nat /\ x + a < Word
        /\ y + b \in Nat /\ y + b < Word
    BY <1>3, <1>4, <1>8
  <2>. QED
    BY <1>8, <2>1, GoesRound
<1>10. a <= w /\ b <= h
  BY <1>7, <1>9
<1>. QED
  BY <1>1, <1>2, <1>6, <1>10

(* The rows that a copy reads lie in a buffer that passes the test, unless *)
(* the number that is tested has wrapped.                                  *)
LEMMA RowsHeld ==
  ASSUME NEW x \in Int, x < Word, NEW size \in Nat, x % Word <= size
  PROVE  x <= size
<1>1. Word \in Nat
  BY BoundsAssumption
<1>2. CASE x < 0
  BY <1>2
<1>3. CASE x >= 0
  <2>1. x \in Nat
    BY <1>3
  <2>2. x % Word = x
    BY <1>1, <2>1, GoesRound
  <2>. QED
    BY <2>2
<1>. QED
  BY <1>2, <1>3

LEMMA CopyingInBuffer ==
  ASSUME IInv, NEW t \in TilemapIds, NEW rect \in Rects, NEW b \in Buffers,
         Copying(t, Resolved(t, rect), b), "wrapped" \notin faults'
  PROVE  "overread" \in faults' => "overread" \in faults
<1>1. PICK r : r = Resolved(t, rect)
  OBVIOUS
<1>2. LiveTilemap(t) /\ Holds(t, r, b) /\ Inside(t, r) /\ ~Wraps(t, r, b)
  BY <1>1 DEF Copying
<1>3. PICK m \in MapSizes : /\ m.w = tilemap[t].w /\ m.h = tilemap[t].h
                            /\ m.w \in Nat /\ m.h \in Nat /\ 2 * m.w < Word
                            /\ r.w \in Nat /\ r.w <= m.w
                            /\ r.h \in Nat /\ r.h <= m.h
  BY <1>1, <1>2, RectNoLarger
<1>4. PICK rw \in Nat, rh \in Nat : rw = r.w /\ rh = r.h
  BY <1>3
<1>5. PICK p \in Int : p = PitchOf(t, b)
  BY <1>3, InputsAssumption DEF PitchOf
<1>6. PICK x \in Int : x = (rh - 1) * p + rw
  OBVIOUS
<1>7. x % Word <= b.size /\ ~(x >= Word)
  BY <1>2, <1>4, <1>5, <1>6 DEF Holds, Wraps
<1>8. b.size \in Nat /\ Word \in Nat
  BY InputsAssumption, BoundsAssumption
<1>9. x <= b.size
  BY <1>7, <1>8, RowsHeld
<1>10. ~Overread(t, r, b)
  <2>1. Overread(t, r, b) <=> x > b.size
    BY <1>4, <1>5, <1>6 DEF Overread
  <2>. QED
    BY <1>8, <1>9, <2>1
<1>. QED
  BY <1>1, <1>10 DEF Copying

(* As long as the number that is tested has not wrapped. *)
InsideBuffers == "wrapped" \notin faults => "overread" \notin faults

LEMMA NextInsideBuffers ==
  ASSUME IInv, InsideBuffers, [Next]_vars
  PROVE  InsideBuffers'
<1>1. ASSUME faults' = faults PROVE InsideBuffers'
  BY <1>1 DEF InsideBuffers
<1>2. CASE TilesetCall \/ LayerCall \/ End \/ Over \/ UNCHANGED vars
  BY <1>1, <1>2 DEF TilesetCall, AddTileset, FreeTileset, LayerCall, AddLayer,
     FreeLayer, SetLayerPos, SetLayerScale, SetLayerWindow, SetLayerScrollPos,
     DrawLayer, End, Over, vars
<1>3. CASE LayerlistFree
  BY <1>3 DEF InsideBuffers, LayerlistFree
<1>4. ASSUME NEW t \in TilemapIds, NEW r \in Rects, NEW b \in Buffers,
             \/ SetTilemapMap(t, r, b) \/ SetTilemapAttrFlags(t, r, b)
             \/ SetTilemapAttrColormod(t, r, b)
      PROVE  InsideBuffers'
  <2>1. Copying(t, Resolved(t, r), b)
    BY <1>4 DEF SetTilemapMap, SetTilemapAttrFlags, SetTilemapAttrColormod
  <2>2. faults \subseteq faults'
    BY <2>1 DEF Copying
  <2>3. ASSUME "wrapped" \notin faults' PROVE "overread" \notin faults'
    <3>1. "overread" \notin faults
      BY <2>2, <2>3 DEF InsideBuffers
    <3>. QED
      BY <2>1, <2>3, <3>1, CopyingInBuffer
  <2>. QED
    BY <2>3 DEF InsideBuffers
<1>5. CASE TilemapCall
  BY <1>1, <1>4, <1>5 DEF TilemapCall, AddTilemap, AddTilemapFails, FreeTilemap,
     SetTilemapTileset, UpdateTilemap, UpdateTilemapFails
<1>. QED
  BY <1>2, <1>3, <1>5 DEF Next

(* Copying to a map or its attributes writes nothing behind the end of the *)
(* map, and it reads nothing behind the end of the script's buffer until   *)
(* the test in tilemap_set_tilemap_map and its kind, (h - 1) * pitch + w,  *)
(* has wrapped: there is no other way to get there.                        *)
THEOREM CopiesStayInside == Spec => []("wrapped" \notin faults => NoOverrun)
<1>1. Init => InsideBuffers
  BY DEF Init, InsideBuffers
<1>2. IInv /\ InsideBuffers /\ [Next]_vars => InsideBuffers'
  BY NextInsideBuffers
<1>3. NothingOverrun /\ InsideBuffers => ("wrapped" \notin faults => NoOverrun)
  BY DEF NothingOverrun, InsideBuffers, NoOverrun
<1>. QED
  BY <1>1, <1>2, <1>3, IInvAlways, MapsNeverOverrun, PTL DEF Spec

-----------------------------------------------------------------------------
(* What is allocated.                                                      *)

(* Two sets of members of I that differ in x at most. *)
DifferIn(x, A, B, I) == /\ A \subseteq I /\ B \subseteq I
                        /\ \A u \in I : u # x => (u \in A <=> u \in B)

Bit(x, A) == IF x \in A THEN 1 ELSE 0

LEMMA CountChange ==
  ASSUME NEW I, IsFiniteSet(I), NEW A, NEW B, NEW x, DifferIn(x, A, B, I)
  PROVE  /\ Cardinality(A) \in Nat /\ Cardinality(B) \in Nat
         /\ Cardinality(B) = Cardinality(A) - Bit(x, A) + Bit(x, B)
<1>1. IsFiniteSet(A) /\ IsFiniteSet(B)
  BY FS_Subset DEF DifferIn
<1>2. Cardinality(A) \in Nat /\ Cardinality(B) \in Nat
  BY <1>1, FS_CardinalityType
<1>3. PICK C : C = A \ {x}
  OBVIOUS
<1>4. C = B \ {x} /\ x \notin C /\ IsFiniteSet(C)
  BY <1>1, <1>3, FS_Subset DEF DifferIn
<1>5. /\ Cardinality(C) \in Nat
      /\ Cardinality(C \cup {x}) = Cardinality(C) + 1
  BY <1>4, FS_AddElement, FS_CardinalityType
<1>6. Cardinality(A) = Cardinality(C) + Bit(x, A)
  <2>1. CASE x \in A
    <3>1. A = C \cup {x}
      BY <1>3, <2>1
    <3>. QED
      BY <1>5, <2>1, <3>1 DEF Bit
  <2>2. CASE x \notin A
    <3>1. A = C
      BY <1>3, <2>2
    <3>. QED
      BY <1>5, <2>2, <3>1 DEF Bit
  <2>. QED
    BY <2>1, <2>2
<1>7. Cardinality(B) = Cardinality(C) + Bit(x, B)
  <2>1. CASE x \in B
    <3>1. B = C \cup {x}
      BY <1>4, <2>1
    <3>. QED
      BY <1>5, <2>1, <3>1 DEF Bit
  <2>2. CASE x \notin B
    <3>1. B = C
      BY <1>4, <2>2
    <3>. QED
      BY <1>5, <2>2, <3>1 DEF Bit
  <2>. QED
    BY <2>1, <2>2
<1>8. Bit(x, A) \in Nat /\ Bit(x, B) \in Nat
  BY DEF Bit
<1>. QED
  BY <1>2, <1>5, <1>6, <1>7, <1>8

(* The parts of the account.                                               *)
TilesetsInUse == {s \in TilesetIds : LiveTileset(s)}
TilemapsInUse == {t \in TilemapIds : LiveTilemap(t)}
Caching       == {t \in TilemapsInUse : HasTexture(t)}
Flagged       == {t \in TilemapsInUse : tilemap[t].flags # {}}
Modulated     == {t \in TilemapsInUse : tilemap[t].colormod # {}}

Used(mem) == IF mem = 0 THEN 0 ELSE 1

Account ==
  /\ textures = Cardinality(TilesetsInUse) + Cardinality(Caching)
  /\ blocks = Cardinality(TilemapsInUse) + Cardinality(Flagged) + Cardinality(Modulated)
              + Used(tilesetsmem) + Used(tilemapsmem) + Used(layersmem)

LEMMA ArraysCounted ==
  ASSUME NEW a, NEW b, NEW c
  PROVE  Cardinality({m \in {1, 2, 3} : <<a, b, c>>[m] # 0}) = Used(a) + Used(b) + Used(c)
<1>1. PICK M : M = {m \in {1, 2, 3} : <<a, b, c>>[m] # 0}
  OBVIOUS
<1>2. (1 \in M <=> a # 0) /\ (2 \in M <=> b # 0) /\ (3 \in M <=> c # 0) /\ M \subseteq {1, 2, 3}
  BY <1>1
<1>3. PICK A, B : A = M \cap {1} /\ B = M \cap {1, 2}
  OBVIOUS
<1>4. IsFiniteSet(1 .. 3)
  <2>1. 1 \in Int /\ 3 \in Int
    OBVIOUS
  <2>. QED
    BY <2>1, FS_Interval, Zenon
<1>5. PICK O : O = {}
  OBVIOUS
<1>6. /\ DifferIn(1, O, A, 1 .. 3)
      /\ DifferIn(2, A, B, 1 .. 3)
      /\ DifferIn(3, B, M, 1 .. 3)
  BY <1>2, <1>3, <1>5 DEF DifferIn
<1>7. Cardinality(O) = 0
  BY <1>5, FS_EmptySet
<1>8. Cardinality(A) = Cardinality(O) - Bit(1, O) + Bit(1, A)
  BY <1>4, <1>6, CountChange
<1>9. Cardinality(B) = Cardinality(A) - Bit(2, A) + Bit(2, B)
  BY <1>4, <1>6, CountChange
<1>10. Cardinality(M) = Cardinality(B) - Bit(3, B) + Bit(3, M)
  BY <1>4, <1>6, CountChange
<1>11. /\ Bit(1, O) = 0 /\ Bit(1, A) = Used(a)
       /\ Bit(2, A) = 0 /\ Bit(2, B) = Used(b)
       /\ Bit(3, B) = 0 /\ Bit(3, M) = Used(c)
  BY <1>2, <1>3, <1>5 DEF Bit, Used
<1>12. Used(a) \in Nat /\ Used(b) \in Nat /\ Used(c) \in Nat
  BY DEF Used
<1>. QED
  BY <1>1, <1>7, <1>8, <1>9, <1>10, <1>11, <1>12

LEMMA AccountIsNothingLeaks == Account <=> NothingLeaks
<1>1. PICK n : /\ n = Cardinality({m \in {1, 2, 3} : <<tilesetsmem, tilemapsmem, layersmem>>[m] # 0})
               /\ n = Used(tilesetsmem) + Used(tilemapsmem) + Used(layersmem)
  BY ArraysCounted
<1>2. IsFiniteSet(TilemapIds)
  BY FS_Interval, BoundsAssumption DEF TilemapIds
<1>3. /\ IsFiniteSet(TilemapsInUse) /\ IsFiniteSet(Flagged) /\ IsFiniteSet(Modulated)
  BY <1>2, FS_Subset DEF TilemapsInUse, Flagged, Modulated
<1>4. PICK a \in Nat, b \in Nat, c \in Nat :
        /\ a = Cardinality(TilemapsInUse) /\ b = Cardinality(Flagged)
        /\ c = Cardinality(Modulated)
  BY <1>3, FS_CardinalityType
<1>5. PICK x \in Nat, y \in Nat, z \in Nat :
        x = Used(tilesetsmem) /\ y = Used(tilemapsmem) /\ z = Used(layersmem)
  BY DEF Used
<1>6. Account <=> /\ textures = Cardinality(TilesetsInUse) + Cardinality(Caching)
                  /\ blocks = a + b + c + x + y + z
  BY <1>4, <1>5 DEF Account
<1>7. NothingLeaks <=> /\ textures = Cardinality(TilesetsInUse) + Cardinality(Caching)
                       /\ blocks = a + b + c + n
  BY <1>1, <1>4 DEF NothingLeaks, TilesetsInUse, TilemapsInUse, Caching, Flagged, Modulated
<1>8. a + b + c + x + y + z = a + b + c + n
  BY <1>1, <1>5
<1>. QED
  BY <1>6, <1>7, <1>8

(* One tilemap of the account: what it adds to each part. *)
LiveOf(r)  == IF r.kind = "live" THEN 1 ELSE 0
TexOf(r)   == IF r.kind = "live" /\ r.tex.w # 0 THEN 1 ELSE 0
FlagsOf(r) == IF r.kind = "live" /\ r.flags # {} THEN 1 ELSE 0
ModOf(r)   == IF r.kind = "live" /\ r.colormod # {} THEN 1 ELSE 0

LEMMA OneTilemapCounted ==
  ASSUME IInv, NEW t \in TilemapIds, NEW rec, tilemap' = [tilemap EXCEPT ![t] = rec]
  PROVE  /\ Cardinality(TilemapsInUse)' =
              Cardinality(TilemapsInUse) - LiveOf(tilemap[t]) + LiveOf(rec)
         /\ Cardinality(Caching)' = Cardinality(Caching) - TexOf(tilemap[t]) + TexOf(rec)
         /\ Cardinality(Flagged)' = Cardinality(Flagged) - FlagsOf(tilemap[t]) + FlagsOf(rec)
         /\ Cardinality(Modulated)' =
              Cardinality(Modulated) - ModOf(tilemap[t]) + ModOf(rec)
<1>1. IsFiniteSet(TilemapIds)
  BY FS_Interval, BoundsAssumption DEF TilemapIds
<1>2. tilemap'[t] = rec /\ \A u \in TilemapIds : u # t => tilemap'[u] = tilemap[u]
  BY DEF IInv, TypeOK
<1>3. /\ DifferIn(t, TilemapsInUse, TilemapsInUse', TilemapIds)
      /\ Bit(t, TilemapsInUse) = LiveOf(tilemap[t])
      /\ Bit(t, TilemapsInUse') = LiveOf(rec)
  BY <1>2 DEF DifferIn, Bit, TilemapsInUse, LiveTilemap, LiveOf
<1>4. /\ DifferIn(t, Caching, Caching', TilemapIds)
      /\ Bit(t, Caching) = TexOf(tilemap[t])
      /\ Bit(t, Caching') = TexOf(rec)
  BY <1>2 DEF DifferIn, Bit, Caching, TilemapsInUse, LiveTilemap, HasTexture, TexOf
<1>5. /\ DifferIn(t, Flagged, Flagged', TilemapIds)
      /\ Bit(t, Flagged) = FlagsOf(tilemap[t])
      /\ Bit(t, Flagged') = FlagsOf(rec)
  BY <1>2 DEF DifferIn, Bit, Flagged, TilemapsInUse, LiveTilemap, FlagsOf
<1>6. /\ DifferIn(t, Modulated, Modulated', TilemapIds)
      /\ Bit(t, Modulated) = ModOf(tilemap[t])
      /\ Bit(t, Modulated') = ModOf(rec)
  BY <1>2 DEF DifferIn, Bit, Modulated, TilemapsInUse, LiveTilemap, ModOf
<1>7. Cardinality(TilemapsInUse)' =
        Cardinality(TilemapsInUse) - LiveOf(tilemap[t]) + LiveOf(rec)
  BY <1>1, <1>3, CountChange
<1>8. Cardinality(Caching)' = Cardinality(Caching) - TexOf(tilemap[t]) + TexOf(rec)
  BY <1>1, <1>4, CountChange
<1>9. Cardinality(Flagged)' = Cardinality(Flagged) - FlagsOf(tilemap[t]) + FlagsOf(rec)
  BY <1>1, <1>5, CountChange
<1>10. Cardinality(Modulated)' = Cardinality(Modulated) - ModOf(tilemap[t]) + ModOf(rec)
  BY <1>1, <1>6, CountChange
<1>. QED
  BY <1>7, <1>8, <1>9, <1>10

LEMMA OneTilesetCounted ==
  ASSUME IInv, NEW s \in TilesetIds, NEW rec, tileset' = [tileset EXCEPT ![s] = rec]
  PROVE  Cardinality(TilesetsInUse)' =
           Cardinality(TilesetsInUse) - (IF LiveTileset(s) THEN 1 ELSE 0)
                                      + (IF rec.tex = "live" THEN 1 ELSE 0)
<1>1. IsFiniteSet(TilesetIds)
  BY FS_Interval, BoundsAssumption DEF TilesetIds
<1>2. tileset'[s] = rec /\ \A u \in TilesetIds : u # s => tileset'[u] = tileset[u]
  BY DEF IInv, TypeOK
<1>3. /\ DifferIn(s, TilesetsInUse, TilesetsInUse', TilesetIds)
      /\ Bit(s, TilesetsInUse) = (IF LiveTileset(s) THEN 1 ELSE 0)
      /\ Bit(s, TilesetsInUse') = (IF rec.tex = "live" THEN 1 ELSE 0)
  BY <1>2 DEF DifferIn, Bit, TilesetsInUse, LiveTileset
<1>. QED
  BY <1>1, <1>3, CountChange

(* The numbers of the account are numbers. *)
LEMMA AccountTyped ==
  /\ Cardinality(TilesetsInUse) \in Nat /\ Cardinality(Caching) \in Nat
  /\ Cardinality(TilemapsInUse) \in Nat /\ Cardinality(Flagged) \in Nat
  /\ Cardinality(Modulated) \in Nat
  /\ \A n : Used(n) \in Nat
<1>1. IsFiniteSet(TilemapIds) /\ IsFiniteSet(TilesetIds)
  BY FS_Interval, BoundsAssumption DEF TilemapIds, TilesetIds
<1>2. /\ TilesetsInUse \subseteq TilesetIds /\ TilemapsInUse \subseteq TilemapIds
      /\ Caching \subseteq TilemapIds /\ Flagged \subseteq TilemapIds
      /\ Modulated \subseteq TilemapIds
  BY DEF TilesetsInUse, TilemapsInUse, Caching, Flagged, Modulated
<1>3. /\ IsFiniteSet(TilesetsInUse) /\ IsFiniteSet(TilemapsInUse)
      /\ IsFiniteSet(Caching) /\ IsFiniteSet(Flagged) /\ IsFiniteSet(Modulated)
  BY <1>1, <1>2, FS_Subset
<1>4. \A n : Used(n) \in Nat
  BY DEF Used
<1>. QED
  BY <1>3, <1>4, FS_CardinalityType

(* A call that leaves the tilesets in use alone, and one that leaves the   *)
(* tilemaps alone.                                                         *)
LEMMA SameTilesetsCounted ==
  ASSUME \A s \in TilesetIds : tileset'[s].tex = tileset[s].tex
  PROVE  TilesetsInUse' = TilesetsInUse
BY DEF TilesetsInUse, LiveTileset

LEMMA SameTilemapsCounted ==
  ASSUME \A t \in TilemapIds : LiveTilemap(t)' <=> LiveTilemap(t),
         \A t \in TilemapIds : LiveTilemap(t) =>
                                 /\ tilemap'[t].tex = tilemap[t].tex
                                 /\ tilemap'[t].flags = tilemap[t].flags
                                 /\ tilemap'[t].colormod = tilemap[t].colormod
  PROVE  /\ TilemapsInUse' = TilemapsInUse /\ Caching' = Caching
         /\ Flagged' = Flagged /\ Modulated' = Modulated
BY DEF TilemapsInUse, Caching, Flagged, Modulated, HasTexture

(* The first use of an array allocates it. *)
LEMMA ArrayCounted ==
  ASSUME NEW free, NEW mem \in Nat
  PROVE  Used(Grown(free, mem)) = Used(mem) + FirstBlock(mem) /\ FirstBlock(mem) \in Nat
BY DEF Used, Grown, FirstBlock

LEMMA MemsTyped ==
  ASSUME IInv PROVE tilesetsmem \in Nat /\ tilemapsmem \in Nat /\ layersmem \in Nat
<1>1. /\ tilesetsmem \in 0 .. MaxTilesets /\ tilemapsmem \in 0 .. MaxTilemaps
      /\ layersmem \in 0 .. MaxLayers
  BY DEF IInv, TypeOK
<1>. QED
  BY <1>1, BoundsAssumption

LEMMA AddTilesetAccount ==
  ASSUME IInv, Account, NEW sheet \in Sheets, AddTileset(sheet)
  PROVE  Account'
<1>1. PICK s, rec :
        /\ s = Slot(FreeTilesets, tilesetsmem)
        /\ Grown(FreeTilesets, tilesetsmem) <= MaxTilesets
        /\ tilesetsmem' = Grown(FreeTilesets, tilesetsmem)
        /\ rec = [tex |-> "live", tw |-> sheet.tw, th |-> sheet.th,
                   max |-> (sheet.w \div sheet.tw) * (sheet.h \div sheet.th),
                   refs |-> 0]
        /\ tileset' = [tileset EXCEPT ![s] = rec]
        /\ textures' = textures + 1 /\ blocks' = blocks + FirstBlock(tilesetsmem)
        /\ UNCHANGED <<maps, layers>>
  BY DEF AddTileset
<1>2. s \in TilesetIds /\ ~LiveTileset(s) /\ rec.tex = "live"
  BY <1>1, TilesetSlot DEF Takes
<1>3. Cardinality(TilesetsInUse)' = Cardinality(TilesetsInUse) - 0 + 1
  BY <1>1, <1>2, OneTilesetCounted
<1>4. /\ TilemapsInUse' = TilemapsInUse /\ Caching' = Caching
      /\ Flagged' = Flagged /\ Modulated' = Modulated
  BY <1>1, SameTilemapsCounted DEF maps, LiveTilemap
<1>5. tilesetsmem \in Nat
  BY MemsTyped
<1>6. Used(tilesetsmem)' = Used(tilesetsmem) + FirstBlock(tilesetsmem)
      /\ FirstBlock(tilesetsmem) \in Nat
  BY <1>1, <1>5, ArrayCounted
<1>. QED
  BY <1>1, <1>3, <1>4, <1>6, AccountTyped DEF Account, maps, layers

LEMMA FreeTilesetAccount ==
  ASSUME IInv, Account, NEW s \in TilesetIds, FreeTileset(s)
  PROVE  Account'
<1>1. /\ LiveTileset(s) /\ tileset' = [tileset EXCEPT ![s] = NoTileset]
      /\ textures' = textures - 1
      /\ UNCHANGED <<tilesetsmem, maps, layers, blocks>>
  BY DEF FreeTileset
<1>2. NoTileset.tex # "live"
  BY DEF NoTileset
<1>3. Cardinality(TilesetsInUse)' = Cardinality(TilesetsInUse) - 1 + 0
  BY <1>1, <1>2, OneTilesetCounted
<1>4. /\ TilemapsInUse' = TilemapsInUse /\ Caching' = Caching
      /\ Flagged' = Flagged /\ Modulated' = Modulated
  BY <1>1, SameTilemapsCounted DEF maps, LiveTilemap
<1>. QED
  BY <1>1, <1>3, <1>4, AccountTyped DEF Account, maps, layers

(* Only a reference count of a tileset changes. *)
LEMMA RefsChanged ==
  ASSUME IInv, NEW s, NEW n, tileset' = [tileset EXCEPT ![s].refs = n]
  PROVE  TilesetsInUse' = TilesetsInUse
<1>1. ASSUME NEW u \in TilesetIds PROVE tileset'[u].tex = tileset[u].tex
  <2>1. PICK rec : /\ tileset' = [tileset EXCEPT ![s] = rec]
                   /\ rec = [tileset[s] EXCEPT !.refs = n]
    OBVIOUS
  <2>2. tileset'[u] = IF u = s THEN rec ELSE tileset[u]
    BY <2>1 DEF IInv, TypeOK
  <2>3. tileset[u] \in TilesetRecs
    BY DEF IInv, TypeOK
  <2>. QED
    BY <2>1, <2>2, <2>3 DEF TilesetRecs
<1>. QED
  BY <1>1, SameTilesetsCounted

LEMMA AddTilemapAccount ==
  ASSUME IInv, Account, NEW s \in TilesetIds, NEW size \in MapSizes, AddTilemap(s, size)
  PROVE  Account'
<1>1. PICK t, rec :
        /\ t = Slot(FreeTilemaps, tilemapsmem)
        /\ Grown(FreeTilemaps, tilemapsmem) <= MaxTilemaps
        /\ tilemapsmem' = Grown(FreeTilemaps, tilemapsmem)
        /\ tilemap' = [tilemap EXCEPT ![t] = rec]
        /\ rec = [NoTilemap EXCEPT !.kind = "live", !.tileset = s,
                                   !.w = size.w, !.h = size.h]
        /\ tileset' = [tileset EXCEPT ![s].refs = @ + 1]
        /\ blocks' = blocks + FirstBlock(tilemapsmem) + 1
        /\ UNCHANGED <<tilesetsmem, layers, textures>>
  BY DEF AddTilemap
<1>2. t \in TilemapIds /\ ~LiveTilemap(t)
  BY <1>1, TilemapSlot DEF Takes
<1>3. LiveOf(rec) = 1 /\ TexOf(rec) = 0 /\ FlagsOf(rec) = 0 /\ ModOf(rec) = 0
  <2>1. rec.kind = "live" /\ rec.tex.w = 0 /\ rec.flags = {} /\ rec.colormod = {}
    BY <1>1 DEF NoTilemap, NoTexture
  <2>. QED
    BY <2>1 DEF LiveOf, TexOf, FlagsOf, ModOf
<1>4. /\ LiveOf(tilemap[t]) = 0 /\ TexOf(tilemap[t]) = 0
      /\ FlagsOf(tilemap[t]) = 0 /\ ModOf(tilemap[t]) = 0
  BY <1>2 DEF LiveTilemap, LiveOf, TexOf, FlagsOf, ModOf
<1>5. /\ Cardinality(TilemapsInUse)' = Cardinality(TilemapsInUse) + 1
      /\ Cardinality(Caching)' = Cardinality(Caching)
      /\ Cardinality(Flagged)' = Cardinality(Flagged)
      /\ Cardinality(Modulated)' = Cardinality(Modulated)
  <2>1. /\ Cardinality(TilemapsInUse)' = Cardinality(TilemapsInUse) - 0 + 1
        /\ Cardinality(Caching)' = Cardinality(Caching) - 0 + 0
        /\ Cardinality(Flagged)' = Cardinality(Flagged) - 0 + 0
        /\ Cardinality(Modulated)' = Cardinality(Modulated) - 0 + 0
    <3>1. tilemap' = [tilemap EXCEPT ![t] = rec]
      BY <1>1
    <3>. QED
      BY <1>2, <1>3, <1>4, <3>1, OneTilemapCounted
  <2>. QED
    BY <2>1, AccountTyped
<1>6. TilesetsInUse' = TilesetsInUse
  BY <1>1, RefsChanged
<1>7. tilemapsmem \in Nat
  BY MemsTyped
<1>8. Used(tilemapsmem)' = Used(tilemapsmem) + FirstBlock(tilemapsmem)
      /\ FirstBlock(tilemapsmem) \in Nat
  BY <1>1, <1>7, ArrayCounted
<1>. QED
  BY <1>1, <1>5, <1>6, <1>8, AccountTyped DEF Account, layers

LEMMA AddTilemapFailsAccount ==
  ASSUME IInv, Account, NEW s \in TilesetIds, NEW size \in MapSizes,
         AddTilemapFails(s, size)
  PROVE  Account'
<1>1. PICK t, mem :
        /\ mem = Grown(FreeTilemaps, tilemapsmem) /\ tilemapsmem' = mem
        /\ tilemap' = [u \in TilemapIds |->
             IF t < u /\ tilemapsmem <= u /\ u < mem
               THEN [tilemap[u] EXCEPT !.kind = "raw"] ELSE tilemap[u]]
        /\ blocks' = blocks + FirstBlock(tilemapsmem)
        /\ UNCHANGED <<sets, layers, textures>>
  BY DEF AddTilemapFails
<1>2. ASSUME NEW u \in TilemapIds
      PROVE  /\ LiveTilemap(u)' <=> LiveTilemap(u)
             /\ LiveTilemap(u) => tilemap'[u] = tilemap[u]
  <2>1. tilemap[u] \in TilemapRecs
    BY DEF IInv, TypeOK
  <2>2. CASE t < u /\ tilemapsmem <= u /\ u < mem
    <3>1. tilemap'[u].kind = "raw"
      BY <1>1, <2>1, <2>2 DEF TilemapRecs
    <3>2. ~LiveTilemap(u)
      BY <2>2 DEF IInv, NoneBehind
    <3>. QED
      BY <3>1, <3>2 DEF LiveTilemap
  <2>3. CASE ~(t < u /\ tilemapsmem <= u /\ u < mem)
    BY <1>1, <2>3 DEF LiveTilemap
  <2>. QED
    BY <2>2, <2>3
<1>3. /\ TilemapsInUse' = TilemapsInUse /\ Caching' = Caching
      /\ Flagged' = Flagged /\ Modulated' = Modulated
  BY <1>2, SameTilemapsCounted
<1>4. TilesetsInUse' = TilesetsInUse
  BY <1>1, SameTilesetsCounted DEF sets
<1>5. tilemapsmem \in Nat
  BY MemsTyped
<1>6. Used(tilemapsmem)' = Used(tilemapsmem) + FirstBlock(tilemapsmem)
      /\ FirstBlock(tilemapsmem) \in Nat
  BY <1>1, <1>5, ArrayCounted
<1>. QED
  BY <1>1, <1>3, <1>4, <1>6, AccountTyped DEF Account, sets, layers

LEMMA FreeTilemapAccount ==
  ASSUME IInv, Account, NEW t \in TilemapIds, FreeTilemap(t)
  PROVE  Account'
<1>1. PICK s :
        /\ LiveTilemap(t)
        /\ tileset' = [tileset EXCEPT ![s].refs = Unref(@)]
        /\ tilemap' = [tilemap EXCEPT ![t] = NoTilemap]
        /\ blocks' = blocks - Owned(t) /\ textures' = textures - Cached(t)
        /\ UNCHANGED <<tilesetsmem, tilemapsmem, layers>>
  BY DEF FreeTilemap
<1>2. /\ LiveOf(NoTilemap) = 0 /\ TexOf(NoTilemap) = 0
      /\ FlagsOf(NoTilemap) = 0 /\ ModOf(NoTilemap) = 0
  <2>1. NoTilemap.kind # "live"
    BY DEF NoTilemap
  <2>. QED
    BY <2>1 DEF LiveOf, TexOf, FlagsOf, ModOf
<1>3. PICK a \in Nat, f \in Nat, c \in Nat :
        /\ a = Cached(t) /\ a = TexOf(tilemap[t])
        /\ f = FlagsOf(tilemap[t]) /\ c = ModOf(tilemap[t])
        /\ Owned(t) = 1 + f + c /\ LiveOf(tilemap[t]) = 1
  <2>1. tilemap[t].kind = "live"
    BY <1>1 DEF LiveTilemap
  <2>2. /\ TexOf(tilemap[t]) \in Nat /\ FlagsOf(tilemap[t]) \in Nat
        /\ ModOf(tilemap[t]) \in Nat
    BY DEF TexOf, FlagsOf, ModOf
  <2>3. Cached(t) = TexOf(tilemap[t]) /\ LiveOf(tilemap[t]) = 1
    BY <2>1 DEF Cached, HasTexture, TexOf, LiveOf
  <2>4. Owned(t) = 1 + FlagsOf(tilemap[t]) + ModOf(tilemap[t])
    BY <2>1 DEF Owned, FlagsOf, ModOf
  <2>. QED
    BY <2>2, <2>3, <2>4
<1>4. /\ Cardinality(TilemapsInUse)' = Cardinality(TilemapsInUse) - 1
      /\ Cardinality(Caching)' = Cardinality(Caching) - a
      /\ Cardinality(Flagged)' = Cardinality(Flagged) - f
      /\ Cardinality(Modulated)' = Cardinality(Modulated) - c
  <2>1. /\ Cardinality(TilemapsInUse)' = Cardinality(TilemapsInUse) - 1 + 0
        /\ Cardinality(Caching)' = Cardinality(Caching) - a + 0
        /\ Cardinality(Flagged)' = Cardinality(Flagged) - f + 0
        /\ Cardinality(Modulated)' = Cardinality(Modulated) - c + 0
    <3>1. tilemap' = [tilemap EXCEPT ![t] = NoTilemap]
      BY <1>1
    <3>. QED
      BY <1>2, <1>3, <3>1, OneTilemapCounted
  <2>. QED
    BY <1>3, <2>1, AccountTyped
<1>5. TilesetsInUse' = TilesetsInUse
  BY <1>1, RefsChanged
<1>. QED
  BY <1>1, <1>3, <1>4, <1>5, AccountTyped DEF Account, layers

LEMMA SetTilemapTilesetAccount ==
  ASSUME IInv, Account, NEW t \in TilemapIds, NEW s \in TilesetIds,
         SetTilemapTileset(t, s)
  PROVE  Account'
<1>1. PICK old, rec :
        /\ LiveTilemap(t)
        /\ tileset' = [[tileset EXCEPT ![old].refs = Unref(@)] EXCEPT ![s].refs = @ + 1]
        /\ tilemap' = [tilemap EXCEPT ![t] = rec]
        /\ rec = [tilemap[t] EXCEPT !.tileset = s, !.tex = NoTexture]
        /\ textures' = textures - Cached(t)
        /\ UNCHANGED <<tilesetsmem, tilemapsmem, layers, blocks>>
  BY DEF SetTilemapTileset
<1>2. tilemap[t] \in TilemapRecs
  BY DEF IInv, TypeOK
<1>3. TilesetsInUse' = TilesetsInUse
  <2>1. \A u \in TilesetIds : tileset'[u].tex = tileset[u].tex
    BY ZenonT(60), <1>1 DEF IInv, TypeOK, TilesetRecs
  <2>. QED
    BY <2>1, SameTilesetsCounted
<1>4. /\ rec.kind = tilemap[t].kind /\ rec.tex.w = 0
      /\ rec.flags = tilemap[t].flags /\ rec.colormod = tilemap[t].colormod
  BY <1>1, <1>2 DEF TilemapRecs, NoTexture
<1>5. /\ LiveOf(rec) = LiveOf(tilemap[t]) /\ TexOf(rec) = 0
      /\ FlagsOf(rec) = FlagsOf(tilemap[t]) /\ ModOf(rec) = ModOf(tilemap[t])
  BY <1>4 DEF LiveOf, TexOf, FlagsOf, ModOf
<1>6. PICK a \in Nat, l \in Nat, f \in Nat, c \in Nat :
        /\ a = TexOf(tilemap[t]) /\ l = LiveOf(tilemap[t])
        /\ f = FlagsOf(tilemap[t]) /\ c = ModOf(tilemap[t])
  BY DEF LiveOf, TexOf, FlagsOf, ModOf
<1>7. Cached(t) = a
  BY <1>1, <1>6 DEF Cached, HasTexture, LiveTilemap, TexOf
<1>8. /\ Cardinality(TilemapsInUse)' = Cardinality(TilemapsInUse) - l + l
      /\ Cardinality(Caching)' = Cardinality(Caching) - a + 0
      /\ Cardinality(Flagged)' = Cardinality(Flagged) - f + f
      /\ Cardinality(Modulated)' = Cardinality(Modulated) - c + c
  <2>1. tilemap' = [tilemap EXCEPT ![t] = rec]
    BY <1>1
  <2>. QED
    BY <1>5, <1>6, <2>1, OneTilemapCounted
<1>. QED
  BY <1>1, <1>3, <1>6, <1>7, <1>8, AccountTyped DEF Account, layers

LEMMA SetTilemapMapAccount ==
  ASSUME IInv, Account, NEW t \in TilemapIds, NEW new,
         tilemap' = [tilemap EXCEPT ![t].map = new],
         UNCHANGED <<sets, tilemapsmem, layers, heap>>
  PROVE  Account'
<1>1. ASSUME NEW u \in TilemapIds
      PROVE  /\ LiveTilemap(u)' <=> LiveTilemap(u)
             /\ tilemap'[u].tex = tilemap[u].tex
             /\ tilemap'[u].flags = tilemap[u].flags
             /\ tilemap'[u].colormod = tilemap[u].colormod
  <2>1. PICK rec : /\ tilemap' = [tilemap EXCEPT ![t] = rec]
                   /\ rec = [tilemap[t] EXCEPT !.map = new]
    OBVIOUS
  <2>2. tilemap'[u] = IF u = t THEN rec ELSE tilemap[u]
    BY <2>1 DEF IInv, TypeOK
  <2>3. tilemap[u] \in TilemapRecs
    BY DEF IInv, TypeOK
  <2>. QED
    BY <2>1, <2>2, <2>3 DEF TilemapRecs, LiveTilemap
<1>2. /\ TilemapsInUse' = TilemapsInUse /\ Caching' = Caching
      /\ Flagged' = Flagged /\ Modulated' = Modulated
  BY <1>1, SameTilemapsCounted
<1>3. TilesetsInUse' = TilesetsInUse
  BY SameTilesetsCounted DEF sets
<1>. QED
  BY <1>2, <1>3 DEF Account, sets, layers, heap

(* Every map has a cell, and every tile a size. *)
NoneEmpty ==
  /\ \A s \in TilesetIds : LiveTileset(s) => tileset[s].tw # 0 /\ tileset[s].th # 0
  /\ \A t \in TilemapIds : LiveTilemap(t) => tilemap[t].w # 0 /\ tilemap[t].h # 0

LEMMA ProductNotZero ==
  ASSUME NEW a \in Nat \ {0}, NEW b \in Nat \ {0}
  PROVE  a * b \in Nat \ {0}
<1>1. PICK k \in Nat : b = k + 1
  <2>1. b - 1 \in Nat /\ b = (b - 1) + 1
    OBVIOUS
  <2>. QED
    BY <2>1
<1>2. a * b = a * k + a /\ a * k \in Nat
  BY <1>1
<1>. QED
  BY <1>2

(* An attribute map that was written is not taken for one that is not      *)
(* there.                                                                  *)
LEMMA WrittenThere ==
  ASSUME IInv, NoneEmpty, NEW t \in TilemapIds, LiveTilemap(t), NEW rect \in Rects, NEW attr
  PROVE  Written(attr, t, Resolved(t, rect)) # {}
<1>1. CASE attr # {}
  BY <1>1 DEF Written
<1>2. CASE attr = {}
  <2>1. PICK w \in Nat \ {0}, h \in Nat \ {0} : w = tilemap[t].w /\ h = tilemap[t].h
    BY DEF NoneEmpty, IInv, TypeOK, TilemapRecs
  <2>2. rect \in [x : Nat, y : Nat, w : Nat, h : Nat]
    BY InputsAssumption
  <2>3. PICK a \in Nat \ {0}, b \in Nat \ {0} :
          a = Resolved(t, rect).w /\ b = Resolved(t, rect).h
    BY <2>1, <2>2 DEF Resolved
  <2>4. PICK n \in Nat \ {0} : n = a * b
    BY ProductNotZero
  <2>5. 0 \in 0 .. (n - 1)
    OBVIOUS
  <2>. QED
    BY <1>2, <2>3, <2>4, <2>5 DEF Written
<1>. QED
  BY <1>1, <1>2

LEMMA SetTilemapAttrFlagsAccount ==
  ASSUME IInv, Account, NoneEmpty, NEW t \in TilemapIds, NEW rect \in Rects,
         NEW b \in Buffers, SetTilemapAttrFlags(t, rect, b)
  PROVE  Account'
<1>1. PICK rec, new :
        /\ LiveTilemap(t)
        /\ new = Written(tilemap[t].flags, t, Resolved(t, rect))
        /\ tilemap' = [tilemap EXCEPT ![t] = rec]
        /\ rec = [tilemap[t] EXCEPT !.flags = new]
        /\ blocks' = blocks + (IF tilemap[t].flags = {} THEN 1 ELSE 0)
        /\ UNCHANGED <<sets, tilemapsmem, layers, textures>>
  BY DEF SetTilemapAttrFlags, Copying
<1>2. tilemap[t] \in TilemapRecs
  BY DEF IInv, TypeOK
<1>3. TilesetsInUse' = TilesetsInUse
  BY <1>1, SameTilesetsCounted DEF sets
<1>4. /\ rec.kind = "live" /\ rec.tex = tilemap[t].tex
      /\ rec.flags # {} /\ rec.colormod = tilemap[t].colormod
  BY <1>1, <1>2, WrittenThere DEF TilemapRecs, LiveTilemap
<1>5. /\ LiveOf(rec) = LiveOf(tilemap[t]) /\ TexOf(rec) = TexOf(tilemap[t])
      /\ FlagsOf(rec) = 1 /\ ModOf(rec) = ModOf(tilemap[t])
      /\ FlagsOf(tilemap[t]) = (IF tilemap[t].flags = {} THEN 0 ELSE 1)
  BY <1>1, <1>4 DEF LiveTilemap, LiveOf, TexOf, FlagsOf, ModOf
<1>6. PICK a \in Nat, l \in Nat, f \in Nat, c \in Nat :
        /\ a = TexOf(tilemap[t]) /\ l = LiveOf(tilemap[t])
        /\ f = FlagsOf(tilemap[t]) /\ c = ModOf(tilemap[t])
  BY DEF LiveOf, TexOf, FlagsOf, ModOf
<1>7. /\ Cardinality(TilemapsInUse)' = Cardinality(TilemapsInUse) - l + l
      /\ Cardinality(Caching)' = Cardinality(Caching) - a + a
      /\ Cardinality(Flagged)' = Cardinality(Flagged) - f + 1
      /\ Cardinality(Modulated)' = Cardinality(Modulated) - c + c
  <2>1. tilemap' = [tilemap EXCEPT ![t] = rec]
    BY <1>1
  <2>. QED
    BY <1>5, <1>6, <2>1, OneTilemapCounted
<1>8. blocks' = blocks - f + 1
  <2>1. blocks \in Nat
    BY AccountTyped DEF Account
  <2>. QED
    BY <1>1, <1>5, <1>6, <2>1
<1>. QED
  BY <1>1, <1>3, <1>6, <1>7, <1>8, AccountTyped DEF Account, sets, layers

LEMMA SetTilemapAttrColormodAccount ==
  ASSUME IInv, Account, NoneEmpty, NEW t \in TilemapIds, NEW rect \in Rects,
         NEW b \in Buffers, SetTilemapAttrColormod(t, rect, b)
  PROVE  Account'
<1>1. PICK rec, new :
        /\ LiveTilemap(t)
        /\ new = Written(tilemap[t].colormod, t, Resolved(t, rect))
        /\ tilemap' = [tilemap EXCEPT ![t] = rec]
        /\ rec = [tilemap[t] EXCEPT !.colormod = new]
        /\ blocks' = blocks + (IF tilemap[t].colormod = {} THEN 1 ELSE 0)
        /\ UNCHANGED <<sets, tilemapsmem, layers, textures>>
  BY DEF SetTilemapAttrColormod, Copying
<1>2. tilemap[t] \in TilemapRecs
  BY DEF IInv, TypeOK
<1>3. TilesetsInUse' = TilesetsInUse
  BY <1>1, SameTilesetsCounted DEF sets
<1>4. /\ rec.kind = "live" /\ rec.tex = tilemap[t].tex
      /\ rec.colormod # {} /\ rec.flags = tilemap[t].flags
  BY <1>1, <1>2, WrittenThere DEF TilemapRecs, LiveTilemap
<1>5. /\ LiveOf(rec) = LiveOf(tilemap[t]) /\ TexOf(rec) = TexOf(tilemap[t])
      /\ ModOf(rec) = 1 /\ FlagsOf(rec) = FlagsOf(tilemap[t])
      /\ ModOf(tilemap[t]) = (IF tilemap[t].colormod = {} THEN 0 ELSE 1)
  BY <1>1, <1>4 DEF LiveTilemap, LiveOf, TexOf, FlagsOf, ModOf
<1>6. PICK a \in Nat, l \in Nat, f \in Nat, c \in Nat :
        /\ a = TexOf(tilemap[t]) /\ l = LiveOf(tilemap[t])
        /\ f = FlagsOf(tilemap[t]) /\ c = ModOf(tilemap[t])
  BY DEF LiveOf, TexOf, FlagsOf, ModOf
<1>7. /\ Cardinality(TilemapsInUse)' = Cardinality(TilemapsInUse) - l + l
      /\ Cardinality(Caching)' = Cardinality(Caching) - a + a
      /\ Cardinality(Flagged)' = Cardinality(Flagged) - f + f
      /\ Cardinality(Modulated)' = Cardinality(Modulated) - c + 1
  <2>1. tilemap' = [tilemap EXCEPT ![t] = rec]
    BY <1>1
  <2>. QED
    BY <1>5, <1>6, <2>1, OneTilemapCounted
<1>8. blocks' = blocks - c + 1
  <2>1. blocks \in Nat
    BY AccountTyped DEF Account
  <2>. QED
    BY <1>1, <1>5, <1>6, <2>1
<1>. QED
  BY <1>1, <1>3, <1>6, <1>7, <1>8, AccountTyped DEF Account, sets, layers

LEMMA UpdateAccount ==
  ASSUME IInv, Account, NoneEmpty, NEW t \in TilemapIds, NEW rect \in Rects,
         UpdateTilemap(t, rect) \/ UpdateTilemapFails(t, rect)
  PROVE  Account'
<1>1. PICK tex, rec :
        /\ LiveTilemap(t)
        /\ tex.w = Texture(t).w
        /\ tilemap' = [tilemap EXCEPT ![t] = rec]
        /\ rec = [tilemap[t] EXCEPT !.tex = tex]
        /\ textures' = textures + 1 - Cached(t)
        /\ UNCHANGED <<sets, tilemapsmem, layers, blocks>>
  <2>0. LiveTilemap(t)
    BY DEF UpdateTilemap, UpdateTilemapFails
  <2>1. PICK old : old = Texture(t) /\ old \in TextureRecs
    BY <2>0, TextureTyped
  <2>2. CASE UpdateTilemap(t, rect)
    <3>1. PICK new : new = [old EXCEPT !.shown = Drawn(t, Resolved(t, rect))]
      OBVIOUS
    <3>2. new.w = old.w
      BY <2>1, <3>1 DEF TextureRecs
    <3>. QED
      BY <2>0, <2>1, <2>2, <3>1, <3>2 DEF UpdateTilemap
  <2>3. CASE UpdateTilemapFails(t, rect)
    BY <2>0, <2>1, <2>3 DEF UpdateTilemapFails
  <2>. QED
    BY <2>2, <2>3
<1>2. tilemap[t] \in TilemapRecs
  BY DEF IInv, TypeOK
<1>3. Texture(t).w # 0
  <2>1. CASE HasTexture(t)
    BY <2>1 DEF Texture, HasTexture
  <2>2. CASE ~HasTexture(t)
    <3>1. PICK s \in TilesetIds : s = tilemap[t].tileset /\ LiveTileset(s)
      BY <1>1, <1>2 DEF TilemapRecs, IInv, NoDangling
    <3>2. PICK a \in Nat \ {0} : a = tilemap[t].w
      BY <1>1, <1>2 DEF NoneEmpty, TilemapRecs
    <3>3. PICK b \in Nat \ {0} : b = tileset[s].tw
      BY <3>1 DEF NoneEmpty, IInv, TypeOK, TilesetRecs
    <3>4. Width(t) # 0
      BY <3>1, <3>2, <3>3, ProductNotZero DEF Width
    <3>. QED
      BY <2>2, <3>4 DEF Texture, NewTexture, NoTexture
  <2>. QED
    BY <2>1, <2>2
<1>4. TilesetsInUse' = TilesetsInUse
  BY <1>1, SameTilesetsCounted DEF sets
<1>5. /\ rec.kind = "live" /\ rec.tex.w # 0
      /\ rec.colormod = tilemap[t].colormod /\ rec.flags = tilemap[t].flags
  BY <1>1, <1>2, <1>3 DEF TilemapRecs, LiveTilemap
<1>6. /\ LiveOf(rec) = LiveOf(tilemap[t]) /\ TexOf(rec) = 1
      /\ FlagsOf(rec) = FlagsOf(tilemap[t]) /\ ModOf(rec) = ModOf(tilemap[t])
      /\ TexOf(tilemap[t]) = Cached(t)
  BY <1>1, <1>5 DEF LiveTilemap, LiveOf, TexOf, FlagsOf, ModOf, Cached, HasTexture
<1>7. PICK a \in Nat, l \in Nat, f \in Nat, c \in Nat :
        /\ a = TexOf(tilemap[t]) /\ l = LiveOf(tilemap[t])
        /\ f = FlagsOf(tilemap[t]) /\ c = ModOf(tilemap[t])
  BY DEF LiveOf, TexOf, FlagsOf, ModOf
<1>8. /\ Cardinality(TilemapsInUse)' = Cardinality(TilemapsInUse) - l + l
      /\ Cardinality(Caching)' = Cardinality(Caching) - a + 1
      /\ Cardinality(Flagged)' = Cardinality(Flagged) - f + f
      /\ Cardinality(Modulated)' = Cardinality(Modulated) - c + c
  <2>1. tilemap' = [tilemap EXCEPT ![t] = rec]
    BY <1>1
  <2>. QED
    BY <1>6, <1>7, <2>1, OneTilemapCounted
<1>9. textures' = textures + 1 - a
  BY <1>1, <1>6, <1>7
<1>. QED
  BY <1>1, <1>4, <1>7, <1>8, <1>9, AccountTyped DEF Account, sets, layers

(* Layers count for the array of layers alone. *)
LEMMA LayerAccount ==
  ASSUME IInv, Account, NEW t, NEW n, tilemap' = [tilemap EXCEPT ![t].refs = n],
         blocks' = blocks + Used(layersmem)' - Used(layersmem),
         UNCHANGED <<sets, tilemapsmem, textures>>
  PROVE  Account'
<1>1. ASSUME NEW u \in TilemapIds
      PROVE  /\ LiveTilemap(u)' <=> LiveTilemap(u)
             /\ tilemap'[u].tex = tilemap[u].tex
             /\ tilemap'[u].flags = tilemap[u].flags
             /\ tilemap'[u].colormod = tilemap[u].colormod
  <2>1. PICK rec : /\ tilemap' = [tilemap EXCEPT ![t] = rec]
                   /\ rec = [tilemap[t] EXCEPT !.refs = n]
    OBVIOUS
  <2>2. tilemap'[u] = IF u = t THEN rec ELSE tilemap[u]
    BY <2>1 DEF IInv, TypeOK
  <2>3. tilemap[u] \in TilemapRecs
    BY DEF IInv, TypeOK
  <2>. QED
    BY <2>1, <2>2, <2>3 DEF TilemapRecs, LiveTilemap
<1>2. /\ TilemapsInUse' = TilemapsInUse /\ Caching' = Caching
      /\ Flagged' = Flagged /\ Modulated' = Modulated
  BY <1>1, SameTilemapsCounted
<1>3. TilesetsInUse' = TilesetsInUse
  BY SameTilesetsCounted DEF sets
<1>4. Used(layersmem)' \in Nat
  BY DEF Used
<1>. QED
  BY <1>2, <1>3, <1>4, AccountTyped DEF Account, sets

LEMMA AddLayerAccount ==
  ASSUME IInv, Account, NEW t \in TilemapIds, AddLayer(t)
  PROVE  Account'
<1>1. PICK n : /\ tilemap' = [tilemap EXCEPT ![t].refs = n]
               /\ layersmem' = Grown(FreeLayers, layersmem)
               /\ blocks' = blocks + FirstBlock(layersmem)
               /\ UNCHANGED <<sets, tilemapsmem, textures>>
  BY DEF AddLayer
<1>2. Used(layersmem)' = Used(layersmem) + FirstBlock(layersmem)
      /\ FirstBlock(layersmem) \in Nat
  BY <1>1, MemsTyped, ArrayCounted
<1>3. blocks' = blocks + Used(layersmem)' - Used(layersmem)
  <2>1. blocks \in Nat /\ Used(layersmem) \in Nat
    BY AccountTyped DEF Account
  <2>. QED
    BY <1>1, <1>2, <2>1
<1>. QED
  BY <1>1, <1>3, LayerAccount

LEMMA FreeLayerAccount ==
  ASSUME IInv, Account, NEW l \in LayerIds, FreeLayer(l)
  PROVE  Account'
<1>1. PICK t, n : /\ tilemap' = [tilemap EXCEPT ![t].refs = n]
                  /\ UNCHANGED <<layersmem, sets, tilemapsmem, heap>>
  BY DEF FreeLayer
<1>2. blocks' = blocks + Used(layersmem)' - Used(layersmem)
  <2>1. blocks \in Nat /\ Used(layersmem) \in Nat
    BY AccountTyped DEF Account
  <2>. QED
    BY <1>1, <2>1 DEF heap
<1>. QED
  BY <1>1, <1>2, LayerAccount DEF heap

(* layerlist_free balances the account. *)
LEMMA LayerlistFreeAccount ==
  ASSUME Account, LayerlistFree
  PROVE  Account'
<1>1. PICK n : /\ n = Cardinality({m \in {1, 2, 3} : <<tilesetsmem, tilemapsmem, layersmem>>[m] # 0})
               /\ n = Used(tilesetsmem) + Used(tilemapsmem) + Used(layersmem)
  BY ArraysCounted
<1>2. /\ textures' = textures - Cardinality(TilesetsInUse) - Cardinality(Caching)
      /\ blocks' = blocks - Cardinality(TilemapsInUse) - Cardinality(Flagged)
                          - Cardinality(Modulated) - n
  BY <1>1 DEF LayerlistFree, TilesetsInUse, TilemapsInUse, Caching, Flagged, Modulated
<1>3. textures' = 0 /\ blocks' = 0
  BY <1>1, <1>2, AccountTyped DEF Account
<1>4. TilesetsInUse' = {} /\ TilemapsInUse' = {}
  <2>1. /\ \A s \in TilesetIds : ~LiveTileset(s)'
        /\ \A t \in TilemapIds : ~LiveTilemap(t)'
    BY DEF LayerlistFree, LiveTileset, LiveTilemap, NoTileset, NoTilemap
  <2>. QED
    BY <2>1 DEF TilesetsInUse, TilemapsInUse
<1>5. Caching' = {} /\ Flagged' = {} /\ Modulated' = {}
  BY <1>4 DEF Caching, Flagged, Modulated
<1>6. Cardinality({}) = 0
  BY FS_EmptySet
<1>7. Used(tilesetsmem)' = 0 /\ Used(tilemapsmem)' = 0 /\ Used(layersmem)' = 0
  BY DEF LayerlistFree, Used
<1>. QED
  BY <1>3, <1>4, <1>5, <1>6, <1>7 DEF Account

LEMMA NothingCounted ==
  ASSUME Account, UNCHANGED <<sets, maps, layersmem, heap>>
  PROVE  Account'
<1>1. /\ TilemapsInUse' = TilemapsInUse /\ Caching' = Caching
      /\ Flagged' = Flagged /\ Modulated' = Modulated
  BY SameTilemapsCounted DEF maps, LiveTilemap
<1>2. TilesetsInUse' = TilesetsInUse
  BY SameTilesetsCounted DEF sets
<1>. QED
  BY <1>1, <1>2 DEF Account, sets, maps, heap

LEMMA NextAccount ==
  ASSUME IInv, NoneEmpty, Account, [Next]_vars
  PROVE  Account'
<1>1. CASE TilesetCall
  BY <1>1, AddTilesetAccount, FreeTilesetAccount DEF TilesetCall
<1>2. CASE TilemapCall
  <2>1. ASSUME NEW t \in TilemapIds, NEW r \in Rects, NEW b \in Buffers,
               SetTilemapMap(t, r, b)
        PROVE  Account'
    <3>1. PICK new : /\ tilemap' = [tilemap EXCEPT ![t].map = new]
                     /\ UNCHANGED <<sets, tilemapsmem, layers, heap>>
      BY <2>1 DEF SetTilemapMap
    <3>. QED
      BY <3>1, SetTilemapMapAccount
  <2>. QED
    BY <1>2, <2>1, AddTilemapAccount, AddTilemapFailsAccount, FreeTilemapAccount,
       SetTilemapTilesetAccount, SetTilemapAttrFlagsAccount,
       SetTilemapAttrColormodAccount, UpdateAccount DEF TilemapCall
<1>3. CASE LayerCall
  <2>1. ASSUME UNCHANGED <<sets, maps, layersmem, heap>> PROVE Account'
    BY <2>1, NothingCounted
  <2>2. ASSUME NEW l \in LayerIds, NEW p, SetLayerPos(l, p) PROVE Account'
    BY <2>1, <2>2 DEF SetLayerPos
  <2>3. ASSUME NEW l \in LayerIds, NEW p, SetLayerScale(l, p) PROVE Account'
    BY <2>1, <2>3 DEF SetLayerScale
  <2>4. ASSUME NEW l \in LayerIds, NEW p, SetLayerWindow(l, p) PROVE Account'
    BY <2>1, <2>4 DEF SetLayerWindow
  <2>5. ASSUME NEW l \in LayerIds, NEW p, SetLayerScrollPos(l, p) PROVE Account'
    BY <2>1, <2>5 DEF SetLayerScrollPos
  <2>6. ASSUME NEW l \in LayerIds, DrawLayer(l) PROVE Account'
    BY <2>1, <2>6 DEF DrawLayer, layers
  <2>. QED
    BY <1>3, <2>2, <2>3, <2>4, <2>5, <2>6, AddLayerAccount, FreeLayerAccount
       DEF LayerCall
<1>4. CASE End \/ Over \/ UNCHANGED vars
  <2>1. UNCHANGED <<sets, maps, layersmem, heap>>
    BY <1>4 DEF End, Over, vars, layers
  <2>. QED
    BY <2>1, NothingCounted
<1>5. CASE LayerlistFree
  BY <1>5, LayerlistFreeAccount
<1>. QED
  BY <1>1, <1>2, <1>3, <1>4, <1>5 DEF Next

-----------------------------------------------------------------------------
(* What comes into use is not empty, as the calls that add it test.        *)

LEMMA NothingBorn ==
  ASSUME NoneEmpty, KeptTilesets, KeptTilemaps,
         \A s \in TilesetIds : LiveTileset(s)' =>
           LiveTileset(s) \/ (tileset'[s].tw # 0 /\ tileset'[s].th # 0),
         \A t \in TilemapIds : LiveTilemap(t)' =>
           LiveTilemap(t) \/ (tilemap'[t].w # 0 /\ tilemap'[t].h # 0)
  PROVE  NoneEmpty'
BY DEF NoneEmpty, KeptTilesets, KeptTilemaps, SameTileset, SameTilemap

LEMMA NextNoneEmpty ==
  ASSUME IInv, NoneEmpty, [Next]_vars
  PROVE  NoneEmpty'
<1>1. CASE LayerlistFree
  BY <1>1 DEF LayerlistFree, NoneEmpty, LiveTileset, LiveTilemap, NoTileset, NoTilemap
<1>2. CASE UNCHANGED vars
  BY <1>2 DEF NoneEmpty, LiveTileset, LiveTilemap, vars, sets, maps
<1>3. ASSUME status' # "freed", ~LayerlistFree, ~UNCHANGED vars PROVE NoneEmpty'
  <2>1. KeptTilesets /\ KeptTilemaps
    BY <1>3, NextKeeps
  <2>2. ASSUME NEW s \in TilesetIds, LiveTileset(s)', ~LiveTileset(s)
        PROVE  tileset'[s].tw # 0 /\ tileset'[s].th # 0
    <3>1. ASSUME NEW u, NEW rec, tileset' = [tileset EXCEPT ![u] = rec],
                 LiveTileset(u) \/ rec.tex # "live" \/ (rec.tw # 0 /\ rec.th # 0)
          PROVE  tileset'[s].tw # 0 /\ tileset'[s].th # 0
      BY <2>2, <3>1 DEF IInv, TypeOK, LiveTileset
    <3>2. ASSUME tileset' = tileset PROVE tileset'[s].tw # 0 /\ tileset'[s].th # 0
      BY <2>2, <3>2 DEF LiveTileset
    <3>3. ASSUME NEW sheet \in Sheets, AddTileset(sheet)
          PROVE  tileset'[s].tw # 0 /\ tileset'[s].th # 0
      <4>1. PICK u, rec :
              /\ rec = [tex |-> "live", tw |-> sheet.tw, th |-> sheet.th,
                        max |-> (sheet.w \div sheet.tw) * (sheet.h \div sheet.th),
                        refs |-> 0]
              /\ tileset' = [tileset EXCEPT ![u] = rec]
              /\ sheet.tw # 0 /\ sheet.th # 0
        BY <3>3 DEF AddTileset
      <4>2. rec.tw # 0 /\ rec.th # 0
        BY <4>1
      <4>. QED
        BY <3>1, <4>1, <4>2
    <3>4. ASSUME NEW u \in TilesetIds, FreeTileset(u)
          PROVE  tileset'[s].tw # 0 /\ tileset'[s].th # 0
      BY <3>1, <3>4 DEF FreeTileset
    <3>5. ASSUME NEW u \in TilesetIds, NEW size \in MapSizes, AddTilemap(u, size)
          PROVE  tileset'[s].tw # 0 /\ tileset'[s].th # 0
      BY <3>1, <3>5 DEF AddTilemap
    <3>6. ASSUME NEW t \in TilemapIds, FreeTilemap(t)
          PROVE  tileset'[s].tw # 0 /\ tileset'[s].th # 0
      BY <3>1, <3>6 DEF FreeTilemap
    <3>7. ASSUME NEW t \in TilemapIds, NEW u \in TilesetIds, SetTilemapTileset(t, u)
          PROVE  tileset'[s].tw # 0 /\ tileset'[s].th # 0
      <4>1. PICK old : /\ LiveTileset(old) /\ LiveTileset(u)
                       /\ tileset' = [[tileset EXCEPT ![old].refs = Unref(@)]
                                        EXCEPT ![u].refs = @ + 1]
        BY <3>7 DEF SetTilemapTileset
      <4>2. s # old /\ s # u
        BY <2>2, <4>1
      <4>3. tileset'[s] = tileset[s]
        BY <4>1, <4>2 DEF IInv, TypeOK
      <4>. QED
        BY <2>2, <4>3 DEF LiveTileset
    <3>8. CASE TilesetCall
      BY <3>3, <3>4, <3>8 DEF TilesetCall
    <3>9. CASE TilemapCall
      BY <3>2, <3>5, <3>6, <3>7, <3>9 DEF TilemapCall, AddTilemapFails, UpdateTilemap,
         UpdateTilemapFails, SetTilemapMap, SetTilemapAttrFlags,
         SetTilemapAttrColormod, sets
    <3>10. CASE LayerCall \/ End
      BY <3>2, <3>10 DEF LayerCall, AddLayer, FreeLayer, SetLayerPos, SetLayerScale,
         SetLayerWindow, SetLayerScrollPos, DrawLayer, End, sets
    <3>. QED
      BY <1>3, <3>8, <3>9, <3>10 DEF Next, Over
  <2>3. ASSUME NEW t \in TilemapIds, LiveTilemap(t)', ~LiveTilemap(t)
        PROVE  tilemap'[t].w # 0 /\ tilemap'[t].h # 0
    <3>1. ASSUME NEW u, NEW rec, tilemap' = [tilemap EXCEPT ![u] = rec],
                 LiveTilemap(u) \/ (rec.w # 0 /\ rec.h # 0)
          PROVE  tilemap'[t].w # 0 /\ tilemap'[t].h # 0
      BY <2>3, <3>1 DEF IInv, TypeOK, LiveTilemap
    <3>2. ASSUME tilemap' = tilemap PROVE tilemap'[t].w # 0 /\ tilemap'[t].h # 0
      BY <2>3, <3>2 DEF LiveTilemap
    <3>3. ASSUME NEW s \in TilesetIds, NEW size \in MapSizes, AddTilemap(s, size)
          PROVE  tilemap'[t].w # 0 /\ tilemap'[t].h # 0
      <4>1. PICK u, rec :
              /\ rec = [NoTilemap EXCEPT !.kind = "live", !.tileset = s,
                                         !.w = size.w, !.h = size.h]
              /\ tilemap' = [tilemap EXCEPT ![u] = rec]
              /\ size.w # 0 /\ size.h # 0
        BY <3>3 DEF AddTilemap
      <4>2. rec.w # 0 /\ rec.h # 0
        BY <4>1 DEF NoTilemap
      <4>. QED
        BY <3>1, <4>1, <4>2
    <3>4. ASSUME NEW s \in TilesetIds, NEW size \in MapSizes, AddTilemapFails(s, size)
          PROVE  tilemap'[t].w # 0 /\ tilemap'[t].h # 0
      <4>1. \/ tilemap'[t] = [tilemap[t] EXCEPT !.kind = "raw"]
            \/ tilemap'[t] = tilemap[t]
        BY <3>4 DEF AddTilemapFails
      <4>2. tilemap[t] \in TilemapRecs
        BY DEF IInv, TypeOK
      <4>. QED
        BY <2>3, <4>1, <4>2 DEF LiveTilemap, TilemapRecs
    <3>5. ASSUME NEW u, NEW rec, LiveTilemap(u), tilemap' = [tilemap EXCEPT ![u] = rec]
          PROVE  tilemap'[t].w # 0 /\ tilemap'[t].h # 0
      BY <3>1, <3>5
    <3>6. ASSUME NEW u \in TilemapIds, FreeTilemap(u)
          PROVE  tilemap'[t].w # 0 /\ tilemap'[t].h # 0
      BY <3>5, <3>6 DEF FreeTilemap
    <3>7. ASSUME NEW u \in TilemapIds, NEW s \in TilesetIds, SetTilemapTileset(u, s)
          PROVE  tilemap'[t].w # 0 /\ tilemap'[t].h # 0
      BY <3>5, <3>7 DEF SetTilemapTileset
    <3>8. ASSUME NEW u \in TilemapIds, NEW r \in Rects,
                 UpdateTilemap(u, r) \/ UpdateTilemapFails(u, r)
          PROVE  tilemap'[t].w # 0 /\ tilemap'[t].h # 0
      BY <3>5, <3>8 DEF UpdateTilemap, UpdateTilemapFails
    <3>9. ASSUME NEW u \in TilemapIds, NEW r \in Rects, NEW b \in Buffers,
                 \/ SetTilemapMap(u, r, b) \/ SetTilemapAttrFlags(u, r, b)
                 \/ SetTilemapAttrColormod(u, r, b)
          PROVE  tilemap'[t].w # 0 /\ tilemap'[t].h # 0
      BY <3>5, <3>9 DEF SetTilemapMap, SetTilemapAttrFlags, SetTilemapAttrColormod,
         Copying
    <3>10. ASSUME NEW u \in TilemapIds, AddLayer(u)
           PROVE  tilemap'[t].w # 0 /\ tilemap'[t].h # 0
      BY <3>5, <3>10 DEF AddLayer
    <3>11. ASSUME NEW l \in LayerIds, FreeLayer(l)
           PROVE  tilemap'[t].w # 0 /\ tilemap'[t].h # 0
      BY <3>5, <3>11 DEF FreeLayer
    <3>12. CASE TilemapCall
      BY <3>3, <3>4, <3>6, <3>7, <3>8, <3>9, <3>12 DEF TilemapCall
    <3>13. CASE LayerCall
      BY <3>2, <3>10, <3>11, <3>13 DEF LayerCall, SetLayerPos, SetLayerScale,
         SetLayerWindow, SetLayerScrollPos, DrawLayer, maps
    <3>14. CASE TilesetCall \/ End
      BY <3>2, <3>14 DEF TilesetCall, AddTileset, FreeTileset, End, maps
    <3>. QED
      BY <1>3, <3>12, <3>13, <3>14 DEF Next, Over
  <2>. QED
    BY <2>1, <2>2, <2>3, NothingBorn
<1>. QED
  BY <1>1, <1>2, <1>3, EndsFreeing

(* Textures and blocks of memory that are allocated are those of the       *)
(* tilesets, tilemaps and arrays in use, after every call, and after       *)
(* layerlist_free there are none.                                          *)
THEOREM NothingIsLeaked == Spec => []NothingLeaks
<1>1. Init => NoneEmpty /\ Account
  <2>. SUFFICES ASSUME Init PROVE NoneEmpty /\ Account
    OBVIOUS
  <2>1. /\ \A s \in TilesetIds : ~LiveTileset(s)
        /\ \A t \in TilemapIds : ~LiveTilemap(t)
    BY DEF Init, LiveTileset, LiveTilemap, NoTileset, NoTilemap
  <2>2. TilesetsInUse = {} /\ TilemapsInUse = {}
    BY <2>1 DEF TilesetsInUse, TilemapsInUse
  <2>3. Caching = {} /\ Flagged = {} /\ Modulated = {}
    BY <2>2 DEF Caching, Flagged, Modulated
  <2>4. Cardinality({}) = 0
    BY FS_EmptySet
  <2>5. Used(tilesetsmem) = 0 /\ Used(tilemapsmem) = 0 /\ Used(layersmem) = 0
    BY DEF Init, Used
  <2>6. textures = 0 /\ blocks = 0
    BY DEF Init
  <2>. QED
    BY <2>1, <2>2, <2>3, <2>4, <2>5, <2>6 DEF NoneEmpty, Account
<1>2. IInv /\ NoneEmpty /\ Account /\ [Next]_vars => (NoneEmpty /\ Account)'
  BY NextNoneEmpty, NextAccount
<1>3. Account => NothingLeaks
  BY AccountIsNothingLeaks
<1>. QED
  BY <1>1, <1>2, <1>3, IInvAlways, PTL DEF Spec
=============================================================================
