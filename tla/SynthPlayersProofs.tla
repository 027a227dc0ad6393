------------------------- MODULE SynthPlayersProofs -------------------------
(***************************************************************************)
(* Theorems about SynthPlayers, for tables of any size, any scripts,       *)
(* speeds, positions and requests: what the reference counts of the        *)
(* sample buffers of src/synth.c are, that whatever a player is wired to   *)
(* is there, and which runs of a player stay inside its buffers.           *)
(***************************************************************************)
EXTENDS SynthPlayers, FiniteSetTheorems, WellFoundedInduction, TLAPS

-----------------------------------------------------------------------------
(* Numbers.                                                                *)

(* A set of natural numbers that is not empty has a least one. *)
LEMMA LeastExists ==
  ASSUME NEW S \in SUBSET Nat, S # {}
  PROVE  \E i \in S : \A j \in S : i <= j
<1>. DEFINE R == {p \in Nat \X Nat : p[1] < p[2]}
<1>1. IsWellFoundedOn(R, Nat)
  BY NatLessThanWellFounded, Zenon DEF OpToRel
<1>. HIDE DEF R
<1>2. PICK i \in S : \A j \in S : <<j, i>> \notin R
  BY <1>1, WFMin
<1>3. ASSUME NEW j \in S PROVE i <= j
  <2>1. ~(j < i)
    <3>1. <<j, i>> \in Nat \X Nat /\ <<j, i>>[1] = j /\ <<j, i>>[2] = i
      OBVIOUS
    <3>2. <<j, i>> \notin R
      BY <1>2
    <3>. QED
      BY <3>1, <3>2 DEF R
  <2>. QED
    BY <2>1
<1>. QED
  BY <1>3

(* Induction, for a set of numbers in place of a predicate. *)
LEMMA Inductive ==
  ASSUME NEW n \in Nat, NEW S, 0 \in S,
         \A k \in 0 .. (n - 1) : k \in S => k + 1 \in S
  PROVE  0 .. n \subseteq S
<1>1. SUFFICES ASSUME (0 .. n) \ S # {} PROVE FALSE
  OBVIOUS
<1>2. PICK i \in (0 .. n) \ S : \A j \in (0 .. n) \ S : i <= j
  <2>1. (0 .. n) \ S \in SUBSET Nat
    OBVIOUS
  <2>. QED
    BY <1>1, <2>1, LeastExists
<1>3. i # 0 /\ i - 1 \in 0 .. (n - 1) /\ i - 1 + 1 = i
  BY <1>2
<1>4. i - 1 \in S
  BY <1>2, <1>3
<1>. QED
  BY <1>2, <1>3, <1>4

-----------------------------------------------------------------------------
(* The tables.                                                             *)

Shaped(table, T, max) == \E n \in 0 .. max : table \in [0 .. (n - 1) -> T]

LEMMA SlotsOf ==
  ASSUME NEW n \in Nat, NEW T, NEW table \in [0 .. (n - 1) -> T]
  PROVE  Slots(table) = n /\ IsFiniteSet(DOMAIN table)
<1>1. IsFiniteSet(0 .. (n - 1)) /\ Cardinality(0 .. (n - 1)) = n
  BY FS_Interval
<1>. QED
  BY <1>1 DEF Slots

(* One slot is taken, a free one or one that is new; the others stay as    *)
(* they were, and those that are new are empty.                            *)
TakesSlot(table, new, free, item, empty) ==
  /\ DOMAIN table \subseteq DOMAIN new
  /\ \E at \in DOMAIN new :
       /\ at \in free \/ at \notin DOMAIN table
       /\ new[at] = item
       /\ \A i \in DOMAIN new : i # at =>
            new[i] = IF i \in DOMAIN table THEN table[i] ELSE empty

LEMMA PlacedInTable ==
  ASSUME NEW T, NEW max \in Nat \ {0}, NEW table, Shaped(table, T, max),
         NEW free \in SUBSET (DOMAIN table), NEW item \in T, NEW empty \in T,
         free = {} => 2 * Slots(table) <= max,
         NEW new, new = Placed(table, free, item, empty)
  PROVE  Shaped(new, T, max) /\ TakesSlot(table, new, free, item, empty)
<1>1. PICK n \in Nat : n <= max /\ table \in [0 .. (n - 1) -> T]
  <2>1. PICK n \in 0 .. max : table \in [0 .. (n - 1) -> T]
    BY DEF Shaped
  <2>2. n \in Nat /\ n <= max
    OBVIOUS
  <2>. QED
    BY <2>1, <2>2
<1>2. Slots(table) = n /\ DOMAIN table = 0 .. (n - 1)
  BY <1>1, SlotsOf
<1>3. CASE free # {}
  <2>1. PICK at : at = CHOOSE i \in free : \A j \in free : i <= j
    OBVIOUS
  <2>2. at \in free
    <3>1. \E i \in free : \A j \in free : i <= j
      <4>1. free \in SUBSET Nat
        BY <1>2
      <4>. QED
        BY <1>3, <4>1, LeastExists
    <3>. QED
      BY <2>1, <3>1, Zenon
  <2>3. new = [table EXCEPT ![at] = item]
    BY <1>3, <2>1 DEF Placed
  <2>. QED
    BY <1>1, <1>2, <2>2, <2>3 DEF Shaped, TakesSlot
<1>4. CASE free = {}
  <2>1. PICK m \in Nat : m = (IF n = 0 THEN 1 ELSE 2 * n) /\ n < m /\ m <= max
    BY <1>1, <1>2, <1>4
  <2>2. new = [i \in 0 .. (m - 1) |->
                IF i < n THEN table[i] ELSE IF i = n THEN item ELSE empty]
    <3>1. (IF n = 0 THEN 0 ELSE 2 * n - 1) = m - 1
      BY <2>1
    <3>. QED
      BY <1>2, <1>4, <3>1 DEF Placed
  <2>3. new \in [0 .. (m - 1) -> T] /\ DOMAIN new = 0 .. (m - 1)
    BY <1>1, <2>2
  <2>4. n \in DOMAIN new /\ n \notin DOMAIN table /\ new[n] = item
    BY <1>2, <2>1, <2>2
  <2>5. \A i \in DOMAIN new : i # n =>
          new[i] = IF i \in DOMAIN table THEN table[i] ELSE empty
    BY <1>2, <2>2
  <2>6. Shaped(new, T, max) /\ DOMAIN table \subseteq DOMAIN new
    <3>1. m \in 0 .. max
      BY <2>1
    <3>2. Shaped(new, T, max)
      BY <2>3, <3>1, Zenon DEF Shaped
    <3>3. \A i \in 0 .. (n - 1) : i \in 0 .. (m - 1)
      BY <2>1
    <3>. QED
      BY <1>2, <2>3, <3>2, <3>3
  <2>. QED
    BY <2>4, <2>5, <2>6 DEF TakesSlot
<1>. QED
  BY <1>3, <1>4

-----------------------------------------------------------------------------
(* The inductive invariant.                                                *)

Tables ==
  /\ Shaped(buffer, Buffers, MaxBuffers) /\ Shaped(player, Players, MaxPlayers)
  /\ script \in Scripts
  /\ status \in {"running", "failed", "strayed", "overrun"}
  /\ handed \in Int /\ first \in BOOLEAN

(* What a player that is not free is wired to is there. *)
Seated(p) ==
  /\ \A r \in Roles : p.use[r] \in Nat
  /\ \A r \in Roles : BufferOf(p, r) >= 0 => Used(BufferOf(p, r))
  /\ \A r \in {"vol", "phase", "speed"} : p.at[r] \in 0 .. (SizeOf(p, r) - 1)

AllSeated == \A i \in DOMAIN player : Live(i) => Seated(player[i])

IInv == Tables /\ AllSeated /\ RefsCover

LEMMA TablesTyped ==
  ASSUME Tables
  PROVE  /\ IsFiniteSet(DOMAIN buffer) /\ IsFiniteSet(DOMAIN player)
         /\ \A b \in DOMAIN buffer :
              /\ b \in Nat /\ buffer[b] \in Buffers
              /\ buffer[b].size \in Nat /\ buffer[b].ref \in Int
         /\ \A i \in DOMAIN player : i \in Nat /\ player[i] \in Players
<1>1. PICK n \in 0 .. MaxBuffers : buffer \in [0 .. (n - 1) -> Buffers]
  BY DEF Tables, Shaped
<1>2. PICK m \in 0 .. MaxPlayers : player \in [0 .. (m - 1) -> Players]
  BY DEF Tables, Shaped
<1>3. n \in Nat /\ m \in Nat
  OBVIOUS
<1>4. IsFiniteSet(DOMAIN buffer) /\ IsFiniteSet(DOMAIN player)
  BY <1>1, <1>2, <1>3, SlotsOf
<1>5. ASSUME NEW b \in DOMAIN buffer PROVE b \in Nat /\ buffer[b] \in Buffers
  BY <1>1, <1>5
<1>6. ASSUME NEW i \in DOMAIN player PROVE i \in Nat /\ player[i] \in Players
  BY <1>2, <1>6
<1>. QED
  BY <1>4, <1>5, <1>6 DEF Buffers

LEMMA InvariantHas ==
  ASSUME IInv
  PROVE  TypeOK /\ RefsCover /\ SourcesReadable
<1>1. PICK n \in 0 .. MaxBuffers : buffer \in [0 .. (n - 1) -> Buffers]
  BY DEF IInv, Tables, Shaped
<1>2. PICK m \in 0 .. MaxPlayers : player \in [0 .. (m - 1) -> Players]
  BY DEF IInv, Tables, Shaped
<1>3. /\ n \in Nat /\ n <= MaxBuffers /\ m \in Nat /\ m <= MaxPlayers
  BY ConstantsAssumption
<1>4. Slots(buffer) = n /\ Slots(player) = m
  BY <1>1, <1>2, <1>3, SlotsOf
<1>5. TypeOK
  BY <1>1, <1>2, <1>3, <1>4 DEF TypeOK, IInv, Tables
<1>6. SourcesReadable
  BY DEF SourcesReadable, IInv, AllSeated, Seated
<1>. QED
  BY <1>5, <1>6 DEF IInv

-----------------------------------------------------------------------------
(* References are counted.                                                 *)

LEMMA RolesCounted ==
  /\ IsFiniteSet(Roles) /\ IsFiniteSet(Sources)
  /\ Cardinality(Sources) \in Nat
  /\ Roles = Sources \cup {"out"} /\ "out" \notin Sources /\ "in" \in Sources
<1>1. IsFiniteSet({}) /\ Roles = (((({} \cup {"in"}) \cup {"out"}) \cup {"vol"}) \cup {"phase"}) \cup {"speed"}
  BY FS_EmptySet DEF Roles
<1>2. IsFiniteSet(Roles)
  BY <1>1, FS_AddElement
<1>3. Sources \in SUBSET Roles
  BY DEF Sources
<1>4. IsFiniteSet(Sources)
  BY <1>2, <1>3, FS_Subset
<1>5. Cardinality(Sources) \in Nat
  BY <1>4, FS_CardinalityType
<1>. QED
  BY <1>2, <1>4, <1>5 DEF Roles, Sources

(* As many pairs of i and an element of S as S has elements. *)
LEMMA PairsCounted ==
  ASSUME NEW S, IsFiniteSet(S), NEW i
  PROVE  IsFiniteSet({i} \X S) /\ Cardinality({i} \X S) = Cardinality(S)
<1>1. IsFiniteSet({i}) /\ Cardinality({i}) = 1 /\ Cardinality(S) \in Nat
  BY FS_Singleton, FS_CardinalityType
<1>. QED
  BY <1>1, FS_Product

LEMMA UsesCounted ==
  ASSUME Tables, NEW b
  PROVE  IsFiniteSet(Uses(b)) /\ Cardinality(Uses(b)) \in Nat
<1>1. IsFiniteSet((DOMAIN player) \X Roles)
  BY TablesTyped, RolesCounted, FS_Product
<1>2. Uses(b) \in SUBSET ((DOMAIN player) \X Roles)
  BY DEF Uses
<1>3. IsFiniteSet(Uses(b))
  BY <1>1, <1>2, FS_Subset
<1>. QED
  BY <1>3, FS_CardinalityType

(* Nobody uses a slot without a buffer. *)
LEMMA Unused ==
  ASSUME IInv, NEW b \in Nat, ~Used(b)
  PROVE  Uses(b) = {} /\ Cardinality(Uses(b)) = 0
<1>1. Uses(b) = {}
  BY DEF Uses, IInv, AllSeated, Seated
<1>. QED
  BY <1>1, FS_EmptySet

(* A buffer that is not referred to is not used. *)
LEMMA Unreferenced ==
  ASSUME IInv, NEW b \in DOMAIN buffer, buffer[b].ref <= 0
  PROVE  /\ Uses(b) = {}
         /\ \A i \in DOMAIN player : \A r \in Roles :
              Live(i) => BufferOf(player[i], r) # b
<1>1. /\ buffer[b].ref \in Int
      /\ buffer[b].ref >= Cardinality(Uses(b))
      /\ IsFiniteSet(Uses(b)) /\ Cardinality(Uses(b)) \in Nat
  BY TablesTyped, UsesCounted DEF IInv, RefsCover
<1>2. Uses(b) = {}
  <2>1. Cardinality(Uses(b)) = 0
    BY <1>1
  <2>. QED
    BY <1>1, <2>1, FS_EmptySet
<1>3. ASSUME NEW i \in DOMAIN player, NEW r \in Roles, Live(i), BufferOf(player[i], r) = b
      PROVE  FALSE
  <2>1. <<i, r>> \in Uses(b)
    BY <1>3 DEF Uses
  <2>. QED
    BY <1>2, <2>1
<1>. QED
  BY <1>2, <1>3

-----------------------------------------------------------------------------
(* Every step keeps the invariant.                                         *)

(* A player that stays as it is, is seated as long as what it uses is not  *)
(* touched.                                                                *)
LEMMA SeatedStays ==
  ASSUME NEW p, Seated(p),
         \A r \in Roles : Used(BufferOf(p, r)) =>
           /\ Used(BufferOf(p, r))'
           /\ buffer'[BufferOf(p, r)].size = buffer[BufferOf(p, r)].size
  PROVE  Seated(p)'
<1>1. \A r \in Roles : BufferOf(p, r) >= 0 => Used(BufferOf(p, r))'
  BY DEF Seated
<1>2. ASSUME NEW r \in {"vol", "phase", "speed"}
      PROVE  p.at[r] \in 0 .. (buffer'[p.use[r]].size - 1)
  <2>1. r \in Roles /\ BufferOf(p, r) = p.use[r]
    BY <1>2 DEF Roles, BufferOf
  <2>2. p.use[r] \in Nat
    BY <2>1 DEF Seated
  <2>3. Used(p.use[r])
    BY <2>1, <2>2 DEF Seated
  <2>4. buffer'[p.use[r]].size = buffer[p.use[r]].size
    BY <2>1, <2>3
  <2>. QED
    BY <2>4 DEF Seated, SizeOf
<1>3. Seated(p)' <=>
        /\ \A r \in Roles : p.use[r] \in Nat
        /\ \A r \in Roles : BufferOf(p, r) >= 0 => Used(BufferOf(p, r))'
        /\ \A r \in {"vol", "phase", "speed"} :
             p.at[r] \in 0 .. (buffer'[p.use[r]].size - 1)
  BY DEF Seated, SizeOf, BufferOf, Used
<1>. QED
  BY <1>1, <1>2, <1>3 DEF Seated

LEMMA AddBufferKeeps ==
  ASSUME IInv, NEW size \in Sizes, AddBuffer(size)
  PROVE  IInv'
<1>1. /\ size \in Nat /\ size >= 2
      /\ FreeBuffers = {} => 2 * Slots(buffer) <= MaxBuffers
      /\ buffer' = Placed(buffer, FreeBuffers, [size |-> size, ref |-> 0], Empty)
      /\ UNCHANGED <<player, script, status, handed, first>>
  BY ConstantsAssumption DEF AddBuffer
<1>2. /\ [size |-> size, ref |-> 0] \in Buffers /\ Empty \in Buffers
      /\ FreeBuffers \in SUBSET (DOMAIN buffer)
      /\ Shaped(buffer, Buffers, MaxBuffers) /\ MaxBuffers \in Nat \ {0}
  BY <1>1, ConstantsAssumption DEF Buffers, Empty, FreeBuffers, IInv, Tables
<1>3. /\ Shaped(buffer', Buffers, MaxBuffers)
      /\ TakesSlot(buffer, buffer', FreeBuffers, [size |-> size, ref |-> 0], Empty)
  BY <1>1, <1>2, PlacedInTable
<1>4. PICK at \in DOMAIN buffer' :
        /\ at \in FreeBuffers \/ at \notin DOMAIN buffer
        /\ buffer'[at] = [size |-> size, ref |-> 0]
        /\ \A i \in DOMAIN buffer' : i # at =>
             buffer'[i] = IF i \in DOMAIN buffer THEN buffer[i] ELSE Empty
  BY <1>3 DEF TakesSlot
<1>5. ~Used(at)
  BY <1>4 DEF FreeBuffers, Used
<1>6. Tables'
  BY <1>1, <1>3 DEF IInv, Tables, Shaped
<1>7. ASSUME NEW b, Used(b) PROVE Used(b)' /\ buffer'[b] = buffer[b]
  <2>1. b # at /\ b \in DOMAIN buffer /\ b \in DOMAIN buffer'
    BY <1>3, <1>5, <1>7 DEF Used, TakesSlot
  <2>. QED
    BY <1>4, <1>7, <2>1 DEF Used
<1>8. AllSeated'
  <2>1. ASSUME NEW i \in DOMAIN player, Live(i) PROVE Seated(player[i])'
    <3>1. PICK p : p = player[i]
      OBVIOUS
    <3>2. Seated(p)
      BY <2>1, <3>1 DEF IInv, AllSeated
    <3>3. Seated(p)'
      BY <1>7, <3>2, SeatedStays
    <3>. QED
      BY <1>1, <3>1, <3>3
  <2>. QED
    BY <1>1, <2>1 DEF AllSeated, Live
<1>9. RefsCover'
  <2>1. ASSUME NEW b \in DOMAIN buffer'
        PROVE  /\ buffer'[b].ref >= Cardinality(Uses(b))
               /\ ~first => buffer'[b].ref = Cardinality(Uses(b))
    <3>1. b \in Nat
      BY <1>3, <2>1 DEF Shaped
    <3>2. CASE b \in DOMAIN buffer /\ b # at
      BY <1>4, <3>2 DEF IInv, RefsCover
    <3>3. CASE b = at
      BY <1>4, <1>5, <3>1, <3>3, Unused
    <3>4. CASE b \notin DOMAIN buffer /\ b # at
      BY <1>4, <3>1, <3>4, Unused DEF Empty, Used
    <3>. QED
      BY <3>2, <3>3, <3>4
  <2>2. \A b : Uses(b)' = Uses(b)
    BY <1>1 DEF Uses, Live, BufferOf
  <2>. QED
    BY <1>1, <2>1, <2>2 DEF RefsCover
<1>. QED
  BY <1>6, <1>8, <1>9 DEF IInv

LEMMA FreeBufferKeeps ==
  ASSUME IInv, NEW b \in DOMAIN buffer, FreeBuffer(b)
  PROVE  IInv'
<1>1. /\ buffer[b].ref = 0
      /\ buffer' = [buffer EXCEPT ![b].size = 0]
      /\ UNCHANGED <<player, script, status, handed, first>>
  BY DEF FreeBuffer
<1>2. \A c \in DOMAIN buffer : buffer[c] \in Buffers
  BY TablesTyped DEF IInv
<1>3. /\ DOMAIN buffer' = DOMAIN buffer
      /\ \A c \in DOMAIN buffer : /\ buffer'[c].ref = buffer[c].ref
                                  /\ c # b => buffer'[c] = buffer[c]
                                  /\ buffer'[c] \in Buffers
  BY <1>1, <1>2 DEF Buffers
<1>4. Tables'
  <2>1. PICK n \in 0 .. MaxBuffers : buffer \in [0 .. (n - 1) -> Buffers]
    BY DEF IInv, Tables, Shaped
  <2>2. buffer' \in [0 .. (n - 1) -> Buffers]
    BY <1>1, <1>3, <2>1
  <2>. QED
    BY <1>1, <2>2 DEF IInv, Tables, Shaped
<1>5. AllSeated'
  <2>1. ASSUME NEW i \in DOMAIN player, Live(i) PROVE Seated(player[i])'
    <3>1. PICK p : p = player[i]
      OBVIOUS
    <3>2. Seated(p)
      BY <2>1, <3>1 DEF IInv, AllSeated
    <3>3. \A r \in Roles : BufferOf(p, r) # b
      BY <1>1, <2>1, <3>1, Unreferenced
    <3>4. \A r \in Roles : Used(BufferOf(p, r)) =>
            /\ Used(BufferOf(p, r))'
            /\ buffer'[BufferOf(p, r)].size = buffer[BufferOf(p, r)].size
      <4>1. ASSUME NEW c, c # b, Used(c)
            PROVE  Used(c)' /\ buffer'[c].size = buffer[c].size
        BY <1>3, <4>1 DEF Used
      <4>. QED
        BY <3>3, <4>1
    <3>5. Seated(p)'
      BY <3>2, <3>4, SeatedStays
    <3>. QED
      BY <1>1, <3>1, <3>5
  <2>. QED
    BY <1>1, <2>1 DEF AllSeated, Live
<1>6. RefsCover'
  <2>1. \A c : Uses(c)' = Uses(c)
    BY <1>1 DEF Uses, Live, BufferOf
  <2>. QED
    BY <1>1, <1>3, <2>1 DEF IInv, RefsCover
<1>. QED
  BY <1>4, <1>5, <1>6 DEF IInv

(* What the uses of a buffer are. *)
LEMMA UsesAre ==
  ASSUME NEW b, NEW i, NEW r
  PROVE  <<i, r>> \in Uses(b) <=>
           Live(i) /\ r \in Roles /\ BufferOf(player[i], r) = b
BY DEF Uses, Live

LEMMA NewPlayerSeated ==
  ASSUME Tables, NEW b, Used(b)
  PROVE  NewPlayer(b) \in Players /\ Seated(NewPlayer(b))
<1>1. b \in Nat /\ buffer[b].size \in Nat /\ buffer[b].size - 1 \in Nat
  <2>1. buffer[b].size \in Nat /\ buffer[b].size # 0 /\ b \in Nat
    BY TablesTyped DEF Used
  <2>. QED
    BY <2>1
<1>2. [r \in Roles |-> IF r = "out" THEN 0 ELSE b] \in [Roles -> Int]
  BY <1>1
<1>3. [r \in Roles |-> 0] \in [Roles -> Int]
  OBVIOUS
<1>4. NewPlayer(b) \in Players
  BY <1>1, <1>2, <1>3, ConstantsAssumption DEF NewPlayer, Players, Modes, Modulators
<1>5. \A r \in Roles : /\ NewPlayer(b).use[r] = IF r = "out" THEN 0 ELSE b
                       /\ NewPlayer(b).at[r] = 0
  BY DEF NewPlayer
<1>6. ASSUME NEW r \in Roles
      PROVE  BufferOf(NewPlayer(b), r) = IF r = "out" THEN 0 - Channels ELSE b
  BY <1>5 DEF BufferOf
<1>7. \A r \in Roles : BufferOf(NewPlayer(b), r) >= 0 => Used(BufferOf(NewPlayer(b), r))
  BY <1>6, ConstantsAssumption
<1>8. ASSUME NEW r \in {"vol", "phase", "speed"}
      PROVE  NewPlayer(b).at[r] \in 0 .. (SizeOf(NewPlayer(b), r) - 1)
  BY <1>1, <1>5 DEF SizeOf, Roles
<1>. QED
  BY <1>1, <1>4, <1>5, <1>7, <1>8 DEF Seated

LEMMA AddPlayerKeeps ==
  ASSUME IInv, NEW b \in DOMAIN buffer, AddPlayer(b)
  PROVE  IInv'
<1>1. /\ Used(b)
      /\ FreePlayers = {} => 2 * Slots(player) <= MaxPlayers
      /\ player' = Placed(player, FreePlayers, NewPlayer(b), NoPlayer)
      /\ buffer' = [buffer EXCEPT ![b].ref = @ + Cardinality(Sources)]
      /\ handed' = handed + 1
      /\ first' = (first \/ b = 0)
      /\ UNCHANGED <<script, status>>
  BY DEF AddPlayer
<1>2. PICK fresh : fresh = NewPlayer(b)
  OBVIOUS
<1>3. fresh \in Players /\ Seated(fresh) /\ NoPlayer \in Players
  <2>1. NoPlayer \in Players
    BY DEF NoPlayer, Players, Modes, Modulators
  <2>. QED
    BY <1>1, <1>2, <2>1, NewPlayerSeated DEF IInv
<1>4. /\ Shaped(player', Players, MaxPlayers)
      /\ TakesSlot(player, player', FreePlayers, fresh, NoPlayer)
  <2>1. /\ FreePlayers \in SUBSET (DOMAIN player)
        /\ Shaped(player, Players, MaxPlayers) /\ MaxPlayers \in Nat \ {0}
    BY ConstantsAssumption DEF FreePlayers, IInv, Tables
  <2>2. /\ player' = Placed(player, FreePlayers, fresh, NoPlayer)
        /\ FreePlayers = {} => 2 * Slots(player) <= MaxPlayers
    BY <1>1, <1>2
  <2>. QED
    BY <1>3, <2>1, <2>2, PlacedInTable
<1>5. PICK at \in DOMAIN player' :
        /\ at \in FreePlayers \/ at \notin DOMAIN player
        /\ player'[at] = fresh
        /\ \A i \in DOMAIN player' : i # at =>
             player'[i] = IF i \in DOMAIN player THEN player[i] ELSE NoPlayer
  BY <1>4 DEF TakesSlot
<1>6. ~Live(at)
  BY <1>5 DEF FreePlayers, Live
<1>7. \A c \in DOMAIN buffer : buffer[c] \in Buffers /\ c \in Nat /\ buffer[c].ref \in Int
  BY TablesTyped DEF IInv
<1>8. PICK four \in Nat : four = Cardinality(Sources)
  BY RolesCounted
<1>9. /\ DOMAIN buffer' = DOMAIN buffer
      /\ \A c \in DOMAIN buffer : /\ buffer'[c].size = buffer[c].size
                                  /\ c # b => buffer'[c] = buffer[c]
                                  /\ buffer'[c] \in Buffers
      /\ buffer'[b].ref = buffer[b].ref + four
  BY <1>1, <1>7, <1>8 DEF Buffers
<1>10. \A c : /\ Used(c)' <=> Used(c)
              /\ Used(c) => buffer'[c].size = buffer[c].size
  BY <1>9 DEF Used
<1>11. Tables'
  <2>1. PICK n \in 0 .. MaxBuffers : buffer \in [0 .. (n - 1) -> Buffers]
    BY DEF IInv, Tables, Shaped
  <2>2. buffer' \in [0 .. (n - 1) -> Buffers]
    BY <1>1, <1>9, <2>1
  <2>3. Shaped(buffer', Buffers, MaxBuffers)
    BY <2>2 DEF Shaped
  <2>4. handed' \in Int /\ first' \in BOOLEAN
    BY <1>1 DEF IInv, Tables
  <2>5. script' \in Scripts /\ status' \in {"running", "failed", "strayed", "overrun"}
    BY <1>1 DEF IInv, Tables
  <2>. QED
    BY <1>4, <2>3, <2>4, <2>5 DEF Tables, Shaped
<1>12. /\ fresh.use["in"] = b
       /\ \A r \in Roles : BufferOf(fresh, r) = IF r = "out" THEN 0 - Channels ELSE b
  BY <1>2 DEF NewPlayer, BufferOf, Roles
<1>13. ASSUME NEW i
       PROVE  /\ i # at => /\ Live(i)' <=> Live(i)
                           /\ Live(i) => player'[i] = player[i]
              /\ i = at => (Live(i)' <=> b # 0)
  <2>1. CASE i = at
    BY <1>5, <1>6, <1>12, <2>1 DEF Live
  <2>2. CASE i # at
    BY <1>4, <1>5, <2>2 DEF Live, NoPlayer, Roles, TakesSlot
  <2>. QED
    BY <2>1, <2>2
<1>14. AllSeated'
  <2>1. ASSUME NEW p, Seated(p) PROVE Seated(p)'
    BY <1>10, <2>1, SeatedStays
  <2>2. ASSUME NEW i, Live(i)' PROVE Seated(player[i])'
    <3>1. CASE i = at
      <4>1. Seated(fresh)'
        BY <1>3, <2>1
      <4>2. player'[i] = fresh
        BY <1>5, <3>1
      <4>. QED
        BY <4>1, <4>2
    <3>2. CASE i # at
      <4>1. Live(i) /\ player'[i] = player[i] /\ i \in DOMAIN player
        BY <1>13, <2>2, <3>2 DEF Live
      <4>2. PICK p : p = player[i]
        OBVIOUS
      <4>3. Seated(p)
        BY <4>1, <4>2 DEF IInv, AllSeated
      <4>4. Seated(p)'
        BY <2>1, <4>3
      <4>. QED
        BY <4>1, <4>2, <4>4
    <3>. QED
      BY <3>1, <3>2
  <2>. QED
    BY <2>2 DEF AllSeated, Live
<1>15. ASSUME NEW c \in DOMAIN buffer, NEW i, NEW r
       PROVE  <<i, r>> \in Uses(c)' <=>
                \/ <<i, r>> \in Uses(c)
                \/ i = at /\ r \in Sources /\ c = b /\ b # 0
  <2>1. <<i, r>> \in Uses(c)' <=>
          Live(i)' /\ r \in Roles /\ BufferOf(player'[i], r) = c
    BY DEF Uses, Live, BufferOf
  <2>2. CASE i # at
    BY <1>13, <2>1, <2>2, UsesAre
  <2>3. CASE i = at
    <3>1. <<i, r>> \notin Uses(c)
      BY <1>6, <2>3, UsesAre
    <3>2. \A s \in Roles : BufferOf(player'[at], s) = c <=> s # "out" /\ c = b
      BY <1>5, <1>7, <1>12, ConstantsAssumption
    <3>. QED
      BY <1>13, <2>1, <2>3, <3>1, <3>2 DEF Sources
  <2>. QED
    BY <2>2, <2>3
<1>16. RefsCover'
  <2>1. ASSUME NEW c \in DOMAIN buffer
        PROVE  /\ buffer'[c].ref >= Cardinality(Uses(c)')
               /\ ~first' => buffer'[c].ref = Cardinality(Uses(c)')
    <3>1. /\ buffer[c].ref >= Cardinality(Uses(c)) /\ buffer[c].ref \in Int
          /\ ~first => buffer[c].ref = Cardinality(Uses(c))
          /\ IsFiniteSet(Uses(c)) /\ Cardinality(Uses(c)) \in Nat
      BY <1>7, UsesCounted DEF IInv, RefsCover
    <3>2. CASE c # b \/ b = 0
      <4>1. Uses(c)' = Uses(c)
        BY <1>15, <3>2 DEF Uses
      <4>2. \/ c # b /\ buffer'[c].ref = buffer[c].ref /\ (~first' => ~first)
            \/ c = b /\ b = 0 /\ first' /\ buffer'[c].ref = buffer[c].ref + four
        BY <1>1, <1>9, <3>2
      <4>. QED
        BY <3>1, <4>1, <4>2
    <3>3. CASE c = b /\ b # 0
      <4>1. Uses(c)' = Uses(c) \cup ({at} \X Sources)
        BY <1>15, <3>3 DEF Uses
      <4>2. Uses(c) \cap ({at} \X Sources) = {}
        BY <1>6 DEF Uses
      <4>3. IsFiniteSet({at} \X Sources) /\ Cardinality({at} \X Sources) = four
        BY <1>8, RolesCounted, PairsCounted
      <4>4. Cardinality(Uses(c)') = Cardinality(Uses(c)) + four
        <5>1. Cardinality(Uses(c) \cup ({at} \X Sources))
                = Cardinality(Uses(c)) + Cardinality({at} \X Sources) - Cardinality({})
          BY <3>1, <4>2, <4>3, FS_Union
        <5>. QED
          BY <3>1, <4>1, <4>3, <5>1, FS_EmptySet
      <4>5. buffer'[c].ref = buffer[c].ref + four /\ (~first' => ~first)
        BY <1>1, <1>9, <3>3
      <4>. QED
        BY <3>1, <4>4, <4>5
    <3>. QED
      BY <3>2, <3>3
  <2>. QED
    BY <1>9, <2>1 DEF RefsCover
<1>. QED
  BY <1>11, <1>14, <1>16 DEF IInv

(* The references of the players that stay are not disturbed when only     *)
(* references are counted anew.                                            *)
LEMMA FreePlayerKeeps ==
  ASSUME IInv, NEW i \in DOMAIN player, FreePlayer(i)
  PROVE  IInv'
<1>. DEFINE Mine(b) == {r \in Roles : BufferOf(player[i], r) = b}
<1>1. /\ Live(i)
      /\ buffer' = [b \in DOMAIN buffer |->
                     [buffer[b] EXCEPT !.ref = @ - Cardinality(Mine(b))]]
      /\ player' = [player EXCEPT ![i] = NoPlayer]
      /\ handed' = handed - 1
      /\ UNCHANGED <<script, status, first>>
  BY DEF FreePlayer
<1>2. \A c \in DOMAIN buffer : buffer[c] \in Buffers /\ c \in Nat /\ buffer[c].ref \in Int
  BY TablesTyped DEF IInv
<1>3. \A c : IsFiniteSet(Mine(c)) /\ Cardinality(Mine(c)) \in Nat
  <2>1. ASSUME NEW c PROVE IsFiniteSet(Mine(c)) /\ Cardinality(Mine(c)) \in Nat
    <3>1. Mine(c) \in SUBSET Roles
      OBVIOUS
    <3>2. IsFiniteSet(Mine(c))
      BY <3>1, RolesCounted, FS_Subset
    <3>. QED
      BY <3>2, FS_CardinalityType
  <2>. QED
    BY <2>1
<1>. HIDE DEF Mine
<1>4. /\ DOMAIN buffer' = DOMAIN buffer
      /\ \A c \in DOMAIN buffer :
           /\ buffer'[c].size = buffer[c].size
           /\ buffer'[c].ref = buffer[c].ref - Cardinality(Mine(c))
           /\ buffer'[c] \in Buffers
  BY <1>1, <1>2, <1>3 DEF Buffers
<1>5. \A c : /\ Used(c)' <=> Used(c)
             /\ Used(c) => buffer'[c].size = buffer[c].size
  BY <1>4 DEF Used
<1>6. Tables'
  <2>1. PICK n \in 0 .. MaxBuffers : buffer \in [0 .. (n - 1) -> Buffers]
    BY DEF IInv, Tables, Shaped
  <2>2. buffer' \in [0 .. (n - 1) -> Buffers]
    BY <1>1, <1>4, <2>1
  <2>3. PICK m \in 0 .. MaxPlayers : player \in [0 .. (m - 1) -> Players]
    BY DEF IInv, Tables, Shaped
  <2>4. NoPlayer \in Players
    BY DEF NoPlayer, Players, Modes, Modulators
  <2>5. player' \in [0 .. (m - 1) -> Players]
    BY <1>1, <2>3, <2>4
  <2>6. handed' \in Int
    BY <1>1 DEF IInv, Tables
  <2>. QED
    BY <1>1, <2>2, <2>5, <2>6 DEF IInv, Tables, Shaped
<1>7. /\ ~Live(i)'
      /\ \A j : j # i => /\ Live(j)' <=> Live(j)
                         /\ Live(j) => player'[j] = player[j]
  BY <1>1 DEF Live, NoPlayer, Roles
<1>8. AllSeated'
  <2>1. ASSUME NEW j, Live(j)' PROVE Seated(player[j])'
    <3>1. Live(j) /\ player'[j] = player[j] /\ j \in DOMAIN player
      BY <1>7, <2>1 DEF Live
    <3>2. PICK p : p = player[j]
      OBVIOUS
    <3>3. Seated(p)
      BY <3>1, <3>2 DEF IInv, AllSeated
    <3>4. Seated(p)'
      BY <1>5, <3>3, SeatedStays
    <3>. QED
      BY <3>1, <3>2, <3>4
  <2>. QED
    BY <2>1 DEF AllSeated, Live
<1>9. ASSUME NEW c, NEW j, NEW r
      PROVE  <<j, r>> \in Uses(c)' <=> <<j, r>> \in Uses(c) /\ j # i
  <2>1. <<j, r>> \in Uses(c)' <=>
          Live(j)' /\ r \in Roles /\ BufferOf(player'[j], r) = c
    BY DEF Uses, Live, BufferOf
  <2>. QED
    BY <1>7, <2>1, UsesAre
<1>10. RefsCover'
  <2>1. ASSUME NEW c \in DOMAIN buffer
        PROVE  /\ buffer'[c].ref >= Cardinality(Uses(c)')
               /\ ~first' => buffer'[c].ref = Cardinality(Uses(c)')
    <3>1. /\ buffer[c].ref >= Cardinality(Uses(c)) /\ buffer[c].ref \in Int
          /\ ~first => buffer[c].ref = Cardinality(Uses(c))
          /\ IsFiniteSet(Uses(c)) /\ Cardinality(Uses(c)) \in Nat
      BY <1>2, UsesCounted DEF IInv, RefsCover
    <3>2. Uses(c)' = Uses(c) \ ({i} \X Mine(c))
      BY <1>1, <1>9 DEF Uses, Mine
    <3>3. Uses(c) \cap ({i} \X Mine(c)) = {i} \X Mine(c)
      BY <1>1 DEF Uses, Mine
    <3>4. /\ Cardinality({i} \X Mine(c)) = Cardinality(Mine(c))
          /\ Cardinality(Mine(c)) \in Nat
      BY <1>3, PairsCounted
    <3>5. Cardinality(Uses(c) \ ({i} \X Mine(c)))
            = Cardinality(Uses(c)) - Cardinality(Uses(c) \cap ({i} \X Mine(c)))
      BY <3>1, FS_Difference
    <3>6. Cardinality(Uses(c)') = Cardinality(Uses(c)) - Cardinality(Mine(c))
      BY <3>2, <3>3, <3>4, <3>5
    <3>. QED
      BY <1>1, <1>4, <3>1, <3>4, <3>6
  <2>. QED
    BY <1>4, <2>1 DEF RefsCover
<1>. QED
  BY <1>6, <1>8, <1>10 DEF IInv

(* A player's record with another buffer in a role. *)
WithBuffer(p, r, number) == [p EXCEPT !.use[r] = number, !.at[r] = 0]

LEMMA Rewired ==
  ASSUME NEW p \in Players, NEW r \in Roles, NEW number \in Nat,
         NEW q, q = WithBuffer(p, r, number)
  PROVE  /\ q \in Players
         /\ \A s \in Roles : /\ q.use[s] = IF s = r THEN number ELSE p.use[s]
                             /\ q.at[s] = IF s = r THEN 0 ELSE p.at[s]
<1>1. p.use \in [Roles -> Int] /\ p.at \in [Roles -> Int]
  BY DEF Players
<1>2. PICK use, at : use = [p.use EXCEPT ![r] = number] /\ at = [p.at EXCEPT ![r] = 0]
  OBVIOUS
<1>3. /\ use \in [Roles -> Int] /\ at \in [Roles -> Int]
      /\ \A s \in Roles : /\ use[s] = IF s = r THEN number ELSE p.use[s]
                          /\ at[s] = IF s = r THEN 0 ELSE p.at[s]
  BY <1>1, <1>2
<1>4. q = [p EXCEPT !.use = use, !.at = at]
  BY <1>2 DEF Players, WithBuffer
<1>5. q \in Players /\ q.use = use /\ q.at = at
  BY <1>3, <1>4 DEF Players
<1>. QED
  BY <1>3, <1>5

LEMMA RewireKeeps ==
  ASSUME IInv, NEW i \in DOMAIN player, NEW r \in Roles, NEW number \in Nat,
         Rewire(i, r, number),
         IF r = "out" THEN number < Channels \/ Used(number - Channels) ELSE Used(number)
  PROVE  IInv'
<1>1. PICK old : old = player[i]
  OBVIOUS
<1>2. PICK fresh : fresh = WithBuffer(old, r, number)
  OBVIOUS
<1>3. /\ Live(i)
      /\ player' = [player EXCEPT ![i] = fresh]
      /\ buffer' = [b \in DOMAIN buffer |->
                     [buffer[b] EXCEPT !.ref =
                       @ - One(BufferOf(old, r) = b) + One(BufferOf(fresh, r) = b)]]
      /\ first' = (first \/ (r = "in" /\ number = 0))
      /\ UNCHANGED <<script, status, handed>>
  BY <1>1, <1>2 DEF Rewire, WithBuffer
<1>4. \A c \in DOMAIN buffer : buffer[c] \in Buffers /\ c \in Nat /\ buffer[c].ref \in Int
  BY TablesTyped DEF IInv
<1>5. old \in Players /\ Seated(old)
  BY <1>1, <1>3, TablesTyped DEF IInv, AllSeated
<1>6. /\ fresh \in Players
      /\ \A s \in Roles : /\ fresh.use[s] = IF s = r THEN number ELSE old.use[s]
                          /\ fresh.at[s] = IF s = r THEN 0 ELSE old.at[s]
  <2>1. /\ fresh \in Players
        /\ \A s \in Roles : /\ fresh.use[s] = IF s = r THEN number ELSE old.use[s]
                            /\ fresh.at[s] = IF s = r THEN 0 ELSE old.at[s]
    BY <1>2, <1>5, Rewired
  <2>. QED
    BY <2>1
<1>7. /\ \A s \in Roles : s # r => BufferOf(fresh, s) = BufferOf(old, s)
      /\ BufferOf(fresh, r) = IF r = "out" THEN number - Channels ELSE number
  BY <1>6 DEF BufferOf
<1>8. /\ DOMAIN buffer' = DOMAIN buffer
      /\ \A c \in DOMAIN buffer :
           /\ buffer'[c].size = buffer[c].size
           /\ buffer'[c].ref = buffer[c].ref - One(BufferOf(old, r) = c)
                                 + One(BufferOf(fresh, r) = c)
           /\ buffer'[c] \in Buffers
  <2>1. ASSUME NEW c \in DOMAIN buffer
        PROVE  /\ buffer'[c].size = buffer[c].size
               /\ buffer'[c].ref = buffer[c].ref - One(BufferOf(old, r) = c)
                                     + One(BufferOf(fresh, r) = c)
               /\ buffer'[c] \in Buffers
    <3>1. PICK from \in Int, to \in Int :
            from = One(BufferOf(old, r) = c) /\ to = One(BufferOf(fresh, r) = c)
      BY DEF One
    <3>2. buffer'[c] = [buffer[c] EXCEPT !.ref = @ - from + to]
      BY <1>3, <3>1
    <3>. QED
      BY <1>4, <3>1, <3>2 DEF Buffers
  <2>. QED
    BY <1>3, <2>1
<1>9. \A c : /\ Used(c)' <=> Used(c)
             /\ Used(c) => buffer'[c].size = buffer[c].size
  BY <1>8 DEF Used
<1>10. Tables'
  <2>1. PICK n \in 0 .. MaxBuffers : buffer \in [0 .. (n - 1) -> Buffers]
    BY DEF IInv, Tables, Shaped
  <2>2. buffer' \in [0 .. (n - 1) -> Buffers]
    BY <1>3, <1>8, <2>1
  <2>3. PICK m \in 0 .. MaxPlayers : player \in [0 .. (m - 1) -> Players]
    BY DEF IInv, Tables, Shaped
  <2>4. player' \in [0 .. (m - 1) -> Players]
    BY <1>3, <1>6, <2>3
  <2>5. first' \in BOOLEAN
    BY <1>3 DEF IInv, Tables
  <2>. QED
    BY <1>3, <2>2, <2>4, <2>5 DEF IInv, Tables, Shaped
<1>11. Seated(fresh)
  <2>1. \A s \in Roles : fresh.use[s] \in Nat
    BY <1>5, <1>6 DEF Seated
  <2>2. ASSUME NEW s \in Roles, BufferOf(fresh, s) >= 0 PROVE Used(BufferOf(fresh, s))
    <3>1. CASE s = r
      BY <1>7, <2>2, <3>1, ConstantsAssumption
    <3>2. CASE s # r
      BY <1>5, <1>7, <2>2, <3>2 DEF Seated
    <3>. QED
      BY <3>1, <3>2
  <2>3. ASSUME NEW s \in {"vol", "phase", "speed"}
        PROVE  fresh.at[s] \in 0 .. (SizeOf(fresh, s) - 1)
    <3>1. s \in Roles /\ s # "out"
      BY <2>3 DEF Roles
    <3>2. CASE s = r
      <4>1. fresh.use[s] = number /\ fresh.at[s] = 0 /\ Used(number)
        BY <1>6, <3>1, <3>2
      <4>2. buffer[number].size \in Nat /\ buffer[number].size # 0
        BY <4>1, TablesTyped DEF Used, IInv
      <4>. QED
        BY <4>1, <4>2 DEF SizeOf
    <3>3. CASE s # r
      BY <1>5, <1>6, <3>1, <3>3 DEF Seated, SizeOf
    <3>. QED
      BY <3>2, <3>3
  <2>. QED
    BY <2>1, <2>2, <2>3 DEF Seated
<1>12. /\ player'[i] = fresh /\ DOMAIN player' = DOMAIN player
       /\ \A j : j # i => /\ Live(j)' <=> Live(j)
                          /\ Live(j) => player'[j] = player[j]
       /\ Live(i)' <=> fresh.use["in"] # 0
  BY <1>3 DEF Live
<1>13. AllSeated'
  <2>1. ASSUME NEW p, Seated(p) PROVE Seated(p)'
    BY <1>9, <2>1, SeatedStays
  <2>2. ASSUME NEW j, Live(j)' PROVE Seated(player[j])'
    <3>1. CASE j = i
      <4>1. Seated(fresh)'
        BY <1>11, <2>1
      <4>. QED
        BY <1>12, <3>1, <4>1
    <3>2. CASE j # i
      <4>1. Live(j) /\ player'[j] = player[j] /\ j \in DOMAIN player
        BY <1>12, <2>2, <3>2 DEF Live
      <4>2. PICK p : p = player[j]
        OBVIOUS
      <4>3. Seated(p)
        BY <4>1, <4>2 DEF IInv, AllSeated
      <4>4. Seated(p)'
        BY <2>1, <4>3
      <4>. QED
        BY <4>1, <4>2, <4>4
    <3>. QED
      BY <3>1, <3>2
  <2>. QED
    BY <2>2 DEF AllSeated, Live
<1>14. ASSUME NEW c, NEW j, NEW s
       PROVE  /\ <<j, s>> # <<i, r>> =>
                   (<<j, s>> \in Uses(c)' => <<j, s>> \in Uses(c))
              /\ <<j, s>> # <<i, r>> /\ Live(i)' =>
                   (<<j, s>> \in Uses(c) => <<j, s>> \in Uses(c)')
              /\ <<i, r>> \in Uses(c) <=> BufferOf(old, r) = c
              /\ <<i, r>> \in Uses(c)' <=> Live(i)' /\ BufferOf(fresh, r) = c
  <2>1. /\ <<j, s>> \in Uses(c)' <=>
             Live(j)' /\ s \in Roles /\ BufferOf(player'[j], s) = c
        /\ <<i, r>> \in Uses(c)' <=>
             Live(i)' /\ r \in Roles /\ BufferOf(player'[i], r) = c
    BY DEF Uses, Live, BufferOf
  <2>2. /\ <<j, s>> \in Uses(c) <=> Live(j) /\ s \in Roles /\ BufferOf(player[j], s) = c
        /\ <<i, r>> \in Uses(c) <=> Live(i) /\ r \in Roles /\ BufferOf(player[i], r) = c
    BY UsesAre
  <2>3. CASE j = i
    BY <1>1, <1>3, <1>7, <1>12, <2>1, <2>2, <2>3
  <2>4. CASE j # i
    BY <1>1, <1>3, <1>12, <2>1, <2>2, <2>4
  <2>. QED
    BY <2>3, <2>4
<1>15. RefsCover'
  <2>1. ASSUME NEW c \in DOMAIN buffer
        PROVE  /\ buffer'[c].ref >= Cardinality(Uses(c)')
               /\ ~first' => buffer'[c].ref = Cardinality(Uses(c)')
    <3>1. PICK from, to : from = One(BufferOf(old, r) = c) /\ to = One(BufferOf(fresh, r) = c)
      OBVIOUS
    <3>2. /\ from = (IF BufferOf(old, r) = c THEN 1 ELSE 0)
          /\ to = (IF BufferOf(fresh, r) = c THEN 1 ELSE 0)
          /\ from \in Nat /\ to \in Nat
          /\ buffer'[c].ref = buffer[c].ref - from + to
      BY <1>8, <3>1 DEF One
    <3>3. /\ buffer[c].ref >= Cardinality(Uses(c)) /\ buffer[c].ref \in Int
          /\ ~first => buffer[c].ref = Cardinality(Uses(c))
          /\ IsFiniteSet(Uses(c)) /\ Cardinality(Uses(c)) \in Nat
      BY <1>4, UsesCounted DEF IInv, RefsCover
    <3>4. PICK rest : rest = Uses(c) \ {<<i, r>>}
      OBVIOUS
    <3>5. /\ IsFiniteSet(rest) /\ Cardinality(rest) = Cardinality(Uses(c)) - from
          /\ Cardinality(rest) \in Nat
      <4>1. <<i, r>> \in Uses(c) <=> BufferOf(old, r) = c
        BY <1>14
      <4>2. /\ IsFiniteSet(rest)
            /\ Cardinality(rest) = IF <<i, r>> \in Uses(c) THEN Cardinality(Uses(c)) - 1
                                   ELSE Cardinality(Uses(c))
        BY <3>3, <3>4, FS_RemoveElement
      <4>3. Cardinality(rest) \in Nat
        BY <4>2, FS_CardinalityType
      <4>. QED
        BY <3>2, <3>3, <4>1, <4>2, <4>3
    <3>6. CASE Live(i)'
      <4>1. Uses(c)' = IF BufferOf(fresh, r) = c THEN rest \cup {<<i, r>>} ELSE rest
        BY <1>14, <3>4, <3>6 DEF Uses
      <4>2. <<i, r>> \notin rest
        BY <3>4
      <4>3. Cardinality(Uses(c)') = Cardinality(rest) + to
        <5>1. Cardinality(rest \cup {<<i, r>>}) = Cardinality(rest) + 1
          BY <3>5, <4>2, FS_AddElement
        <5>. QED
          BY <3>2, <3>5, <4>1, <5>1
      <4>4. ~first' => ~first
        BY <1>3
      <4>. QED
        BY <3>2, <3>3, <3>5, <4>3, <4>4
    <3>7. CASE ~Live(i)'
      <4>1. r = "in" /\ number = 0 /\ first'
        <5>1. fresh.use["in"] = 0
          BY <1>12, <3>7
        <5>2. old.use["in"] # 0 /\ "in" \in Roles
          BY <1>1, <1>3 DEF Live, Roles
        <5>. QED
          BY <1>3, <1>6, <5>1, <5>2
      <4>2. Uses(c)' \in SUBSET rest
        BY <1>14, <3>4, <3>7 DEF Uses
      <4>3. Cardinality(Uses(c)') <= Cardinality(rest) /\ Cardinality(Uses(c)') \in Nat
        BY <3>5, <4>2, FS_Subset, FS_CardinalityType
      <4>. QED
        BY <3>2, <3>3, <3>5, <4>1, <4>3
    <3>. QED
      BY <3>6, <3>7
  <2>. QED
    BY <1>8, <2>1 DEF RefsCover
<1>. QED
  BY <1>10, <1>13, <1>15 DEF IInv

(* A player whose settings or positions change, and not its buffers. *)
LEMMA ResettledKeeps ==
  ASSUME IInv, NEW i \in DOMAIN player, Live(i),
         NEW p \in Players, p.use = player[i].use, Seated(p),
         player' = [player EXCEPT ![i] = p],
         UNCHANGED <<buffer, script, status, handed, first>>
  PROVE  IInv'
<1>1. Tables'
  <2>1. PICK m \in 0 .. MaxPlayers : player \in [0 .. (m - 1) -> Players]
    BY DEF IInv, Tables, Shaped
  <2>2. player' \in [0 .. (m - 1) -> Players]
    BY <2>1
  <2>. QED
    BY <2>2 DEF IInv, Tables, Shaped
<1>2. \A c : Used(c)' <=> Used(c)
  BY DEF Used
<1>3. /\ DOMAIN player' = DOMAIN player
      /\ \A j : Live(j)' <=> Live(j)
      /\ \A j \in DOMAIN player : /\ player'[j] = IF j = i THEN p ELSE player[j]
                                  /\ player'[j].use = player[j].use
  BY DEF Live
<1>4. AllSeated'
  <2>1. ASSUME NEW q, Seated(q) PROVE Seated(q)'
    BY <1>2, <2>1, SeatedStays
  <2>2. ASSUME NEW j \in DOMAIN player, Live(j) PROVE Seated(player[j])'
    <3>1. PICK q : q = player'[j]
      OBVIOUS
    <3>2. Seated(q)
      BY <1>3, <2>2, <3>1 DEF IInv, AllSeated
    <3>3. Seated(q)'
      BY <2>1, <3>2
    <3>. QED
      BY <3>1, <3>3
  <2>. QED
    BY <1>3, <2>2 DEF AllSeated
<1>5. \A c : Uses(c)' = Uses(c)
  <2>1. ASSUME NEW c PROVE Uses(c)' = Uses(c)
    <3>1. \A j \in DOMAIN player : \A r \in Roles :
            BufferOf(player'[j], r) = BufferOf(player[j], r)
      BY <1>3 DEF BufferOf
    <3>2. Uses(c)' = {u \in (DOMAIN player') \X Roles :
                       Live(u[1])' /\ BufferOf(player'[u[1]], u[2]) = c}
      BY DEF Uses, BufferOf, Live
    <3>. QED
      BY <1>3, <3>1, <3>2 DEF Uses
  <2>. QED
    BY <2>1
<1>6. RefsCover'
  BY <1>5 DEF IInv, RefsCover
<1>. QED
  BY <1>1, <1>4, <1>6 DEF IInv

(* Another position in the input or the output. *)
LEMMA Moved ==
  ASSUME NEW q \in Players, NEW r \in Roles, NEW x \in Int,
         NEW at, at = [q EXCEPT !.at[r] = x]
  PROVE  /\ at \in Players
         /\ at.use = q.use /\ at.mode = q.mode /\ at.volMode = q.volMode
         /\ at.speedMode = q.speedMode /\ at.speed = q.speed
         /\ at.loopStart = q.loopStart /\ at.loopEnd = q.loopEnd
         /\ \A s \in Roles : at.at[s] = IF s = r THEN x ELSE q.at[s]
<1>1. q.at \in [Roles -> Int]
  BY DEF Players
<1>2. PICK f : f = [q.at EXCEPT ![r] = x]
  OBVIOUS
<1>3. f \in [Roles -> Int] /\ \A s \in Roles : f[s] = IF s = r THEN x ELSE q.at[s]
  BY <1>1, <1>2
<1>4. at = [q EXCEPT !.at = f]
  BY <1>2 DEF Players
<1>5. at.at = f
  BY <1>4 DEF Players
<1>. QED
  BY <1>3, <1>4, <1>5 DEF Players

(* A seated player stays one while its buffers and the positions in its    *)
(* sources do. *)
LEMMA SeatedAlike ==
  ASSUME NEW p, Seated(p), NEW q, q.use = p.use,
         \A r \in {"vol", "phase", "speed"} : q.at[r] \in 0 .. (SizeOf(p, r) - 1)
  PROVE  Seated(q)
BY DEF Seated, SizeOf, BufferOf

LEMMA SetKeeps ==
  ASSUME IInv, NEW i \in DOMAIN player, NEW call, NEW q, Set(call, i, q),
         q \in Players, q.use = player[i].use,
         \A r \in {"vol", "phase", "speed"} : q.at[r] = player[i].at[r]
  PROVE  IInv'
<1>1. /\ Live(i) /\ player' = [player EXCEPT ![i] = q]
      /\ UNCHANGED <<buffer, script, status, handed, first>>
  BY DEF Set
<1>2. PICK p : p = player[i]
  OBVIOUS
<1>3. Seated(p)
  BY <1>1, <1>2 DEF IInv, AllSeated
<1>4. Seated(q)
  BY <1>2, <1>3, SeatedAlike DEF Seated
<1>. QED
  BY <1>1, <1>4, ResettledKeeps

LEMMA StopKeeps ==
  ASSUME IInv, NEW how \in {"failed", "strayed", "overrun"}, Stop(how)
  PROVE  IInv'
<1>1. /\ buffer' = NoSlots /\ player' = NoSlots
      /\ DOMAIN NoSlots = {} /\ handed' = 0 /\ first' = FALSE
      /\ script' = script /\ status' = how
  BY DEF Stop, NoSlots
<1>2. \A T : NoSlots \in [0 .. (0 - 1) -> T]
  BY DEF NoSlots
<1>3. Tables'
  <2>1. Shaped(NoSlots, Buffers, MaxBuffers) /\ Shaped(NoSlots, Players, MaxPlayers)
    <3>1. 0 \in 0 .. MaxBuffers /\ 0 \in 0 .. MaxPlayers
      BY ConstantsAssumption
    <3>. QED
      BY <1>2, <3>1, Zenon DEF Shaped
  <2>2. Shaped(buffer', Buffers, MaxBuffers) /\ Shaped(player', Players, MaxPlayers)
    BY <1>1, <2>1
  <2>3. /\ script' \in Scripts /\ handed' \in Int /\ first' \in BOOLEAN
        /\ status' \in {"running", "failed", "strayed", "overrun"}
    <3>1. script' \in Scripts
      BY <1>1 DEF IInv, Tables
    <3>2. first' \in BOOLEAN
      BY <1>1, Zenon
    <3>3. handed' \in Int
      BY <1>1
    <3>4. status' \in {"running", "failed", "strayed", "overrun"}
      BY <1>1
    <3>. QED
      BY <3>1, <3>2, <3>3, <3>4
  <2>. QED
    BY <2>2, <2>3 DEF Tables
<1>4. AllSeated' /\ RefsCover'
  BY <1>1 DEF AllSeated, RefsCover
<1>. QED
  BY <1>3, <1>4 DEF IInv

(* The settings of a player. *)
LEMMA SettingsKeep ==
  ASSUME IInv, NEW i \in DOMAIN player, NEW q, NEW call, Set(call, i, q),
         \/ \E r \in {"in", "out"}, x \in Int : q = [player[i] EXCEPT !.at[r] = x]
         \/ \E m \in Modes : q = [player[i] EXCEPT !.mode = m]
         \/ \E m \in Modulators : q = [player[i] EXCEPT !.volMode = m]
         \/ \E m \in Modulators : q = [player[i] EXCEPT !.speedMode = m]
         \/ \E v \in Int : q = [player[i] EXCEPT !.speed = v]
         \/ \E x \in Nat : q = [player[i] EXCEPT !.loopStart = x]
         \/ \E x \in Nat : q = [player[i] EXCEPT !.loopEnd = x]
  PROVE  IInv'
<1>1. PICK p \in Players : p = player[i]
  BY TablesTyped DEF IInv
<1>2. q \in Players /\ q.use = p.use /\ \A r \in {"vol", "phase", "speed"} : q.at[r] = p.at[r]
  <2>1. ASSUME NEW r \in {"in", "out"}, NEW x \in Int, q = [p EXCEPT !.at[r] = x]
        PROVE  q \in Players /\ q.use = p.use /\ \A s \in {"vol", "phase", "speed"} : q.at[s] = p.at[s]
    <3>1. r \in Roles /\ \A s \in {"vol", "phase", "speed"} : s \in Roles /\ s # r
      BY <2>1 DEF Roles
    <3>. QED
      BY <2>1, <3>1, Moved
  <2>2. CASE \/ \E m \in Modes : q = [p EXCEPT !.mode = m]
             \/ \E m \in Modulators : q = [p EXCEPT !.volMode = m]
             \/ \E m \in Modulators : q = [p EXCEPT !.speedMode = m]
             \/ \E v \in Int : q = [p EXCEPT !.speed = v]
             \/ \E x \in Nat : q = [p EXCEPT !.loopStart = x]
             \/ \E x \in Nat : q = [p EXCEPT !.loopEnd = x]
    BY <2>2 DEF Players
  <2>. QED
    BY <1>1, <2>1, <2>2
<1>. QED
  BY <1>1, <1>2, SetKeeps

-----------------------------------------------------------------------------
(* A run of a player, turn by turn.                                        *)

Started(p) == [p |-> p, over |-> FALSE, ended |-> FALSE]

(* The turns are a function that is defined by recursion on the turns      *)
(* before; there is one for every number of turns.                         *)
TurnsOf(t, n, p, m, os) ==
  [k \in 0 .. n |->
    IF k = 0 THEN [p |-> p, over |-> FALSE, ended |-> FALSE]
             ELSE Sample(t[k - 1], m[k], os)]

LEMMA TurnsExist ==
  ASSUME NEW p, NEW todo \in Nat, NEW m, NEW os
  PROVE  \E t : t = TurnsOf(t, todo, p, m, os)
<1>. DEFINE Turns(n, t) == t = TurnsOf(t, n, p, m, os)
            S == {n \in 0 .. todo : \E t : Turns(n, t)}
<1>1. 0 \in S
  <2>1. Turns(0, [k \in 0 .. 0 |-> Started(p)])
    BY DEF TurnsOf, Started
  <2>. HIDE DEF Turns
  <2>2. \E t : Turns(0, t)
    BY <2>1
  <2>. QED
    BY <2>2
<1>2. ASSUME NEW n \in 0 .. (todo - 1), n \in S PROVE n + 1 \in S
  <2>1. PICK t : Turns(n, t)
    BY <1>2
  <2>2. PICK u : u = [k \in 0 .. (n + 1) |->
                       IF k = n + 1 THEN Sample(t[n], m[n + 1], os) ELSE t[k]]
    OBVIOUS
  <2>3. ASSUME NEW k \in 0 .. (n + 1)
        PROVE  u[k] = IF k = 0 THEN Started(p) ELSE Sample(u[k - 1], m[k], os)
    <3>1. CASE k = n + 1
      <4>1. u[n] = t[n] /\ k - 1 = n /\ k # 0
        BY <2>2, <3>1
      <4>. QED
        BY <2>2, <3>1, <4>1
    <3>2. CASE k \in 0 .. n
      <4>1. u[k] = t[k] /\ (k # 0 => u[k - 1] = t[k - 1])
        BY <2>2, <3>2
      <4>2. t[k] = IF k = 0 THEN Started(p) ELSE Sample(t[k - 1], m[k], os)
        BY <2>1, <3>2 DEF TurnsOf, Started
      <4>. QED
        BY <4>1, <4>2
    <3>. QED
      BY <3>1, <3>2
  <2>4. Turns(n + 1, u)
    BY <2>2, <2>3 DEF TurnsOf, Started
  <2>5. n + 1 \in 0 .. todo
    OBVIOUS
  <2>. QED
    BY <2>4, <2>5
<1>3. 0 .. todo \subseteq S
  <2>. HIDE DEF S
  <2>. QED
    BY <1>1, <1>2, Inductive
<1>. QED
  BY <1>3

LEMMA PlayedInTurns ==
  ASSUME NEW p, NEW todo \in Nat, NEW m, NEW os
  PROVE  \E t : /\ t[0] = Started(p)
                /\ \A k \in 1 .. todo : t[k] = Sample(t[k - 1], m[k], os)
                /\ Played(p, todo, m, os) = t[todo]
<1>1. PICK t : t = CHOOSE u : u = TurnsOf(u, todo, p, m, os)
  OBVIOUS
<1>2. t = TurnsOf(t, todo, p, m, os)
  BY <1>1, TurnsExist
<1>3. Played(p, todo, m, os) = t[todo]
  BY <1>1 DEF Played, TurnsOf
<1>4. t[0] = Started(p)
  <2>1. TurnsOf(t, todo, p, m, os)[0] = Started(p)
    BY DEF TurnsOf, Started
  <2>. QED
    BY <1>2, <2>1
<1>5. ASSUME NEW k \in 1 .. todo PROVE t[k] = Sample(t[k - 1], m[k], os)
  <2>1. k \in 0 .. todo /\ k # 0
    OBVIOUS
  <2>2. TurnsOf(t, todo, p, m, os)[k] = Sample(t[k - 1], m[k], os)
    BY <2>1 DEF TurnsOf
  <2>. QED
    BY <1>2, <2>2
<1>. QED
  BY <1>3, <1>4, <1>5

(* What running a player leaves alone; its positions in its sources stay   *)
(* within them.                                                            *)
Steady(p, q) ==
  /\ q \in Players /\ q.use = p.use /\ q.mode = p.mode
  /\ q.volMode = p.volMode /\ q.speedMode = p.speedMode
  /\ q.loopStart = p.loopStart /\ q.loopEnd = p.loopEnd
  /\ \A r \in {"vol", "phase", "speed"} : q.at[r] \in 0 .. (SizeOf(p, r) - 1)

LEMMA SizesPositive ==
  ASSUME Tables, NEW p, Seated(p)
  PROVE  /\ \A r \in Sources : SizeOf(p, r) \in Nat \ {0}
         /\ Span(p) \in Nat \ {0}
<1>1. ASSUME NEW r \in Sources PROVE SizeOf(p, r) \in Nat \ {0}
  <2>1. r \in Roles /\ BufferOf(p, r) = p.use[r] /\ p.use[r] \in Nat
    BY <1>1 DEF Sources, Seated, BufferOf
  <2>2. Used(p.use[r])
    BY <2>1 DEF Seated
  <2>. QED
    BY <2>2, TablesTyped DEF Used, SizeOf
<1>2. SizeOf(p, "in") \in Nat \ {0}
  BY <1>1, RolesCounted
<1>3. PICK n \in Nat \ {0} : n = SizeOf(p, "in")
  BY <1>2
<1>4. PICK g \in Nat \ {0} : g = Grain
  BY ConstantsAssumption
<1>5. n * g \in Nat \ {0}
  BY <1>3, <1>4
<1>. QED
  BY <1>1, <1>3, <1>4, <1>5 DEF Span

LEMMA RemainderIsInt ==
  ASSUME NEW x \in Int, NEW y \in Nat \ {0}
  PROVE  Remainder(x, y) \in Int
BY DEF Remainder

LEMMA MovedSteady ==
  ASSUME NEW p, NEW q, Steady(p, q), NEW r \in {"in", "out"}, NEW x \in Int,
         NEW n, n = [q EXCEPT !.at[r] = x]
  PROVE  Steady(p, n) /\ n.speed = q.speed /\ n.at[r] = x
<1>1. q \in Players /\ r \in Roles
  BY DEF Steady, Roles
<1>2. /\ n \in Players
      /\ n.use = q.use /\ n.mode = q.mode /\ n.volMode = q.volMode
      /\ n.speedMode = q.speedMode /\ n.speed = q.speed
      /\ n.loopStart = q.loopStart /\ n.loopEnd = q.loopEnd
      /\ \A s \in Roles : n.at[s] = IF s = r THEN x ELSE q.at[s]
  BY <1>1, Moved
<1>3. \A s \in {"vol", "phase", "speed"} : s \in Roles /\ s # r
  BY DEF Roles
<1>. QED
  BY <1>1, <1>2, <1>3 DEF Steady

(* Positions go round in a source. *)
LEMMA TurnedSteady ==
  ASSUME Tables, NEW p, Seated(p), NEW q, Steady(p, q),
         NEW r \in {"vol", "phase", "speed"},
         NEW n, n = [q EXCEPT !.at[r] = (q.at[r] + 1) % SizeOf(q, r)]
  PROVE  Steady(p, n)
<1>1. q \in Players /\ r \in Roles /\ q.use = p.use /\ r \in Sources
  BY DEF Steady, Roles, Sources
<1>2. PICK size \in Nat \ {0} : size = SizeOf(p, r) /\ size = SizeOf(q, r)
  <2>1. SizeOf(p, r) \in Nat \ {0}
    BY <1>1, SizesPositive
  <2>2. SizeOf(q, r) = SizeOf(p, r)
    BY <1>1 DEF SizeOf
  <2>. QED
    BY <2>1, <2>2
<1>3. q.at[r] \in Int
  BY <1>1 DEF Players
<1>4. PICK x : x = (q.at[r] + 1) % size
  OBVIOUS
<1>5. x \in 0 .. (size - 1) /\ x \in Int
  BY <1>2, <1>3, <1>4
<1>6. n = [q EXCEPT !.at[r] = x]
  BY <1>2, <1>4
<1>7. /\ n \in Players
      /\ n.use = q.use /\ n.mode = q.mode /\ n.volMode = q.volMode
      /\ n.speedMode = q.speedMode
      /\ n.loopStart = q.loopStart /\ n.loopEnd = q.loopEnd
      /\ \A s \in Roles : n.at[s] = IF s = r THEN x ELSE q.at[s]
  BY <1>1, <1>5, <1>6, Moved
<1>8. ASSUME NEW s \in {"vol", "phase", "speed"} PROVE n.at[s] \in 0 .. (SizeOf(p, s) - 1)
  <2>1. s \in Roles
    BY <1>8 DEF Roles
  <2>. QED
    BY <1>2, <1>5, <1>7, <2>1 DEF Steady
<1>. QED
  BY <1>1, <1>7, <1>8 DEF Steady

LEMMA StepsSteady ==
  ASSUME Tables, NEW p, Seated(p), NEW q, Steady(p, q), NEW d \in Int
  PROVE  /\ Steady(p, StepOnce(q, d)) /\ Steady(p, StepLoop(q, d))
         /\ Steady(p, StepPingPong(q, d)) /\ Steady(p, StepPhase(q))
         /\ Steady(p, StepSources(q))
<1>1. /\ q \in Players /\ q.use = p.use /\ q.at \in [Roles -> Int] /\ q.speed \in Int
      /\ q.loopStart \in Nat /\ q.loopEnd \in Nat
  BY DEF Steady, Players
<1>2. q.at["in"] \in Int
  BY <1>1 DEF Roles
<1>3. Span(q) \in Nat \ {0}
  <2>1. Span(q) = Span(p)
    BY <1>1 DEF Span, SizeOf
  <2>. QED
    BY <2>1, SizesPositive
<1>4. Start(q) \in Int /\ End(q) \in Int
  <2>1. PICK g \in Nat : g = Grain
    BY ConstantsAssumption
  <2>. QED
    BY <1>1, <2>1 DEF Start, End
<1>5. Steady(p, StepOnce(q, d))
  <2>1. PICK x \in Int : x = q.at["in"] + d
    BY <1>2
  <2>2. StepOnce(q, d) = [q EXCEPT !.at["in"] = x]
    BY <2>1 DEF StepOnce
  <2>. QED
    BY <2>2, MovedSteady
<1>6. PICK x \in Int : StepLoop(q, d) = [q EXCEPT !.at["in"] = x]
  <2>1. PICK moved \in Int : moved = Remainder(q.at["in"] + d, Span(q))
    BY <1>2, <1>3, RemainderIsInt
  <2>2. PICK x : x = IF q.at["in"] <= End(q) /\ moved > End(q) THEN moved - (End(q) - Start(q))
                     ELSE IF q.at["in"] >= Start(q) /\ moved < Start(q)
                       THEN moved + (End(q) - Start(q))
                     ELSE moved
    OBVIOUS
  <2>3. x \in Int
    BY <1>4, <2>1, <2>2
  <2>4. StepLoop(q, d) = [q EXCEPT !.at["in"] = x]
    BY <2>1, <2>2 DEF StepLoop
  <2>. QED
    BY <2>3, <2>4
<1>7. Steady(p, StepLoop(q, d)) /\ StepLoop(q, d).speed = q.speed
  BY <1>6, MovedSteady
<1>8. Steady(p, StepPingPong(q, d))
  <2>1. PICK n : n = StepLoop(q, d)
    OBVIOUS
  <2>2. \E v \in Int : StepPingPong(q, d) = [n EXCEPT !.speed = v]
    <3>1. PICK moved : moved = Remainder(q.at["in"] + d, Span(q))
      OBVIOUS
    <3>2. PICK v : v = IF \/ q.at["in"] <= End(q) /\ moved > End(q)
                          \/ q.at["in"] >= Start(q) /\ moved < Start(q)
                         THEN -n.speed ELSE n.speed
      OBVIOUS
    <3>3. v \in Int
      BY <1>1, <1>7, <2>1, <3>2
    <3>4. StepPingPong(q, d) = [n EXCEPT !.speed = v]
      BY <2>1, <3>1, <3>2 DEF StepPingPong
    <3>. QED
      BY <3>3, <3>4
  <2>. QED
    BY <1>7, <2>1, <2>2 DEF Steady, Players
<1>9. Steady(p, StepPhase(q))
  BY TurnedSteady DEF StepPhase
<1>10. Steady(p, StepSources(q))
  <2>1. PICK n : n = IF q.volMode = "source"
                       THEN [q EXCEPT !.at["vol"] = (q.at["vol"] + 1) % SizeOf(q, "vol")]
                       ELSE q
    OBVIOUS
  <2>2. Steady(p, n)
    BY <2>1, TurnedSteady
  <2>3. n.at["speed"] = q.at["speed"] /\ n.use = q.use
    BY <1>1, <2>1 DEF Players, Roles
  <2>4. StepSources(q) = IF q.mode # "phase" /\ q.speedMode = "source"
          THEN [n EXCEPT !.at["speed"] = (n.at["speed"] + 1) % SizeOf(n, "speed")]
          ELSE n
    BY <1>1, <2>1, <2>3 DEF StepSources, Players, Roles, SizeOf
  <2>. QED
    BY <2>2, <2>4, TurnedSteady
<1>. QED
  BY <1>5, <1>7, <1>8, <1>9, <1>10

LEMMA InputSteady ==
  ASSUME Tables, NEW p, Seated(p), NEW q, Steady(p, q), NEW m \in Int
  PROVE  Steady(p, StepInput(q, m))
<1>1. /\ q.mode \in Modes /\ q.speed \in Int
  BY DEF Steady, Players
<1>2. PICK d \in Int : d = Stride(q, m)
  BY <1>1 DEF Stride
<1>3. /\ Steady(p, StepOnce(q, d)) /\ Steady(p, StepLoop(q, d))
      /\ Steady(p, StepPingPong(q, d)) /\ Steady(p, StepPhase(q))
  BY StepsSteady
<1>. QED
  BY <1>1, <1>2, <1>3 DEF StepInput, Modes

Runs(p) == {run \in [p : Players, over : BOOLEAN, ended : BOOLEAN] : Steady(p, run.p)}

LEMMA SampleSteady ==
  ASSUME Tables, NEW p, Seated(p), NEW run \in Runs(p), NEW m \in Int, NEW os
  PROVE  Sample(run, m, os) \in Runs(p)
<1>1. /\ run \in [p : Players, over : BOOLEAN, ended : BOOLEAN] /\ Steady(p, run.p)
      /\ run.p \in Players
  BY DEF Runs
<1>2. PICK q : q = [run.p EXCEPT !.at["out"] = @ + 1]
  OBVIOUS
<1>3. Steady(p, q)
  <2>1. PICK x \in Int : x = run.p.at["out"] + 1
    BY <1>1 DEF Players, Roles
  <2>2. q = [run.p EXCEPT !.at["out"] = x]
    BY <1>2, <2>1
  <2>. QED
    BY <1>1, <2>2, MovedSteady
<1>4. PICK next : next = StepInput(q, m)
  OBVIOUS
<1>5. Steady(p, next) /\ Steady(p, StepSources(next))
  BY <1>3, <1>4, InputSteady, StepsSteady
<1>6. \/ Sample(run, m, os) = run
      \/ Sample(run, m, os) = [run EXCEPT !.over = TRUE, !.ended = TRUE]
      \/ Sample(run, m, os) = [run EXCEPT !.p = next, !.ended = TRUE]
      \/ Sample(run, m, os) = [run EXCEPT !.p = StepSources(next)]
  BY <1>2, <1>4 DEF Sample
<1>7. next \in Players /\ StepSources(next) \in Players
  BY <1>5 DEF Steady
<1>. QED
  BY <1>1, <1>5, <1>6, <1>7 DEF Runs

(* However many turns there are, and whatever the modulations. *)
LEMMA PlayedSteady ==
  ASSUME Tables, NEW p \in Players, Seated(p), NEW todo \in Nat,
         NEW m, \A k \in 1 .. todo : m[k] \in Int, NEW os
  PROVE  Played(p, todo, m, os) \in Runs(p)
<1>1. PICK t : /\ t[0] = Started(p)
               /\ \A k \in 1 .. todo : t[k] = Sample(t[k - 1], m[k], os)
               /\ Played(p, todo, m, os) = t[todo]
  BY PlayedInTurns
<1>. DEFINE S == {k \in 0 .. todo : t[k] \in Runs(p)}
<1>2. 0 \in S
  <2>1. Steady(p, p)
    BY DEF Steady, Seated
  <2>2. Started(p) \in Runs(p)
    BY <2>1 DEF Started, Runs
  <2>. QED
    BY <1>1, <2>2
<1>3. ASSUME NEW k \in 0 .. (todo - 1), k \in S PROVE k + 1 \in S
  <2>1. k + 1 \in 1 .. todo /\ k + 1 - 1 = k /\ k + 1 \in 0 .. todo
    OBVIOUS
  <2>2. t[k + 1] = Sample(t[k], m[k + 1], os) /\ m[k + 1] \in Int
    BY <1>1, <2>1
  <2>. QED
    BY <1>3, <2>1, <2>2, SampleSteady
<1>4. todo \in S
  <2>. HIDE DEF S
  <2>1. 0 .. todo \subseteq S
    BY <1>2, <1>3, Inductive
  <2>. QED
    BY <2>1
<1>. QED
  BY <1>1, <1>4

(* The number of turns that are asked for. *)
LEMMA TurnsAreCounted ==
  ASSUME Tables, NEW p \in Players, Seated(p), NEW req \in Requests, NEW need \in Needs
  PROVE  /\ OutSize(p, need) \in Nat
         /\ Room(p, req, OutSize(p, need)) \in Nat
         /\ Quota(p, Room(p, req, OutSize(p, need))) \in Nat
<1>1. /\ req \in Nat /\ need \in Nat /\ p.at["out"] \in Int /\ p.at["in"] \in Int
      /\ p.speed \in Int /\ "out" \in Roles /\ p.use["out"] \in Nat /\ Channels \in Nat
  BY ConstantsAssumption DEF Players, Roles, Seated
<1>2. PICK os \in Nat : os = OutSize(p, need)
  <2>1. CASE p.use["out"] < Channels
    BY <1>1, <2>1 DEF OutSize
  <2>2. CASE ~(p.use["out"] < Channels)
    <3>1. Used(BufferOf(p, "out"))
      BY <1>1, <2>2 DEF Seated, BufferOf
    <3>2. buffer[BufferOf(p, "out")].size \in Nat
      BY <3>1, TablesTyped DEF Used
    <3>. QED
      BY <2>2, <3>2 DEF OutSize
  <2>. QED
    BY <2>1, <2>2
<1>3. PICK room \in Nat : room = Room(p, req, os)
  BY <1>1 DEF Room, Less
<1>4. Span(p) \in Nat
  BY SizesPositive
<1>5. Quota(p, room) \in Nat
  <2>1. PICK left \in Int : left = Left(p)
    BY <1>1, <1>4 DEF Left
  <2>2. PICK a \in Nat : a = Magnitude(left)
    BY DEF Magnitude
  <2>3. PICK b \in Nat : b = Magnitude(p.speed) /\ (p.speed # 0 => b # 0)
    BY <1>1 DEF Magnitude
  <2>4. p.speed # 0 => a \div b \in Nat
    BY <2>2, <2>3
  <2>. QED
    BY <1>3, <2>1, <2>2, <2>3, <2>4 DEF Quota, Less
<1>. QED
  BY <1>2, <1>3, <1>5

LEMMA ModulationsAreInts ==
  ASSUME NEW p, NEW todo \in Nat, NEW m \in Modulated(p, todo)
  PROVE  \A k \in 1 .. todo : m[k] \in Int
<1>1. CASE p.speedMode = "source" /\ p.mode # "phase"
  <2>1. m \in [1 .. todo -> Modulations]
    BY <1>1 DEF Modulated
  <2>2. \A k \in 1 .. todo : m[k] \in Modulations
    BY <2>1
  <2>. QED
    BY <2>2, ConstantsAssumption
<1>2. CASE ~(p.speedMode = "source" /\ p.mode # "phase")
  BY <1>2 DEF Modulated
<1>. QED
  BY <1>1, <1>2

(* What a run of a player does. *)
LEMMA RunPlays ==
  ASSUME IInv, NEW i \in DOMAIN player, NEW req \in Requests, NEW need \in Needs,
         RunPlayer(i, req, need)
  PROVE  \/ UNCHANGED vars
         \/ Stop("overrun")
         \/ /\ Live(i) /\ UNCHANGED <<buffer, script, status, handed, first>>
            /\ \E q : Steady(player[i], q) /\ player' = [player EXCEPT ![i] = q]
<1>1. PICK p \in Players : p = player[i]
  BY TablesTyped DEF IInv
<1>2. Live(i) /\ Seated(p)
  BY <1>1 DEF RunPlayer, IInv, AllSeated
<1>3. PICK os : os = OutSize(p, need)
  OBVIOUS
<1>4. PICK todo : todo = IF OnceConstant(p) THEN Quota(p, Room(p, req, os)) ELSE Room(p, req, os)
  OBVIOUS
<1>5. todo \in Nat
  BY <1>2, <1>3, <1>4, TurnsAreCounted DEF IInv
<1>6. \/ UNCHANGED vars
      \/ Stop("overrun")
      \/ \E m \in Modulated(p, todo) :
           /\ player' = [player EXCEPT ![i] = Played(p, todo, m, os).p]
           /\ UNCHANGED <<buffer, script, status, handed, first>>
  BY <1>1, <1>3, <1>4 DEF RunPlayer
<1>7. ASSUME NEW m \in Modulated(p, todo) PROVE Steady(p, Played(p, todo, m, os).p)
  <2>1. Played(p, todo, m, os) \in Runs(p)
    BY <1>2, <1>5, ModulationsAreInts, PlayedSteady DEF IInv
  <2>. QED
    BY <2>1 DEF Runs
<1>. QED
  BY <1>1, <1>2, <1>6, <1>7

LEMMA RunPlayerKeeps ==
  ASSUME IInv, NEW i \in DOMAIN player, NEW req \in Requests, NEW need \in Needs,
         RunPlayer(i, req, need)
  PROVE  IInv'
<1>1. CASE UNCHANGED vars
  BY <1>1 DEF vars, IInv, Tables, Shaped, AllSeated, Seated, BufferOf, Used, Live,
              SizeOf, RefsCover, Uses
<1>2. CASE Stop("overrun")
  BY <1>2, StopKeeps
<1>3. ASSUME Live(i), UNCHANGED <<buffer, script, status, handed, first>>,
             NEW q, Steady(player[i], q), player' = [player EXCEPT ![i] = q]
      PROVE  IInv'
  <2>1. PICK p : p = player[i]
    OBVIOUS
  <2>2. Seated(p)
    BY <1>3, <2>1 DEF IInv, AllSeated
  <2>3. Seated(q) /\ q \in Players /\ q.use = player[i].use
    BY <1>3, <2>1, <2>2, SeatedAlike DEF Steady
  <2>. QED
    BY <1>3, <2>3, ResettledKeeps
<1>. QED
  BY <1>1, <1>2, <1>3, RunPlays

-----------------------------------------------------------------------------
(* The invariant is kept by every step.                                    *)

LEMMA InitiallyHolds == Init => IInv
<1>. SUFFICES ASSUME Init PROVE IInv
  OBVIOUS
<1>1. DOMAIN NoSlots = {} /\ \A T : NoSlots \in [0 .. (0 - 1) -> T]
  BY DEF NoSlots
<1>2. Shaped(NoSlots, Buffers, MaxBuffers) /\ Shaped(NoSlots, Players, MaxPlayers)
  <2>1. 0 \in 0 .. MaxBuffers /\ 0 \in 0 .. MaxPlayers
    BY ConstantsAssumption
  <2>. QED
    BY <1>1, <2>1, Zenon DEF Shaped
<1>3. Tables
  <2>1. handed \in Int /\ status \in {"running", "failed", "strayed", "overrun"}
    BY DEF Init
  <2>2. first \in BOOLEAN
    BY Zenon DEF Init
  <2>3. script \in Scripts
    BY DEF Init
  <2>4. Shaped(buffer, Buffers, MaxBuffers) /\ Shaped(player, Players, MaxPlayers)
    BY <1>2 DEF Init
  <2>. QED
    BY <2>1, <2>2, <2>3, <2>4 DEF Tables
<1>4. AllSeated /\ RefsCover
  BY <1>1 DEF Init, AllSeated, RefsCover
<1>. QED
  BY <1>3, <1>4 DEF IInv

LEMMA RefuseKeeps ==
  ASSUME IInv, NEW table, NEW number, Refuse(table, number)
  PROVE  IInv'
<1>1. Stop("failed") \/ Stop("strayed")
  BY DEF Refuse
<1>. QED
  BY <1>1, StopKeeps

LEMMA TuneKeeps ==
  ASSUME IInv, NEW i \in DOMAIN player, Live(i), Tune(i)
  PROVE  IInv'
<1>1. ASSUME NEW x \in Positions, SetInputPos(i, x) \/ (x >= 0 /\ SetOutputPos(i, x))
      PROVE  IInv'
  <2>1. x \in Int
    BY ConstantsAssumption
  <2>2. CASE SetInputPos(i, x)
    <3>1. PICK q : q = [player[i] EXCEPT !.at["in"] = x]
      OBVIOUS
    <3>2. Set("at", i, q)
      BY <2>2, <3>1 DEF SetInputPos
    <3>. QED
      BY <2>1, <3>1, <3>2, SettingsKeep
  <2>3. CASE SetOutputPos(i, x)
    <3>1. PICK q : q = [player[i] EXCEPT !.at["out"] = x]
      OBVIOUS
    <3>2. Set("at", i, q)
      BY <2>3, <3>1 DEF SetOutputPos
    <3>. QED
      BY <2>1, <3>1, <3>2, SettingsKeep
  <2>. QED
    BY <1>1, <2>2, <2>3
<1>2. ASSUME NEW m \in Modes, SetMode(i, m) PROVE IInv'
  <2>1. PICK q : q = [player[i] EXCEPT !.mode = m]
    OBVIOUS
  <2>2. Set("mode", i, q)
    BY <1>2, <2>1 DEF SetMode
  <2>. QED
    BY <2>1, <2>2, SettingsKeep
<1>3. ASSUME NEW m \in Modulators, SetVolumeMode(i, m) PROVE IInv'
  <2>1. PICK q : q = [player[i] EXCEPT !.volMode = m]
    OBVIOUS
  <2>2. Set("volmode", i, q)
    BY <1>3, <2>1 DEF SetVolumeMode
  <2>. QED
    BY <2>1, <2>2, SettingsKeep
<1>4. ASSUME NEW m \in Modulators, SetSpeedMode(i, m) PROVE IInv'
  <2>1. PICK q : q = [player[i] EXCEPT !.speedMode = m]
    OBVIOUS
  <2>2. Set("speedmode", i, q)
    BY <1>4, <2>1 DEF SetSpeedMode
  <2>. QED
    BY <2>1, <2>2, SettingsKeep
<1>5. ASSUME NEW v \in Speeds, SetSpeed(i, v) PROVE IInv'
  <2>1. PICK q : q = [player[i] EXCEPT !.speed = v]
    OBVIOUS
  <2>2. Set("rate", i, q)
    BY <1>5, <2>1 DEF SetSpeed
  <2>3. v \in Int
    BY ConstantsAssumption
  <2>. QED
    BY <2>1, <2>2, <2>3, SettingsKeep
<1>6. ASSUME NEW x \in 0 .. SizeOf(player[i], "in"), SetLoopStart(i, x) \/ SetLoopEnd(i, x)
      PROVE  IInv'
  <2>1. PICK q, r : /\ q = [player[i] EXCEPT !.loopStart = x]
                    /\ r = [player[i] EXCEPT !.loopEnd = x]
    OBVIOUS
  <2>2. Set("loop", i, q) \/ Set("loop", i, r)
    BY <1>6, <2>1 DEF SetLoopStart, SetLoopEnd
  <2>3. x \in Nat
    BY <1>6
  <2>. QED
    BY <2>1, <2>2, <2>3, SettingsKeep
<1>7. ASSUME NEW req \in Requests, NEW need \in Needs, RunPlayer(i, req, need)
      PROVE  IInv'
  BY <1>7, RunPlayerKeeps
<1>. QED
  BY <1>1, <1>2, <1>3, <1>4, <1>5, <1>6, <1>7 DEF Tune

LEMMA ExchangeKeeps ==
  ASSUME IInv, NEW i \in DOMAIN player, Live(i), Exchange(i)
  PROVE  IInv'
<1>1. ASSUME NEW b \in DOMAIN buffer, NEW r \in Sources, Used(b), Rewire(i, r, b)
      PROVE  IInv'
  <2>1. b \in Nat /\ r \in Roles /\ r # "out"
    BY TablesTyped DEF IInv, Sources
  <2>. QED
    BY <1>1, <2>1, RewireKeeps
<1>2. ASSUME NEW number \in 0 .. (Channels + MaxBuffers - 1), SetOutputBuffer(i, number)
      PROVE  IInv'
  <2>1. number \in Nat /\ "out" \in Roles
    BY DEF Roles
  <2>2. /\ number < Channels \/ Used(number - Channels)
        /\ Rewire(i, "out", number)
    BY <1>2 DEF SetOutputBuffer
  <2>. QED
    BY <2>1, <2>2, RewireKeeps
<1>3. {"in", "vol", "phase", "speed"} \subseteq Sources
  BY DEF Sources, Roles
<1>. QED
  BY <1>1, <1>2, <1>3 DEF Exchange, SetInputBuffer, SetVolumeSource, SetPhaseSource,
     SetSpeedSource

LEMMA StepKeeps == IInv /\ [Next]_vars => IInv'
<1>. SUFFICES ASSUME IInv, [Next]_vars PROVE IInv'
  OBVIOUS
<1>1. ASSUME NEW size \in Sizes, AddBuffer(size) PROVE IInv'
  BY <1>1, AddBufferKeeps
<1>2. ASSUME NEW b \in DOMAIN buffer, FreeBuffer(b) PROVE IInv'
  BY <1>2, FreeBufferKeeps
<1>3. ASSUME NEW b \in DOMAIN buffer, AddPlayer(b) PROVE IInv'
  BY <1>3, AddPlayerKeeps
<1>4. ASSUME NEW i \in DOMAIN player, Live(i), FreePlayer(i) PROVE IInv'
  BY <1>4, FreePlayerKeeps
<1>5. ASSUME NEW i \in DOMAIN player, Live(i), Tune(i) PROVE IInv'
  BY <1>5, TuneKeeps
<1>6. ASSUME NEW i \in DOMAIN player, Live(i), Exchange(i) PROVE IInv'
  BY <1>6, ExchangeKeeps
<1>7. ASSUME NEW table, NEW number, Refuse(table, number) PROVE IInv'
  BY <1>7, RefuseKeeps
<1>8. CASE UNCHANGED vars
  BY <1>8 DEF vars, IInv, Tables, Shaped, AllSeated, Seated, BufferOf, Used, Live,
              SizeOf, RefsCover, Uses
<1>. QED
  BY <1>1, <1>2, <1>3, <1>4, <1>5, <1>6, <1>7, <1>8 DEF Next

LEMMA AlwaysIInv == Spec => []IInv
BY InitiallyHolds, StepKeeps, PTL DEF Spec

-----------------------------------------------------------------------------
(* What holds in every state.                                              *)

(* Tables have the size, and their slots the shape, that the calls give    *)
(* them: the doubling in synth_add_buffer and synth_add_player takes the   *)
(* first free slot or the first new one, and no call writes behind.        *)
THEOREM TablesStayTyped == Spec => []TypeOK
<1>1. IInv => TypeOK
  BY InvariantHas
<1>. QED
  BY <1>1, AlwaysIInv, PTL

(* A buffer counts at least the uses that players make of it, and exactly  *)
(* those until the first buffer is somebody's input: synth_add_player,     *)
(* synth_free_player and the five calls that exchange a buffer give back   *)
(* what they took, so synth_free_buffer, which looks at the count, never   *)
(* frees a buffer under a player.                                          *)
THEOREM ReferencesAreCovered == Spec => []RefsCover
<1>1. IInv => RefsCover
  BY InvariantHas
<1>. QED
  BY <1>1, AlwaysIInv, PTL

(* Every buffer a player is wired to is there, and its positions in the    *)
(* sources of volume, phase and speed are within them, whatever has been   *)
(* exchanged, freed and reused since: synth_run_player reads them without  *)
(* a test.                                                                 *)
THEOREM SourcesStayReadable == Spec => []SourcesReadable
<1>1. IInv => SourcesReadable
  BY InvariantHas
<1>. QED
  BY <1>1, AlwaysIInv, PTL

-----------------------------------------------------------------------------
(* Loops stay inside the buffers they were set in.                         *)

(* The buffers that are in use stay, with their sizes. *)
SizesStay == \A b : Used(b) => Used(b)' /\ buffer'[b].size = buffer[b].size

LEMMA FitsStill ==
  ASSUME IInv, SizesStay, NEW i \in DOMAIN player, Live(i), LoopFits(i),
         player'[i].use["in"] = player[i].use["in"],
         player'[i].loopStart = player[i].loopStart,
         player'[i].loopEnd = player[i].loopEnd
  PROVE  LoopFits(i)'
<1>1. PICK p : p = player[i]
  OBVIOUS
<1>2. "in" \in Roles /\ BufferOf(p, "in") = p.use["in"]
  BY DEF Roles, BufferOf
<1>3. Seated(p)
  BY <1>1 DEF IInv, AllSeated
<1>4. Used(p.use["in"])
  BY <1>2, <1>3 DEF Seated
<1>5. buffer'[p.use["in"]].size = buffer[p.use["in"]].size
  BY <1>4 DEF SizesStay
<1>. QED
  BY <1>1, <1>5 DEF LoopFits, SizeOf

(* A call that writes one player and leaves it in its buffer. *)
LEMMA FitsWhenSet ==
  ASSUME IInv, NEW j \in DOMAIN player, NEW q,
         player' = [player EXCEPT ![j] = q], SizesStay,
         NEW i \in DOMAIN player, Live(i), LoopFits(i),
         player'[i].use["in"] = player[i].use["in"],
         q.loopStart = player[j].loopStart, q.loopEnd = player[j].loopEnd
  PROVE  LoopFits(i)'
<1>1. player'[i] = IF i = j THEN q ELSE player[i]
  OBVIOUS
<1>2. player'[i].loopStart = player[i].loopStart /\ player'[i].loopEnd = player[i].loopEnd
  BY <1>1
<1>. QED
  BY <1>2, FitsStill

LEMMA AddBufferFits ==
  ASSUME IInv, NEW size \in Sizes, AddBuffer(size)
  PROVE  SizesStay
<1>1. /\ size \in Nat
      /\ FreeBuffers = {} => 2 * Slots(buffer) <= MaxBuffers
      /\ buffer' = Placed(buffer, FreeBuffers, [size |-> size, ref |-> 0], Empty)
  BY ConstantsAssumption DEF AddBuffer
<1>2. /\ [size |-> size, ref |-> 0] \in Buffers /\ Empty \in Buffers
      /\ FreeBuffers \in SUBSET (DOMAIN buffer)
      /\ Shaped(buffer, Buffers, MaxBuffers) /\ MaxBuffers \in Nat \ {0}
  BY <1>1, ConstantsAssumption DEF Buffers, Empty, FreeBuffers, IInv, Tables
<1>3. TakesSlot(buffer, buffer', FreeBuffers, [size |-> size, ref |-> 0], Empty)
  BY <1>1, <1>2, PlacedInTable
<1>4. PICK at \in DOMAIN buffer' :
        /\ at \in FreeBuffers \/ at \notin DOMAIN buffer
        /\ \A i \in DOMAIN buffer' : i # at =>
             buffer'[i] = IF i \in DOMAIN buffer THEN buffer[i] ELSE Empty
  BY <1>3 DEF TakesSlot
<1>5. ASSUME NEW b, Used(b) PROVE Used(b)' /\ buffer'[b] = buffer[b]
  <2>1. b # at /\ b \in DOMAIN buffer /\ b \in DOMAIN buffer'
    BY <1>3, <1>4, <1>5 DEF Used, TakesSlot, FreeBuffers
  <2>. QED
    BY <1>4, <1>5, <2>1 DEF Used
<1>. QED
  BY <1>5 DEF SizesStay

LEMMA FreeBufferFits ==
  ASSUME IInv, NEW b \in DOMAIN buffer, FreeBuffer(b), UNCHANGED player,
         NEW i \in DOMAIN player, Live(i), LoopFits(i)
  PROVE  LoopFits(i)'
<1>1. PICK c : c = player[i].use["in"]
  OBVIOUS
<1>2. "in" \in Roles /\ BufferOf(player[i], "in") = c
  BY <1>1 DEF Roles, BufferOf
<1>3. buffer[b].ref <= 0 /\ buffer' = [buffer EXCEPT ![b].size = 0]
  BY DEF FreeBuffer
<1>4. c # b
  BY <1>2, <1>3, Unreferenced
<1>5. c \in DOMAIN buffer
  <2>1. PICK p : p = player[i]
    OBVIOUS
  <2>2. Seated(p)
    BY <2>1 DEF IInv, AllSeated
  <2>. QED
    BY <1>1, <1>2, <2>1, <2>2 DEF Seated, Used
<1>6. buffer'[c] = buffer[c]
  BY <1>3, <1>4, <1>5
<1>. QED
  BY <1>1, <1>6 DEF LoopFits, SizeOf

LEMMA AddPlayerFits ==
  ASSUME IInv, NEW b \in DOMAIN buffer, AddPlayer(b)
  PROVE  SizesStay /\ \A i \in DOMAIN player : Live(i) => player'[i] = player[i]
<1>1. /\ Used(b)
      /\ FreePlayers = {} => 2 * Slots(player) <= MaxPlayers
      /\ player' = Placed(player, FreePlayers, NewPlayer(b), NoPlayer)
      /\ buffer' = [buffer EXCEPT ![b].ref = @ + Cardinality(Sources)]
  BY DEF AddPlayer
<1>2. PICK fresh : fresh = NewPlayer(b)
  OBVIOUS
<1>3. fresh \in Players /\ NoPlayer \in Players
  <2>1. NoPlayer \in Players
    BY DEF NoPlayer, Players, Modes, Modulators
  <2>. QED
    BY <1>1, <1>2, <2>1, NewPlayerSeated DEF IInv
<1>4. TakesSlot(player, player', FreePlayers, fresh, NoPlayer)
  <2>1. /\ FreePlayers \in SUBSET (DOMAIN player)
        /\ Shaped(player, Players, MaxPlayers) /\ MaxPlayers \in Nat \ {0}
    BY ConstantsAssumption DEF FreePlayers, IInv, Tables
  <2>2. /\ player' = Placed(player, FreePlayers, fresh, NoPlayer)
        /\ FreePlayers = {} => 2 * Slots(player) <= MaxPlayers
    BY <1>1, <1>2
  <2>. QED
    BY <1>3, <2>1, <2>2, PlacedInTable
<1>5. PICK at \in DOMAIN player' :
        /\ at \in FreePlayers \/ at \notin DOMAIN player
        /\ \A i \in DOMAIN player' : i # at =>
             player'[i] = IF i \in DOMAIN player THEN player[i] ELSE NoPlayer
  BY <1>4 DEF TakesSlot
<1>6. ASSUME NEW i \in DOMAIN player, Live(i) PROVE player'[i] = player[i]
  <2>1. i # at /\ i \in DOMAIN player'
    BY <1>4, <1>5, <1>6 DEF FreePlayers, TakesSlot
  <2>. QED
    BY <1>5, <2>1
<1>7. \A c \in DOMAIN buffer : buffer[c] \in Buffers
  BY TablesTyped DEF IInv
<1>8. DOMAIN buffer' = DOMAIN buffer
      /\ \A c \in DOMAIN buffer : buffer'[c].size = buffer[c].size
  BY <1>1, <1>7 DEF Buffers
<1>. QED
  BY <1>6, <1>8 DEF SizesStay, Used

(* A step that is not the exchange of the input leaves a loop that fits    *)
(* fitting, whichever player it is for. *)
LEMMA LoopStillFits ==
  ASSUME IInv, [Next]_vars, NEW i \in DOMAIN player, Live(i), LoopFits(i), Live(i)',
         player'[i].use["in"] = player[i].use["in"]
  PROVE  LoopFits(i)'
<1>1. ASSUME UNCHANGED buffer PROVE SizesStay
  BY <1>1 DEF SizesStay, Used
<1>2. ASSUME NEW how, Stop(how) PROVE FALSE
  BY <1>2 DEF Stop, NoSlots, Live
<1>3. ASSUME NEW size \in Sizes, AddBuffer(size) PROVE LoopFits(i)'
  <2>1. SizesStay /\ UNCHANGED player
    BY <1>3, AddBufferFits DEF AddBuffer
  <2>. QED
    BY <2>1, FitsStill
<1>4. ASSUME NEW b \in DOMAIN buffer, FreeBuffer(b) PROVE LoopFits(i)'
  BY <1>4, FreeBufferFits DEF FreeBuffer
<1>5. ASSUME NEW b \in DOMAIN buffer, AddPlayer(b) PROVE LoopFits(i)'
  <2>1. SizesStay /\ player'[i] = player[i]
    BY <1>5, AddPlayerFits
  <2>. QED
    BY <2>1, FitsStill
<1>6. \A b \in DOMAIN buffer : buffer[b] \in Buffers
  BY TablesTyped DEF IInv
<1>7. ASSUME NEW j \in DOMAIN player, FreePlayer(j) PROVE LoopFits(i)'
  <2>1. SizesStay
    <3>1. DOMAIN buffer' = DOMAIN buffer
          /\ \A b \in DOMAIN buffer : buffer'[b].size = buffer[b].size
      BY <1>6, <1>7 DEF FreePlayer, Buffers
    <3>. QED
      BY <3>1 DEF SizesStay, Used
  <2>2. player' = [player EXCEPT ![j] = NoPlayer]
    BY <1>7 DEF FreePlayer
  <2>3. i # j
    BY <2>2 DEF Live, NoPlayer, Roles
  <2>4. player'[i] = player[i]
    BY <2>2, <2>3
  <2>. QED
    BY <2>1, <2>4, FitsStill
<1>8. ASSUME NEW j \in DOMAIN player, NEW r \in Roles, NEW number, Rewire(j, r, number)
      PROVE  LoopFits(i)'
  <2>1. SizesStay
    <3>1. DOMAIN buffer' = DOMAIN buffer
          /\ \A b \in DOMAIN buffer : buffer'[b].size = buffer[b].size
      BY <1>6, <1>8 DEF Rewire, Buffers
    <3>. QED
      BY <3>1 DEF SizesStay, Used
  <2>2. PICK q : q = [player[j] EXCEPT !.use[r] = number, !.at[r] = 0]
    OBVIOUS
  <2>3. player' = [player EXCEPT ![j] = q]
    BY <1>8, <2>2 DEF Rewire
  <2>4. q.loopStart = player[j].loopStart /\ q.loopEnd = player[j].loopEnd
    BY <2>2, TablesTyped DEF IInv, Players
  <2>. QED
    BY <2>1, <2>3, <2>4, FitsWhenSet
<1>9. ASSUME NEW j \in DOMAIN player, NEW q, NEW call, Set(call, j, q),
             q.loopStart = player[j].loopStart, q.loopEnd = player[j].loopEnd
      PROVE  LoopFits(i)'
  <2>1. SizesStay /\ player' = [player EXCEPT ![j] = q]
    BY <1>1, <1>9 DEF Set
  <2>. QED
    BY <1>9, <2>1, FitsWhenSet
<1>10. ASSUME NEW j \in DOMAIN player, NEW x \in 0 .. SizeOf(player[j], "in"),
              SetLoopStart(j, x) \/ SetLoopEnd(j, x)
       PROVE  LoopFits(i)'
  <2>1. PICK p \in Players : p = player[j]
    BY TablesTyped DEF IInv
  <2>2. UNCHANGED buffer
    BY <1>10 DEF SetLoopStart, SetLoopEnd, Set
  <2>3. CASE i # j
    <3>1. player'[i] = player[i]
      BY <1>10, <2>3 DEF SetLoopStart, SetLoopEnd, Set
    <3>. QED
      BY <1>1, <2>2, <3>1, FitsStill
  <2>4. CASE i = j
    <3>1. CASE SetLoopStart(j, x)
      <4>1. PICK q : q = [p EXCEPT !.loopStart = x]
        OBVIOUS
      <4>2. player'[i] = q /\ x < p.loopEnd
        BY <2>1, <2>4, <3>1, <4>1 DEF SetLoopStart, Set
      <4>3. q.loopStart = x /\ q.loopEnd = p.loopEnd
        BY <2>1, <4>1 DEF Players
      <4>. QED
        BY <2>1, <2>2, <2>4, <4>2, <4>3 DEF LoopFits, SizeOf
    <3>2. CASE SetLoopEnd(j, x)
      <4>1. PICK q : q = [p EXCEPT !.loopEnd = x]
        OBVIOUS
      <4>2. player'[i] = q /\ x > p.loopStart /\ x < buffer[p.use["in"]].size
        BY <2>1, <2>4, <3>2, <4>1 DEF SetLoopEnd, Set
      <4>3. q.loopStart = p.loopStart /\ q.loopEnd = x
        BY <2>1, <4>1 DEF Players
      <4>4. x \in Nat /\ p.loopStart \in Nat
        BY <1>10 DEF Players
      <4>. QED
        BY <2>1, <2>2, <2>4, <4>2, <4>3, <4>4 DEF LoopFits, SizeOf
    <3>. QED
      BY <1>10, <3>1, <3>2
  <2>. QED
    BY <2>3, <2>4
<1>11. ASSUME NEW j \in DOMAIN player, Tune(j) PROVE LoopFits(i)'
  <2>1. player[j] \in Players
    BY TablesTyped DEF IInv
  <2>2. ASSUME NEW x \in Positions, SetInputPos(j, x) \/ SetOutputPos(j, x)
        PROVE  LoopFits(i)'
    <3>1. PICK q, r : /\ q = [player[j] EXCEPT !.at["in"] = x]
                      /\ r = [player[j] EXCEPT !.at["out"] = x]
      OBVIOUS
    <3>2. Set("at", j, q) \/ Set("at", j, r)
      BY <2>2, <3>1 DEF SetInputPos, SetOutputPos
    <3>3. /\ q.loopStart = player[j].loopStart /\ q.loopEnd = player[j].loopEnd
          /\ r.loopStart = player[j].loopStart /\ r.loopEnd = player[j].loopEnd
      BY <2>1, <3>1 DEF Players
    <3>. QED
      BY <1>9, <3>2, <3>3
  <2>3. ASSUME NEW m, SetMode(j, m) \/ SetVolumeMode(j, m) \/ SetSpeedMode(j, m)
                      \/ SetSpeed(j, m)
        PROVE  LoopFits(i)'
    <3>1. PICK q, r, s, t : /\ q = [player[j] EXCEPT !.mode = m]
                            /\ r = [player[j] EXCEPT !.volMode = m]
                            /\ s = [player[j] EXCEPT !.speedMode = m]
                            /\ t = [player[j] EXCEPT !.speed = m]
      OBVIOUS
    <3>2. Set("mode", j, q) \/ Set("volmode", j, r) \/ Set("speedmode", j, s)
            \/ Set("rate", j, t)
      BY <2>3, <3>1 DEF SetMode, SetVolumeMode, SetSpeedMode, SetSpeed
    <3>3. \A f \in {q, r, s, t} :
            f.loopStart = player[j].loopStart /\ f.loopEnd = player[j].loopEnd
      BY <2>1, <3>1 DEF Players
    <3>. QED
      BY <1>9, <3>2, <3>3
  <2>4. ASSUME NEW req \in Requests, NEW need \in Needs, RunPlayer(j, req, need)
        PROVE  LoopFits(i)'
    <3>1. CASE UNCHANGED vars
      BY <1>1, <3>1, FitsStill DEF vars
    <3>2. ASSUME NEW q, Steady(player[j], q), player' = [player EXCEPT ![j] = q],
                 UNCHANGED buffer
          PROVE  LoopFits(i)'
      BY <1>1, <3>2, FitsWhenSet DEF Steady
    <3>. QED
      BY <1>2, <2>4, <3>1, <3>2, RunPlays
  <2>. QED
    BY <1>10, <1>11, <2>2, <2>3, <2>4 DEF Tune
<1>12. ASSUME NEW j \in DOMAIN player, Exchange(j) PROVE LoopFits(i)'
  <2>1. {"in", "out", "vol", "phase", "speed"} \subseteq Roles
    BY DEF Roles
  <2>. QED
    BY <1>8, <1>12, <2>1 DEF Exchange, SetInputBuffer, SetVolumeSource, SetPhaseSource,
       SetSpeedSource, SetOutputBuffer
<1>13. ASSUME NEW table, NEW number, Refuse(table, number) PROVE FALSE
  BY <1>2, <1>13 DEF Refuse
<1>14. CASE UNCHANGED vars
  BY <1>1, <1>14, FitsStill DEF vars
<1>. QED
  BY <1>3, <1>4, <1>5, <1>7, <1>11, <1>12, <1>13, <1>14 DEF Next

(* A loop that lies in its buffer leaves it only when                      *)
(* synth_set_player_input_buffer puts another buffer under it:             *)
(* synth_free_buffer cannot take the buffer away and                       *)
(* synth_set_player_loop_start, synth_set_player_loop_end and              *)
(* synth_run_player keep the loop inside.                                  *)
THEOREM OnlyAnExchangeUnfits == Spec => OnlyExchangeUnfits
<1>1. IInv /\ [Next]_vars =>
        [\A i \in DOMAIN player :
           /\ Live(i) /\ LoopFits(i) /\ Live(i)'
           /\ player'[i].use["in"] = player[i].use["in"]
           => LoopFits(i)']_vars
  BY LoopStillFits
<1>. QED
  BY <1>1, AlwaysIInv, PTL DEF Spec, OnlyExchangeUnfits

-----------------------------------------------------------------------------
(* A run of a player with sound settings stays inside its buffers.         *)

(* The numbers behind it. *)
LEMMA Scaled ==
  ASSUME NEW a \in Nat, NEW b \in Nat, NEW g \in Nat \ {0}, a < b
  PROVE  a * g \in Nat /\ b * g \in Nat /\ a * g < b * g
<1>1. PICK c \in Nat \ {0} : b = a + c
  <2>1. b - a \in Nat \ {0} /\ b = a + (b - a)
    OBVIOUS
  <2>. QED
    BY <2>1
<1>2. c * g \in Nat \ {0} /\ a * g \in Nat
  OBVIOUS
<1>3. b * g = a * g + c * g
  BY <1>1
<1>. QED
  BY <1>2, <1>3

(* A position in front of the buffer's end is in one of its samples. *)
LEMMA ReadInside ==
  ASSUME NEW x \in Nat, NEW size \in Nat, x < size * Grain
  PROVE  Truncated(x) \in 0 .. (size - 1)
<1>1. PICK g \in Nat \ {0} : g = Grain
  BY ConstantsAssumption
<1>2. PICK k \in Nat : k = x \div g
  BY <1>1
<1>3. k * g <= x
  BY <1>1, <1>2
<1>4. k < size
  <2>1. SUFFICES ASSUME size <= k PROVE FALSE
    OBVIOUS
  <2>2. size * g <= k * g
    <3>1. CASE size = k
      BY <3>1
    <3>2. CASE size < k
      BY <3>2, Scaled
    <3>. QED
      BY <2>1, <3>1, <3>2
  <2>. QED
    BY <1>1, <1>3, <2>2
<1>. QED
  BY <1>1, <1>2, <1>4 DEF Truncated

(* The turns that the count of samples left allows end in the input. *)
LEMMA QuotaFits ==
  ASSUME NEW left \in Nat, NEW speed \in Nat \ {0}, NEW todo \in Nat
  PROVE  /\ Less(todo, left \div speed) \in Nat
         /\ Less(todo, left \div speed) * speed <= left
<1>1. PICK k \in Nat : k = left \div speed
  OBVIOUS
<1>2. k * speed <= left
  BY <1>1
<1>3. CASE todo < k
  <2>1. todo * speed < k * speed /\ Less(todo, k) = todo
    BY <1>3, Scaled DEF Less
  <2>. QED
    BY <1>1, <1>2, <2>1
<1>4. CASE ~(todo < k)
  BY <1>1, <1>2, <1>4 DEF Less
<1>. QED
  BY <1>3, <1>4

(* Where StepLoop goes from x by d in a loop from s to e in w units. *)
Jumped(x, d, s, e, w) ==
  LET moved == Remainder(x + d, w)
  IN  IF x <= e /\ moved > e THEN moved - (e - s)
      ELSE IF x >= s /\ moved < s THEN moved + (e - s)
      ELSE moved

LEMMA JumpStaysInLoop ==
  ASSUME NEW s \in Nat, NEW e \in Nat, NEW w \in Nat, s < e, e < w,
         NEW x \in Int, s <= x, x <= e,
         NEW d \in Int, Magnitude(d) <= e - s, e + Magnitude(d) < w
  PROVE  Jumped(x, d, s, e, w) \in s .. e
<1>1. Remainder(x + d, w) = x + d
  <2>1. CASE x + d >= 0
    <3>1. x + d < w
      BY DEF Magnitude
    <3>. QED
      BY <2>1, <3>1 DEF Remainder
  <2>2. CASE ~(x + d >= 0)
    <3>1. PICK n \in Nat : n = -(x + d)
      BY <2>2
    <3>2. n < w
      BY <3>1 DEF Magnitude
    <3>3. n % w = n
      BY <3>2
    <3>. QED
      BY <2>2, <3>1, <3>3 DEF Remainder
  <2>. QED
    BY <2>1, <2>2
<1>. QED
  BY <1>1 DEF Jumped, Magnitude

LEMMA JumpStaysInBuffer ==
  ASSUME NEW s \in Nat, NEW e \in Nat, NEW w \in Nat, s < e, e < w,
         NEW x \in 0 .. (w - 1), NEW d \in Nat
  PROVE  Jumped(x, d, s, e, w) \in 0 .. (w - 1)
<1>1. PICK moved \in 0 .. (w - 1) : moved = Remainder(x + d, w)
  <2>1. x + d \in Nat /\ w \in Nat \ {0}
    OBVIOUS
  <2>2. (x + d) % w \in 0 .. (w - 1)
    BY <2>1
  <2>. QED
    BY <2>1, <2>2 DEF Remainder
<1>. QED
  BY <1>1 DEF Jumped

(* Settings and a position from which a player can do rest more turns: in  *)
(* the loop, or in front of the input's end by that many steps.            *)
Fits(q) == q.loopStart < q.loopEnd /\ q.loopEnd < SizeOf(q, "in")

Forward(q) ==
  /\ q.at["in"] \in 0 .. (Span(q) - 1)
  /\ \A m \in Modulations : Stride(q, m) >= 0

Ready(q, rest) ==
  /\ Fits(q)
  /\ q.mode = "once" =>
       /\ q.speedMode = "constant" /\ q.speed > 0
       /\ q.at["in"] >= 0 /\ q.at["in"] + rest * q.speed <= Span(q)
  /\ q.mode = "loop" => InLoop(q) \/ Forward(q)
  /\ q.mode = "pingpong" => InLoop(q)

LEMMA ReadyAlike ==
  ASSUME NEW q, NEW n, NEW rest, Ready(q, rest),
         n.use = q.use, n.mode = q.mode, n.speedMode = q.speedMode, n.speed = q.speed,
         n.loopStart = q.loopStart, n.loopEnd = q.loopEnd, n.at["in"] = q.at["in"]
  PROVE  Ready(n, rest)
BY DEF Ready, Fits, Forward, InLoop, Stride, Span, Start, End, SizeOf

LEMMA LoopNumbers ==
  ASSUME Tables, NEW p, Seated(p), NEW q \in Players, q.use = p.use, Fits(q)
  PROVE  /\ Start(q) \in Nat /\ End(q) \in Nat /\ Span(q) \in Nat \ {0}
         /\ Start(q) < End(q) /\ End(q) < Span(q)
<1>1. PICK g \in Nat \ {0} : g = Grain
  BY ConstantsAssumption
<1>2. PICK a \in Nat, b \in Nat : a = q.loopStart /\ b = q.loopEnd
  BY DEF Players
<1>3. PICK c \in Nat : c = SizeOf(q, "in")
  <2>1. SizeOf(p, "in") \in Nat
    BY SizesPositive, RolesCounted
  <2>. QED
    BY <2>1 DEF SizeOf
<1>4. a < b /\ b < c
  BY <1>2, <1>3 DEF Fits
<1>5. a * g \in Nat /\ b * g \in Nat /\ c * g \in Nat /\ a * g < b * g /\ b * g < c * g
  BY <1>1, <1>4, Scaled
<1>. QED
  BY <1>1, <1>2, <1>3, <1>5 DEF Start, End, Span

(* What the sample of a speed buffer is, when the player looks at one. *)
Heeds(q, m) ==
  m \in Int /\ (q.speedMode = "source" /\ q.mode # "phase" => m \in Modulations)

HeedsAll(q, m, todo) == \A k \in 1 .. todo : Heeds(q, m[k])

LEMMA StrideKnown ==
  ASSUME NEW q \in Players, NEW m, Heeds(q, m), q.mode # "phase"
  PROVE  /\ Stride(q, m) \in Int
         /\ \E c \in Modulations : Stride(q, m) = Stride(q, c)
<1>1. q.speed \in Int
  BY DEF Players
<1>2. Stride(q, m) \in Int
  BY <1>1 DEF Stride, Heeds
<1>3. PICK c : c \in Modulations
  BY ConstantsAssumption
<1>4. \E b \in Modulations : Stride(q, m) = Stride(q, b)
  <2>1. CASE q.speedMode = "source"
    BY <2>1 DEF Heeds
  <2>2. CASE q.speedMode # "source"
    <3>1. Stride(q, m) = Stride(q, c)
      BY <2>2 DEF Stride
    <3>. QED
      BY <1>3, <3>1
  <2>. QED
    BY <2>1, <2>2
<1>. QED
  BY <1>2, <1>4

(* A turn at constant speed in a buffer that has rest more of them. *)
LEMMA OnceReady ==
  ASSUME NEW x \in Int, NEW speed \in Int, NEW rest \in Nat \ {0}, NEW w \in Int,
         x >= 0, speed > 0, x + rest * speed <= w
  PROVE  x < w /\ x + speed >= 0 /\ (x + speed) + (rest - 1) * speed <= w
<1>1. PICK r \in Nat : r = rest - 1
  OBVIOUS
<1>2. rest * speed = r * speed + speed /\ r * speed \in Nat
  BY <1>1
<1>. QED
  BY <1>1, <1>2

LEMMA LoopJumps ==
  ASSUME NEW q, NEW d
  PROVE  StepLoop(q, d) =
           [q EXCEPT !.at["in"] = Jumped(q.at["in"], d, Start(q), End(q), Span(q))]
BY DEF StepLoop, Jumped

LEMMA LoopReady ==
  ASSUME Tables, NEW p, Seated(p), NEW q, Steady(p, q), Fits(q),
         NEW m, Heeds(q, m), q.mode # "phase", InLoop(q) \/ Forward(q)
  PROVE  LET n == StepLoop(q, Stride(q, m))
         IN  /\ Steady(p, n) /\ n.speed = q.speed /\ n.at["in"] \in Int
             /\ n.at["out"] = q.at["out"]
             /\ InLoop(q) => n.at["in"] \in Start(q) .. End(q)
             /\ Forward(q) => n.at["in"] \in 0 .. (Span(q) - 1)
<1>1. q \in Players /\ q.use = p.use /\ q.at["in"] \in Int
  BY DEF Steady, Players, Roles
<1>2. PICK s \in Nat, e \in Nat, w \in Nat :
        s = Start(q) /\ e = End(q) /\ w = Span(q) /\ s < e /\ e < w
  BY <1>1, LoopNumbers
<1>3. PICK d \in Int, c \in Modulations : d = Stride(q, m) /\ d = Stride(q, c)
  BY <1>1, StrideKnown
<1>4. PICK x \in Int : x = q.at["in"]
  BY <1>1
<1>5. PICK y : y = Jumped(x, d, s, e, w)
  OBVIOUS
<1>6. ASSUME InLoop(q) PROVE y \in s .. e
  <2>1. s <= x /\ x <= e
    BY <1>2, <1>4, <1>6 DEF InLoop
  <2>2. Magnitude(d) <= e - s /\ e + Magnitude(d) < w
    BY <1>2, <1>3, <1>6 DEF InLoop
  <2>. QED
    BY <1>2, <1>5, <2>1, <2>2, JumpStaysInLoop
<1>7. ASSUME Forward(q) PROVE y \in 0 .. (w - 1)
  <2>1. x \in 0 .. (w - 1) /\ d \in Nat
    BY <1>2, <1>3, <1>4, <1>7 DEF Forward
  <2>. QED
    BY <1>2, <1>5, <2>1, JumpStaysInBuffer
<1>8. y \in Int
  BY <1>2, <1>6, <1>7
<1>9. PICK n : n = StepLoop(q, Stride(q, m))
  OBVIOUS
<1>10. n = [q EXCEPT !.at["in"] = y]
  BY <1>2, <1>3, <1>4, <1>5, <1>9, LoopJumps
<1>11. Steady(p, n) /\ n.speed = q.speed /\ n.at["in"] = y
  BY <1>8, <1>10, MovedSteady
<1>12. n.at["out"] = q.at["out"]
  BY <1>1, <1>10 DEF Players, Roles
<1>. QED
  BY <1>2, <1>6, <1>7, <1>8, <1>9, <1>11, <1>12

(* The direction does not matter to what lies in reach. *)
LEMMA InLoopStill ==
  ASSUME NEW q \in Players, NEW n \in Players, InLoop(q),
         n.use = q.use, n.speedMode = q.speedMode,
         n.loopStart = q.loopStart, n.loopEnd = q.loopEnd,
         n.speed = q.speed \/ n.speed = -q.speed,
         Start(q) <= n.at["in"], n.at["in"] <= End(q)
  PROVE  InLoop(n)
<1>1. Start(n) = Start(q) /\ End(n) = End(q) /\ Span(n) = Span(q)
  BY DEF Start, End, Span, SizeOf
<1>2. PICK u \in Int, v \in Int : u = q.speed /\ v = n.speed
  BY DEF Players
<1>3. ASSUME NEW m \in Modulations
      PROVE  Magnitude(Stride(n, m)) = Magnitude(Stride(q, m))
  <2>1. PICK k \in Int : k = m
    BY ConstantsAssumption
  <2>2. PICK a \in Int : a = u * k
    OBVIOUS
  <2>3. v * k = a \/ v * k = -a
    BY <1>2, <2>2
  <2>. QED
    BY <1>2, <2>1, <2>2, <2>3 DEF Stride, Magnitude
<1>. QED
  BY <1>1, <1>3 DEF InLoop

LEMMA InputReady ==
  ASSUME Tables, NEW p, Seated(p), NEW q, Steady(p, q), NEW m, Heeds(q, m),
         NEW rest \in Nat \ {0}, Ready(q, rest)
  PROVE  LET n == StepInput(q, m)
         IN  Steady(p, n) /\ Ready(n, rest - 1) /\ n.at["out"] = q.at["out"] /\ ~EndsAt(n)
<1>1. /\ q \in Players /\ q.use = p.use /\ q.at["in"] \in Int /\ q.speed \in Int
      /\ q.mode \in Modes /\ Fits(q)
  BY DEF Steady, Players, Roles, Ready
<1>2. PICK n : n = StepInput(q, m)
  OBVIOUS
<1>3. Steady(p, n)
  BY <1>2, InputSteady DEF Heeds
<1>4. /\ n \in Players /\ n.use = q.use /\ n.mode = q.mode /\ n.speedMode = q.speedMode
      /\ n.loopStart = q.loopStart /\ n.loopEnd = q.loopEnd
  BY <1>3 DEF Steady
<1>5. /\ Fits(n) /\ Start(n) = Start(q) /\ End(n) = End(q) /\ Span(n) = Span(q)
  BY <1>1, <1>4 DEF Fits, Start, End, Span, SizeOf
<1>6. CASE q.mode = "once"
  <2>1. q.speedMode = "constant" /\ q.speed > 0
        /\ q.at["in"] >= 0 /\ q.at["in"] + rest * q.speed <= Span(q)
    BY <1>6 DEF Ready
  <2>2. n = [q EXCEPT !.at["in"] = q.at["in"] + q.speed]
    BY <1>2, <1>6, <2>1 DEF StepInput, StepOnce, Stride
  <2>3. n.speed = q.speed /\ n.at["in"] = q.at["in"] + q.speed /\ n.at["out"] = q.at["out"]
    BY <1>1, <2>2 DEF Players, Roles
  <2>4. Span(q) \in Int
    BY <1>1, LoopNumbers
  <2>5. PICK x \in Int, v \in Int, w \in Int :
          x = q.at["in"] /\ v = q.speed /\ w = Span(q)
    BY <1>1, <2>4
  <2>6. x + v >= 0 /\ (x + v) + (rest - 1) * v <= w
    BY <2>1, <2>5, OnceReady
  <2>7. Ready(n, rest - 1)
    BY <1>4, <1>5, <1>6, <2>1, <2>3, <2>5, <2>6 DEF Ready
  <2>8. ~EndsAt(n)
    BY <1>4, <2>1 DEF EndsAt
  <2>. QED
    BY <1>2, <1>3, <2>3, <2>7, <2>8
<1>7. CASE q.mode = "loop" \/ q.mode = "pingpong"
  <2>1. PICK l : l = StepLoop(q, Stride(q, m))
    OBVIOUS
  <2>2. InLoop(q) \/ (q.mode = "loop" /\ Forward(q))
    BY <1>7 DEF Ready
  <2>3. /\ Steady(p, l) /\ l.speed = q.speed /\ l.at["in"] \in Int
        /\ l.at["out"] = q.at["out"]
        /\ InLoop(q) => l.at["in"] \in Start(q) .. End(q)
        /\ Forward(q) => l.at["in"] \in 0 .. (Span(q) - 1)
    <3>1. q.mode # "phase"
      BY <1>7
    <3>. QED
      BY <1>1, <2>1, <2>2, <3>1, LoopReady
  <2>4. /\ n.at = l.at
        /\ n.speed = q.speed \/ (q.mode = "pingpong" /\ n.speed = -q.speed)
    <3>1. l \in Players
      BY <2>3 DEF Steady
    <3>2. CASE q.mode = "loop"
      BY <1>2, <2>1, <2>3, <3>2 DEF StepInput
    <3>3. CASE q.mode = "pingpong"
      <4>1. \E v : n = [l EXCEPT !.speed = IF v THEN -l.speed ELSE l.speed]
        <5>1. n = StepPingPong(q, Stride(q, m))
          BY <1>2, <3>3 DEF StepInput
        <5>2. PICK moved : moved = Remainder(q.at["in"] + Stride(q, m), Span(q))
          OBVIOUS
        <5>3. PICK v : v = (\/ q.at["in"] <= End(q) /\ moved > End(q)
                            \/ q.at["in"] >= Start(q) /\ moved < Start(q))
          OBVIOUS
        <5>4. n = [l EXCEPT !.speed = IF v THEN -l.speed ELSE l.speed]
          BY <2>1, <5>1, <5>2, <5>3 DEF StepPingPong
        <5>. QED
          BY <5>4
      <4>2. PICK v : n = [l EXCEPT !.speed = IF v THEN -l.speed ELSE l.speed]
        BY <4>1
      <4>3. n.at = l.at /\ (n.speed = -l.speed \/ n.speed = l.speed)
        BY <3>1, <4>2 DEF Players
      <4>. QED
        BY <2>3, <3>3, <4>3
    <3>. QED
      BY <1>7, <3>2, <3>3
  <2>5. ASSUME InLoop(q) PROVE InLoop(n)
    <3>1. Start(q) <= n.at["in"] /\ n.at["in"] <= End(q)
      BY <2>3, <2>4, <2>5
    <3>. QED
      BY <1>1, <1>4, <2>4, <2>5, <3>1, InLoopStill
  <2>6. ASSUME q.mode = "loop", Forward(q) PROVE Forward(n)
    <3>1. n.at["in"] \in 0 .. (Span(n) - 1)
      BY <1>5, <2>3, <2>4, <2>6
    <3>2. \A c \in Modulations : Stride(n, c) = Stride(q, c)
      BY <1>4, <2>4, <2>6 DEF Stride
    <3>. QED
      BY <2>6, <3>1, <3>2 DEF Forward
  <2>7. Ready(n, rest - 1)
    BY <1>4, <1>5, <1>7, <2>2, <2>5, <2>6 DEF Ready
  <2>8. ~EndsAt(n)
    BY <1>4, <1>7 DEF EndsAt
  <2>. QED
    BY <1>2, <1>3, <2>3, <2>4, <2>7, <2>8
<1>8. CASE q.mode = "phase"
  <2>1. n = [q EXCEPT !.at["phase"] = (q.at["phase"] + 1) % SizeOf(q, "phase")]
    BY <1>2, <1>8 DEF StepInput, StepPhase
  <2>2. n.at["out"] = q.at["out"]
    BY <1>1, <2>1 DEF Players, Roles
  <2>3. Ready(n, rest - 1) /\ ~EndsAt(n)
    BY <1>4, <1>5, <1>8 DEF Ready, EndsAt
  <2>. QED
    BY <1>2, <1>3, <2>2, <2>3
<1>. QED
  BY <1>1, <1>6, <1>7, <1>8 DEF Modes

LEMMA SourcesLeave ==
  ASSUME NEW q \in Players
  PROVE  LET n == StepSources(q)
         IN  /\ n.use = q.use /\ n.mode = q.mode /\ n.speedMode = q.speedMode
             /\ n.speed = q.speed /\ n.loopStart = q.loopStart /\ n.loopEnd = q.loopEnd
             /\ n.at["in"] = q.at["in"] /\ n.at["out"] = q.at["out"]
BY DEF StepSources, Players, Roles

(* A player that is ready for a turn is at a sample of its input. *)
LEMMA ReadyToRead ==
  ASSUME Tables, NEW p, Seated(p), NEW q, Steady(p, q),
         NEW rest \in Nat \ {0}, Ready(q, rest), q.mode # "phase"
  PROVE  Truncated(q.at["in"]) \in 0 .. (SizeOf(q, "in") - 1)
<1>1. /\ q \in Players /\ q.use = p.use /\ q.at["in"] \in Int /\ q.speed \in Int
      /\ q.mode \in Modes /\ Fits(q)
  BY DEF Steady, Players, Roles, Ready
<1>2. PICK s \in Nat, e \in Nat, w \in Nat :
        s = Start(q) /\ e = End(q) /\ w = Span(q) /\ s < e /\ e < w
  BY <1>1, LoopNumbers
<1>3. q.at["in"] \in Nat /\ q.at["in"] < w
  <2>1. CASE q.mode = "once"
    <3>1. PICK x \in Int, v \in Int : x = q.at["in"] /\ v = q.speed
      BY <1>1
    <3>2. x >= 0 /\ v > 0 /\ x + rest * v <= w
      BY <1>2, <2>1, <3>1 DEF Ready
    <3>. QED
      BY <1>2, <3>1, <3>2, OnceReady
  <2>2. CASE InLoop(q)
    BY <1>1, <1>2, <2>2 DEF InLoop
  <2>3. CASE Forward(q)
    BY <1>2, <2>3 DEF Forward
  <2>. QED
    BY <1>1, <2>1, <2>2, <2>3 DEF Ready, Modes
<1>4. PICK size \in Nat : size = SizeOf(q, "in")
  <2>1. SizeOf(p, "in") \in Nat
    BY SizesPositive, RolesCounted
  <2>. QED
    BY <1>1, <2>1 DEF SizeOf
<1>. QED
  BY <1>2, <1>3, <1>4, ReadInside DEF Span

LEMMA SampleReady ==
  ASSUME Tables, NEW p, Seated(p), NEW q, Steady(p, q), NEW m, Heeds(q, m),
         NEW rest \in Nat \ {0}, Ready(q, rest),
         NEW os \in Int, q.at["out"] < os
  PROVE  \E r : /\ Sample(Started(q), m, os) = Started(r)
                /\ Steady(p, r) /\ Ready(r, rest - 1) /\ r.at["out"] = q.at["out"] + 1
<1>1. q \in Players /\ q.at["out"] \in Int
  BY DEF Steady, Players, Roles
<1>2. PICK o \in Int : o = q.at["out"] + 1
  BY <1>1
<1>3. PICK c : c = [q EXCEPT !.at["out"] = o]
  OBVIOUS
<1>4. Steady(p, c) /\ c.at["out"] = o /\ c.speed = q.speed
  BY <1>3, MovedSteady
<1>5. /\ c.use = q.use /\ c.mode = q.mode /\ c.speedMode = q.speedMode
      /\ c.loopStart = q.loopStart /\ c.loopEnd = q.loopEnd /\ c.at["in"] = q.at["in"]
  BY <1>1, <1>3 DEF Players, Roles
<1>6. Ready(c, rest)
  BY <1>4, <1>5, ReadyAlike
<1>7. PICK n : n = StepInput(c, m)
  OBVIOUS
<1>8. Steady(p, n) /\ Ready(n, rest - 1) /\ n.at["out"] = o /\ ~EndsAt(n)
  <2>1. Heeds(c, m)
    BY <1>5 DEF Heeds
  <2>. QED
    BY <1>4, <1>6, <1>7, <2>1, InputReady
<1>9. PICK r : r = StepSources(n)
  OBVIOUS
<1>10. Steady(p, r) /\ Ready(r, rest - 1) /\ r.at["out"] = o
  <2>1. n \in Players
    BY <1>8 DEF Steady
  <2>2. Steady(p, r)
    BY <1>8, <1>9, StepsSteady
  <2>. QED
    BY <1>8, <1>9, <2>1, <2>2, SourcesLeave, ReadyAlike
<1>11. Sample(Started(q), m, os) = Started(r)
  <2>1. ~(q.at["out"] >= os)
    BY <1>1
  <2>2. q.mode = "phase" \/ Truncated(q.at["in"]) \in 0 .. (SizeOf(q, "in") - 1)
    BY ReadyToRead
  <2>3. [q EXCEPT !.at["out"] = @ + 1] = c
    BY <1>2, <1>3
  <2>4. PICK run : run = Started(q)
    OBVIOUS
  <2>5. run.p = q /\ run.over = FALSE /\ run.ended = FALSE
    BY <2>4 DEF Started
  <2>6. Sample(run, m, os) = [run EXCEPT !.p = r]
    BY <1>7, <1>8, <1>9, <2>1, <2>2, <2>3, <2>5 DEF Sample
  <2>7. [run EXCEPT !.p = r] = Started(r)
    <3>1. PICK no : no = FALSE
      OBVIOUS
    <3>2. run = [p |-> q, over |-> no, ended |-> no]
      BY <2>4, <3>1 DEF Started
    <3>3. [run EXCEPT !.p = r] = [p |-> r, over |-> no, ended |-> no]
      BY <3>2
    <3>. QED
      BY <3>1, <3>3 DEF Started
  <2>. QED
    BY <2>4, <2>6, <2>7
<1>. QED
  BY <1>2, <1>10, <1>11

(* However many turns a player is ready for. *)
LEMMA PlayedReady ==
  ASSUME Tables, NEW p \in Players, Seated(p), NEW todo \in Nat, Ready(p, todo),
         NEW m, HeedsAll(p, m, todo),
         NEW os \in Int, todo > 0 => p.at["out"] + todo <= os
  PROVE  \E r : /\ Played(p, todo, m, os) = Started(r)
                /\ Steady(p, r) /\ Ready(r, 0) /\ r.at["out"] = p.at["out"] + todo
<1>1. PICK t : /\ t[0] = Started(p)
               /\ \A k \in 1 .. todo : t[k] = Sample(t[k - 1], m[k], os)
               /\ Played(p, todo, m, os) = t[todo]
  BY PlayedInTurns
<1>2. PICK out \in Int : out = p.at["out"]
  BY DEF Players, Roles
<1>. DEFINE S == {k \in 0 .. todo :
                   \E q : /\ t[k] = Started(q) /\ Steady(p, q) /\ Ready(q, todo - k)
                          /\ q.at["out"] = out + k}
<1>3. 0 \in S
  <2>1. Steady(p, p)
    BY DEF Steady, Seated
  <2>2. Ready(p, todo - 0) /\ p.at["out"] = out + 0
    BY <1>2
  <2>. QED
    BY <1>1, <2>1, <2>2
<1>4. ASSUME NEW k \in 0 .. (todo - 1), k \in S PROVE k + 1 \in S
  <2>1. k + 1 \in 1 .. todo /\ k + 1 - 1 = k /\ k + 1 \in 0 .. todo /\ todo > 0
    OBVIOUS
  <2>2. PICK q : /\ t[k] = Started(q) /\ Steady(p, q) /\ Ready(q, todo - k)
                 /\ q.at["out"] = out + k
    BY <1>4
  <2>3. PICK rest \in Nat \ {0} : rest = todo - k /\ rest - 1 = todo - (k + 1)
    BY <2>1
  <2>4. q.at["out"] < os
    BY <1>2, <2>1, <2>2
  <2>5. Heeds(q, m[k + 1])
    <3>1. Heeds(p, m[k + 1]) /\ q.mode = p.mode /\ q.speedMode = p.speedMode
      BY <2>1, <2>2 DEF Steady, HeedsAll
    <3>. QED
      BY <3>1 DEF Heeds
  <2>6. PICK r : /\ Sample(Started(q), m[k + 1], os) = Started(r)
                 /\ Steady(p, r) /\ Ready(r, rest - 1) /\ r.at["out"] = q.at["out"] + 1
    BY <2>2, <2>3, <2>4, <2>5, SampleReady
  <2>7. t[k + 1] = Started(r)
    BY <1>1, <2>1, <2>2, <2>6
  <2>8. r.at["out"] = out + (k + 1)
    BY <2>2, <2>6
  <2>. QED
    BY <2>1, <2>3, <2>6, <2>7, <2>8
<1>5. todo \in S
  <2>. HIDE DEF S
  <2>1. 0 .. todo \subseteq S
    BY <1>3, <1>4, Inductive
  <2>. QED
    BY <2>1
<1>6. PICK q : /\ t[todo] = Started(q) /\ Steady(p, q) /\ Ready(q, todo - todo)
               /\ q.at["out"] = out + todo
  BY <1>5
<1>. QED
  BY <1>1, <1>2, <1>6

(* The turns that a safe player is given are those it is ready for. *)
LEMMA SafeIsReady ==
  ASSUME IInv, NEW i \in DOMAIN player, Safe(i),
         NEW req \in Requests, NEW need \in Needs,
         NEW p, p = player[i], NEW os, os = OutSize(p, need),
         p.use["out"] < Channels => p.at["out"] < os,
         NEW todo,
         todo = IF OnceConstant(p) THEN Quota(p, Room(p, req, os)) ELSE Room(p, req, os)
  PROVE  /\ todo \in Nat /\ os \in Int /\ Ready(p, todo)
         /\ todo > 0 => p.at["out"] + todo <= os
         /\ OnceConstant(p) => Convertible(p)
<1>1. /\ p \in Players /\ Seated(p) /\ Fits(p) /\ p.at["in"] \in Int /\ p.speed \in Int
      /\ p.at["out"] \in Int /\ p.mode \in Modes
  <2>1. p \in Players /\ Seated(p)
    BY TablesTyped DEF IInv, AllSeated, Safe
  <2>2. Fits(p)
    BY DEF Safe, LoopFits, Fits
  <2>. QED
    BY <2>1, <2>2 DEF Players, Roles
<1>2. PICK room \in Nat : room = Room(p, req, os)
  BY <1>1, TurnsAreCounted DEF IInv
<1>3. os \in Nat /\ todo \in Nat
  <2>1. Tables
    BY DEF IInv
  <2>2. OutSize(p, need) \in Nat /\ Room(p, req, os) \in Nat /\ Quota(p, Room(p, req, os)) \in Nat
    BY <1>1, <2>1, TurnsAreCounted
  <2>. QED
    BY <2>2
<1>4. p.at["out"] <= os /\ p.at["out"] + room <= os
  <2>1. p.at["out"] <= os
    <3>1. CASE p.use["out"] < Channels
      BY <1>1, <1>3, <3>1
    <3>2. CASE ~(p.use["out"] < Channels)
      BY <3>2 DEF Safe, OutSize
    <3>. QED
      BY <3>1, <3>2
  <2>2. req \in Nat
    BY ConstantsAssumption
  <2>. QED
    BY <1>1, <1>2, <1>3, <2>1, <2>2 DEF Room, Less
<1>5. PICK w \in Nat : w = Span(p)
  <2>1. Span(p) \in Nat
    BY <1>1, LoopNumbers DEF IInv
  <2>. QED
    BY <2>1
<1>6. CASE p.mode = "once"
  <2>1. p.speedMode = "constant" /\ p.speed > 0 /\ p.at["in"] \in 0 .. w
    BY <1>5, <1>6 DEF Safe
  <2>2. OnceConstant(p)
    BY <1>6, <2>1 DEF OnceConstant
  <2>3. PICK left \in Nat : left = Left(p) /\ p.at["in"] + left = w
    <3>1. w - p.at["in"] \in Nat /\ p.at["in"] + (w - p.at["in"]) = w
      BY <1>1, <2>1
    <3>. QED
      BY <1>5, <3>1 DEF Left
  <2>4. PICK v \in Nat \ {0} : v = p.speed
    BY <1>1, <2>1
  <2>5. todo = Less(room, left \div v)
    <3>1. Magnitude(left) = left /\ Magnitude(v) = v
      BY DEF Magnitude
    <3>2. v # 0 /\ (left >= 0) = (v > 0)
      OBVIOUS
    <3>. QED
      BY <1>2, <2>2, <2>3, <2>4, <3>1, <3>2 DEF Quota
  <2>6. todo * v <= left /\ todo <= room
    <3>1. todo * v <= left
      BY <2>5, QuotaFits
    <3>2. left \div v \in Nat
      OBVIOUS
    <3>. QED
      BY <2>5, <3>1, <3>2 DEF Less
  <2>7. p.at["in"] + todo * p.speed <= Span(p)
    <3>1. PICK x \in Int, y \in Int : x = p.at["in"] /\ y = todo * v
      BY <1>1, <1>3
    <3>2. x + y <= w
      BY <2>3, <2>6, <3>1
    <3>. QED
      BY <1>5, <2>4, <3>1, <3>2
  <2>8. Ready(p, todo)
    BY <1>1, <1>6, <2>1, <2>7 DEF Ready
  <2>9. Convertible(p)
    BY <2>1, <2>3, <2>4 DEF Convertible
  <2>10. p.at["out"] + todo <= os
    BY <1>1, <1>2, <1>3, <1>4, <2>6
  <2>. QED
    BY <1>3, <2>8, <2>9, <2>10
<1>7. CASE p.mode # "once"
  <2>1. ~OnceConstant(p) /\ todo = room
    BY <1>2, <1>7 DEF OnceConstant
  <2>2. p.mode = "loop" => InLoop(p) \/ Forward(p)
    BY DEF Safe, Forward
  <2>3. p.mode = "pingpong" => InLoop(p)
    BY DEF Safe
  <2>4. Ready(p, todo)
    BY <1>1, <1>7, <2>2, <2>3 DEF Ready
  <2>. QED
    BY <1>3, <1>4, <2>1, <2>4
<1>. QED
  BY <1>6, <1>7

(* A player that has been run and is ready for more is safe. *)
LEMMA ReadyIsSafe ==
  ASSUME IInv, NEW i \in DOMAIN player, Safe(i), NEW r, Steady(player[i], r), Ready(r, 0),
         player' = [player EXCEPT ![i] = r], UNCHANGED buffer,
         r.use["out"] < Channels \/ r.at["out"] <= OutSize(player[i], 0)
  PROVE  Safe(i)'
<1>1. /\ r \in Players /\ r.use = player[i].use /\ r.at["in"] \in Int /\ r.speed \in Int
      /\ r.mode \in Modes
  BY DEF Steady, Players, Roles
<1>2. player'[i] = r /\ i \in DOMAIN player'
  OBVIOUS
<1>3. Live(i)'
  BY <1>1, <1>2 DEF Safe, Live
<1>4. LoopFits(i)'
  BY <1>2 DEF Ready, Fits, LoopFits, SizeOf
<1>5. OutSize(r, 0) = OutSize(player[i], 0)
  BY <1>1 DEF OutSize, BufferOf
<1>6. Span(r) \in Nat
  <2>1. Seated(player[i])
    BY DEF IInv, AllSeated, Safe
  <2>. QED
    BY <1>1, <2>1, LoopNumbers DEF IInv, Ready
<1>7. (CASE r.mode = "once" ->
              /\ r.speedMode = "constant" /\ r.speed > 0
              /\ r.at["in"] \in 0 .. Span(r)
         [] r.mode = "loop" ->
              \/ InLoop(r)
              \/ /\ r.at["in"] \in 0 .. (Span(r) - 1)
                 /\ \A m \in Modulations : Stride(r, m) >= 0
         [] r.mode = "pingpong" -> InLoop(r)
         [] r.mode = "phase" -> TRUE)
  <2>1. r.mode = "once" => r.at["in"] \in 0 .. Span(r)
    BY <1>1, <1>6 DEF Ready
  <2>. QED
    BY <1>1, <2>1 DEF Ready, Forward, Modes
<1>. QED
  BY <1>2, <1>3, <1>4, <1>5, <1>7
     DEF Safe, OutSize, BufferOf, Span, SizeOf, InLoop, Start, End

LEMMA SafeRunStaysSafe ==
  ASSUME IInv, NEW i \in DOMAIN player, Safe(i),
         NEW req \in Requests, NEW need \in Needs, RunPlayer(i, req, need)
  PROVE  Safe(i)' /\ status' = "running"
<1>1. PICK p : p = player[i]
  OBVIOUS
<1>2. PICK os : os = OutSize(p, need)
  OBVIOUS
<1>3. PICK todo :
        todo = IF OnceConstant(p) THEN Quota(p, Room(p, req, os)) ELSE Room(p, req, os)
  OBVIOUS
<1>4. status = "running"
  BY DEF RunPlayer, Making, Running
<1>5. CASE p.use["out"] < Channels /\ p.at["out"] >= os
  <2>1. UNCHANGED vars
    BY <1>1, <1>2, <1>5 DEF RunPlayer
  <2>. QED
    BY <1>4, <2>1
       DEF vars, Safe, Live, LoopFits, OutSize, BufferOf, Span, SizeOf, InLoop, Start, End
<1>6. CASE ~(p.use["out"] < Channels /\ p.at["out"] >= os)
  <2>1. p \in Players /\ Seated(p) /\ p.at["out"] \in Int
    <3>1. p \in Players /\ Seated(p)
      BY <1>1, TablesTyped DEF IInv, AllSeated, Safe
    <3>. QED
      BY <3>1 DEF Players, Roles
  <2>2. os \in Int
    BY <1>2, <2>1, TurnsAreCounted DEF IInv
  <2>3. /\ todo \in Nat /\ Ready(p, todo)
        /\ todo > 0 => p.at["out"] + todo <= os
        /\ OnceConstant(p) => Convertible(p)
    <3>1. p.use["out"] < Channels => p.at["out"] < os
      BY <1>6, <2>1, <2>2
    <3>. QED
      BY <1>1, <1>2, <1>3, <3>1, SafeIsReady
  <2>4. \E m \in Modulated(p, todo) :
          IF Played(p, todo, m, os).over THEN Stop("overrun")
          ELSE /\ player' = [player EXCEPT ![i] = Played(p, todo, m, os).p]
               /\ UNCHANGED <<buffer, script, status, handed, first>>
    BY <1>1, <1>2, <1>3, <1>6, <2>3 DEF RunPlayer
  <2>5. PICK m \in Modulated(p, todo) :
          IF Played(p, todo, m, os).over THEN Stop("overrun")
          ELSE /\ player' = [player EXCEPT ![i] = Played(p, todo, m, os).p]
               /\ UNCHANGED <<buffer, script, status, handed, first>>
    BY <2>4
  <2>6. HeedsAll(p, m, todo)
    <3>1. \A k \in 1 .. todo : m[k] \in Int
      BY <2>3, ModulationsAreInts
    <3>2. p.speedMode = "source" /\ p.mode # "phase" => m \in [1 .. todo -> Modulations]
      BY DEF Modulated
    <3>. QED
      BY <3>1, <3>2 DEF Heeds, HeedsAll
  <2>7. PICK r : /\ Played(p, todo, m, os) = Started(r)
                 /\ Steady(p, r) /\ Ready(r, 0) /\ r.at["out"] = p.at["out"] + todo
    BY <2>1, <2>2, <2>3, <2>6, PlayedReady DEF IInv
  <2>8. player' = [player EXCEPT ![i] = r] /\ UNCHANGED <<buffer, status>>
    <3>1. Played(p, todo, m, os).p = r /\ ~Played(p, todo, m, os).over
      BY <2>7 DEF Started
    <3>. QED
      BY <2>5, <3>1
  <2>9. r.use["out"] < Channels \/ r.at["out"] <= OutSize(p, 0)
    <3>1. r.use = p.use
      BY <2>7 DEF Steady
    <3>2. ASSUME ~(p.use["out"] < Channels) PROVE r.at["out"] <= OutSize(p, 0)
      <4>1. os = OutSize(p, 0)
        BY <1>2, <3>2 DEF OutSize
      <4>2. p.at["out"] <= os
        BY <1>1, <3>2, <4>1 DEF Safe
      <4>. QED
        BY <2>1, <2>2, <2>3, <2>7, <4>1, <4>2
    <3>. QED
      BY <3>1, <3>2
  <2>10. Safe(i)'
    BY <1>1, <2>7, <2>8, <2>9, ReadyIsSafe
  <2>. QED
    BY <1>4, <2>8, <2>10
<1>. QED
  BY <1>5, <1>6

(* Running a player whose settings and position are sound reads and writes *)
(* its buffers only inside them and leaves it such a player: whatever the  *)
(* request, what the device needs and what the source of the speed holds,  *)
(* the loops of synth_run_player neither drift out of the input, nor write *)
(* behind the output, nor make more turns than the input has samples left. *)
THEOREM SafeRunsStayInside == Spec => RunsStayInside
<1>1. IInv /\ [Next]_vars =>
        [\A i \in DOMAIN player :
           Safe(i) /\ (\E req \in Requests, need \in Needs : RunPlayer(i, req, need))
             => Safe(i)' /\ status' = "running"]_vars
  BY SafeRunStaysSafe
<1>. QED
  BY <1>1, AlwaysIInv, PTL DEF Spec, RunsStayInside
=============================================================================
