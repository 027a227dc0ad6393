----------------------------- MODULE GameProofs -----------------------------
(***************************************************************************)
(* Theorems about Game and SaveFile, for any directories, sizes and games. *)
(***************************************************************************)
EXTENDS Game, WellFoundedInduction, TLAPS

(* Between two runs nothing is open. *)
OffIsClosed == phase = "off" => savefile = Closed

(* A save that is open has a size, and its file is there. *)
OpenIsThere == savefile # Closed => savesize > 0 /\ file[savefile] # Absent

(* The mouse that the user released is not SDL's to keep. *)
ReleasedIsFree == captured = -1 => ~relative

(* While no directory changes, the save that was opened last is the one    *)
(* that create_save_file would come upon.                                  *)
FoundAgain ==
  used # Closed /\ ~moved =>
    /\ Readable \cap Writable # {}
    /\ list[Last(Readable \cap Writable)] = used

IInv == TypeOK /\ OffIsClosed /\ OpenIsThere /\ ReleasedIsFree /\ FoundAgain

-----------------------------------------------------------------------------
(* The operators the model is built from.                                  *)

(* A set of indices that is not empty has a greatest one, and Last is it.  *)
LEMMA LastIsGreatest ==
  ASSUME NEW n \in Nat, NEW S \in SUBSET (1 .. n), S # {}
  PROVE  Last(S) \in S /\ \A j \in S : Last(S) >= j
<1> DEFINE R == {p \in Nat \X Nat : p[1] < p[2]}
           D == {n - j : j \in S}
<1>1. IsWellFoundedOn(R, Nat)
  BY NatLessThanWellFounded, Zenon DEF OpToRel
<1>2. D \subseteq Nat /\ D # {}
  <2>1. ASSUME NEW j \in S PROVE n - j \in Nat
    <3>1. j \in 1 .. n
      OBVIOUS
    <3> QED
      BY <3>1
  <2> QED
    BY <2>1
<1> HIDE DEF R
<1>3. PICK d \in D : \A e \in D : <<e, d>> \notin R
  <2> HIDE DEF D
  <2> QED
    BY <1>1, <1>2, WFMin
<1>4. \A e \in D : ~(e < d)
  <2> HIDE DEF D
  <2>1. ASSUME NEW e \in D PROVE ~(e < d)
    <3>1. <<e, d>> \in Nat \X Nat /\ <<e, d>>[1] = e /\ <<e, d>>[2] = d
      BY <1>2
    <3> QED
      BY <1>3, <3>1 DEF R
  <2> QED
    BY <2>1
<1>5. PICK k \in S : d = n - k
  OBVIOUS
<1>6. ASSUME NEW j \in S PROVE k >= j
  <2>1. n - j \in D
    OBVIOUS
  <2>2. ~(n - j < n - k)
    BY <1>4, <1>5, <2>1
  <2> QED
    BY <2>2
<1> QED
  BY <1>6 DEF Last, Max

(* What is greatest in a set of indices is Last of every part it is in.    *)
LEMMA LastOfPart ==
  ASSUME NEW n \in Nat, NEW S \in SUBSET (1 .. n), NEW T \in SUBSET S, S # {},
         Last(S) \in T
  PROVE  Last(T) = Last(S)
<1>1. T \in SUBSET (1 .. n) /\ T # {}
  OBVIOUS
<1>2. Last(T) \in T /\ \A j \in T : Last(T) >= j
  BY <1>1, LastIsGreatest
<1>3. Last(S) \in S /\ \A j \in S : Last(S) >= j
  BY LastIsGreatest
<1>4. PICK t, m : t = Last(T) /\ m = Last(S)
  OBVIOUS
<1>5. t \in S /\ m \in S /\ t >= m /\ m >= t
  BY <1>2, <1>3, <1>4
<1>6. t \in Int /\ m \in Int
  BY <1>5
<1>7. t = m
  BY <1>5, <1>6
<1> QED
  BY <1>4, <1>7

(* The indices at which a save can be read or written are the list's, and  *)
(* lead to directories.                                                    *)
LEMMA IndicesOfList ==
  ASSUME SaveTypeOK
  PROVE  /\ \E n \in Nat : /\ DOMAIN list = 1 .. n
                           /\ Readable \in SUBSET (1 .. n)
                           /\ Writable \in SUBSET (1 .. n)
         /\ \A k \in DOMAIN list : list[k] \in Dirs
<1>1. list \in Seq(Dirs)
  BY SaveAssumption DEF SaveTypeOK
<1>2. PICK n \in Nat : list \in [1 .. n -> Dirs]
  BY <1>1
<1> QED
  BY <1>2 DEF Readable, Writable

(* Games are what GamesAssumption says.                                    *)
LEMMA GameTyped ==
  ASSUME game \in Games
  PROVE  /\ game.sizes \subseteq SaveSizes /\ game.sizes \subseteq Nat
         /\ game.keys \subseteq Combination
         /\ Max(game.sizes) \in Nat
<1>1. game \in [calls : SUBSET {"running", "mouse", "save"},
                keys : SUBSET Combination, sizes : SUBSET SaveSizes]
  BY GamesAssumption
<1>2. game.sizes \subseteq SaveSizes /\ game.keys \subseteq Combination
  BY <1>1
<1>3. game.sizes \subseteq Nat
  BY <1>2, SaveAssumption
<1>4. \E m \in game.sizes : \A n \in game.sizes : m >= n
  BY GamesAssumption
<1>5. Max(game.sizes) \in game.sizes
  BY <1>4 DEF Max
<1> QED
  BY <1>2, <1>3, <1>5

-----------------------------------------------------------------------------
(* create_save_file.                                                       *)

(* The directories in which a save is found or made exist, and the length  *)
(* it then has is one.                                                     *)
LEMMA OpenTyped ==
  ASSUME SaveTypeOK, NEW size \in Nat, OpenSave(size) \/ CreateSave(size)
  PROVE  /\ savefile' \in Dirs /\ pos' = 0
         /\ file' \in [Dirs -> Int] /\ file'[savefile'] # Absent
         /\ \A d \in Dirs : file'[d] >= Absent
<1>1. PICK n \in Nat : /\ DOMAIN list = 1 .. n
                      /\ Readable \in SUBSET (1 .. n)
                      /\ Writable \in SUBSET (1 .. n)
  BY IndicesOfList
<1>2. \A k \in DOMAIN list : list[k] \in Dirs
  BY IndicesOfList
<1>3. ASSUME NEW d \in Dirs, NEW length \in Nat, Opened(d, length)
      PROVE  /\ savefile' \in Dirs /\ pos' = 0
             /\ file' \in [Dirs -> Int] /\ file'[savefile'] # Absent
             /\ \A e \in Dirs : file'[e] >= Absent
  BY <1>3 DEF Opened, SaveTypeOK, Absent
<1>4. CASE OpenSave(size)
  <2> DEFINE both == Readable \cap Writable
  <2>1. both \in SUBSET (1 .. n) /\ both # {}
    BY <1>1, <1>4 DEF OpenSave
  <2>2. Last(both) \in both
    BY <2>1, LastIsGreatest
  <2> DEFINE k == Last(both)
  <2>3. k \in DOMAIN list /\ file[list[k]] # Absent
    BY <2>2 DEF Readable
  <2>4. list[k] \in Dirs
    BY <2>3, <1>2
  <2>5. file[list[k]] \in Nat
    BY <2>3, <2>4 DEF SaveTypeOK, Absent
  <2>6. Expanded(file[list[k]], size) \in Nat
    BY <2>5 DEF Expanded, NeedFill
  <2>7. Opened(list[k], Expanded(file[list[k]], size))
    BY <1>4 DEF OpenSave
  <2> HIDE DEF k
  <2> QED
    BY <1>3, <2>4, <2>6, <2>7
<1>5. CASE CreateSave(size)
  <2>1. Writable # {}
    BY <1>5 DEF CreateSave
  <2>2. Last(Writable) \in Writable
    BY <1>1, <2>1, LastIsGreatest
  <2>3. list[Last(Writable)] \in Dirs
    BY <1>1, <1>2, <2>2
  <2>4. Opened(list[Last(Writable)], size)
    BY <1>5 DEF CreateSave
  <2> QED
    BY <1>3, <2>3, <2>4
<1> QED
  BY <1>4, <1>5

(* After a save was found or made, a search would come upon it.            *)
LEMMA OpenFinds ==
  ASSUME SaveTypeOK, NEW size \in Nat, OpenSave(size) \/ CreateSave(size),
         access' = access, list' = list
  PROVE  /\ (Readable \cap Writable)' # {}
         /\ list'[Last((Readable \cap Writable)')] = savefile'
<1>1. PICK n \in Nat : /\ DOMAIN list = 1 .. n
                      /\ Readable \in SUBSET (1 .. n)
                      /\ Writable \in SUBSET (1 .. n)
  BY IndicesOfList
<1>2. \A k \in DOMAIN list : list[k] \in Dirs
  BY IndicesOfList
<1>3. Writable' = Writable
  BY DEF Writable
<1>4. file'[savefile'] # Absent
  BY OpenTyped
<1>5. CASE OpenSave(size)
  <2>1. PICK k : k = Last(Readable \cap Writable)
    OBVIOUS
  <2>2. k \in Readable \cap Writable
    BY <1>1, <1>5, <2>1, LastIsGreatest DEF OpenSave
  <2>3. PICK length : file' = [file EXCEPT ![list[k]] = length] /\ savefile' = list[k]
    BY <1>5, <2>1 DEF OpenSave, Opened
  <2>4. Readable' = Readable
    <3>1. file[list[k]] # Absent /\ list[k] \in Dirs
      BY <1>2, <2>2 DEF Readable
    <3>2. \A j \in DOMAIN list : (file'[list[j]] # Absent) <=> (file[list[j]] # Absent)
      BY <1>2, <1>4, <2>3, <3>1 DEF SaveTypeOK
    <3> QED
      BY <3>2 DEF Readable
  <2> QED
    BY <1>3, <2>1, <2>2, <2>3, <2>4
<1>6. CASE CreateSave(size)
  <2>1. PICK k : k = Last(Writable)
    OBVIOUS
  <2>2. k \in Writable /\ Writable # {}
    BY <1>1, <1>6, <2>1, LastIsGreatest DEF CreateSave
  <2>3. savefile' = list[k]
    BY <1>6, <2>1 DEF CreateSave, Opened
  <2>4. k \in Readable'
    <3>1. k \in DOMAIN list /\ access[list[k]] = "write"
      BY <2>2 DEF Writable
    <3> QED
      BY <1>4, <2>3, <3>1 DEF Readable
  <2>5. PICK T : T = (Readable \cap Writable)'
    OBVIOUS
  <2>6. T \in SUBSET Writable /\ k \in T
    BY <1>3, <2>2, <2>4, <2>5
  <2>7. Last(T) = k
    BY <1>1, <2>1, <2>2, <2>6, LastOfPart
  <2> QED
    BY <2>3, <2>5, <2>6, <2>7
<1> QED
  BY <1>5, <1>6

-----------------------------------------------------------------------------
(* The callbacks on the save.                                              *)

LEMMA SaveCallTyped ==
  ASSUME SaveTypeOK, OpenIsThere, SaveCall
  PROVE  SaveTypeOK' /\ OpenIsThere'
<1>0. /\ file \in [Dirs -> Int] /\ (\A d \in Dirs : file[d] >= Absent)
      /\ savesize \in Nat /\ pos \in Nat /\ 1 \in Nat
      /\ IntBytes \in Nat /\ FloatBytes \in Nat /\ DoubleBytes \in Nat
  BY SaveAssumption DEF SaveTypeOK
<1>1. ASSUME NEW n \in Nat PROVE Moved(n) \in Nat
  BY <1>0, <1>1 DEF Moved
<1>2. ASSUME NEW n \in Nat, WriteBytes(n) PROVE SaveTypeOK' /\ OpenIsThere'
  <2>1. savefile \in Dirs /\ savesize > 0
    BY <1>2 DEF WriteBytes, SaveTypeOK, OpenIsThere
  <2>2. PICK length : length = IF file[savefile] < pos + n THEN pos + n ELSE file[savefile]
    OBVIOUS
  <2>3. file' = [file EXCEPT ![savefile] = length]
    BY <1>2, <2>2 DEF WriteBytes
  <2>4. length \in Int /\ length >= Absent /\ length # Absent
    <3>1. file[savefile] \in Int /\ file[savefile] >= Absent /\ file[savefile] # Absent
      BY <1>0, <2>1, <1>2 DEF WriteBytes, OpenIsThere
    <3> QED
      BY <1>0, <1>2, <2>2, <3>1 DEF Absent
  <2>5. /\ file' \in [Dirs -> Int] /\ (\A d \in Dirs : file'[d] >= Absent)
        /\ file'[savefile] # Absent
    BY <1>0, <2>1, <2>3, <2>4
  <2>6. pos' \in Nat
    BY <1>1, <1>2 DEF WriteBytes
  <2> QED
    BY <1>2, <2>1, <2>5, <2>6 DEF WriteBytes, SaveTypeOK, OpenIsThere
<1>3. ASSUME NEW n \in Nat, ReadBytes(n) PROVE SaveTypeOK' /\ OpenIsThere'
  <2>1. pos' \in Nat
    BY <1>1, <1>3 DEF ReadBytes
  <2> QED
    BY <1>3, <2>1 DEF ReadBytes, SaveTypeOK, OpenIsThere, disk
<1>4. ASSUME NEW x \in 0 .. savesize + 1, Seek(x) PROVE SaveTypeOK' /\ OpenIsThere'
  <2>1. savesize > 0
    BY <1>4 DEF Seek, OpenIsThere
  <2>2. x \in Nat /\ x % savesize \in Nat
    BY <1>0, <2>1
  <2> QED
    BY <1>4, <2>2 DEF Seek, SaveTypeOK, OpenIsThere, disk
<1> QED
  BY <1>0, <1>2, <1>3, <1>4
  DEF SaveCall, WriteChar, WriteInt, WriteFloat, ReadChar, ReadInt, ReadFloat

(* A callback leaves every save where it is.                               *)
LEMMA SaveCallFinds ==
  ASSUME SaveTypeOK, OpenIsThere, SaveCall
  PROVE  FoundAgain <=> FoundAgain'
<1>1. used' = used /\ moved' = moved /\ list' = list /\ access' = access
  BY DEF SaveCall, past, Seek, WriteChar, WriteInt, WriteFloat, WriteBytes,
         ReadChar, ReadInt, ReadFloat, ReadBytes, disk
<1>2. \A d \in Dirs : (file'[d] # Absent) <=> (file[d] # Absent)
  <2>1. CASE UNCHANGED file
    BY <2>1
  <2>2. CASE savefile # Closed /\ \E length : file' = [file EXCEPT ![savefile] = length]
    <3>1. savefile' = savefile
      BY DEF SaveCall, Seek, WriteChar, WriteInt, WriteFloat, WriteBytes,
             ReadChar, ReadInt, ReadFloat, ReadBytes
    <3>2. file[savefile] # Absent /\ file'[savefile] # Absent /\ savefile \in Dirs
      BY <2>2, <3>1, SaveCallTyped DEF OpenIsThere, SaveTypeOK
    <3> QED
      BY <2>2, <3>2 DEF SaveTypeOK
  <2> QED
    BY <2>1, <2>2 DEF SaveCall, Seek, WriteChar, WriteInt, WriteFloat, WriteBytes,
                      ReadChar, ReadInt, ReadFloat, ReadBytes, disk
<1>3. Readable' = Readable /\ Writable' = Writable
  BY <1>1, <1>2, IndicesOfList DEF Readable, Writable
<1> QED
  BY <1>1, <1>3 DEF FoundAgain

(* In a save of the size asked for, with room for every type, a number     *)
(* ends inside or at the end.                                              *)
LEMMA SaveCallKeepsShape ==
  ASSUME SaveTypeOK, OpenIsThere, SaveCall, Shaped, savesize >= DoubleBytes
  PROVE  Shaped'
<1>0. /\ savefile \in Dirs /\ savefile # Closed /\ file[savefile] = savesize
      /\ savesize > 0
      /\ file \in [Dirs -> Int] /\ savesize \in Nat /\ pos \in Nat /\ pos < savesize
  BY SaveAssumption DEF SaveTypeOK, OpenIsThere, Shaped
<1>1. /\ IntBytes \in Nat \ {0} /\ FloatBytes \in Nat \ {0} /\ DoubleBytes \in Nat \ {0}
      /\ IntBytes <= DoubleBytes
  BY SaveAssumption
<1>2. ASSUME NEW n \in Nat, pos + n <= savesize PROVE Moved(n) < savesize
  BY <1>0, <1>2 DEF Moved
<1>3. ASSUME NEW n \in Nat, pos + n <= savesize, WriteBytes(n) PROVE Shaped'
  <2>1. PICK length : length = IF file[savefile] < pos + n THEN pos + n ELSE file[savefile]
    OBVIOUS
  <2>2. length = savesize
    BY <1>0, <1>3, <2>1
  <2>3. file' = [file EXCEPT ![savefile] = length]
    BY <1>3, <2>1 DEF WriteBytes
  <2>4. file'[savefile] = savesize
    BY <1>0, <2>2, <2>3
  <2> QED
    BY <1>0, <1>2, <1>3, <2>4 DEF WriteBytes, Shaped
<1>4. ASSUME NEW n \in Nat, ReadBytes(n) PROVE Shaped'
  BY <1>0, <1>2, <1>4 DEF ReadBytes, Shaped, disk
<1>5. ASSUME NEW x \in 0 .. savesize + 1, Seek(x) PROVE Shaped'
  <2>1. x % savesize < savesize
    BY <1>0
  <2> QED
    BY <1>0, <1>5, <2>1 DEF Seek, Shaped, disk
<1>6. ASSUME NEW n \in Nat, n <= savesize, ~Full(n) PROVE pos + n <= savesize
  BY <1>0, <1>6 DEF Full
<1>7. CASE WriteChar
  <2>1. pos + 1 <= savesize
    BY <1>0
  <2> QED
    BY <1>3, <1>7, <2>1 DEF WriteChar
<1>8. CASE WriteInt
  <2>1. pos + IntBytes <= savesize
    BY <1>0, <1>1, <1>6, <1>8 DEF WriteInt
  <2> QED
    BY <1>1, <1>3, <1>8, <2>1 DEF WriteInt
<1>9. CASE WriteFloat
  <2>1. pos + DoubleBytes <= savesize
    BY <1>0, <1>1, <1>6, <1>9 DEF WriteFloat
  <2> QED
    BY <1>1, <1>3, <1>9, <2>1 DEF WriteFloat
<1> QED
  BY <1>1, <1>4, <1>5, <1>7, <1>8, <1>9 DEF SaveCall, ReadChar, ReadInt, ReadFloat

-----------------------------------------------------------------------------
(* The invariant.                                                          *)

LEMMA InitIInv ==
  Init => IInv
<1> SUFFICES ASSUME Init PROVE IInv
  OBVIOUS
<1>1. Max(game.sizes) \in Nat
  BY GameTyped DEF Init
<1>2. PICK lengths : lengths = {Absent, Max(game.sizes)}
  OBVIOUS
<1>3. file \in [Dirs -> lengths] /\ \A n \in lengths : n \in Int /\ n >= Absent
  BY <1>1, <1>2 DEF Init, Absent
<1>4. file \in [Dirs -> Int] /\ \A d \in Dirs : file[d] >= Absent
  BY <1>3
<1>5. SaveTypeOK
  BY <1>4, SaveAssumption DEF Init, SaveTypeOK
<1>6. TypeOK
  BY <1>5 DEF Init, TypeOK
<1> QED
  BY <1>6 DEF Init, IInv, OffIsClosed, OpenIsThere, ReleasedIsFree, FoundAgain

(* What a process starts with.                                             *)
LEMMA OffKeeps ==
  ASSUME IInv, Off, UNCHANGED <<disk, game, past>>
  PROVE  IInv'
<1>1. SaveTypeOK'
  BY SaveAssumption DEF IInv, TypeOK, SaveTypeOK, Off, disk
<1>2. TypeOK'
  BY <1>1 DEF IInv, TypeOK, Off, Fresh, past
<1>3. FoundAgain'
  BY DEF IInv, FoundAgain, Readable, Writable, disk, past
<1> QED
  BY <1>2, <1>3 DEF IInv, Off, Fresh, OffIsClosed, OpenIsThere, ReleasedIsFree

(* A step that leaves the save and the mouse alone.                        *)
LEMMA PhaseKeeps ==
  ASSUME IInv, UNCHANGED <<disk, stream, game, past>>,
         phase # "off", phase' \in {"top", "poll"} \cup Scripts,
         running' \in BOOLEAN, UNCHANGED mouse
  PROVE  IInv'
<1>1. TypeOK'
  BY DEF IInv, TypeOK, SaveTypeOK, disk, stream, past, mouse
<1> QED
  BY <1>1 DEF IInv, OffIsClosed, OpenIsThere, ReleasedIsFree, FoundAgain,
              Readable, Writable, Scripts, disk, stream, past, mouse

(* A step of the mouse and the keys.                                       *)
LEMMA MouseKeeps ==
  ASSUME IInv, UNCHANGED <<disk, stream, game, running, past>>,
         phase # "off", phase' \in {"top", "poll"} \cup Scripts,
         captured' \in {-1, 0, 1}, relative' \in BOOLEAN,
         held' \subseteq Combination, combo' \subseteq held',
         captured' = -1 => ~relative'
  PROVE  IInv'
<1>1. TypeOK'
  BY DEF IInv, TypeOK, SaveTypeOK, disk, stream, past
<1> QED
  BY <1>1 DEF IInv, OffIsClosed, OpenIsThere, ReleasedIsFree, FoundAgain,
              Readable, Writable, Scripts, disk, stream, past

LEMMA StartKeeps ==
  ASSUME IInv, Start
  PROVE  IInv'
<1>1. CASE StartWithoutSave
  <2>1. TypeOK'
    BY <1>1 DEF StartWithoutSave, Begins, IInv, TypeOK, SaveTypeOK, Scripts, disk,
                stream, past, mouse
  <2> QED
    BY <1>1, <2>1 DEF StartWithoutSave, Begins, IInv, OffIsClosed, OpenIsThere,
              ReleasedIsFree, FoundAgain, Readable, Writable, disk, stream, past, mouse
<1>2. ASSUME NEW size \in game.sizes, StartWithSave(size) PROVE IInv'
  <2>1. SaveTypeOK /\ game \in Games
    BY DEF IInv, TypeOK
  <2>2. size \in Nat /\ size \in SaveSizes /\ size > 0
    <3>1. size # 0
      BY <1>2 DEF StartWithSave
    <3>2. size \in Nat /\ size \in SaveSizes
      BY <2>1, GameTyped
    <3> QED
      BY <3>1, <3>2
  <2>3. OpenSave(size) \/ CreateSave(size)
    BY <1>2 DEF StartWithSave
  <2>4. access' = access /\ list' = list /\ savesize' = size
    BY <1>2 DEF StartWithSave
  <2>5. /\ savefile' \in Dirs /\ pos' = 0
        /\ file' \in [Dirs -> Int] /\ file'[savefile'] # Absent
        /\ \A d \in Dirs : file'[d] >= Absent
    BY <2>1, <2>2, <2>3, OpenTyped
  <2>6. SaveTypeOK'
    BY <2>1, <2>2, <2>4, <2>5 DEF SaveTypeOK
  <2>7. TypeOK'
    BY <1>2, <2>5, <2>6 DEF StartWithSave, Begins, IInv, TypeOK, Scripts, mouse
  <2>8. FoundAgain'
    <3>1. /\ (Readable \cap Writable)' # {}
          /\ list'[Last((Readable \cap Writable)')] = savefile'
      BY <2>1, <2>2, <2>3, <2>4, OpenFinds
    <3>2. used' = savefile'
      BY <1>2 DEF StartWithSave
    <3> QED
      BY <3>1, <3>2 DEF FoundAgain
  <2> QED
    BY <1>2, <2>2, <2>4, <2>5, <2>7, <2>8
    DEF StartWithSave, Begins, IInv, OffIsClosed, OpenIsThere, ReleasedIsFree, mouse
<1>3. ASSUME NEW size \in game.sizes, StartFails(size) PROVE IInv'
  <2>1. SaveTypeOK /\ phase = "off" /\ savefile = Closed
    BY <1>3 DEF StartFails, IInv, TypeOK, OffIsClosed
  <2>2. CASE file' = file
    <3>1. TypeOK'
      BY <1>3, <2>2 DEF StartFails, IInv, TypeOK, SaveTypeOK, stream, past, mouse
    <3> QED
      BY <1>3, <2>2, <3>1 DEF StartFails, IInv, OffIsClosed, OpenIsThere, ReleasedIsFree,
                FoundAgain, Readable, Writable, stream, past, mouse
  <2>3. ASSUME NEW length \in 0 .. size - 1, CreateSaveFails(size, length)
        PROVE  IInv'
    <3>1. /\ Readable \cap Writable = {} /\ Writable # {}
          /\ file' = [file EXCEPT ![list[Last(Writable)]] = length]
      BY <2>3 DEF CreateSaveFails
    <3>2. PICK d : d = list[Last(Writable)]
      OBVIOUS
    <3>3. d \in Dirs
      <4>1. Last(Writable) \in Writable
        BY <2>1, <3>1, IndicesOfList, LastIsGreatest
      <4> QED
        BY <2>1, <3>2, <4>1, IndicesOfList DEF Writable
    <3>4. length \in Int /\ length >= Absent
      <4>1. size \in Nat
        BY GameTyped DEF IInv, TypeOK
      <4> QED
        BY <4>1 DEF Absent
    <3>5. file' \in [Dirs -> Int] /\ \A e \in Dirs : file'[e] >= Absent
      BY <2>1, <3>1, <3>2, <3>3, <3>4 DEF SaveTypeOK
    <3>6. TypeOK'
      BY <1>3, <3>5 DEF StartFails, IInv, TypeOK, SaveTypeOK, stream, past, mouse
    <3>7. FoundAgain'
      BY <1>3, <3>1 DEF StartFails, IInv, FoundAgain, past
    <3> QED
      BY <1>3, <2>1, <3>6, <3>7
      DEF StartFails, IInv, OffIsClosed, OpenIsThere, ReleasedIsFree, stream, mouse
  <2> QED
    BY <1>3, <2>2, <2>3 DEF StartFails
<1> QED
  BY <1>1, <1>2, <1>3 DEF Start

LEMMA KeysKeep ==
  ASSUME IInv, Keys
  PROVE  IInv'
<1>0. /\ game.keys \subseteq Combination
      /\ held \subseteq Combination /\ combo \subseteq held /\ captured \in {-1, 0, 1}
      /\ relative \in BOOLEAN /\ (captured = -1 => ~relative)
  BY GameTyped DEF IInv, TypeOK, ReleasedIsFree
<1>1. ASSUME NEW key \in game.keys, KeyUp(key) PROVE IInv'
  <2>1. /\ UNCHANGED <<disk, stream, game, running, past>>
        /\ phase # "off" /\ phase' \in {"top", "poll"} \cup Scripts
        /\ captured' = captured /\ relative' = relative
        /\ held' = held \ {key} /\ combo' = combo \ {key}
    BY <1>1 DEF KeyUp, Polls, Scripts
  <2>2. held' \subseteq Combination /\ combo' \subseteq held'
    BY <1>0, <2>1
  <2> QED
    BY <1>0, <2>1, <2>2, MouseKeeps
<1>2. ASSUME NEW key \in game.keys, NEW repeat \in BOOLEAN, KeyDown(key, repeat)
      PROVE  IInv'
  <2>1. /\ UNCHANGED <<disk, stream, game, running, past>>
        /\ phase # "off" /\ phase' \in {"top", "poll"} \cup Scripts
        /\ held' = held \cup {key}
    BY <1>2 DEF KeyDown, Polls, Scripts
  <2>2. held' \subseteq Combination
    BY <1>0, <2>1
  <2>3. /\ combo' \subseteq held'
        /\ captured' \in {-1, 0, 1} /\ relative' \in BOOLEAN
        /\ captured' = -1 => ~relative'
    BY <1>0, <1>2, <2>1 DEF KeyDown
  <2> QED
    BY <2>1, <2>2, <2>3, MouseKeeps
<1> QED
  BY <1>1, <1>2 DEF Keys

LEMMA ScriptKeeps ==
  ASSUME IInv, Script
  PROVE  IInv'
<1>1. ASSUME NEW x \in BOOLEAN, SetRunning(x) PROVE IInv'
  <2>1. phase # "off" /\ phase' \in {"top", "poll"} \cup Scripts
    BY <1>1 DEF SetRunning, Calls, Scripts
  <2> QED
    BY <1>1, <2>1, PhaseKeeps DEF SetRunning
<1>2. ASSUME NEW x \in BOOLEAN, SetMouseCapture(x) PROVE IInv'
  <2>1. phase # "off" /\ phase' \in {"top", "poll"} \cup Scripts
    BY <1>2 DEF SetMouseCapture, Calls, Scripts
  <2>2. captured' \in {0, 1}
    BY <1>2 DEF SetMouseCapture
  <2>3. held' \subseteq Combination /\ combo' \subseteq held' /\ relative' \in BOOLEAN
    BY <1>2 DEF SetMouseCapture, IInv, TypeOK
  <2>4. UNCHANGED <<disk, stream, game, running, past>>
    BY <1>2 DEF SetMouseCapture
  <2> QED
    BY <2>1, <2>2, <2>3, <2>4, MouseKeeps
<1>3. CASE SaveCall
  <2>1. SaveTypeOK' /\ OpenIsThere'
    BY <1>3, SaveCallTyped DEF IInv, TypeOK
  <2>2. FoundAgain'
    BY <1>3, SaveCallFinds DEF IInv, TypeOK
  <2>3. TypeOK'
    BY <1>3, <2>1 DEF SaveCall, IInv, TypeOK, mouse, past
  <2> QED
    BY <1>3, <2>1, <2>2, <2>3
    DEF SaveCall, Calls, Scripts, IInv, OffIsClosed, ReleasedIsFree, mouse
<1>4. CASE Return
  <2>1. /\ phase # "off" /\ phase' \in {"top", "poll"} \cup Scripts
        /\ running' \in BOOLEAN
    BY <1>4 DEF Return, Scripts, IInv, TypeOK
  <2> QED
    BY <1>4, <2>1, PhaseKeeps DEF Return
<1> QED
  BY <1>1, <1>2, <1>3, <1>4 DEF Script

LEMMA ChangeKeeps ==
  ASSUME IInv, Change
  PROVE  IInv'
<1>1. SaveTypeOK'
  BY DEF IInv, TypeOK, SaveTypeOK, Change, stream
<1>2. TypeOK'
  BY <1>1 DEF IInv, TypeOK, Change, mouse
<1> QED
  BY <1>2 DEF IInv, OffIsClosed, OpenIsThere, ReleasedIsFree, FoundAgain, Change, stream, mouse

LEMMA NextIInv ==
  IInv /\ [Next]_vars => IInv'
<1> SUFFICES ASSUME IInv, [Next]_vars PROVE IInv'
  OBVIOUS
<1>1. CASE Change
  BY <1>1, ChangeKeeps
<1>2. CASE Start
  BY <1>2, StartKeeps
<1>3. CASE Stop
  BY <1>3, OffKeeps DEF Stop
<1>4. CASE Script
  BY <1>4, ScriptKeeps
<1>5. CASE Top
  <2>1. CASE running
    BY <1>5, <2>1, PhaseKeeps DEF Top, IInv, TypeOK
  <2>2. CASE ~running
    BY <1>5, <2>2, OffKeeps DEF Top
  <2> QED
    BY <2>1, <2>2
<1>6. CASE Quit
  BY <1>6, PhaseKeeps DEF Quit, Polls
<1>7. CASE Other
  BY <1>7, PhaseKeeps DEF Other, Polls, Scripts, IInv, TypeOK
<1>8. CASE Keys
  BY <1>8, KeysKeep
<1>9. CASE Frame
  BY <1>9, PhaseKeeps DEF Frame, Scripts, IInv, TypeOK
<1>10. CASE UNCHANGED vars
  BY <1>10 DEF vars, disk, stream, mouse, past, IInv, TypeOK, SaveTypeOK, OffIsClosed,
               OpenIsThere, ReleasedIsFree, FoundAgain, Readable, Writable
<1> QED
  BY <1>1, <1>2, <1>3, <1>4, <1>5, <1>6, <1>7, <1>8, <1>9, <1>10 DEF Next

(* The strengthened invariant holds in every state.                        *)
THEOREM Invariant ==
  Spec => []IInv
<1> QED
  BY InitIInv, NextIInv, PTL DEF Spec

(* The state of main, and of the save file, is what the code's types and   *)
(* its callbacks say.                                                      *)
THEOREM TypeCorrect ==
  Spec => []TypeOK
<1>1. IInv => TypeOK
  BY DEF IInv
<1> QED
  BY <1>1, Invariant, PTL

-----------------------------------------------------------------------------
(* What steps may never do.                                                *)

(* SaveFile's savedata_ callbacks: a save of the size the game asked for,  *)
(* with room for a double, keeps that size, and the position stays in it.  *)
LEMMA StepKeepsShape ==
  ASSUME IInv, [Next]_vars, Shaped, savesize >= DoubleBytes, savefile' = savefile
  PROVE  Shaped'
<1>1. savefile # Closed /\ phase # "off"
  BY DEF Shaped, IInv, OffIsClosed
<1>2. ~Off
  BY <1>1 DEF Off
<1>3. ~Change /\ ~Start /\ ~Stop
  BY <1>1, <1>2 DEF Change, Start, StartWithoutSave, StartWithSave, StartFails, Stop
<1>4. CASE SaveCall
  BY <1>4, SaveCallKeepsShape DEF IInv, TypeOK
<1>5. CASE UNCHANGED <<disk, stream>>
  BY <1>5 DEF Shaped, disk, stream
<1> QED
  BY <1>2, <1>3, <1>4, <1>5
  DEF Next, Script, SetRunning, SetMouseCapture, Return, Top, Quit, Other, Keys, KeyDown,
      KeyUp, Frame, vars

THEOREM ShapeKept ==
  Spec => KeepsShape
<1>1. IInv /\ [Next]_vars =>
        [Shaped /\ savesize >= DoubleBytes /\ savefile' = savefile => Shaped']_<<disk, stream>>
  BY StepKeepsShape
<1> QED
  BY <1>1, Invariant, PTL DEF Spec, KeepsShape

(* create_save_file: while the directories stay what they were, a run      *)
(* opens the save that the last one did.                                   *)
LEMMA StepReloads ==
  ASSUME IInv, [Next]_vars, phase = "off", savefile' # Closed, used # Closed, ~moved
  PROVE  savefile' = used
<1>1. savefile = Closed
  BY DEF IInv, OffIsClosed
<1>2. PICK size : StartWithSave(size)
  BY <1>1 DEF Next, Change, Start, StartWithoutSave, StartFails, Stop, Script, SetRunning,
      SetMouseCapture, SaveCall, Calls, Return, Scripts, Top, Quit, Other, Keys, KeyDown,
      KeyUp, Frame, Polls, vars, stream
<1>3. /\ Readable \cap Writable # {}
      /\ list[Last(Readable \cap Writable)] = used
  BY DEF IInv, FoundAgain
<1> QED
  BY <1>2, <1>3 DEF StartWithSave, OpenSave, CreateSave, Opened

THEOREM SaveReloaded ==
  Spec => Reloads
<1>1. IInv /\ [Next]_vars =>
        [phase = "off" /\ savefile' # Closed /\ used # Closed /\ ~moved
           => savefile' = used]_vars
  BY StepReloads
<1> QED
  BY <1>1, Invariant, PTL DEF Spec, Reloads

(* event_set_mouse_capture and the event loop: the mouse that the user     *)
(* released stays released until both keys are down again.                 *)
LEMMA StepStaysReleased ==
  ASSUME IInv, [Next]_vars, captured = -1
  PROVE  ~relative' /\ (captured' = -1 \/ held' = Combination \/ phase' = "off")
<1>0. ~relative /\ held \subseteq Combination /\ combo \subseteq held
  BY DEF IInv, ReleasedIsFree, TypeOK
<1>1. CASE UNCHANGED <<captured, relative>>
  BY <1>0, <1>1
<1>2. CASE Off
  BY <1>2 DEF Off, Fresh
<1>3. ASSUME NEW x \in BOOLEAN, SetMouseCapture(x) PROVE FALSE
  BY <1>3 DEF SetMouseCapture
<1>4. ASSUME NEW key \in game.keys, NEW repeat \in BOOLEAN, KeyDown(key, repeat)
      PROVE  ~relative' /\ (captured' = -1 \/ held' = Combination \/ phase' = "off")
  <2>1. key \in Combination
    BY GameTyped DEF IInv, TypeOK
  <2>2. CASE combo \cup {key} # Combination
    BY <1>0, <1>4, <2>2 DEF KeyDown
  <2>3. CASE combo \cup {key} = Combination
    BY <1>0, <1>4, <2>1, <2>3 DEF KeyDown
  <2> QED
    BY <2>2, <2>3
<1> QED
  BY <1>1, <1>2, <1>3, <1>4
  DEF Next, Change, Start, StartWithoutSave, StartWithSave, StartFails, Begins, Stop, Script,
      SetRunning, SaveCall, Return, Top, Quit, Other, Keys, KeyUp, Frame, vars, mouse

THEOREM ReleaseKept ==
  Spec => StaysReleased
<1>1. IInv /\ [Next]_vars =>
        [captured = -1 =>
           ~relative' /\ (captured' = -1 \/ held' = Combination \/ phase' = "off")]_vars
  BY StepStaysReleased
<1> QED
  BY <1>1, Invariant, PTL DEF Spec, StaysReleased
=============================================================================
