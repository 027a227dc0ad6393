------------------------------ MODULE SaveFile ------------------------------
(***************************************************************************)
(* A game's save file: where src/xdg.c and create_save_file of src/main.c  *)
(* look for it or put it, and what the savedata_ callbacks of              *)
(* src/callbacks.c do to it and to the position in it.  Game composes this *)
(* with the main loop.                                                     *)
(*                                                                         *)
(* Of a file only its length is kept, in bytes.  Whether a directory's     *)
(* save can be opened is the environment's: "none" of it, for reading      *)
(* ("read"), or for everything ("write").                                  *)
(***************************************************************************)
EXTENDS Integers, Sequences, FiniteSetsExt

CONSTANTS
  Lists,        \* the lists get_xdg_home_dirs may make, game directory first
  SaveSizes,    \* the sizes of save data that games ask for, 0 for none
  MaxFile,      \* bound: the longest a save may become
  IntBytes,     \* sizeof(int)
  FloatBytes,   \* sizeof(float)
  DoubleBytes   \* sizeof(double)

Accesses == {"none", "read", "write"}
Absent == -1    \* the length of a file that is not there
Closed == "closed"

Dirs == UNION {{list[k] : k \in DOMAIN list} : list \in Lists}

ASSUME SaveAssumption ==
  /\ \A dirs \in Lists : dirs \in Seq(Dirs)
  /\ Closed \notin Dirs
  /\ 0 \in SaveSizes /\ SaveSizes \subseteq Nat /\ MaxFile \in Nat
  /\ {IntBytes, FloatBytes, DoubleBytes} \subseteq Nat \ {0}
  /\ IntBytes <= DoubleBytes /\ FloatBytes <= DoubleBytes

VARIABLES
  file,      \* the length of each directory's save
  access,    \* how each directory's save can be opened
  list,      \* the list of directories
  savesize,  \* state.savesize
  savefile,  \* state.savefile: the directory of the open save, or Closed
  pos        \* the position in it

disk   == <<file, access, list>>
stream == <<savesize, savefile, pos>>

-----------------------------------------------------------------------------
(* create_save_file. *)

\* The list is gone through from its end: the user's data directory, the
\* home directory, the game's own.
Last(indices) == Max(indices)

Readable == {k \in DOMAIN list : file[list[k]] # Absent /\ access[list[k]] # "none"}
Writable == {k \in DOMAIN list : access[list[k]] = "write"}

\* Bytes appended to a save that is shorter than the game's: the operands
\* are the wrong way round, and a negative number of bytes is none.
NeedFill(filesize, size) == filesize - size

Expanded(filesize, size) ==
  IF filesize < size /\ NeedFill(filesize, size) > 0
    THEN filesize + NeedFill(filesize, size) ELSE filesize

\* A short save that cannot be opened for appending: the null stream is
\* closed.
Unexpandable(size) ==
  {k \in Readable \ Writable : file[list[k]] < size}

Opened(d, length) ==
  /\ file' = [file EXCEPT ![d] = length]
  /\ savefile' = d /\ pos' = 0

\* The first save that can be read and written is opened.
OpenSave(size) ==
  LET both == Readable \cap Writable
      k    == Last(both)
  IN  /\ both # {}
      /\ \A j \in Unexpandable(size) : j < k
      /\ Opened(list[k], Expanded(file[list[k]], size))

\* Not in the code: a save is made without looking for one.
FaultyCreateSave(size) ==
  /\ Writable # {}
  /\ Opened(list[Last(Writable)], size)

\* There is none: one is made in the first directory that allows it.
CreateSave(size) ==
  /\ Readable \cap Writable = {} /\ Unexpandable(size) = {}
  /\ Writable # {}
  /\ Opened(list[Last(Writable)], size)

\* Filling the new save fails after length bytes.  The stream is closed, and
\* then written to, rewound and returned.
CreateSaveFails(size, length) ==
  /\ Readable \cap Writable = {} /\ Unexpandable(size) = {}
  /\ Writable # {}
  /\ length < size
  /\ file' = [file EXCEPT ![list[Last(Writable)]] = length]

\* The null stream is closed while looking for a save.
NullClosed(size) ==
  \E j \in Unexpandable(size) : \A k \in Readable \cap Writable : k < j

NoSave(size) ==
  Readable \cap Writable = {} /\ Unexpandable(size) = {} /\ Writable = {}

-----------------------------------------------------------------------------
(* The callbacks.  Each either succeeds or returns -1. *)

\* Not in the code: the position is left at the end.
FaultyMoved(n) == pos + n

\* At the end of the save the position goes back to the start.
Moved(n) == IF pos + n = savesize THEN 0 ELSE pos + n

Seek(x) ==
  /\ savefile # Closed
  /\ pos' = x % savesize
  /\ UNCHANGED <<disk, savesize, savefile>>

\* pos > savesize - n, unsigned: a save smaller than the number is not full.
Full(n) == savesize >= n /\ pos > savesize - n

WriteBytes(n) ==
  /\ savefile # Closed
  /\ pos + n <= MaxFile
  /\ file' = [file EXCEPT ![savefile] = IF @ < pos + n THEN pos + n ELSE @]
  /\ pos' = Moved(n)
  /\ UNCHANGED <<access, list, savesize, savefile>>

WriteChar  == WriteBytes(1)
WriteInt   == ~Full(IntBytes) /\ WriteBytes(IntBytes)
WriteFloat == ~Full(DoubleBytes) /\ WriteBytes(DoubleBytes)

\* Reading fails at the end of the file, not of the save.
ReadBytes(n) ==
  /\ savefile # Closed
  /\ pos + n <= file[savefile]
  /\ pos' = Moved(n)
  /\ UNCHANGED <<disk, savesize, savefile>>

ReadChar  == ReadBytes(1)
ReadInt   == ReadBytes(IntBytes)
ReadFloat == ReadBytes(FloatBytes)

-----------------------------------------------------------------------------
SaveTypeOK ==
  /\ file \in [Dirs -> Int] /\ \A d \in Dirs : file[d] >= Absent
  /\ access \in [Dirs -> Accesses]
  /\ list \in Lists
  /\ savesize \in SaveSizes
  /\ savefile \in Dirs \cup {Closed}
  /\ pos \in Nat

\* Once a save has its size and the position is in it, both stay so, if the
\* save has room for every type: numbers are not written or read across its
\* end, and the position is wrapped when a number ends there.
Shaped == savefile # Closed /\ file[savefile] = savesize /\ pos < savesize

KeepsShape ==
  [][Shaped /\ savesize >= DoubleBytes /\ savefile' = savefile => Shaped']_<<disk, stream>>

\* main.c: "expand if it's too small": a save that is open has the size the
\* game asked for, or more.
SaveLongEnough == savefile # Closed => file[savefile] >= savesize
=============================================================================
