-------------------------------- MODULE Game --------------------------------
(***************************************************************************)
(* The program: main() of src/main.c, from the opening of the save file to *)
(* the end of the event loop, over any number of runs of it.  The script   *)
(* runs inside init, event and frame, and calls back: set_running,         *)
(* event_set_mouse_capture and the savedata_ callbacks of SaveFile.        *)
(*                                                                         *)
(* The user may press and release the two keys that release the mouse, and *)
(* ask the program to quit; other events only run the script.  Any call to *)
(* SDL may fail.  What a script draws is Tilemap's, how it runs VMExec's.  *)
(***************************************************************************)
EXTENDS SaveFile

CONSTANT Games   \* what games do: calls, keys that are pressed, save sizes

Ctrl == "ctrl"
F10  == "f10"
Combination == {Ctrl, F10}

\* A game asks for a largest save.
ASSUME GamesAssumption ==
  /\ Games \subseteq [calls : SUBSET {"running", "mouse", "save"},
                      keys : SUBSET Combination, sizes : SUBSET SaveSizes]
  /\ \A g \in Games : \E m \in g.sizes : \A n \in g.sizes : m >= n

VARIABLES
  game,      \* the game that is played
  phase,     \* where main is: "off", or
             \* "init", "event", "frame" while the script runs,
             \* "top" of the frame loop or "poll" for events
  running,   \* state.running
  captured,  \* state.mouseCaptured: -1 released by the user, 0 or 1
  combo,     \* state.mouseReleaseCombo, as a set of keys
  relative,  \* SDL's relative mouse mode
  held,      \* the keys that are down
  used,      \* the directory of the save that was last opened, or Closed
  moved      \* the directories changed since

mouse == <<captured, combo, relative, held>>
past  == <<used, moved>>
vars  == <<disk, stream, game, phase, running, mouse, past>>

Scripts == {"init", "event", "frame"}

-----------------------------------------------------------------------------
(* Starting and ending. *)

\* A process starts with nothing open and nothing captured.
Fresh ==
  /\ running' = FALSE /\ captured' = 0 /\ combo' = {} /\ relative' = FALSE
  /\ held' = {}

Off ==
  /\ phase' = "off" /\ Fresh
  /\ savesize' = 0 /\ savefile' = Closed /\ pos' = 0

\* The error labels of main, a return from the middle of it, or exit: files
\* are closed.
Stop == phase # "off" /\ Off /\ UNCHANGED <<disk, game, past>>

Begins ==
  /\ phase' = "init" /\ running' = TRUE
  /\ UNCHANGED mouse

StartWithoutSave ==
  /\ phase = "off" /\ 0 \in game.sizes
  /\ Begins
  /\ UNCHANGED <<disk, stream, game, past>>

StartWithSave(size) ==
  /\ phase = "off" /\ size # 0
  /\ OpenSave(size) \/ CreateSave(size)
  /\ savesize' = size
  /\ used' = savefile' /\ moved' = FALSE
  /\ Begins
  /\ UNCHANGED <<access, list, game>>

\* There is no save, or opening one is undefined: the program ends.
StartFails(size) ==
  /\ phase = "off" /\ size # 0
  /\ \/ (NoSave(size) \/ NullClosed(size)) /\ UNCHANGED file
     \/ \E length \in 0 .. size - 1 : CreateSaveFails(size, length)
  /\ UNCHANGED <<access, list, stream, game, phase, running, mouse, past>>

\* Between two runs the environment's directories, and how they may be used,
\* change.
Change ==
  /\ phase = "off"
  /\ list' \in Lists /\ access' \in [Dirs -> Accesses]
  /\ moved' = TRUE
  /\ UNCHANGED <<file, stream, game, phase, running, mouse, used>>

-----------------------------------------------------------------------------
(* The script and its callbacks. *)

Calls(c) == phase \in Scripts /\ c \in game.calls

\* A script asks to go on or to end.
SetRunning(x) ==
  /\ Calls("running")
  /\ running' = x
  /\ UNCHANGED <<disk, stream, game, phase, mouse, past>>

\* Not in the code: the user's release does not bind the script.
FaultySetMouseCapture(x) ==
  /\ Calls("mouse")
  /\ captured' = IF x THEN 1 ELSE 0
  /\ relative' = x
  /\ UNCHANGED <<disk, stream, game, phase, running, combo, held, past>>

\* event_set_mouse_capture: what the user released stays so.
SetMouseCapture(x) ==
  /\ Calls("mouse")
  /\ captured = IF x THEN 0 ELSE 1
  /\ captured' = 1 - captured
  /\ relative' = x
  /\ UNCHANGED <<disk, stream, game, phase, running, combo, held, past>>

SaveCall ==
  /\ Calls("save")
  /\ \/ \E x \in 0 .. savesize + 1 : Seek(x)
     \/ WriteChar \/ WriteInt \/ WriteFloat
     \/ ReadChar \/ ReadInt \/ ReadFloat
  /\ UNCHANGED <<game, phase, running, mouse, past>>

Return ==
  /\ phase \in Scripts
  /\ phase' = IF phase = "event" THEN "poll" ELSE "top"
  /\ UNCHANGED <<disk, stream, game, running, mouse, past>>

-----------------------------------------------------------------------------
(* The frame loop and the event loop. *)

\* while(state.running): the screen is cleared, or the program completed.
Top ==
  /\ phase = "top"
  /\ IF running
       THEN phase' = "poll" /\ UNCHANGED <<stream, running, mouse>>
       ELSE Off
  /\ UNCHANGED <<disk, game, past>>

\* Not in the code: the events that are waiting are handled after a quit.
FaultyPolls == phase = "poll"

\* while(state.running && SDL_PollEvent(...))
Polls == phase = "poll" /\ running

Quit ==
  /\ Polls
  /\ running' = FALSE
  /\ UNCHANGED <<disk, stream, game, phase, mouse, past>>

\* The script is told of the mouse and of joysticks.
Other ==
  /\ Polls
  /\ phase' = "event"
  /\ UNCHANGED <<disk, stream, game, running, mouse, past>>

\* The release combination is looked for before repeats are dropped.  When
\* SDL cannot release the mouse, main returns: see Stop.
KeyDown(key, repeat) ==
  LET pressed == combo \cup {key}
  IN  /\ Polls
      /\ repeat => key \in held
      /\ held' = held \cup {key}
      /\ IF pressed # Combination
           THEN combo' = pressed /\ UNCHANGED <<captured, relative>>
           ELSE /\ combo' = {}
                /\ captured' = IF captured < 0 THEN 0 ELSE -1
                /\ relative' = FALSE
      /\ phase' = IF repeat THEN "poll" ELSE "event"
      /\ UNCHANGED <<disk, stream, game, running, past>>

\* Not in the code: a key that goes up stays in the combination.
FaultyKeyUp(key) ==
  /\ Polls /\ key \in held
  /\ held' = held \ {key}
  /\ phase' = "event"
  /\ UNCHANGED <<disk, stream, game, running, captured, combo, relative, past>>

KeyUp(key) ==
  /\ Polls /\ key \in held
  /\ held' = held \ {key} /\ combo' = combo \ {key}
  /\ phase' = "event"
  /\ UNCHANGED <<disk, stream, game, running, captured, relative, past>>

\* No event is waiting, or the program is to end: the last frame is run.
Frame ==
  /\ phase = "poll"
  /\ phase' = "frame"
  /\ UNCHANGED <<disk, stream, game, running, mouse, past>>

-----------------------------------------------------------------------------
Init ==
  /\ game \in Games
  /\ file \in [Dirs -> {Absent, Max(game.sizes)}] /\ list \in Lists
  /\ access \in [Dirs -> Accesses]
  /\ savesize = 0 /\ savefile = Closed /\ pos = 0
  /\ phase = "off" /\ running = FALSE
  /\ captured = 0 /\ combo = {} /\ relative = FALSE /\ held = {}
  /\ used = Closed /\ moved = FALSE

Start == StartWithoutSave \/ \E size \in game.sizes : StartWithSave(size) \/ StartFails(size)

Keys == \E key \in game.keys : KeyUp(key) \/ \E repeat \in BOOLEAN : KeyDown(key, repeat)

Script ==
  \/ \E x \in BOOLEAN : SetRunning(x) \/ SetMouseCapture(x)
  \/ SaveCall
  \/ Return

Next ==
  \/ Change \/ Start \/ Stop
  \/ Script
  \/ Top \/ Quit \/ Other \/ Keys \/ Frame

\* main goes on by itself, and a script returns: the code waits for nothing,
\* and gives a script no limit of time.
Spec ==
  Init /\ [][Next]_vars /\ WF_vars(Return) /\ WF_vars(Top) /\ WF_vars(Frame)

-----------------------------------------------------------------------------
\* The save's state, and that main only takes keys for pressed that are.
TypeOK ==
  /\ SaveTypeOK
  /\ game \in Games
  /\ phase \in {"off", "top", "poll"} \cup Scripts
  /\ running \in BOOLEAN /\ relative \in BOOLEAN
  /\ captured \in {-1, 0, 1}
  /\ held \subseteq Combination /\ combo \subseteq held
  /\ used \in Dirs \cup {Closed} /\ moved \in BOOLEAN

\* README "SAVE DATA": the save is made on the first run and reloaded on each
\* consecutive run.  While the directories stay what they were, a run opens
\* the save the last one did, though the list is searched again each time.
Reloads ==
  [][phase = "off" /\ savefile' # Closed /\ used # Closed /\ ~moved => savefile' = used]_vars

\* README: the user releases the mouse with CTRL+F10, and it stays released,
\* whatever the script writes, until both keys are pressed again.
StaysReleased ==
  [][captured = -1 => ~relative' /\ (captured' = -1 \/ held' = Combination \/ phase' = "off")]_vars

\* A quit is answered, unless the script says to go on: neither the event
\* loop nor the frame loop runs for ever once running is 0.
QuitEnds == ~running ~> (phase = "off" \/ running)
=============================================================================
