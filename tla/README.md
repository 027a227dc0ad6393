# Verification of crustygame

TLA+ models of the core of crustygame (`src/`): a game runtime in C that loads a
script, compiles it to bytecode, runs it in a small virtual machine, and gives it
tile graphics, audio, input and save data through callback variables.

## 1. Inventory

| component | source | state | operations |
|---|---|---|---|
| output ring of the synthesizer | `synth.c` (first third) | cursors, fill count, channel buffers, `state`, `underrun`; SDL's pause flag and device lock | `synth_new`, `synth_set_fragments`, `synth_set_enabled`, `synth_has_underrun`, `synth_frame`, `synth_free`; `synth_audio_cb` on the audio thread |
| sample buffers and players | `synth.c` (rest) | two growing arrays with reference counts and positions | add, free, fifteen setters, `synth_run_player` |
| VM, execution | `crustyvm.c` 4134-4148, 4617-5770 | `stack`, `cstack`, `sp`, `csp`, `ip`, result, `status` | `crustyvm_reset`, `_begin`, `_step`, `_run`, `_debugtrace` |
| VM, layout | `crustyvm.c` 2352-2543, 2807-3200 | variables, procedures, sizes of stacks | `new_variable`, `symbols_scan` |
| VM, loader | `crustyvm.c` (rest) | tokens, lines, macro stack, bytecode | `tokenize`, `preprocess`, `codegen`, `codeverify` |
| tiles | `tilemap.c` | three growing arrays (tilesets, tilemaps, layers), reference counts, cached textures | add, free, set, update, draw |
| callbacks | `callbacks.c` | `CrustyGame`: buffer, return value, save file | some 90 read and write callbacks |
| main program | `main.c` | the loop, mouse capture, the save file | `main`, `create_save_file`, `audio_frame_cb`, `notify_event` |
| network | `net.c`, `x509.c` | a TLS connection's message buffers | not linked into the game |
| XDG directories | `xdg.c` | none | splitting of an environment variable |
| tools, examples, tests | `bmpconvert.c`, `paramgen.py`, `examples/`, `tests/` | | |

How they interact: `main` loads one script (`crustyvm_new`) and then loops: it
polls events and runs the script's procedure `event` for each, calls
`synth_frame`, which runs the procedure `audio` from inside the frame callback,
and runs `frame`. A script's `move` to or from a callback variable calls into
`callbacks.c`, which calls `tilemap.c` and `synth.c`. SDL calls `synth_audio_cb`
on a thread of its own, with the audio device's lock held. A callback that
returns an error ends the script's run and with it the program. (In this commit
the calls of the synthesizer in `main.c` are in `#if 0` and `synth.o` is
commented out of the Makefile; the code around them is complete and is what the
model takes the order of calls from.)

What is hard: the two threads that share the ring; a script called back from
inside the operation it may disturb; references that stay in the VM's memory
while frames come and go; result types that are set on some paths only; reference
counts kept by several operations; failures half way through an allocation or a
file; unsigned arithmetic at its ends. `PROJECT.json` lists each with its line
under `hazards`.

What makes each component correct:

- *ring*: frames leave the ring once, in order; no frame is overwritten
  before it is heard; a drained ring is filled again; no thread touches what the
  other works on; the setters never pull the buffers from under a thread.
- *buffers and players*: a buffer is freed only when no player names it; a player
  slot is reused only when it was freed; playback stays inside both buffers.
- *VM, execution*: the two stacks stay within their sizes and hold one frame per
  call; a return goes to its call; a reference refers to a live element; a
  program changes only what it can name; a jump decides by the last result.
- *VM, loader*: nesting limits hold; what it accepts is what execution assumes.
- *tiles*: nothing referenced is freed; numbers of resources stay valid until
  freed; a layer's window and scroll position fit its tilemap.
- *save data*: a save file has the size the script asked for and keeps its content.

## 2. Modules

`SynthRing` - the ring and its two threads. `SampleQueue` - the bounded queue it
implements. `SynthRingProofs` - theorems about it.

`VMExec` - execution of a loaded program. `VMLayout` - how the loader lays the
program's variables out. `CallByReference` - procedures, locals and references
with no stack and no addresses, which `VMExec` implements. `MCVMExec` - programs
for TLC. `VMExecProofs` - theorems about the stacks, the memory and the references
of `VMExec`; `VMCallProofs` - that it implements `CallByReference`;
`VMLayoutProofs` - that what `VMLayout` lays out is what `VMExec` assumes, with
enough memory for every execution without recursion.

`Tilemap` - tilesets, tilemaps and layers: the slots, the references between
them, the cached textures, copying to parts of maps, and what drawing a layer
puts where. `MCTilemap` - instances for TLC. `TilemapProofs` -
theorems about the references and the copies to maps; `TilemapPictureProofs` -
theorems about drawing, textures and memory.

`SynthPlayers` - the synthesizer's sample buffers and players: two tables,
reference counts, and the loops of `synth_run_player` as moves of positions.
`MCSynthPlayers` - scripts for TLC. `SynthPlayersProofs` - theorems about it.

`SaveFile` - finding, making and using a save file. `Game` - the main program with
its loops, events, mouse and save, over any number of runs; it extends `SaveFile`.
`GameProofs` - theorems about both. `MCGame` - games for TLC.

`Expressions` - what an `expr` statement evaluates. `Loader` - `tokenize` and
`preprocess`, step by step, over `Expressions`. `Expansion` - what the README
promises of includes, macros, conditions and expressions, by recursion over the
text, and that `Loader` keeps it. `MCLoader` - programs for TLC.

The parts meet only in the script: the VM calls `tilemap.c`, `synth.c` and the
save data through callback variables, one call at a time, and none of them calls
another. `VMExec` sees a callback as an operation that returns a value or fails;
`Tilemap`, `SynthRing`, `SynthPlayers` and `Game` see a script as any order of
their calls. Of the loader's result, `VMExec` assumes only `WellFormed`; that the
layout has it is proved (`LoadedIsWellFormed`), the rest is `codeverify`'s tests.

Definitions whose name begins with `Faulty` are not part of a model: each is a
definition changed the way a plausible bug would change it, and `PROJECT.json`
names, for every property of a passing run, the one that breaks it.

### SynthRing

A slot of the ring is a sample frame, "fresh" from when `synth_frame` accounts
for it until the callback has copied and silenced it. The main thread is the
program counter `mpc`: idle between two calls, or inside `synth_frame`. The reset
of `synth_frame` (state ENABLED) runs without the lock, so each store is an
action (`ResetStart` ... `ResetRun`). The running branch peeks without the lock
in two loads (`FramePeek`, `FrameJudge`), locks and asks again (`FrameLock`),
fills twice at most (`FrameFill1`, `FrameFill2`) and unlocks. The audio thread is
`apc`: `CbUnderrun`, or `CbStart`, one or two passes of `CbCopy` and a count, in
separate steps because the main thread's peek sees the cursor before the count.
Setters run between frames, and with `Reentrant` also from inside the frame
callback. Unsigned values are integers of which `Unsigned` says what a comparison
sees. `faults` records what a copy or fill did that it must not.

What a device asks for (`request`) is chosen from `Lengths` when it is opened and is
the same in every call, as in SDL.

Not in the model: the conversion of formats (a slot is fresh or used), the
contents of `stream`, overlapping runs of two programs.

### VMExec

Memory is a sequence of four-byte cells, as in the code: globals, then a frame
for each call, an argument slot of four cells (flags, value, index, address) per
argument at the end of the frame. An instruction takes one place instead of two to
seven words. `At`, `IndexOf` and `SrcRefs`/`DestRefs` are `update_src_ref` and
`update_dest_ref`; `ArgRefs`, `Call`, `Push` are `call`; each instruction (group)
of `crustyvm_step` is an action. A callback returns any of `CallbackValues` or
fails. Floats are whole numbers in the first of two cells. `Computed` computes
sums and differences and leaves the other operations open. Sums are those of ints
with `Word` values (0: of ints that never wrap, as in the runs). `faults` is history:
"read_only" when an operand that only a callback can read has been written, "wrapped"
when the sum of an index and the index of the element passed has wrapped (`Wraps`). `program` is chosen in
`Init` from `Programs` and never changes; `ProgramsVerified` is what the loader
makes certain of, and TLC evaluates it on the programs it runs. Its part
`WellFormed` names, one conjunct each, what `new_variable` and `symbols_verify` lay
out, what `populate_var` and `check_move_arg` refuse, and what `check_instruction`,
`codegen` and `codeverify` test of an instruction.

`VMLayout` builds such a program as `new_variable` and `symbols_scan` do, one
declaration after the other: `NewGlobal` and `NewLocal` are the two halves of
`new_variable`, `NewProcedure` is `proc` to `ret`. `Statics`, `Callbacks`, `Locals`
and `ProceduresOf` are what can be declared, `GlobalDecls` the order in which
`crustyvm_new` does. `SymbolsVerified` is `symbols_verify` with its tests in bytes
as they are written, the missing equality (`crustyvm.c:3250`) and the wrong
variable's type (`crustyvm.c:3243`) included; that a procedure's and a variable's
pointers agree holds by the shape of the model. A declared length and an offset
never wrap, and a `stack` statement adds: the code also takes a negative number.

Not in the model: type CHAR and the packing of characters, `div` by zero,
`crustyvm_debugtrace`, allocation failures of the loader.

### Tilemap

`tileset`, `tilemap` and `layer` are the three arrays; a slot is "null" (never
used, or freed) or "live". Every callback of `callbacks.c` that reaches
`tilemap.c` is an action; one that fails and has changed nothing is `End`, because
a failing callback ends the run and `main` then frees the layer list
(`LayerlistFree`). Two failures do change the list and are actions of their own:
`AddTilemapFails` (the array has doubled, the map was not allocated, and the slots
behind it were never written: kind "raw") and `UpdateTilemapFails` (the texture
exists, not all of it is drawn). `Slot` and `Grown` are the search for a free slot
and the doubling of a full array, which the three kinds write out separately in
the code. `textures` and `blocks` count what SDL and `malloc` have given out.

Data is reduced as follows. A map's cells are numbered row by row, as in memory,
and hold a tile number. Of an attribute map the model keeps which cells have been
written, which is what the `memset` at line 679 gets wrong; none is the null
pointer. A cached texture holds the tile that was drawn last over each cell, or
`Undefined`, and the tileset and size it was made for (`from`, `w`, `h`, which the
code does not store: they are what the texture's validity is about). A buffer of
a script is its length, its pitch and one tile. The fields of a freed slot are
reset in the model and left in the code, which never reads them again. Scales are
whole numbers of halves, so that `Half` is what the conversion of the product to
`int` does. The int that a callback hands on as `unsigned` is not negative
(`IsInt`), as `callbacks.c` tests; `Word` is the modulus of the sums in the range
tests, and "wrapped" among the `faults` records that rows times pitch has wrapped in
one (`Wraps`). `picture` is what the last call drew of a layer: the pieces, each with its
place in the texture, in the window and on the screen.

Not in the model: colours and blend modes, rotated layers
(`tilemap_set_layer_rotation`, and the branch of `tilemap_draw_layer` that draws only
the first piece of one, `tilemap.c:1328`), pixels, the power-of-two sizes of textures, maps
whose size in pixels is beyond 32 bits.

### SynthPlayers

`buffer` and `player` are the two arrays, functions from `0 .. mem - 1`. A buffer
keeps its size and its count of references, a player the five buffers it names
(`use`), the position in each (`at`), and its modes, speed and loop. `Placed` is
the search for a free slot and the doubling that both add functions write out;
`Rewire` is what the five functions that exchange a buffer have in common:
reference down, reference up, position 0. `RunPlayer` is `synth_run_player`: how
many samples it may do (`Room`, `Quota`), and `Sample` for each, which counts the
output position and moves the input by the mode (`StepOnce`, `StepLoop`,
`StepPingPong`, `StepPhase`) and the sources round. The code writes every
combination of mode, source of speed, source of volume and output mode out as a
loop of its own; the model says once what they share, so `Sample`, `Played` and
`StepInput` stand for all of them (`synth.c:1381`-1919), and `Stride`, `EndsAt` and
`StepSources` for a few lines that those which have them repeat.

A sample is `Grain` units long, and positions and speeds are whole numbers of
units, so that a float's remainder and comparison are exact; the conversions to
`int` (towards zero) and to unsigned (undefined for what is negative) are those of
C. What a source of speed holds is chosen freely from `Modulations`. A call that
fails ends the script; one whose behaviour C leaves undefined ends the model, as
"strayed" (a table was read behind its end) or "overrun" (a buffer was).
`handed` and `first` are history: players handed out, and whether a player ever
had buffer number 0 as input.

Not in the model: the values of samples and volumes, and the conversion of formats
in `synth_add_buffer`.

### SaveFile and Game

The directories of `get_xdg_home_dirs` are a list that is gone through from its
end. Of each directory's save the model has the length and how it may be opened.
`OpenSave`, `CreateSave`, `CreateSaveFails`, `NullClosed` and `NoSave` are the
outcomes of `create_save_file`; `Seek`, the writes and the reads are the
`savedata_` callbacks that succeed (one that fails changes nothing and ends the
script). An `int` has `IntBytes`; a float is written with `DoubleBytes` and read
with `FloatBytes`, as in the code.

`Game` adds the process around it. `phase` says whether `main` is in the script
(`init`, `event`, `frame`), at the top of the frame loop, polling, or not running.
Keys go down and up in any order, with repeats; `combo` is
`state.mouseReleaseCombo`, `captured` is `state.mouseCaptured`, `relative` what SDL
was told. `Stop` is every way out in the middle: an error, a return, a failed
callback. Between two runs the environment may change (`Change`): the list of
directories and what may be opened. `used` and `moved` are history: which save the
last run opened, and whether the directories changed since.

### Expressions, Loader and Expansion

`Loader` has the state of `tokenize` (the include stack `modules` and the lines
so far) and of a pass of `preprocess` (`logline`, the macros, the macro being read,
the calls with their return lines and arguments, the variables of `expr`, the
lines copied, `foundmacro`). Each kind of line is an action, guarded by its first
token as it is after replacement. A token is a sequence of words (a quoted
string has several) and a name is replaced where it is a word (`Replaced`); the code
also replaces it inside words, keywords included (`crustyvm.c:1020`). `Active` is the rewritten line, with both exceptions the
code makes. What C leaves undefined ends the model as "undefined": the include
stack and the stack of calls written behind their ends, the list of macros moved
under a call, a division by zero.

`Expressions` reduces a list level by level, left to right, as `do_expression`
does with its linked list, and gives what it does for lists that are no
expression, for lone halves of operators too (`Invalid`). `Levels` is the order of
the code, which has `|` before `^`. Values are ints of `Bits` bits.

`Expansion` is the reference: `Flat` (a file with its includes in place), `Run`
(lines with macros and variables as an environment, a call as the body with the
arguments bound) and `Meaning` (an expression split at its last operator of the
lowest precedence, by `Precedence`, which is C's order: `src/README:115` and the
comment at `crustyvm.c:1116` promise it). It has no positions, stacks or passes.
`Limited` are the programs that keep to the limits, told from their text alone:
the include stacks that reading the files can build (`Stacks`) and the calls that
can begin one inside the other (`Nests`) fit, no macro defines another, and every
expression has a value or is refused. For the others the code has no result (it
writes behind a stack, for a macro that calls itself without end), and `Loads`
claims nothing of them.

Not in the models: the characters of a token, quoting and comments; failing
allocations; what comes after preprocessing (see Not modelled).

## 3. Runs

| run | bounds | shows |
|---|---|---|
| `ring_running` | mono; fragments of 2 frames, one or two in the ring; a device that asks for 1 frame, for 2 (its fragment), or for 5 (more than the ring); both threads, setters and failing allocations in every order | type correctness; one consistent window, wrapped and partly filled ones included; slots match it; no glitch; a frame leaves the ring full; reset only while stopped; true underruns; the ring implements `SampleQueue`; under `FairSpec`, a drained ring is filled again and enabled audio starts |
| `vm_recursion` | a program with a recursive procedure of three arguments, four sizes of the stacks (calls run out, memory runs out, memory for each procedure exactly once, both are enough), callbacks returning 0 or 1 or failing, both entry points any number of times | stack discipline; only recursion exhausts memory; returns; live references; no access out of range; call by reference |
| `tiles_resources` | two slots of each kind, two sizes of tiles, maps of one tile | exact reference counts; nothing dangling; no slot given up or taken while in use; textures of the current tileset; nothing leaks |
| `tiles_drawing` | one map of 2 x 2 tiles and one layer over two tilesets; three parts of the map, two buffers (one with pitch 0), three windows and scroll positions, two scales (1 x 1 and 1.5 x 0.5) | copies within map and buffer; updates add up; every pixel of the window once, in the right place; no seams; only a new tileset makes a layer not fit |
| `players_calls` | five scripts: two players that are freed, added and rewired over three buffers; one that loops, is tuned and run; one that is modulated by sources; one whose input, output and phase are exchanged while it runs; one that exchanges every role; sizes 2 and 3, a sample of two units, speeds of -1 to 3 units | type correctness; references cover the uses; positions stay in exchanged sources; only an exchange of the input makes a loop not fit; a run never leaves the buffers of a player with sound settings |
| `game_playing` | three games: one that uses a save of 1, 4 or 5 bytes, one that captures the mouse and sets `running`, one that does both; two directories with every access; an int of 2 bytes, a double of 4; files of at most 6 bytes | type correctness; a save keeps its size and the position stays in it; the same save is found again; the mouse stays released; a quit ends the program |
| `loader_expanding` | some 270 scripts of up to two lines behind four macros and with an assignment before them or not, all expressions of three operands with every two of the eighteen operators in three groupings (an or beside an exclusive or without parentheses excepted), and malformed ones: 1523 programs, 1346 of them `Limited`; four nested files, three nested calls | what is loaded is the expansion; a program that keeps to the limits is loaded or refused |

The bounds reach the interesting cases: a ring of four frames taken out one or two
at a time has cursors in the middle, windows that wrap and are neither empty nor
full, a frame's fill in two parts (`FrameFill2`), and a device that asks for half a
fragment or, for five, enters the callback's second pass. Channels make a difference
only in that pass (`CbCount1`), so mono stands for stereo here. With
four sizes of stacks both overflows, and none, happen; the recursion passes an
element, an element of an argument, an argument that is a number, an index held
by an argument, and a callback. Two slots of each kind are the least with an array
that grows, a slot that is freed and taken again, and a second tileset for a
tilemap to change to; a map of 2 x 2 tiles is the least with a part that is a
row, a part that is in no corner of it and windows past either edge and both.
Three buffers are the least with an exchange between two while a slot is freed and
taken by a smaller one. A save of 1 byte is shorter than every number, 4 is a
double, and with 5 an int ends just before the end or on it. The programs of
`MCLoader` include a macro that calls another twice, one with a condition, one
that calls itself, one that defines a macro (which takes two passes), files that
are empty, end in an include or go on behind one, a cycle, and both limits
exceeded by one.

Runs that show where the code and its comments or documentation part (all listed
under `findings`):

| run | what happens |
|---|---|
| `vm_judging` | a jump decides by a result older than the last |
| `tiles_undefined` | a layer shows a part of a texture that nothing has drawn |
| `save_short` | a save that is too small is opened and not expanded |
| `loader_deciding` | a macro's condition that held once is never decided again |
| `loader_precedence` | an or is evaluated before an exclusive or, in another order than C's: `6 \| 3 ^ 2` is 5 and not 7 |

Two defects of the callback are in the model and in no passing run, because only a
request that does not fit the ring reaches them, and SDL 2 asks for one fragment at a
time: the stereo branch's second pass uses the count from before the first
(`CbCount1`), and a full ring offers its whole size from a cursor that is not 0
(`SamplesAvailable`, `synth.c:125`), although the comment at `synth.c:92` guarantees
that "only up to the cursor or the end of the buffer may be consumed". `Fits` says
which requests are safe, and `RequestsFit` that all are: a request divides the
ring, or is longer than it and the ring is not stereo. Theorems assume it, and not
for convenience: of requests that do not fit, TLC finds `NoGlitch` violated with 1
channel, fragments of 2, up to 3 of them and requests of 4 (out of bounds); with 2
channels, fragments of 2, one of them and requests of 4 (an old sample again); with 2
channels, one frame a fragment, up to 3 and requests of 2 (the same); with 1 channel,
fragments of 2, up to 2 and requests of 3 (out of bounds).

For requests that fit, a callback's second pass finds nothing left: it is entered
only when one has taken the whole ring. That it writes to the start of `stream`
again (`synth.c:184`) would be heard only for a request that does not fit, and those
already leave the buffer; no property is about it.

Other places where code and comments part, or where the code's behaviour is
undefined, which are in the models and which no run is about. In the ring, the VM
and the tiles:

- With `ReEnable`, enabling audio that already runs makes the next `synth_frame`
  reset the ring beside the callback (`synth.c:592`): `ResetWhileStopped` is
  violated.
- A channel's allocation that fails in `synth_set_fragments` leaves
  `channelbuffer` pointing at freed memory (`synth.c:685`), and audio can be
  enabled on it.
- A read-only callback passed by reference is a legal destination
  (`crustyvm.c:5403`; fault "read_only"). A program that passes none never writes
  one (theorem `WritableWhenPassed`).
- With `Word` not 0, the sum of two indexes wraps to a negative number that no test
  refuses (`crustyvm.c:4734`; fault "wrapped"): with ints of 128 values, an array
  passed at element 1 and a callback that returns 63 as an index, TLC finds `InRange`
  violated. This and the write above are the only ways to an access out of range
  (theorem `NothingOutOfRange`).
- A tilemap that gets a tileset of smaller tiles leaves its layers with a window
  larger than it (`tilemap.c:573`), which `OnlyRetilingUnfits` allows for.
- With `Reentrant`, a script that disables audio from the frame callback of the
  start is overridden: `ResetRun` sets RUNNING after the callback (`synth.c:613`).
- With four slots for tilemaps, a failing `AddTilemap` leaves a "raw" slot, and
  `LayerlistFree` frees what it holds (fault "wild free", `tilemap.c:496`).
- A tile number equal to the number of tiles passes (`tilemap.c:842`), and an
  attribute map is zeroed for the size of its first update only
  (`tilemap.c:679`): both violate `PictureDefined`, which the run above breaks
  sooner in another way.
- With `Word` small enough for rows times pitch to wrap, `Holds` accepts a buffer
  that is too short (fault "overread", `tilemap.c:605`): with ints of 8 values, two
  rows of one tile in a buffer of one with a pitch of 7, TLC finds `NoOverrun`
  violated. Buffers that large are beyond what the runs can hold; that a map is never
  overrun is proved for every `Word`, and that a buffer is overread only after such a
  wrap (theorem `CopiesStayInside`).
- At a negative position and a fractional scale the pieces of a layer are one
  pixel apart, as `int` conversion goes towards zero, and so they are at a negative
  scale (`tilemap.c:1136`): `Seamless` leaves negative positions and scales out.

In the players:

- A player's slot is free when its input is 0, which is also the number of the
  first buffer: a player of that buffer is overwritten by the next one and its
  references stay (`synth.c:912`). `RefsCover` claims equality only until then.
- Exchanging the input leaves the loop points (`synth.c:997`), so a loop may lie
  outside a shorter buffer; the comment "so loop start and loop end can have valid
  values" (`synth.c:716`) is about the buffer's size only.
- The position wraps at the buffer's size before it is compared with the loop's end
  (`synth.c:1509`): a loop that ends with the last sample goes on at the loop's
  length, not at its start. PINGPONG jumps to the other end where it turns, and a
  step longer than what lies behind the loop leaves the buffer.
- A player with mode ONCE and a speed source returns one less than it wrote, and
  reads behind its input when it is run again at the end. At constant speed the
  last, partial step is dropped.
- The tests `index > mem` (`synth.c:845`, 978 and others) let the number one behind
  the table pass ("strayed").

`Safe` names the settings for which `RunsStayInside` holds, which is also proved;
the ways out above are the ones it leaves out.

In saves:

- A save that is too small and cannot be appended to makes the code close a null
  stream (`main.c:435`, `NullClosed`); a fill that fails closes the file and goes
  on with it (`main.c:453` and `main.c:514`, `CreateSaveFails`).
- A save smaller than a number is never found full, as the size less the number
  wraps (`callbacks.c:988`): the write goes past the save's size, and the file
  grows. `KeepsShape` asks for room for every type.
- A float is written with eight bytes and read with four (`callbacks.c:1101`).
- Reading is limited by the file's length and not the save's (`callbacks.c:1070`,
  "no need to check pos beforehand"), which differ when the file is longer.

In the loader:

- The depth of includes is compared with `MAX_INCLUDE_DEPTH`, one too late
  (`crustyvm.c:823`, `IncludeOverflows`).
- A full stack of calls is logged, and then written behind its end
  (`crustyvm.c:2141`, `CallOverflows`).
- The test for recursion compares with the macro that is being read, and there is
  none then (`crustyvm.c:2155`): a macro that calls itself is refused by nothing and
  ends in the overflow.
- A macro defined inside a call moves the list of macros, into which the stack of
  calls keeps pointers (`crustyvm.c:1982`, `DefineMoves`).
- `expr X` after an earlier `expr X` names the earlier value instead of the
  variable, and so changes nothing (`crustyvm.c:1949`).
- `|` and `!|` are reduced before `^` and `!^` (`crustyvm.c:1368`), in C after them:
  see `loader_precedence`.
- `) (` passes the count of parentheses, and the search for the closing one runs
  off the list (`crustyvm.c:1066`). Division by zero in `expr` is not tested
  (`crustyvm.c:1145`).

Fairness (`SynthRing!Fairness`): `main` calls `synth_frame` in every iteration,
so a started frame goes on (weak fairness of its steps) and other calls cannot
put the next one off for ever (strong fairness of `FramePeek` and `ResetStart`,
which setters disable in between); the device thread sleeps outside the lock
between two fragments, so the main thread gets the lock in the end (strong
fairness of `FrameLock` and `ResetRun`); a callback that has begun ends (weak
fairness). Nothing is assumed of the setters, of failures or of when the device
asks.

`Game!Spec` assumes that `main` goes on by itself (weak fairness of `Top` and
`Frame`) and that a script returns (weak fairness of `Return`): the code gives a
script no limit of time, so without it nothing ends. Nothing is assumed of events,
of failures or of the script's calls, which may set `running` again; `QuitEnds`
says so. `Loader!Spec` assumes that the loader, which waits for nothing, goes on;
`Loads` needs it, and still fails where a position that is kept leads back.

Deadlock is checked in every run but `players_calls`, whose scripts end; elsewhere
the end of the program is an explicit step.

## 4. Proofs

`SynthRingProofs`: `TypeCorrect` holds for all constants. The others assume
`RequestsFit` (section 3; `OneFragmentFits`: requests of one fragment, which is what
SDL 2 makes, do) and `Disciplined`: audio is enabled only when it is
stopped and no setter is called from inside the frame callback. `ResetIsSafe` needs
neither of the requests nor of the callback, only that audio is enabled when it is
stopped; its invariant is `DeviceRests`. The invariant `IInv` strengthens
the two parts of `WindowHolds` and `NoGlitch`, none of which is inductive: it adds
which thread may be where (`ThreadsAgree`), how far a reset has come
(`ResetProgress`), that cursors stand on multiples of the portion that a request
takes (`Aligned`, so a cursor hits the end exactly), and what the locals stand for:
`FillPlan`, and `CopyPlan`, by which a first pass finds a whole portion and a second
finds the ring emptied. One step per action; the refinement of `SampleQueue` and
`UnderrunMeansEmpty` follow from `IInv`.

`VMExecProofs`: `StacksDisciplined` and `AlwaysReturnsToCaller`, for every set of
programs that satisfies `ProgramsVerified`. The strengthening, `Grounded`, adds
that the sizes are those of a verified program, that every frame on the call stack
is a procedure's, and that an active machine's instruction pointer is in the code.
Further: `TypesHold`, `ReferencesStayLive`, `NothingOutOfRange` and
`WritableWhenPassed`. None of `TypeOK`, `ReferencesLive` and `InRange` is inductive,
and each needs the others: that a cell is read as the address of a live element is
right only if no write ever hits a slot of an argument, so `Kept` adds what every
argument slot of every frame holds (the flags of an own element, of a passed
reference or of a callback, and an address below the frame that holds it), and
`Sound` that a resolved operand lies in the frame, the globals or behind such a
slot. `CallSound` is the core: the slots a call writes hold what `ArgRefs` found,
and the slots of older frames lie below. Ints are of any width. What the theorems
claim ends (`Clean`) where one of two things has happened, each a deviation of the
code: a read-only callback has been written (`crustyvm.c:5403`; what such a write does
is outside the program), or the sum of an index and the index of the element passed
has wrapped (`crustyvm.c:4734`; see section 3: `InRange` is then false). So
`NothingOutOfRange` says that these are the only ways out. `WritableWhenPassed`
removes the first for programs that satisfy `PassesWritable`.

`VMCallProofs`: `CallsImplemented`, the refinement of `CallByReference`, under the
same two reservations (an execution that stays `Clean`), and
`CallsImplementedWhenPassed` for programs that satisfy `PassesWritable`, where only
the wrapped sum is left. An element of the abstract store is a span of cells, and the core
is that no two elements that live share a cell (`SpansApart`): frames do not overlap
(`ExtentsApart`, from the order of frames) and neither do the variables of one
frame (`CellsOfItsOwn`). So a store changes one element (`StoreMaps`), and one that the
running procedure can name (`ResolvesToNamed`): its own, a global's, or from the
element it was passed to the end of that variable. In the stack, a reference is a
variable with an address; the frame it means is unique (`OwnerFound`) and stays the
same while the frames below do (`OwnerStays`). The invariant `Mapped` adds `Kinds` to
`Kept`: a slot says of its argument that it is a number or a reference, and nothing
else. Each action of `VMExec` then is one of `CallByReference`, told apart by what it
leaves of frames and values (`Follows`): a failure of any instruction is `Stop`, a
comparison or a jump is no step at all.

`VMLayoutProofs`: `LoadedIsWellFormed` and `VerificationNeverRefuses`, for any number
of declarations of any sizes. The first is where `ProgramsVerified` comes from: what
remains assumed of a program is that each instruction passed `check_instruction`
(`Checked`). `symbols_verify` cannot give it: its test for overlap has no equality,
so two variables in the same place pass, and for two globals it takes one's type for
the other's. It is the order in which `new_variable` puts them that keeps variables
apart, so the proof goes declaration by declaration: a frame, the globals and the
program are each a recursion, of which `FrameGood`, `GlobalsGood` and `ProgramGood`
hold after every step. The second theorem is the converse question, whether the
wrong type can make it refuse a good program: it could, for a static in front of a
callback, whose offset is never set and whose length is up to `INT_MAX`; but
callbacks are declared first, and of two statics the later one lies behind the
earlier (`GlobalsInOrder`, `FrameInOrder`). TLC evaluates the hypotheses and the
verdict on the programs of `MCVMExec`.

`MemorySuffices`, in the same module, joins loader and execution: for any
declarations that are loaded, `OnlyRecursionExhausts` holds of every execution. The
stack is sized as the sum of all frames, and calls pack frames in the order in which
they happen to be made; that the sum is enough for every order of different
procedures needs `RoomForEach` (the loader's sums leave each procedure a room of its
own behind the globals) and `Packed` (frames that follow each other without a gap
inject, cell by cell, into those rooms, so they are no longer than all of them
together). The bases of the frames come from `StackDiscipline`.

`TilemapProofs`: `TypeCorrect`, `RefsAlwaysCount`, `NeverDangling`,
`ReferencedIsKept` and `MapsNeverOverrun`, for any number of slots and any
inputs that satisfy `BoundsAssumption` and `InputsAssumption`. The invariant
`IInv` is `TypeOK`, `RefsCount` and `NoDangling` with two additions. `RefsCount`
alone is not inductive: moving a reference from one slot to another is right only
when both are in use (`NoDangling`), and a slot is handed out with a count of 0,
which is right only when nothing names it - no live referrer (`NoDangling`) and,
for a slot behind the old end of the array, none ever (`NoneBehind`). Type
correctness of an update needs that the rectangle's cells are the map's, hence
that a map has one of `MapSizes` (`SizesKept`), for which the wrapping sums of the
range tests do not wrap (`RectInMap`). Each call has a lemma; calls that change no
reference share `ReferencesUntouched`. Counting rests on the library's theorems on
cardinality (`OneLess`: one referrer less is one less in the count).
`ReferencedIsKept` is an action property and follows from `IInv` call by call.

`TilemapPictureProofs` builds on that `IInv`. `WindowsAreCovered` and
`PiecesStaySeamless`: the pieces of a layer are the product of the parts of its two
axes, so that every pixel of the window lies in one piece and no other, and that
pieces which meet in the window meet on the screen, is shown once for an axis.
`TexturesStayCurrent` rests on `Textured`, what each call may do to a map's texture
and to what it was made for. `NothingIsLeaked` counts: `Account` says that what SDL
and `malloc` have given out is what the live slots hold, and each call adds or takes
as many as it changes. `DrawnIsKept` and `FitsUntilRetiled` are action properties.
`CopiesStayInside` adds the reading side to `MapsNeverOverrun`, for any sizes: a copy
leaves the script's buffer only after the rows times the pitch of a range test have
wrapped ("wrapped" among the faults). `PiecesStaySeamless` is about positions and
scales that are not negative; section 3 says what the code does with the others.

`SynthPlayersProofs`: `TablesStayTyped`, `ReferencesAreCovered`,
`SourcesStayReadable`, `OnlyAnExchangeUnfits` and `SafeRunsStayInside`, for any
scripts and sizes. `RefsCover` alone is not inductive: `IInv` adds that the tables
are typed and that every live player's buffers are live (`AllSeated`), without
which a count that goes down could belong to another slot. The uses of a buffer are
counted as a set of pairs of player and role, so a call that exchanges one use
changes one cardinality by one. A run of a player is a recursion over its samples,
as a function; that its result keeps positions in their buffers is an induction on
that function, for which `Heeds` names the property of one number of samples.
`SafeRunsStayInside` needs more than the position after a sample: `Ready` says that
as many samples as are left find room in the output and in what lies before the
input's end, and every mode keeps it (`StrideKnown`, `JumpStaysInLoop`).

`GameProofs`: `TypeCorrect`, `ShapeKept`, `SaveReloaded` and `ReleaseKept`, for any
lists of directories, sizes and games that satisfy `SaveAssumption` and
`GamesAssumption`. The last three are action properties and follow from `IInv`,
which adds to `TypeOK` that nothing is open between two runs, that an open save has
a size and a file, that a released mouse is not SDL's, and `FoundAgain`: while no
directory changes, a search now would come upon the save opened last. `Reloads` is
not provable step by step without it, since it relates one run to the next.
`FoundAgain` is kept because the callbacks change lengths but never whether a save
is there (`SaveCallFinds`), and because a save that is made is made at the last
index that can be written, which is then also the last that can be both read and
written (`LastOfPart`, `OpenFinds`).

Only model-checked: liveness (out of the prover's reach, like `ENABLED`): that a
drained ring is filled and enabled audio starts, that a quit ends the program and
that a program which keeps to the limits is loaded or refused; what the runs that end in a violation are about; and `Loader`
with `Expressions` and `Expansion`, which are recursive definitions over data and
use the bitwise operators: what such a definition computes for every input is not
provable with the installed provers.

## 5. Not modelled

- `codegen` and `codeverify` of the loader beyond what they test: what they accept is
  the part `Checked` of `VMExec`'s assumption `WellFormed`. `binclude`, labels, and
  the failures of `symbols_scan`.
- Variables of type CHAR, products, quotients and shifts in `VMExec`,
  `crustyvm_debugtrace`, and `write_lines`, which print.
- The values of samples, volumes and colours; rotation and blending of layers; text
  and formats of files.
- The callbacks that only hand arguments on, and those that read an event.
  `event_get_x` and `event_get_y` read the coordinates of some events through
  the wrong pointer (`callbacks.c:815`-886), which is not about state.
- `net.c` and `x509.c`: not linked into the game. `bmpconvert.c`, `paramgen.py`, the
  examples and the tests with the vendored Unity: tools and scripts that are not
  part of the program.
- SDL, OpenSSL and the C library: external, modelled by how the code uses them.

## 6. Plan

What would come next, most important first:

1. `codegen`: that the instructions it makes of lines are `Checked`, the last part of
   `ProgramsVerified`; CHAR variables and the rest of the arithmetic.
2. An abstract list of counted resources that `Tilemap` and `SynthPlayers` both
   implement; a player's output position against the ring's write cursor.
