---------------------------- MODULE SynthPlayers ----------------------------
(***************************************************************************)
(* The sample buffers and the players of src/synth.c, as a script uses     *)
(* them: two tables that double when they are full, reference counts from  *)
(* players to buffers, and the loops of synth_run_player that move a       *)
(* player's positions through its buffers.                                 *)
(*                                                                         *)
(* Positions and speeds are floats in the code.  Here a sample is Grain    *)
(* units long and positions and speeds are whole numbers of units, which   *)
(* a float of this size holds exactly.  The values of the samples, volumes *)
(* and the choice of replacing or adding are left out, except that what a  *)
(* speed buffer holds is an arbitrary member of Modulations.               *)
(*                                                                         *)
(* A call that returns -1 makes its callback fail, and the script is ended *)
(* ("failed").  A call whose behaviour C leaves undefined ends the model:  *)
(* "strayed" has read a table behind its end, "overrun" a sample buffer.   *)
(***************************************************************************)
EXTENDS Integers, FiniteSets

CONSTANTS
  Channels,     \* channels of the device: buffer numbers below it are these
  Sizes,        \* the sizes of the buffers a script adds
  MaxBuffers,   \* bound: the slots the table of buffers may have
  MaxPlayers,   \* bound: the slots the table of players may have
  MaxRefs,      \* bound: the references a buffer may have when a player is added
  Grain,        \* units in a sample
  Speeds,       \* the speeds a script sets, in units a sample
  Modulations,  \* what a sample of a speed buffer may multiply the speed by
  Positions,    \* the positions a script sets, in units
  Requests,     \* the numbers of samples a script asks a player for
  Needs,        \* what synth_get_samples_needed may answer
  Scripts       \* the scripts: the calls they make, the buffers and
                \* players they have at most

Roles   == {"in", "out", "vol", "phase", "speed"}
Sources == Roles \ {"out"}

Calls ==
  Roles \cup {"free", "at", "mode", "volmode", "speedmode", "loop", "rate", "run"}

ASSUME ConstantsAssumption ==
  /\ Channels \in Nat \ {0}
  /\ Sizes \subseteq Nat
  /\ MaxBuffers \in Nat \ {0}
  /\ MaxPlayers \in Nat \ {0}
  /\ MaxRefs \in Nat
  /\ Grain \in Nat \ {0}
  /\ Speeds \subseteq Int
  /\ Modulations \subseteq Int /\ Modulations # {}
  /\ Positions \subseteq Int
  /\ Requests \subseteq Nat
  /\ Needs \subseteq Nat
  /\ Scripts \subseteq [calls : SUBSET Calls, buffers : Nat, players : Nat]

VARIABLES
  buffer,  \* s->buffer: the slots 0 .. buffersmem - 1
  player,  \* s->player: the slots 0 .. playersmem - 1
  script,  \* the script that runs
  status,  \* "running", "failed", "strayed" or "overrun"
  (* history *)
  handed,  \* how many players were handed to the script and not freed by it
  first    \* a player has had the first buffer as its input

vars == <<buffer, player, script, status, handed, first>>

Modes       == {"once", "loop", "pingpong", "phase"}
Modulators  == {"constant", "source"}
Buffers     == [size : Nat, ref : Int]
Players     ==
  [use : [Roles -> Int], at : [Roles -> Int], mode : Modes,
   volMode : Modulators, speedMode : Modulators, speed : Int,
   loopStart : Nat, loopEnd : Nat]

-----------------------------------------------------------------------------
(* The tables. *)

Slots(table) == Cardinality(DOMAIN table)

\* Not in the code: the doubled table gets a slot too many.
FaultyPlaced(table, free, item, empty) ==
  IF free # {}
    THEN [table EXCEPT ![CHOOSE i \in free : \A j \in free : i <= j] = item]
    ELSE LET n == Slots(table)
         IN  [i \in 0 .. 2 * n |->
               IF i < n THEN table[i] ELSE IF i = n THEN item ELSE empty]

\* A table in which item has taken the first of the free slots, or the
\* first of the new slots when the table had to be doubled.
Placed(table, free, item, empty) ==
  IF free # {}
    THEN [table EXCEPT ![CHOOSE i \in free : \A j \in free : i <= j] = item]
    ELSE LET n == Slots(table)
         IN  [i \in 0 .. (IF n = 0 THEN 0 ELSE 2 * n - 1) |->
               IF i < n THEN table[i] ELSE IF i = n THEN item ELSE empty]

Empty == [size |-> 0, ref |-> 0]

Used(b) == b \in DOMAIN buffer /\ buffer[b].size # 0
Live(i) == i \in DOMAIN player /\ player[i].use["in"] # 0

FreeBuffers == {b \in DOMAIN buffer : ~Used(b)}
FreePlayers == {i \in DOMAIN player : ~Live(i)}

\* The buffer a player uses in a role; below 0 for a channel of the device.
BufferOf(p, r) == IF r = "out" THEN p.use[r] - Channels ELSE p.use[r]

One(condition) == IF condition THEN 1 ELSE 0

Running      == status = "running"
Making(call) == Running /\ call \in script.calls

NoSlots == [i \in {} |-> Empty]

\* The script is over, and synth_free frees both tables.
Stop(how) ==
  /\ status' = how
  /\ buffer' = NoSlots /\ player' = NoSlots /\ handed' = 0 /\ first' = FALSE
  /\ UNCHANGED script

-----------------------------------------------------------------------------
(* Buffers. *)

\* synth_add_buffer with all its allocations granted.
AddBuffer(size) ==
  /\ Running
  /\ size >= 2
  /\ Cardinality({b \in DOMAIN buffer : Used(b)}) < script.buffers
  /\ FreeBuffers = {} => 2 * Slots(buffer) <= MaxBuffers
  /\ buffer' = Placed(buffer, FreeBuffers, [size |-> size, ref |-> 0], Empty)
  /\ UNCHANGED <<player, script, status, handed, first>>

FreeBuffer(b) ==
  /\ Making("free")
  /\ Used(b)
  /\ buffer[b].ref = 0
  /\ buffer' = [buffer EXCEPT ![b].size = 0]
  /\ UNCHANGED <<player, script, status, handed, first>>

-----------------------------------------------------------------------------
(* Players. *)

NewPlayer(b) ==
  [use |-> [r \in Roles |-> IF r = "out" THEN 0 ELSE b],
   at |-> [r \in Roles |-> 0],
   mode |-> "once", volMode |-> "constant",
   speedMode |-> "constant", speed |-> Grain,
   loopStart |-> 0, loopEnd |-> IF Used(b) THEN buffer[b].size - 1 ELSE 0]

\* A free slot: the rest of it is not read before it is written.
NoPlayer ==
  [use |-> [r \in Roles |-> 0], at |-> [r \in Roles |-> 0],
   mode |-> "once", volMode |-> "constant",
   speedMode |-> "constant", speed |-> 0, loopStart |-> 0, loopEnd |-> 0]

\* A slot is taken for free when its input is buffer 0, which is also the
\* number of the first buffer.
AddPlayer(b) ==
  /\ Running
  /\ Used(b)
  /\ handed < script.players
  /\ buffer[b].ref <= MaxRefs
  /\ FreePlayers = {} => 2 * Slots(player) <= MaxPlayers
  /\ player' = Placed(player, FreePlayers, NewPlayer(b), NoPlayer)
  /\ buffer' = [buffer EXCEPT ![b].ref = @ + Cardinality(Sources)]
  /\ handed' = handed + 1
  /\ first' = (first \/ b = 0)
  /\ UNCHANGED <<script, status>>

\* Not in the code: the reference of the output is forgotten.
FaultyFreePlayer(i) ==
  /\ Making("free")
  /\ Live(i)
  /\ buffer' = [b \in DOMAIN buffer |->
                 [buffer[b] EXCEPT !.ref =
                   @ - Cardinality({r \in Sources : BufferOf(player[i], r) = b})]]
  /\ player' = [player EXCEPT ![i] = NoPlayer]
  /\ handed' = handed - 1
  /\ UNCHANGED <<script, status, first>>

FreePlayer(i) ==
  /\ Making("free")
  /\ Live(i)
  /\ buffer' = [b \in DOMAIN buffer |->
                 [buffer[b] EXCEPT !.ref =
                   @ - Cardinality({r \in Roles : BufferOf(player[i], r) = b})]]
  /\ player' = [player EXCEPT ![i] = NoPlayer]
  /\ handed' = handed - 1
  /\ UNCHANGED <<script, status, first>>

\* Not in the code: the position in the old buffer is kept in the new one.
FaultyRewire(i, r, number) ==
  /\ Making(r)
  /\ Live(i)
  /\ LET old == player[i]
         new == [old EXCEPT !.use[r] = number]
     IN  /\ player' = [player EXCEPT ![i] = new]
         /\ buffer' = [b \in DOMAIN buffer |->
                        [buffer[b] EXCEPT !.ref =
                          @ - One(BufferOf(old, r) = b)
                            + One(BufferOf(new, r) = b)]]
  /\ first' = (first \/ (r = "in" /\ number = 0))
  /\ UNCHANGED <<script, status, handed>>

\* A player's buffer for a role is exchanged: the reference moves from the
\* old one to the new one and the position in it starts again.
Rewire(i, r, number) ==
  /\ Making(r)
  /\ Live(i)
  /\ LET old == player[i]
         new == [old EXCEPT !.use[r] = number, !.at[r] = 0]
     IN  /\ player' = [player EXCEPT ![i] = new]
         /\ buffer' = [b \in DOMAIN buffer |->
                        [buffer[b] EXCEPT !.ref =
                          @ - One(BufferOf(old, r) = b)
                            + One(BufferOf(new, r) = b)]]
  /\ first' = (first \/ (r = "in" /\ number = 0))
  /\ UNCHANGED <<script, status, handed>>

SetInputBuffer(i, b)  == Used(b) /\ Rewire(i, "in", b)
SetVolumeSource(i, b) == Used(b) /\ Rewire(i, "vol", b)
SetPhaseSource(i, b)  == Used(b) /\ Rewire(i, "phase", b)
SetSpeedSource(i, b)  == Used(b) /\ Rewire(i, "speed", b)
SetOutputBuffer(i, number) ==
  /\ number < Channels \/ Used(number - Channels)
  /\ Rewire(i, "out", number)

-----------------------------------------------------------------------------
(* A player's other settings.  None is compared with the positions, and    *)
(* the positions are not compared with the buffers they are in.            *)

Set(call, i, new) ==
  /\ Making(call)
  /\ Live(i)
  /\ player' = [player EXCEPT ![i] = new]
  /\ UNCHANGED <<buffer, script, status, handed, first>>

SetInputPos(i, x)    == Set("at", i, [player[i] EXCEPT !.at["in"] = x])
SetOutputPos(i, x)   == Set("at", i, [player[i] EXCEPT !.at["out"] = x])
SetMode(i, m)        == Set("mode", i, [player[i] EXCEPT !.mode = m])
SetVolumeMode(i, m)  == Set("volmode", i, [player[i] EXCEPT !.volMode = m])
SetSpeedMode(i, m)   == Set("speedmode", i, [player[i] EXCEPT !.speedMode = m])
SetSpeed(i, v)       == Set("rate", i, [player[i] EXCEPT !.speed = v])

SetLoopStart(i, x) ==
  /\ x < buffer[player[i].use["in"]].size
  /\ x < player[i].loopEnd
  /\ Set("loop", i, [player[i] EXCEPT !.loopStart = x])

\* Not in the code: the end of the loop may be the size of the buffer.
FaultySetLoopEnd(i, x) ==
  /\ x <= buffer[player[i].use["in"]].size
  /\ x > player[i].loopStart
  /\ Set("loop", i, [player[i] EXCEPT !.loopEnd = x])

SetLoopEnd(i, x) ==
  /\ x < buffer[player[i].use["in"]].size
  /\ x > player[i].loopStart
  /\ Set("loop", i, [player[i] EXCEPT !.loopEnd = x])

-----------------------------------------------------------------------------
(* synth_run_player. *)

Magnitude(x) == IF x < 0 THEN -x ELSE x
Less(x, y)   == IF x < y THEN x ELSE y

\* The conversion of a float to an int, and fmodf: both go towards zero.
Truncated(x)    == IF x >= 0 THEN x \div Grain ELSE -((-x) \div Grain)
Remainder(x, y) == IF x >= 0 THEN x % y ELSE -((-x) % y)

SizeOf(p, r) == buffer[p.use[r]].size
Span(p)      == SizeOf(p, "in") * Grain
Start(p)     == p.loopStart * Grain
End(p)       == p.loopEnd * Grain

\* os: what the device needs now, or the buffer's size.
OutSize(p, need) ==
  IF p.use["out"] < Channels THEN need ELSE buffer[BufferOf(p, "out")].size

\* Not in the code: the sample at the position is counted twice.
FaultyRoom(p, req, os) ==
  IF p.at["out"] > os THEN req ELSE Less(req, os - p.at["out"] + 1)

\* MIN(reqSamples, os - outPos): the difference is unsigned, and from behind
\* the end it is larger than every request.
Room(p, req, os) ==
  IF p.at["out"] > os THEN req ELSE Less(req, os - p.at["out"])

\* (size - inPos) / speed, the samples left in the input of a player that
\* plays once at constant speed.  Zero and infinity follow IEEE 754; a
\* number at or below -1, or none, has no conversion to unsigned.
Left(p) == Span(p) - p.at["in"]

Convertible(p) ==
  IF p.speed = 0 THEN Left(p) > 0
  ELSE IF p.speed > 0 THEN Left(p) > -p.speed ELSE Left(p) < -p.speed

Quota(p, todo) ==
  IF p.speed = 0 THEN todo
  ELSE IF (Left(p) >= 0) = (p.speed > 0)
         THEN Less(todo, Magnitude(Left(p)) \div Magnitude(p.speed))
         ELSE 0

\* How a mode moves the position in the input by one sample's step d.
StepOnce(p, d) == [p EXCEPT !.at["in"] = @ + d]

StepLoop(p, d) ==
  LET last  == p.at["in"]
      moved == Remainder(last + d, Span(p))
      len   == End(p) - Start(p)
  IN  [p EXCEPT !.at["in"] =
        IF last <= End(p) /\ moved > End(p) THEN moved - len
        ELSE IF last >= Start(p) /\ moved < Start(p) THEN moved + len
        ELSE moved]

\* The same jumps, and each of them turns the direction.
StepPingPong(p, d) ==
  LET last   == p.at["in"]
      moved  == Remainder(last + d, Span(p))
      passes == \/ last <= End(p) /\ moved > End(p)
                \/ last >= Start(p) /\ moved < Start(p)
  IN  [StepLoop(p, d) EXCEPT !.speed = IF passes THEN -@ ELSE @]

StepPhase(p) == [p EXCEPT !.at["phase"] = (@ + 1) % SizeOf(p, "phase")]

\* The step d of the next sample, with a speed source that holds m.
Stride(p, m) == IF p.speedMode = "source" THEN p.speed * m ELSE p.speed

\* Playing once at the speed of a source ends where the input does.
EndsAt(p) ==
  p.mode = "once" /\ p.speedMode = "source" /\ p.at["in"] >= Span(p)

\* The positions in the sources of volume and speed go round.
StepSources(p) ==
  [p EXCEPT
    !.at["vol"] = IF p.volMode = "source" THEN (@ + 1) % SizeOf(p, "vol") ELSE @,
    !.at["speed"] =
      IF p.mode # "phase" /\ p.speedMode = "source"
        THEN (@ + 1) % SizeOf(p, "speed") ELSE @]

StepInput(p, m) ==
  CASE p.mode = "once"     -> StepOnce(p, Stride(p, m))
    [] p.mode = "loop"     -> StepLoop(p, Stride(p, m))
    [] p.mode = "pingpong" -> StepPingPong(p, Stride(p, m))
    [] p.mode = "phase"    -> StepPhase(p)

\* One turn of a loop of synth_run_player: a sample is read, its position
\* counted, and the positions are moved.
Sample(run, m, os) ==
  LET p    == run.p
      read == Truncated(p.at["in"])
      next == StepInput([p EXCEPT !.at["out"] = @ + 1], m)
      outside == \/ p.at["out"] >= os
                 \/ p.mode # "phase" /\ read \notin 0 .. (SizeOf(p, "in") - 1)
  IN  IF run.ended THEN run
      ELSE IF outside THEN [run EXCEPT !.over = TRUE, !.ended = TRUE]
      ELSE IF EndsAt(next) THEN [run EXCEPT !.p = next, !.ended = TRUE]
      ELSE [run EXCEPT !.p = StepSources(next)]

\* The player after todo turns with the modulations m.
Played(p, todo, m, os) ==
  LET turn[k \in 0 .. todo] ==
        IF k = 0 THEN [p |-> p, over |-> FALSE, ended |-> FALSE]
                 ELSE Sample(turn[k - 1], m[k], os)
  IN  turn[todo]

OnceConstant(p) == p.mode = "once" /\ p.speedMode = "constant"

\* The sequences of modulations that matter: a constant speed has none.
Modulated(p, todo) ==
  IF p.speedMode = "source" /\ p.mode # "phase"
    THEN [1 .. todo -> Modulations] ELSE {[k \in 1 .. todo |-> 1]}

RunPlayer(i, req, need) ==
  LET p    == player[i]
      os   == OutSize(p, need)
      room == Room(p, req, os)
      todo == IF OnceConstant(p) THEN Quota(p, room) ELSE room
      idle == p.use["out"] < Channels /\ p.at["out"] >= os
  IN  /\ Making("run")
      /\ Live(i)
      /\ IF idle THEN UNCHANGED vars
         ELSE IF OnceConstant(p) /\ ~Convertible(p) THEN Stop("overrun")
         ELSE \E m \in Modulated(p, todo) :
                LET run == Played(p, todo, m, os)
                IN  IF run.over THEN Stop("overrun")
                    ELSE /\ player' = [player EXCEPT ![i] = run.p]
                         /\ UNCHANGED <<buffer, script, status, handed, first>>

-----------------------------------------------------------------------------
\* An early return with -1, here for a number behind a table; for the number
\* of a free slot, a buffer in use, a value out of range or an allocation
\* that fails it is the same.  The number one behind the table passes the
\* test, and the slot then read is not the table's.
Refuse(table, number) ==
  /\ Running
  /\ number \notin DOMAIN table
  /\ Stop("failed") \/ (number = Slots(table) /\ Stop("strayed"))

Init ==
  /\ buffer = NoSlots
  /\ player = NoSlots
  /\ script \in Scripts
  /\ status = "running"
  /\ handed = 0
  /\ first = FALSE

Tune(i) ==
  \/ \E x \in Positions : SetInputPos(i, x) \/ (x >= 0 /\ SetOutputPos(i, x))
  \/ \E m \in Modes : SetMode(i, m)
  \/ \E m \in Modulators : SetVolumeMode(i, m) \/ SetSpeedMode(i, m)
  \/ \E v \in Speeds : SetSpeed(i, v)
  \/ \E x \in 0 .. SizeOf(player[i], "in") : SetLoopStart(i, x) \/ SetLoopEnd(i, x)
  \/ \E req \in Requests, need \in Needs : RunPlayer(i, req, need)

Exchange(i) ==
  \/ \E b \in DOMAIN buffer :
       \/ SetInputBuffer(i, b) \/ SetVolumeSource(i, b)
       \/ SetPhaseSource(i, b) \/ SetSpeedSource(i, b)
  \/ \E number \in 0 .. (Channels + MaxBuffers - 1) : SetOutputBuffer(i, number)

Next ==
  \/ \E size \in Sizes : AddBuffer(size)
  \/ \E b \in DOMAIN buffer : FreeBuffer(b) \/ AddPlayer(b)
  \/ \E i \in DOMAIN player : Live(i) /\ (FreePlayer(i) \/ Tune(i) \/ Exchange(i))
  \/ \E number \in 0 .. (MaxBuffers + 1) : Refuse(buffer, number)
  \/ \E number \in 0 .. (MaxPlayers + 1) : Refuse(player, number)

Spec == Init /\ [][Next]_vars

-----------------------------------------------------------------------------
TypeOK ==
  /\ Slots(buffer) <= MaxBuffers /\ Slots(player) <= MaxPlayers
  /\ buffer \in [0 .. (Slots(buffer) - 1) -> Buffers]
  /\ player \in [0 .. (Slots(player) - 1) -> Players]
  /\ script \in Scripts
  /\ status \in {"running", "failed", "strayed", "overrun"}
  /\ handed \in Int
  /\ first \in BOOLEAN

\* The uses of buffer b by players that are not free.
Uses(b) ==
  {u \in (DOMAIN player) \X Roles : Live(u[1]) /\ BufferOf(player[u[1]], u[2]) = b}

\* Every buffer counts at least the uses players make of it, so that it is
\* not freed under one, and exactly those as long as the first buffer has
\* not been an input: synth_add_player then takes the slot of a player that
\* is in use, and what that player held is never given back.
RefsCover ==
  \A b \in DOMAIN buffer :
    /\ buffer[b].ref >= Cardinality(Uses(b))
    /\ ~first => buffer[b].ref = Cardinality(Uses(b))

\* Whatever a player is wired to is there, and its positions in its sources
\* are within them, though the sources may be exchanged, freed and their
\* slots reused for smaller buffers: synth_run_player looks at neither.
SourcesReadable ==
  \A i \in DOMAIN player : Live(i) =>
    /\ \A r \in Roles : BufferOf(player[i], r) >= 0 => Used(BufferOf(player[i], r))
    /\ \A r \in {"vol", "phase", "speed"} :
         player[i].at[r] \in 0 .. (SizeOf(player[i], r) - 1)

LoopFits(i) ==
  /\ player[i].loopStart < player[i].loopEnd
  /\ player[i].loopEnd < SizeOf(player[i], "in")

\* A loop leaves its buffer only when synth_set_player_input_buffer puts a
\* smaller one under it, which is the one call that does not look at it.
OnlyExchangeUnfits ==
  [][\A i \in DOMAIN player :
       /\ Live(i) /\ LoopFits(i) /\ Live(i)'
       /\ player'[i].use["in"] = player[i].use["in"]
       => LoopFits(i)']_vars

\* The player is in its loop and its steps cannot jump over what is behind
\* the loop, nor, when it turns, over the loop itself.
InLoop(p) ==
  LET steps == {Magnitude(Stride(p, m)) : m \in Modulations}
  IN  /\ Start(p) <= p.at["in"] /\ p.at["in"] <= End(p)
      /\ \A d \in steps : d <= End(p) - Start(p) /\ End(p) + d < Span(p)

\* Positions and settings from which running a player is meant to be safe.
Safe(i) ==
  LET p == player[i]
  IN  /\ Live(i) /\ LoopFits(i)
      /\ p.use["out"] < Channels \/ p.at["out"] <= OutSize(p, 0)
      /\ CASE p.mode = "once" ->
                /\ p.speedMode = "constant" /\ p.speed > 0
                /\ p.at["in"] \in 0 .. Span(p)
           [] p.mode = "loop" ->
                \/ InLoop(p)
                \/ /\ p.at["in"] \in 0 .. (Span(p) - 1)
                   /\ \A m \in Modulations : Stride(p, m) >= 0
           [] p.mode = "pingpong" -> InLoop(p)
           [] p.mode = "phase" -> TRUE

\* Running such a player reads and writes its buffers only inside them and
\* leaves it such a player, however often it is run: a loop does not drift
\* out of its buffer, and at the end of the input the count of samples that
\* are left neither underflows nor loses its conversion.
RunsStayInside ==
  [][\A i \in DOMAIN player :
       Safe(i) /\ (\E req \in Requests, need \in Needs : RunPlayer(i, req, need))
         => Safe(i)' /\ status' = "running"]_vars
=============================================================================
