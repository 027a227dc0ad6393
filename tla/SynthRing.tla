----------------------------- MODULE SynthRing -----------------------------
(***************************************************************************)
(* The output ring buffer of src/synth.c and the two threads that share    *)
(* it: the main thread, which runs synth_frame and the setters, and the    *)
(* audio thread of SDL, which runs synth_audio_cb while it holds the lock  *)
(* of the audio device.                                                    *)
(*                                                                         *)
(* A slot of the ring is one sample frame (one sample of every channel).   *)
(* It is "fresh" from the moment synth_frame accounts for it until the     *)
(* callback has copied it to the device and reset it to silence ("used").  *)
(* Cursors and the fill count are C unsigned ints: a negative value of the *)
(* model is a wrapped one, and Unsigned is what a comparison sees of it.   *)
(***************************************************************************)
EXTENDS Integers

CONSTANTS
  Channels,      \* channels of the device obtained by synth_new
  FragmentSize,  \* s->fragmentsize, sample frames of one device fragment
  MaxFragments,  \* bound: the largest fragment count the program asks for
  Lengths,       \* what a device may ask for in each request, in sample frames
  Wrap,          \* 2^32 in the code: the modulus of an unsigned int
  ReEnable,      \* the program may enable audio that is already running
  Reentrant      \* the frame callback's script may call the audio setters

ASSUME ConstantsAssumption ==
  /\ Channels \in Nat \ {0}
  /\ FragmentSize \in Nat \ {0}
  /\ MaxFragments \in Nat \ {0}
  /\ Lengths \subseteq Nat \ {0} /\ Lengths # {}
  /\ Wrap \in Nat \ {0}
  /\ ReEnable \in BOOLEAN
  /\ Reentrant \in BOOLEAN

VARIABLES
  (* fields of Synth *)
  readcursor, writecursor, bufferfilled, buffersize, fragments,
  channelbuffer, \* the pointer: "null", "live", or "dangling" (freed)
  slot,          \* contents of the channel buffers
  underrun, state,
  (* the SDL audio device *)
  paused, holder,
  (* the main thread: program counter and the locals of synth_frame *)
  mpc, seen, needed,
  (* the audio thread: program counter and the locals of synth_audio_cb *)
  apc, available, todo, length,
  (* what the opened device asks for, the same in every request *)
  request,
  (* history: what a copy or a fill did to the ring that it must not *)
  faults

ring  == <<readcursor, writecursor, bufferfilled>>
conf  == <<buffersize, fragments, channelbuffer>>
dev   == <<paused, holder>>
mloc  == <<mpc, seen, needed>>
aloc  == <<apc, available, todo, length, request>>
vars  == <<ring, conf, slot, underrun, state, dev, mloc, aloc, faults>>

Index == 0 .. (FragmentSize * MaxFragments - 1)

Smaller(a, b) == IF a < b THEN a ELSE b

(* The value an unsigned int holds after one wrap below zero. *)
Unsigned(x) == IF x < 0 THEN x + Wrap ELSE x

-----------------------------------------------------------------------------
(* synth_get_samples_needed and get_samples_available: the contiguous run  *)
(* of slots that may be written, or read, from a cursor on.                *)

(* Faulty variants, here and below, are what PROJECT.json's mutants put in *)
(* the place of the definition that follows them.                          *)
FaultyNeededWhenFull(r, w, filled, size) ==     \* no test for a full ring
  IF w < r THEN r - w ELSE Unsigned(size - w)
FaultyNeededWhenEmpty(r, w, filled, size) ==    \* an empty ring taken for full
  IF r = w THEN 0 ELSE IF w < r THEN r - w ELSE Unsigned(size - w)

SamplesNeeded(r, w, filled, size) ==
  IF r = w
    THEN IF filled = size THEN 0 ELSE Unsigned(size - w)
    ELSE IF w < r THEN r - w ELSE Unsigned(size - w)

FaultyAvailable(r, w, filled, size) ==          \* a full ring taken for empty
  IF r = w THEN 0 ELSE IF r < w THEN w - r ELSE Unsigned(size - r)

SamplesAvailable(r, w, filled, size) ==
  IF r = w
    THEN IF filled = size THEN size ELSE 0
    ELSE IF r < w THEN w - r ELSE Unsigned(size - r)

AvailableNow == SamplesAvailable(readcursor, writecursor, bufferfilled, buffersize)
NeededNow    == SamplesNeeded(readcursor, writecursor, bufferfilled, buffersize)

(* The cursor arithmetic of update_samples_needed and _available. *)
Advanced(cursor, n) == IF cursor + n = buffersize THEN 0 ELSE cursor + n

-----------------------------------------------------------------------------
Init ==
  /\ readcursor = 0 /\ writecursor = 0 /\ bufferfilled = 0
  /\ buffersize = 0 /\ fragments = 0 /\ channelbuffer = "null"
  /\ slot = [i \in Index |-> "used"]
  /\ underrun = 0
  /\ state = "STOPPED"
  /\ paused = 1 /\ holder = "none"
  /\ mpc = "idle" /\ seen = 0 /\ needed = 0
  /\ apc = "idle" /\ available = 0 /\ todo = 0 /\ length = 0
  /\ request \in Lengths
  /\ faults = {}

-----------------------------------------------------------------------------
(* Setters, called by the program between two frames or, where Reentrant,  *)
(* by the script the frame callback runs.                                  *)

InFrameCallback == mpc \in {"rst_cb", "cb1", "cb2"}
MayCall == mpc = "idle" \/ (Reentrant /\ InFrameCallback)

(* synth_set_enabled(s, 0): pausing the device waits for its lock, which   *)
(* is recursive.                                                           *)
FaultyDisable ==                                \* the device is not paused
  /\ MayCall
  /\ state' = "STOPPED"
  /\ UNCHANGED <<ring, conf, slot, underrun, dev, mloc, aloc, faults>>

Disable ==
  /\ MayCall
  /\ holder # "audio"
  /\ paused' = 1
  /\ state' = "STOPPED"
  /\ UNCHANGED <<ring, conf, slot, underrun, holder, mloc, aloc, faults>>

(* synth_set_enabled(s, 1): only a signal; synth_frame does the start. *)
Enable ==
  /\ MayCall
  /\ ReEnable \/ state = "STOPPED"
  /\ channelbuffer # "null"
  /\ state' = "ENABLED"
  /\ UNCHANGED <<ring, conf, slot, underrun, dev, mloc, aloc, faults>>

(* Using or freeing again what a failed allocation freed. *)
Dangling == IF channelbuffer = "dangling" THEN {"use_after_free"} ELSE {}

(* synth_set_fragments(s, n), all of its allocations succeeding. *)
SetFragments(n) ==
  /\ MayCall
  /\ state = "STOPPED"
  /\ ~(channelbuffer # "null" /\ fragments = n)
  /\ channelbuffer' = "live"
  /\ fragments' = n
  /\ buffersize' = FragmentSize * n
  /\ slot' = [i \in Index |-> "used"]
  /\ faults' = faults \cup Dangling
  /\ UNCHANGED <<ring, underrun, state, dev, mloc, aloc>>

(* The same with the allocation of the array of channels failing. *)
SetFragmentsNoArray(n) ==
  /\ MayCall
  /\ state = "STOPPED"
  /\ ~(channelbuffer # "null" /\ fragments = n)
  /\ channelbuffer' = "null"
  /\ faults' = faults \cup Dangling
  /\ UNCHANGED <<ring, buffersize, fragments, slot, underrun, state, dev, mloc, aloc>>

(* The same with the allocation of one channel's memory failing: the       *)
(* array is freed and the pointer to it stays.                             *)
SetFragmentsNoMemory(n) ==
  /\ MayCall
  /\ state = "STOPPED"
  /\ ~(channelbuffer # "null" /\ fragments = n)
  /\ channelbuffer' = "dangling"
  /\ fragments' = 0
  /\ buffersize' = FragmentSize * n
  /\ faults' = faults \cup Dangling
  /\ UNCHANGED <<ring, slot, underrun, state, dev, mloc, aloc>>

(* synth_has_underrun: the flag is read and cleared without the lock. *)
HasUnderrun ==
  /\ MayCall
  /\ underrun = 1
  /\ underrun' = 0
  /\ UNCHANGED <<ring, conf, slot, state, dev, mloc, aloc, faults>>

-----------------------------------------------------------------------------
(* synth_frame in state ENABLED: reset, fill the whole buffer, start.      *)
(* Nothing is locked; each store is a step.                                *)

ResetStart ==
  /\ mpc = "idle" /\ state = "ENABLED"
  /\ bufferfilled' = 0
  /\ mpc' = "rst_read"
  /\ UNCHANGED <<readcursor, writecursor, conf, slot, underrun, state, dev,
                 seen, needed, aloc, faults>>

ResetRead ==
  /\ mpc = "rst_read"
  /\ readcursor' = 0
  /\ mpc' = "rst_write"
  /\ UNCHANGED <<writecursor, bufferfilled, conf, slot, underrun, state, dev,
                 seen, needed, aloc, faults>>

ResetWrite ==
  /\ mpc = "rst_write"
  /\ writecursor' = 0
  /\ underrun' = 0
  /\ mpc' = "rst_cb"
  /\ UNCHANGED <<readcursor, bufferfilled, conf, slot, state, dev,
                 seen, needed, aloc, faults>>

(* The frame callback filled the buffer; the write cursor is advanced. *)
ResetFill ==
  /\ mpc = "rst_cb"
  /\ slot' = [i \in Index |-> IF i < buffersize THEN "fresh" ELSE slot[i]]
  /\ writecursor' = Advanced(writecursor, buffersize)
  /\ mpc' = "rst_count"
  /\ UNCHANGED <<readcursor, bufferfilled, conf, underrun, state, dev,
                 seen, needed, aloc, faults>>

FaultyRun ==                                    \* the state is not moved on
  /\ mpc = "rst_count"
  /\ holder # "audio"
  /\ bufferfilled' = bufferfilled + buffersize
  /\ paused' = 0
  /\ mpc' = "idle"
  /\ UNCHANGED <<readcursor, writecursor, conf, slot, underrun, state, holder,
                 seen, needed, aloc, faults>>

ResetRun ==
  /\ mpc = "rst_count"
  /\ holder # "audio"
  /\ bufferfilled' = bufferfilled + buffersize
  /\ state' = "RUNNING"
  /\ paused' = 0
  /\ mpc' = "idle"
  /\ UNCHANGED <<readcursor, writecursor, conf, slot, underrun, holder,
                 seen, needed, aloc, faults>>

-----------------------------------------------------------------------------
(* synth_frame in state RUNNING.                                           *)

(* The first, unlocked synth_get_samples_needed loads the cursors ... *)
FramePeek ==
  /\ mpc = "idle" /\ state = "RUNNING"
  /\ seen' = readcursor
  /\ mpc' = "peek"
  /\ UNCHANGED <<ring, conf, slot, underrun, state, dev, needed, aloc, faults>>

(* ... and then the fill count, when the callback may have run in between. *)
FrameJudge ==
  /\ mpc = "peek"
  /\ mpc' = IF SamplesNeeded(seen, writecursor, bufferfilled, buffersize) > 0
              THEN "lock" ELSE "idle"
  /\ UNCHANGED <<ring, conf, slot, underrun, state, dev, seen, needed, aloc, faults>>

(* Lock, and ask again. *)
FrameLock ==
  /\ mpc = "lock"
  /\ holder = "none"
  /\ holder' = "main"
  /\ needed' = NeededNow
  /\ mpc' = "cb1"
  /\ UNCHANGED <<ring, conf, slot, underrun, state, paused, seen, aloc, faults>>

(* The frame callback wrote needed frames from the write cursor on, and    *)
(* update_samples_needed accounts for them.                                *)
Filled(n) == writecursor .. (writecursor + n - 1)

FillAndUpdate ==
  /\ slot' = [i \in Index |-> IF i \in Filled(needed) THEN "fresh" ELSE slot[i]]
  /\ faults' = faults
       \cup (IF \E i \in Filled(needed) \cap Index : slot[i] = "fresh"
               THEN {"overwrite"} ELSE {})
       \cup (IF writecursor + needed > buffersize THEN {"out_of_bounds"} ELSE {})
  /\ writecursor' = Advanced(writecursor, needed)
  /\ bufferfilled' = bufferfilled + needed

FaultyFill1 ==                                  \* no second fill
  /\ mpc = "cb1"
  /\ FillAndUpdate
  /\ mpc' = "unlock"
  /\ UNCHANGED <<readcursor, conf, underrun, state, dev, seen, needed, aloc>>

FrameFill1 ==
  /\ mpc = "cb1"
  /\ FillAndUpdate
  /\ needed' = SamplesNeeded(readcursor, writecursor', bufferfilled', buffersize)
  /\ mpc' = IF needed' > 0 THEN "cb2" ELSE "unlock"
  /\ UNCHANGED <<readcursor, conf, underrun, state, dev, seen, aloc>>

FrameFill2 ==
  /\ mpc = "cb2"
  /\ FillAndUpdate
  /\ mpc' = "unlock"
  /\ UNCHANGED <<readcursor, conf, underrun, state, dev, seen, needed, aloc>>

FrameUnlock ==
  /\ mpc = "unlock"
  /\ holder' = "none"
  /\ mpc' = "idle"
  /\ UNCHANGED <<ring, conf, slot, underrun, state, paused, seen, needed, aloc, faults>>

(* The frame callback fails: synth_frame returns at once, with the lock    *)
(* still held in the RUNNING case, and the program ends.                   *)
FrameFail ==
  /\ InFrameCallback
  /\ mpc' = "failed"
  /\ UNCHANGED <<ring, conf, slot, underrun, state, dev, seen, needed, aloc, faults>>

(* synth_free: lock, close the device (no callback runs any more), free.   *)
Free ==
  /\ mpc \in {"idle", "failed"}
  /\ holder # "audio"
  /\ holder' = "main"
  /\ mpc' = "freed"
  /\ UNCHANGED <<ring, conf, slot, underrun, state, paused, seen, needed, aloc, faults>>

-----------------------------------------------------------------------------
(* synth_audio_cb, run by SDL with the device lock held when not paused.   *)

FaultyUnderrun ==                               \* counted instead of flagged
  /\ apc = "idle" /\ holder = "none" /\ paused = 0
  /\ AvailableNow = 0
  /\ underrun' = underrun + 1
  /\ UNCHANGED <<ring, conf, slot, state, dev, mloc, aloc, faults>>

CbUnderrun ==
  /\ apc = "idle" /\ holder = "none" /\ paused = 0
  /\ AvailableNow = 0
  /\ underrun' = 1
  /\ UNCHANGED <<ring, conf, slot, state, dev, mloc, aloc, faults>>

CbStart ==
  /\ apc = "idle" /\ holder = "none" /\ paused = 0
  /\ AvailableNow # 0
  /\ holder' = "audio"
  /\ available' = AvailableNow
  /\ length' = request
  /\ apc' = "copy1"
  /\ UNCHANGED <<ring, conf, slot, underrun, state, paused, mloc, todo, request,
                 faults>>

(* Convert, copy to stream from its start, silence, advance the cursor.    *)
Taken(n) == readcursor .. (readcursor + n - 1)

FaultySilence(n) == slot                        \* the memset is forgotten
Silence(n) == [i \in Index |-> IF i \in Taken(n) THEN "used" ELSE slot[i]]

CopyOut ==
  /\ todo' = Smaller(length, available)
  /\ slot' = Silence(todo')
  /\ faults' = faults
       \cup (IF \E i \in Taken(todo') \cap Index : slot[i] = "used"
               THEN {"stale_read"} ELSE {})
       \cup (IF readcursor + todo' > buffersize THEN {"out_of_bounds"} ELSE {})
       \cup Dangling
  /\ readcursor' = Advanced(readcursor, todo')

CbCopy(from, to) ==
  /\ apc = from
  /\ CopyOut
  /\ apc' = to
  /\ UNCHANGED <<writecursor, bufferfilled, conf, underrun, state, dev, mloc,
                 available, length, request>>

(* The fill count, then the second pass when the request is not met: the   *)
(* mono and the surround branch ask again what is available, the stereo    *)
(* branch does not.                                                        *)
CbCount1 ==
  /\ apc = "count1"
  /\ bufferfilled' = bufferfilled - todo
  /\ length' = length - todo
  /\ IF length' > 0
       THEN /\ apc' = "copy2"
            /\ available' = IF Channels = 2 THEN available
                            ELSE SamplesAvailable(readcursor, writecursor,
                                                  bufferfilled', buffersize)
            /\ UNCHANGED holder
       ELSE /\ apc' = "idle"
            /\ holder' = "none"
            /\ UNCHANGED available
  /\ UNCHANGED <<readcursor, writecursor, conf, slot, underrun, state, paused,
                 mloc, todo, request, faults>>

CbCount2 ==
  /\ apc = "count2"
  /\ bufferfilled' = bufferfilled - todo
  /\ length' = length - todo
  /\ underrun' = IF length' > 0 THEN 1 ELSE underrun
  /\ apc' = "idle"
  /\ holder' = "none"
  /\ UNCHANGED <<readcursor, writecursor, conf, slot, state, paused,
                 mloc, available, todo, request, faults>>

-----------------------------------------------------------------------------
Setter ==
  \/ Disable
  \/ Enable
  \/ HasUnderrun
  \/ \E n \in 1 .. MaxFragments :
       SetFragments(n) \/ SetFragmentsNoArray(n) \/ SetFragmentsNoMemory(n)

Frame ==
  \/ ResetStart \/ ResetRead \/ ResetWrite \/ ResetFill \/ ResetRun
  \/ FramePeek \/ FrameJudge \/ FrameLock \/ FrameFill1 \/ FrameFill2
  \/ FrameUnlock \/ FrameFail

Callback ==
  \/ CbUnderrun
  \/ CbStart
  \/ CbCopy("copy1", "count1")
  \/ CbCount1
  \/ CbCopy("copy2", "count2")
  \/ CbCount2

(* The program has ended. *)
Terminated == mpc = "freed" /\ UNCHANGED vars

Next ==
  Setter \/ Frame \/ Free \/ (mpc # "freed" /\ Callback) \/ Terminated

Spec == Init /\ [][Next]_vars

(* main.c calls synth_frame in every iteration of its loop, so FramePeek   *)
(* and ResetStart cannot be put off for ever by other calls, and what it   *)
(* has begun it goes on with; the device thread sleeps outside the lock    *)
(* between two fragments, so the main thread gets the lock in the end; the *)
(* device thread finishes the callback it has entered.                     *)
Fairness ==
  /\ SF_vars(FramePeek) /\ SF_vars(ResetStart) /\ SF_vars(FrameLock)
  /\ SF_vars(ResetRun)
  /\ WF_vars(ResetRead) /\ WF_vars(ResetWrite) /\ WF_vars(ResetFill)
  /\ WF_vars(FrameJudge) /\ WF_vars(FrameFill1) /\ WF_vars(FrameFill2)
  /\ WF_vars(FrameUnlock)
  /\ WF_vars(CbCopy("copy1", "count1")) /\ WF_vars(CbCount1)
  /\ WF_vars(CbCopy("copy2", "count2")) /\ WF_vars(CbCount2)

FairSpec == Spec /\ Fairness

-----------------------------------------------------------------------------
(* Properties.                                                             *)

(* The shape of the state; cursors and counts of a well-behaved ring are   *)
(* bounded by WindowHolds below.                                           *)
TypeOK ==
  /\ readcursor \in Int /\ writecursor \in Int /\ bufferfilled \in Int
  /\ buffersize \in Nat /\ fragments \in Nat
  /\ channelbuffer \in {"null", "live", "dangling"}
  /\ slot \in [Index -> {"fresh", "used"}]
  /\ underrun \in {0, 1}
  /\ state \in {"STOPPED", "ENABLED", "RUNNING"}
  /\ paused \in {0, 1}
  /\ holder \in {"none", "main", "audio"}
  /\ mpc \in {"idle", "rst_read", "rst_write", "rst_cb", "rst_count", "peek",
              "lock", "cb1", "cb2", "unlock", "failed", "freed"}
  /\ seen \in Int /\ needed \in Int
  /\ apc \in {"idle", "copy1", "count1", "copy2", "count2"}
  /\ available \in Int /\ todo \in Int /\ length \in Int
  /\ request \in Nat \ {0}
  /\ faults \subseteq {"overwrite", "out_of_bounds", "stale_read", "use_after_free"}

(* Frames the callback has copied and not yet taken off the fill count. *)
Pending == IF apc \in {"count1", "count2"} THEN todo ELSE 0
Held    == bufferfilled - Pending

(* Slot i lies in the run of Held slots that begins at the read cursor. *)
InWindow(i) ==
  \/ readcursor <= i /\ i < readcursor + Held
  \/ i < readcursor + Held - buffersize

(* While audio runs, the two cursors and the fill count describe the same  *)
(* window of the ring: the cursors stay inside the buffer, the count stays *)
(* between empty and full, and the write cursor is where the window ends.  *)
(* (update_samples_needed and update_samples_available wrap only on an     *)
(* exact hit of the end, so one overshoot would never be corrected.)       *)
RingConsistent ==
  state = "RUNNING" =>
    /\ readcursor \in 0 .. (buffersize - 1)
    /\ writecursor \in 0 .. (buffersize - 1)
    /\ Held \in 0 .. buffersize
    /\ \/ writecursor = readcursor + Held
       \/ writecursor = readcursor + Held - buffersize

(* While audio runs, the slots holding unplayed sound are exactly those of *)
(* the window the cursors describe.                                        *)
SlotsMatchWindow ==
  state = "RUNNING" =>
    \A i \in Index : i < buffersize => (slot[i] = "fresh" <=> InWindow(i))

(* The two together: cursors and count describe one window of the ring,    *)
(* and the sound that has not been played is in that window.               *)
WindowHolds == RingConsistent /\ SlotsMatchWindow

(* The callback never plays a slot that was already played, the frame      *)
(* callback never overwrites one that was not, and neither leaves the      *)
(* buffer: the guarantee of the comment above synth_get_samples_needed.    *)
NoGlitch == faults \cap {"overwrite", "out_of_bounds", "stale_read"} = {}

(* When a running synth_frame releases the lock the ring is truly full: at *)
(* most two contiguous fills are ever needed.                              *)
FrameLeavesFull == mpc = "unlock" => bufferfilled = buffersize

(* The callback reports an underrun only when it has emptied the ring.     *)
UnderrunMeansEmpty == [][underrun = 0 /\ underrun' = 1 => bufferfilled' = 0]_vars

(* The start of synth_frame relies on the device being stopped: no         *)
(* callback is under way, and none can begin, while the ring is reset.     *)
Resetting == mpc \in {"rst_read", "rst_write", "rst_cb", "rst_count"}
ResetWhileStopped == Resetting => paused = 1 /\ apc = "idle"

(* The main thread and the callback are never both in the ring's slots.    *)
SlotExclusion == mpc \in {"rst_cb", "cb1", "cb2"} => apc = "idle"

(* The program has called the last synth_frame. *)
Over == mpc \in {"failed", "freed"}

(* A ring that has lost frames to the device is filled up again, unless    *)
(* the program stops audio or ends.                                        *)
Refill ==
  (state = "RUNNING" /\ bufferfilled < buffersize)
    ~> (bufferfilled = buffersize \/ state # "RUNNING" \/ Over)

(* Once enabled, audio starts, unless the program takes it back or ends.   *)
Starts == state = "ENABLED" ~> (state # "ENABLED" \/ Over)

(* The ring implements the bounded queue of SampleQueue: its fill, less    *)
(* what the callback has copied but not yet counted, is the queue's level. *)
Queue == INSTANCE SampleQueue WITH
           playing  <- state = "RUNNING",
           level    <- IF state = "RUNNING" THEN Held ELSE 0,
           capacity <- buffersize
ImplementsQueue == Queue!Spec

-----------------------------------------------------------------------------
(* The inductive invariant behind ResetWhileStopped, for any device and    *)
(* any script that enables audio only when it is stopped: the lock is the  *)
(* callback's while one runs and synth_frame's while it fills, and none    *)
(* runs outside of RUNNING.                                                *)
DeviceRests ==
  /\ state # "RUNNING" => paused = 1 /\ apc = "idle"
  /\ holder = "audio" <=> apc # "idle"
  /\ mpc \in {"cb1", "cb2", "unlock"} => holder = "main"
  /\ Resetting => state # "RUNNING"

-----------------------------------------------------------------------------
(* The inductive invariant behind WindowHolds, for the programs and the    *)
(* drivers that synth.c works with.                                        *)

(* Audio is enabled and reconfigured from the outside, and enabled only    *)
(* when it is stopped.                                                     *)
Disciplined == ~ReEnable /\ ~Reentrant

(* What a request takes of a ring of that size divides it, so that no copy  *)
(* is cut by the end of the ring.  The second pass is entered where the     *)
(* request is longer than the ring, and the stereo branch goes wrong there. *)
Fits(len, size) ==
  /\ \E k \in 1 .. size : size = Smaller(len, size) * k
  /\ size < len => Channels # 2

(* Every ring the program may ask for is taken out in such portions.  (If  *)
(* not, get_samples_available offers a full ring's whole size to a cursor  *)
(* in the middle of it, and the callback reads behind the end.)            *)
RequestsFit ==
  \A len \in Lengths, n \in 1 .. MaxFragments : Fits(len, FragmentSize * n)

(* What SDL 2 does: it asks for the fragment it was opened with.           *)
OneFragment == Lengths = {FragmentSize}

Multiple(x, q) == \E k \in 0 .. x : x = q * k

(* Which thread may be where in which state of the synth. *)
ThreadsAgree ==
  /\ state # "STOPPED" => channelbuffer # "null"
  /\ state # "RUNNING" => paused = 1 /\ apc = "idle"
  /\ holder = "audio" <=> apc # "idle"
  /\ mpc \in {"cb1", "cb2", "unlock"} => holder = "main"
  /\ mpc \in {"peek", "lock", "cb1", "cb2", "unlock"} => state = "RUNNING"
  /\ Resetting => state = "ENABLED"

(* How far the reset has come. *)
ResetProgress ==
  /\ Resetting => bufferfilled = 0
  /\ mpc \in {"rst_write", "rst_cb", "rst_count"} => readcursor = 0
  /\ mpc \in {"rst_cb", "rst_count"} => writecursor = 0
  /\ mpc = "rst_count" =>
       \A i \in Index : i < buffersize => slot[i] = "fresh"

(* What a request takes of the ring.                                       *)
Portion == Smaller(request, buffersize)

(* The ring is a whole number of fragments, and both cursors stand on the  *)
(* boundaries of its portions.                                             *)
Aligned ==
  /\ channelbuffer # "null" => buffersize > 0
  /\ \E n \in 0 .. MaxFragments : buffersize = FragmentSize * n
  /\ state = "RUNNING" =>
       /\ Fits(request, buffersize)
       /\ Multiple(readcursor, Portion) /\ Multiple(writecursor, Portion)

(* What the locals of synth_frame stand for under the lock. *)
FillPlan ==
  /\ mpc \in {"cb1", "cb2"} => needed = NeededNow
  /\ mpc = "cb2" => bufferfilled + needed = buffersize
  /\ mpc = "unlock" => bufferfilled = buffersize

(* What the locals of synth_audio_cb stand for: the first pass finds a     *)
(* whole portion, and the second, of a request longer than the ring, finds *)
(* nothing left.                                                           *)
CopyPlan ==
  /\ apc \in {"copy1", "count1"} => length = request
  /\ apc \in {"copy2", "count2"} => length = request - Portion /\ length > 0
  /\ apc = "copy1" => available \in Portion .. buffersize /\ Held >= Portion
  /\ apc = "copy2" => available = 0
  /\ apc = "count1" => todo = Portion /\ bufferfilled <= buffersize
  /\ apc = "count2" => todo = 0
  /\ apc \in {"copy2", "count2"} => Held = 0

IInv ==
  /\ TypeOK /\ request \in Lengths /\ ThreadsAgree /\ ResetProgress /\ Aligned /\ FillPlan /\ CopyPlan
  /\ RingConsistent /\ SlotsMatchWindow /\ NoGlitch
=============================================================================
