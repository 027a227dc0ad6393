-------------------------- MODULE SynthRingProofs --------------------------
(***************************************************************************)
(* Proofs about SynthRing: type correctness for every choice of the        *)
(* constants; that the reset runs while the device is stopped, wherever    *)
(* audio is enabled only when it is stopped; and, for a device whose       *)
(* requests fit the ring (RequestsFit), the invariants of the ring, for    *)
(* every number of channels and every fragment size.                       *)
(***************************************************************************)
EXTENDS SynthRing, TLAPS

LEMMA FragmentSizes ==
  ASSUME NEW n \in Nat
  PROVE  FragmentSize * n \in Nat
  BY ConstantsAssumption

(* What a fill does to the types of the variables it assigns.              *)
LEMMA FillType ==
  ASSUME TypeOK, FillAndUpdate
  PROVE  /\ slot' \in [Index -> {"fresh", "used"}]
         /\ faults' \subseteq {"overwrite", "out_of_bounds", "stale_read",
                               "use_after_free"}
         /\ writecursor' \in Int
         /\ bufferfilled' \in Int
<1>1. slot' \in [Index -> {"fresh", "used"}]
  BY DEF FillAndUpdate, TypeOK
<1>2. faults' \subseteq {"overwrite", "out_of_bounds", "stale_read", "use_after_free"}
  BY DEF FillAndUpdate, TypeOK
<1>3. writecursor' \in Int /\ bufferfilled' \in Int
  BY DEF FillAndUpdate, TypeOK, Advanced
<1>4. QED
  BY <1>1, <1>2, <1>3

(* The same of a copy to the device.                                       *)
LEMMA CopyType ==
  ASSUME TypeOK, CopyOut
  PROVE  /\ slot' \in [Index -> {"fresh", "used"}]
         /\ faults' \subseteq {"overwrite", "out_of_bounds", "stale_read",
                               "use_after_free"}
         /\ readcursor' \in Int
         /\ todo' \in Int
<1>1. slot' \in [Index -> {"fresh", "used"}]
  BY DEF CopyOut, Silence, TypeOK
<1>2. faults' \subseteq {"overwrite", "out_of_bounds", "stale_read", "use_after_free"}
  BY DEF CopyOut, Silence, TypeOK, Dangling
<1>3. todo' \in Int
  BY DEF CopyOut, Silence, TypeOK, Smaller
<1>4. readcursor' \in Int
  BY <1>3 DEF CopyOut, Silence, TypeOK, Advanced
<1>5. QED
  BY <1>1, <1>2, <1>3, <1>4

(* Every variable keeps its type: nothing the two threads of synth.c do    *)
(* leaves the sets of values the fields can hold.                          *)
LEMMA TypeStep == TypeOK /\ [Next]_vars => TypeOK'
<1> SUFFICES ASSUME TypeOK, [Next]_vars
             PROVE  TypeOK'
  OBVIOUS
<1> USE DEF TypeOK
<1>1. CASE Setter
  <2>1. CASE Disable
    BY <2>1 DEF Disable, ring, conf, mloc, aloc
  <2>2. CASE Enable
    BY <2>2 DEF Enable, ring, conf, dev, mloc, aloc
  <2>3. CASE HasUnderrun
    BY <2>3 DEF HasUnderrun, ring, conf, dev, mloc, aloc
  <2>4. ASSUME NEW n \in 1 .. MaxFragments, SetFragments(n)
        PROVE  TypeOK'
    BY <2>4, FragmentSizes, ConstantsAssumption
       DEF SetFragments, Dangling, ring, dev, mloc, aloc
  <2>5. ASSUME NEW n \in 1 .. MaxFragments, SetFragmentsNoArray(n)
        PROVE  TypeOK'
    BY <2>5 DEF SetFragmentsNoArray, Dangling, ring, dev, mloc, aloc
  <2>6. ASSUME NEW n \in 1 .. MaxFragments, SetFragmentsNoMemory(n)
        PROVE  TypeOK'
    BY <2>6, FragmentSizes, ConstantsAssumption
       DEF SetFragmentsNoMemory, Dangling, ring, dev, mloc, aloc
  <2>7. QED
    BY <1>1, <2>1, <2>2, <2>3, <2>4, <2>5, <2>6 DEF Setter
<1>2. CASE Frame
  <2>1. CASE ResetStart
    BY <2>1 DEF ResetStart, conf, dev, aloc
  <2>2. CASE ResetRead
    BY <2>2 DEF ResetRead, conf, dev, aloc
  <2>3. CASE ResetWrite
    BY <2>3 DEF ResetWrite, conf, dev, aloc
  <2>4. CASE ResetFill
    BY <2>4 DEF ResetFill, Advanced, conf, dev, aloc
  <2>5. CASE ResetRun
    BY <2>5 DEF ResetRun, conf, aloc
  <2>6. CASE FramePeek
    BY <2>6 DEF FramePeek, ring, conf, dev, aloc
  <2>7. CASE FrameJudge
    BY <2>7 DEF FrameJudge, ring, conf, dev, aloc
  <2>8. CASE FrameLock
    BY <2>8, ConstantsAssumption
       DEF FrameLock, NeededNow, SamplesNeeded, Unsigned, ring, conf, aloc
  <2>9. CASE FrameFill1
    BY <2>9, FillType, ConstantsAssumption
       DEF FrameFill1, SamplesNeeded, Unsigned, conf, dev, aloc
  <2>10. CASE FrameFill2
    BY <2>10, FillType DEF FrameFill2, conf, dev, aloc
  <2>11. CASE FrameUnlock
    BY <2>11 DEF FrameUnlock, ring, conf, aloc
  <2>12. CASE FrameFail
    BY <2>12 DEF FrameFail, ring, conf, dev, aloc
  <2>13. QED
    BY <1>2, <2>1, <2>2, <2>3, <2>4, <2>5, <2>6, <2>7, <2>8, <2>9, <2>10, <2>11, <2>12 DEF Frame
<1>3. CASE Callback
  <2>1. CASE CbUnderrun
    BY <2>1 DEF CbUnderrun, ring, conf, dev, mloc, aloc
  <2>2. CASE CbStart
    BY <2>2, ConstantsAssumption
       DEF CbStart, AvailableNow, SamplesAvailable, Unsigned, ring, conf, mloc
  <2>3. CASE CbCopy("copy1", "count1")
    BY <2>3, CopyType DEF CbCopy, conf, dev, mloc
  <2>4. CASE CbCount1
    BY <2>4, ConstantsAssumption
       DEF CbCount1, SamplesAvailable, Unsigned, conf, mloc
  <2>5. CASE CbCopy("copy2", "count2")
    BY <2>5, CopyType DEF CbCopy, conf, dev, mloc
  <2>6. CASE CbCount2
    BY <2>6 DEF CbCount2, conf, mloc
  <2>7. QED
    BY <1>3, <2>1, <2>2, <2>3, <2>4, <2>5, <2>6 DEF Callback
<1>4. CASE Free
  BY <1>4 DEF Free, ring, conf, aloc
<1>5. CASE UNCHANGED vars
  BY <1>5 DEF vars, ring, conf, dev, mloc, aloc
<1>6. QED
  BY <1>1, <1>2, <1>3, <1>4, <1>5 DEF Next, Terminated

(* Type correctness of the ring and of its two threads.                    *)
THEOREM TypeCorrect == Spec => []TypeOK
<1>1. Init => TypeOK
  BY ConstantsAssumption DEF Init, TypeOK
<1>2. QED
  BY <1>1, TypeStep, PTL DEF Spec

-----------------------------------------------------------------------------
(* The reset and the device.                                               *)

LEMMA DeviceStep == ~ReEnable /\ TypeOK /\ DeviceRests /\ [Next]_vars => DeviceRests'
<1> SUFFICES ASSUME ~ReEnable, TypeOK, DeviceRests, [Next]_vars
             PROVE  DeviceRests'
  OBVIOUS
<1> USE DEF DeviceRests, Resetting
<1>1. CASE Setter
  <2>1. CASE Disable
    BY <2>1 DEF TypeOK, Disable, mloc, aloc
  <2>2. CASE Enable
    BY <2>2 DEF Enable, dev, mloc, aloc
  <2>3. CASE HasUnderrun
    BY <2>3 DEF HasUnderrun, dev, mloc, aloc
  <2>4. ASSUME NEW n \in 1 .. MaxFragments,
               SetFragments(n) \/ SetFragmentsNoArray(n) \/ SetFragmentsNoMemory(n)
        PROVE  DeviceRests'
    BY <2>4 DEF SetFragments, SetFragmentsNoArray, SetFragmentsNoMemory, dev, mloc, aloc
  <2>5. QED
    BY <1>1, <2>1, <2>2, <2>3, <2>4 DEF Setter
<1>2. CASE ResetStart \/ ResetRead \/ ResetWrite \/ ResetFill \/ ResetRun
  BY <1>2 DEF ResetStart, ResetRead, ResetWrite, ResetFill, ResetRun, dev, aloc
<1>3. CASE FramePeek \/ FrameJudge \/ FrameLock \/ FrameUnlock \/ FrameFail \/ Free
  BY <1>3 DEF TypeOK, InFrameCallback, FramePeek, FrameJudge, FrameLock, FrameUnlock,
              FrameFail, Free, dev, aloc
<1>4. CASE FrameFill1 \/ FrameFill2
  BY <1>4 DEF FrameFill1, FrameFill2, dev, aloc
<1>5. CASE Callback
  <2>1. CASE CbUnderrun
    BY <2>1 DEF CbUnderrun, dev, mloc, aloc
  <2>2. CASE CbStart
    BY <2>2 DEF CbStart, mloc
  <2>3. CASE CbCopy("copy1", "count1") \/ CbCopy("copy2", "count2")
    BY <2>3 DEF CbCopy, dev, mloc
  <2>4. CASE CbCount1 \/ CbCount2
    BY <2>4 DEF CbCount1, CbCount2, mloc
  <2>5. QED
    BY <1>5, <2>1, <2>2, <2>3, <2>4 DEF Callback
<1>6. CASE UNCHANGED vars
  BY <1>6 DEF vars, dev, mloc, aloc
<1>7. QED
  BY <1>1, <1>2, <1>3, <1>4, <1>5, <1>6 DEF Next, Frame, Terminated

(* The unlocked reset of synth_frame runs with the device stopped, and no  *)
(* fill meets a callback: whatever the device asks for, and even if the    *)
(* script calls the setters from the frame callback.                       *)
THEOREM ResetIsSafe ==
  ASSUME ~ReEnable
  PROVE  Spec => [](ResetWhileStopped /\ SlotExclusion)
<1>1. Init => TypeOK /\ DeviceRests
  BY ConstantsAssumption DEF Init, TypeOK, DeviceRests, Resetting
<1>2. TypeOK /\ DeviceRests /\ [Next]_vars => (TypeOK /\ DeviceRests)'
  BY TypeStep, DeviceStep
<1>3. DeviceRests => ResetWhileStopped /\ SlotExclusion
  BY DEF DeviceRests, ResetWhileStopped, SlotExclusion, Resetting
<1>4. QED
  BY <1>1, <1>2, <1>3, PTL DEF Spec

-----------------------------------------------------------------------------
(* Fragment arithmetic.                                                    *)

LEMMA ProductOrder ==
  ASSUME NEW q \in Nat, NEW j \in Nat, NEW k \in Nat, j <= k
  PROVE  q * j <= q * k
  OBVIOUS

LEMMA ProductNext ==
  ASSUME NEW q \in Nat, NEW k \in Nat
  PROVE  q * (k + 1) = q * k + q
  OBVIOUS

LEMMA ProductAbove ==
  ASSUME NEW q \in Nat \ {0}, NEW k \in Nat
  PROVE  k <= q * k
  OBVIOUS

(* Between two different boundaries there is room for a portion. *)
LEMMA PortionGap ==
  ASSUME NEW q \in Nat \ {0}, NEW a \in Int, NEW b \in Int,
         Multiple(a, q), Multiple(b, q), a < b
  PROVE  a + q <= b /\ Multiple(a + q, q)
<1>1. PICK j \in 0 .. a : a = q * j
  BY DEF Multiple
<1>2. PICK k \in 0 .. b : b = q * k
  BY DEF Multiple
<1>3. j \in Nat /\ k \in Nat
  OBVIOUS
<1>4. j + 1 <= k
  <2>1. SUFFICES ASSUME k <= j
                 PROVE  FALSE
    BY <1>3
  <2>2. b <= a
    BY <1>1, <1>2, <1>3, <2>1, ProductOrder
  <2>3. QED
    BY <2>2
<1>5. a + q = q * (j + 1)
  BY <1>1, <1>3, ProductNext
<1>6. q * (j + 1) <= q * k
  BY <1>3, <1>4, ProductOrder
<1>7. j + 1 \in 0 .. (a + q)
  BY <1>3, <1>5, ProductAbove
<1>8. QED
  BY <1>2, <1>5, <1>6, <1>7 DEF Multiple

LEMMA MultipleZero ==
  ASSUME NEW q \in Nat
  PROVE  Multiple(0, q)
  BY DEF Multiple

(* A ring that a request fits ends on a boundary. *)
LEMMA PortionEnds ==
  ASSUME NEW len \in Nat \ {0}, NEW size \in Nat \ {0}, Fits(len, size)
  PROVE  /\ Smaller(len, size) \in 1 .. size
         /\ Multiple(size, Smaller(len, size))
  BY DEF Fits, Multiple, Smaller

(* A device that asks for one fragment at a time, as SDL 2 does, fits every *)
(* ring.                                                                    *)
LEMMA OneFragmentFits == OneFragment => RequestsFit
<1> SUFFICES ASSUME OneFragment, NEW len \in Lengths, NEW n \in 1 .. MaxFragments
             PROVE  Fits(len, FragmentSize * n)
  BY DEF RequestsFit
<1>1. FragmentSize \in Nat \ {0} /\ n \in Nat \ {0} /\ len = FragmentSize
  BY ConstantsAssumption DEF OneFragment
<1>2. FragmentSize * n \in Nat /\ FragmentSize * n >= FragmentSize /\ FragmentSize * n >= n
  BY <1>1
<1>3. \E k \in 1 .. (FragmentSize * n) : FragmentSize * n = FragmentSize * k
  BY <1>1, <1>2
<1>4. Smaller(len, FragmentSize * n) = FragmentSize /\ ~(FragmentSize * n < len)
  BY <1>1, <1>2 DEF Smaller
<1>5. QED
  BY <1>3, <1>4 DEF Fits

-----------------------------------------------------------------------------
(* The ring of a disciplined program, with requests that fit it.           *)

(* The conjuncts of IInv that speak of the ring's contents only.           *)
RingPart ==
  /\ request \in Lengths /\ Aligned /\ CopyPlan
  /\ RingConsistent /\ SlotsMatchWindow /\ NoGlitch

LEMMA RingPartFrame ==
  ASSUME RingPart, UNCHANGED <<ring, conf, slot, state, aloc, faults>>
  PROVE  RingPart'
  BY DEF RingPart, Aligned, CopyPlan, Portion, RingConsistent, SlotsMatchWindow,
         NoGlitch, Held, Pending, InWindow, ring, conf, aloc

LEMMA SetterStep ==
  ASSUME IInv, Disciplined, Setter, TypeOK'
  PROVE  IInv'
<1> mpc = "idle" /\ UNCHANGED <<ring, mloc, aloc>>
  BY DEF Setter, Disable, Enable, HasUnderrun, SetFragments, SetFragmentsNoArray,
         SetFragmentsNoMemory, MayCall, Disciplined
<1>1. CASE Disable
  <2>1. ThreadsAgree'
    BY <1>1 DEF IInv, Disable, ThreadsAgree, Resetting, mloc, aloc, conf
  <2>2. ResetProgress' /\ FillPlan'
    BY <1>1 DEF IInv, ResetProgress, FillPlan, Resetting, mloc
  <2>3. RingPart'
    BY <1>1, <2>1 DEF IInv, Disable, RingPart, ThreadsAgree, Aligned, Multiple,
      CopyPlan, RingConsistent, SlotsMatchWindow, NoGlitch, Held,
      Pending, Portion, ring, conf, mloc, aloc
  <2>4. QED
    BY <2>1, <2>2, <2>3 DEF IInv, RingPart
<1>2. CASE Enable
  <2>1. ThreadsAgree'
    BY <1>2 DEF IInv, Enable, Disciplined, ThreadsAgree, Resetting, mloc, aloc, conf, dev
  <2>2. ResetProgress' /\ FillPlan'
    BY <1>2 DEF IInv, ResetProgress, FillPlan, Resetting, mloc
  <2>3. RingPart'
    BY <1>2, <2>1 DEF IInv, Enable, RingPart, ThreadsAgree, Aligned, Multiple,
      CopyPlan, RingConsistent, SlotsMatchWindow, NoGlitch, Held,
      Pending, Portion, ring, conf, mloc, aloc
  <2>4. QED
    BY <2>1, <2>2, <2>3 DEF IInv, RingPart
<1>3. CASE HasUnderrun
  <2>1. ThreadsAgree'
    BY <1>3 DEF IInv, HasUnderrun, ThreadsAgree, Resetting, mloc, aloc, conf, dev
  <2>2. ResetProgress' /\ FillPlan'
    BY <1>3 DEF IInv, ResetProgress, FillPlan, Resetting, mloc
  <2>3. RingPart'
    BY <1>3, RingPartFrame DEF IInv, HasUnderrun, RingPart
  <2>4. QED
    BY <2>1, <2>2, <2>3 DEF IInv, RingPart
<1>4. ASSUME NEW n \in 1 .. MaxFragments,
             SetFragments(n) \/ SetFragmentsNoArray(n) \/ SetFragmentsNoMemory(n)
      PROVE  IInv'
  <2>1. state = "STOPPED" /\ apc = "idle" /\ UNCHANGED <<state, dev>>
    BY <1>4 DEF IInv, ThreadsAgree, SetFragments, SetFragmentsNoArray, SetFragmentsNoMemory
  <2>2. ThreadsAgree'
    BY <1>4, <2>1 DEF IInv, ThreadsAgree, Resetting, mloc, aloc, conf, dev
  <2>3. ResetProgress' /\ FillPlan'
    BY <1>4 DEF IInv, ResetProgress, FillPlan, Resetting, mloc
  <2>4. Aligned'
    <3>1. CASE SetFragmentsNoArray(n)
      BY <3>1, <2>1 DEF IInv, Aligned, Multiple, SetFragmentsNoArray
    <3>2. CASE SetFragments(n) \/ SetFragmentsNoMemory(n)
      <4>1. buffersize' = FragmentSize * n
        BY <3>2 DEF SetFragments, SetFragmentsNoMemory
      <4>2. FragmentSize * n > 0
        BY ConstantsAssumption
      <4>3. QED
        BY <2>1, <4>1, <4>2 DEF Aligned
    <3>3. QED
      BY <1>4, <3>1, <3>2
  <2>5. request' \in Lengths /\ CopyPlan' /\ RingConsistent' /\ SlotsMatchWindow'
    BY <1>4, <2>1 DEF IInv, CopyPlan, RingConsistent, SlotsMatchWindow, aloc
  <2>6. NoGlitch'
    BY <1>4 DEF IInv, NoGlitch, Dangling, SetFragments, SetFragmentsNoArray,
                SetFragmentsNoMemory
  <2>7. QED
    BY <2>2, <2>3, <2>4, <2>5, <2>6 DEF IInv
<1>5. QED
  BY <1>1, <1>2, <1>3, <1>4 DEF Setter

(* The steps of synth_frame that touch neither the ring nor its contents.  *)
LEMMA QuietFrameStep ==
  ASSUME IInv, TypeOK',
         FramePeek \/ FrameJudge \/ FrameLock \/ FrameUnlock \/ FrameFail \/ Free
  PROVE  IInv'
<1>1. UNCHANGED <<ring, conf, slot, state, paused, aloc, faults>>
  BY DEF FramePeek, FrameJudge, FrameLock, FrameUnlock, FrameFail, Free, dev
<1>2. RingPart'
  BY <1>1, RingPartFrame DEF IInv, RingPart
<1>3. ThreadsAgree'
  BY <1>1 DEF IInv, ThreadsAgree, Resetting, InFrameCallback, TypeOK, conf, dev, aloc,
              FramePeek, FrameJudge, FrameLock, FrameUnlock, FrameFail, Free
<1>4. ResetProgress'
  BY <1>1 DEF IInv, ResetProgress, Resetting, FramePeek, FrameJudge, FrameLock,
              FrameUnlock, FrameFail, Free, ring, conf
<1>5. FillPlan'
  <2>1. CASE FrameLock
    BY <1>1, <2>1 DEF FillPlan, FrameLock, NeededNow, ring, conf
  <2>2. CASE FramePeek \/ FrameJudge \/ FrameUnlock \/ FrameFail \/ Free
    BY <2>2 DEF FillPlan, FramePeek, FrameJudge, FrameUnlock, FrameFail, Free
  <2>3. QED
    BY <2>1, <2>2
<1>6. QED
  BY <1>2, <1>3, <1>4, <1>5 DEF IInv, RingPart

(* The start: reset, fill, run. *)
LEMMA ResetStep ==
  ASSUME IInv, RequestsFit, TypeOK',
         ResetStart \/ ResetRead \/ ResetWrite \/ ResetFill \/ ResetRun
  PROVE  IInv'
<1>1. state = "ENABLED" /\ apc = "idle" /\ paused = 1 /\ holder # "audio" /\ buffersize > 0
  BY DEF IInv, ThreadsAgree, Aligned, Resetting, TypeOK,
         ResetStart, ResetRead, ResetWrite, ResetFill, ResetRun
<1>2. UNCHANGED <<conf, aloc, faults, holder>>
  BY DEF ResetStart, ResetRead, ResetWrite, ResetFill, ResetRun, dev
<1>3. ThreadsAgree'
  BY <1>1, <1>2 DEF IInv, ThreadsAgree, Resetting, conf, aloc, dev,
     ResetStart, ResetRead, ResetWrite, ResetFill, ResetRun
<1>4. ResetProgress'
  <2>1. CASE ResetStart \/ ResetRead \/ ResetWrite \/ ResetRun
    BY <2>1 DEF IInv, ResetProgress, Resetting,
                ResetStart, ResetRead, ResetWrite, ResetRun
  <2>2. CASE ResetFill
    BY <1>1, <1>2, <2>2 DEF IInv, TypeOK, ResetProgress, Resetting, ResetFill, Advanced, conf
  <2>3. QED
    BY <2>1, <2>2
<1>5. request' \in Lengths /\ FillPlan' /\ CopyPlan' /\ NoGlitch'
  BY <1>1, <1>2 DEF IInv, FillPlan, CopyPlan, NoGlitch, aloc,
     ResetStart, ResetRead, ResetWrite, ResetFill, ResetRun
<1>6. CASE ResetRun
  <2>1. readcursor' = 0 /\ writecursor' = 0 /\ Held' = buffersize
    BY <1>1, <1>2, <1>6 DEF IInv, TypeOK, ResetProgress, Resetting, ResetRun, Held,
                            Pending, aloc, conf
  <2>2. RingConsistent'
    BY <1>1, <1>2, <2>1 DEF RingConsistent, IInv, TypeOK, conf
  <2>3. SlotsMatchWindow'
    BY <1>1, <1>2, <1>6, <2>1 DEF SlotsMatchWindow, IInv, TypeOK, ResetProgress,
                                  ResetRun, InWindow, Index, conf
  <2>4. Aligned'
    <3>1. PICK n \in 0 .. MaxFragments : buffersize = FragmentSize * n
      BY DEF IInv, Aligned
    <3>2. n \in 1 .. MaxFragments
      BY <1>1, <3>1, ConstantsAssumption
    <3>3. Fits(request, buffersize)
      BY <3>1, <3>2 DEF RequestsFit, IInv
    <3>4. Portion \in Nat /\ Multiple(readcursor', Portion) /\ Multiple(writecursor', Portion)
      BY <2>1, MultipleZero DEF IInv, TypeOK, Portion, Smaller
    <3>5. /\ buffersize' = buffersize /\ channelbuffer' = channelbuffer
          /\ request' = request /\ Portion' = Portion
      BY <1>2 DEF conf, aloc, Portion
    <3>6. QED
      BY <1>1, <3>1, <3>3, <3>4, <3>5 DEF IInv, Aligned
  <2>5. QED
    BY <1>3, <1>4, <1>5, <2>2, <2>3, <2>4 DEF IInv
<1>7. CASE ResetStart \/ ResetRead \/ ResetWrite \/ ResetFill
  <2>1. state' = "ENABLED"
    BY <1>1, <1>7 DEF ResetStart, ResetRead, ResetWrite, ResetFill
  <2>2. RingConsistent' /\ SlotsMatchWindow'
    BY <2>1 DEF RingConsistent, SlotsMatchWindow
  <2>3. Aligned'
    BY <1>2, <2>1 DEF IInv, Aligned, Multiple, conf
  <2>4. QED
    BY <1>3, <1>4, <1>5, <2>2, <2>3 DEF IInv
<1>8. QED
  BY <1>6, <1>7

(* The two contiguous fills of a running synth_frame.                      *)
LEMMA FillStep ==
  ASSUME IInv, TypeOK', FrameFill1 \/ FrameFill2
  PROVE  IInv'
<1> USE ConstantsAssumption
<1>1. /\ state = "RUNNING" /\ apc = "idle" /\ holder = "main" /\ needed = NeededNow
      /\ Held = bufferfilled
  BY DEF IInv, TypeOK, ThreadsAgree, FillPlan, FrameFill1, FrameFill2, Held, Pending
<1>2. FillAndUpdate /\ UNCHANGED <<readcursor, conf, underrun, state, dev, seen, aloc>>
  BY DEF FrameFill1, FrameFill2
<1>3. /\ readcursor \in 0 .. (buffersize - 1) /\ writecursor \in 0 .. (buffersize - 1)
      /\ bufferfilled \in 0 .. buffersize /\ buffersize \in Nat
      /\ \/ writecursor = readcursor + bufferfilled
         \/ writecursor = readcursor + bufferfilled - buffersize
  BY <1>1 DEF IInv, TypeOK, RingConsistent
<1>4. /\ needed \in 0 .. (buffersize - bufferfilled)
      /\ writecursor + needed \in 0 .. buffersize
  BY <1>1, <1>3 DEF NeededNow, SamplesNeeded, Unsigned
<1>5. \A i \in Index : i < buffersize => (slot[i] = "fresh" <=> InWindow(i))
  BY <1>1 DEF IInv, SlotsMatchWindow
<1>6. /\ writecursor' = Advanced(writecursor, needed)
      /\ bufferfilled' = bufferfilled + needed
      /\ readcursor' = readcursor /\ buffersize' = buffersize
      /\ Held' = bufferfilled'
  BY <1>1, <1>2 DEF TypeOK, FillAndUpdate, conf, aloc, Held, Pending
<1>7. request' \in Lengths /\ ThreadsAgree' /\ ResetProgress' /\ CopyPlan'
  BY <1>1, <1>2 DEF IInv, ThreadsAgree, ResetProgress, CopyPlan, Resetting,
                    FrameFill1, FrameFill2, conf, dev, aloc
<1>8. RingConsistent'
  BY <1>3, <1>4, <1>6 DEF RingConsistent, Advanced
<1>9. Aligned'
  <2>1. /\ Portion \in Nat /\ Fits(request, buffersize)
        /\ Multiple(readcursor, Portion) /\ Multiple(writecursor, Portion)
    BY <1>1 DEF IInv, TypeOK, Aligned, Portion, Smaller
  <2>2. writecursor' \in {0, readcursor, writecursor}
    BY <1>1, <1>3, <1>4, <1>6 DEF Advanced, NeededNow, SamplesNeeded, Unsigned
  <2>3. Multiple(writecursor', Portion)
    BY <1>3, <2>1, <2>2, MultipleZero
  <2>4. channelbuffer' = channelbuffer /\ request' = request /\ Portion' = Portion
    BY <1>2 DEF conf, aloc, Portion
  <2>5. QED
    BY <1>6, <2>1, <2>3, <2>4 DEF IInv, Aligned
<1>10. SlotsMatchWindow'
  <2>1. SUFFICES ASSUME NEW i \in Index, i < buffersize
                 PROVE  slot'[i] = "fresh" <=> InWindow(i)'
    BY <1>6 DEF SlotsMatchWindow
  <2>2. i \in Int /\ i >= 0
    BY DEF Index
  <2>3. slot'[i] = IF i \in Filled(needed) THEN "fresh" ELSE slot[i]
    BY <1>2 DEF FillAndUpdate
  <2>4. i \in Filled(needed) <=> writecursor <= i /\ i < writecursor + needed
    BY <1>3, <1>4, <2>2 DEF Filled
  <2>5. InWindow(i)' <=> InWindow(i) \/ (writecursor <= i /\ i < writecursor + needed)
    BY <1>1, <1>3, <1>4, <1>6, <2>1, <2>2
       DEF InWindow, NeededNow, SamplesNeeded, Unsigned
  <2>6. QED
    BY <1>5, <2>1, <2>3, <2>4, <2>5
<1>11. NoGlitch'
  <2>1. ASSUME NEW i \in Filled(needed) \cap Index
        PROVE  slot[i] # "fresh"
    <3>1. i \in Int /\ i >= 0 /\ writecursor <= i /\ i < writecursor + needed
      BY <1>3, <1>4 DEF Filled, Index
    <3>2. i < buffersize /\ ~InWindow(i)
      BY <1>1, <1>3, <1>4, <3>1 DEF InWindow, NeededNow, SamplesNeeded, Unsigned
    <3>3. QED
      BY <1>5, <3>2
  <2>2. ~(writecursor + needed > buffersize)
    BY <1>3, <1>4
  <2>3. faults' = faults
    BY <1>2, <2>1, <2>2 DEF FillAndUpdate
  <2>4. QED
    BY <2>3 DEF IInv, NoGlitch
<1>12. FillPlan'
  <2>1. CASE FrameFill1
    <3>1. needed' = SamplesNeeded(readcursor, writecursor', bufferfilled', buffersize)
      BY <2>1 DEF FrameFill1
    <3>2. mpc' = IF needed' > 0 THEN "cb2" ELSE "unlock"
      BY <2>1 DEF FrameFill1
    <3>3. needed' = NeededNow'
      BY <1>6, <3>1 DEF NeededNow
    <3>4. needed' > 0 => bufferfilled' + needed' = buffersize
      BY <1>1, <1>3, <1>4, <1>6, <3>1
         DEF NeededNow, SamplesNeeded, Unsigned, Advanced
    <3>5. ~(needed' > 0) => bufferfilled' = buffersize
      BY <1>1, <1>3, <1>4, <1>6, <3>1
         DEF NeededNow, SamplesNeeded, Unsigned, Advanced
    <3>6. QED
      BY <1>6, <3>2, <3>3, <3>4, <3>5 DEF FillPlan
  <2>2. CASE FrameFill2
    BY <1>6, <2>2 DEF IInv, FillPlan, FrameFill2
  <2>3. QED
    BY <2>1, <2>2
<1>13. QED
  BY <1>7, <1>8, <1>9, <1>10, <1>11, <1>12 DEF IInv

(* What is there of a portion: no callback cuts one, and none starts on    *)
(* less than one.                                                          *)
LEMMA PortionFits ==
  ASSUME IInv, state = "RUNNING"
  PROVE  /\ Portion \in 1 .. buffersize
         /\ readcursor + Portion <= buffersize
         /\ Multiple(readcursor, Portion)
         /\ Multiple(readcursor + Portion, Portion)
         /\ Multiple(writecursor, Portion)
<1>1. /\ Fits(request, buffersize)
      /\ Multiple(readcursor, Portion) /\ Multiple(writecursor, Portion)
  BY DEF IInv, Aligned
<1>2. readcursor \in 0 .. (buffersize - 1) /\ buffersize \in Nat \ {0}
  BY DEF IInv, TypeOK, RingConsistent
<1>3. Portion \in 1 .. buffersize /\ Multiple(buffersize, Portion)
  BY <1>1, <1>2, PortionEnds DEF IInv, TypeOK, Portion
<1>4. readcursor + Portion <= buffersize /\ Multiple(readcursor + Portion, Portion)
  BY <1>1, <1>2, <1>3, PortionGap
<1>5. QED
  BY <1>1, <1>3, <1>4

(* The audio callback. *)
LEMMA CbStartStep ==
  ASSUME IInv, TypeOK', CbStart
  PROVE  IInv'
<1> USE ConstantsAssumption
<1>1. state = "RUNNING" /\ apc = "idle" /\ holder = "none" /\ Held = bufferfilled
  BY DEF IInv, TypeOK, ThreadsAgree, CbStart, Held, Pending
<1>2. /\ UNCHANGED <<ring, conf, slot, underrun, state, paused, mloc, todo, request,
                     faults>>
      /\ available' = AvailableNow /\ AvailableNow # 0
      /\ apc' = "copy1" /\ holder' = "audio" /\ length' = request
  BY <1>1 DEF CbStart
<1>3. Held' = Held /\ buffersize' = buffersize /\ Portion' = Portion
  BY <1>1, <1>2 DEF Held, Pending, ring, conf, IInv, TypeOK, Portion
<1>4. /\ request' \in Lengths /\ ThreadsAgree' /\ ResetProgress' /\ FillPlan'
      /\ NoGlitch'
  BY <1>1, <1>2 DEF IInv, ThreadsAgree, ResetProgress, FillPlan,
     NoGlitch, Resetting, mloc, conf, ring
<1>5. Aligned' /\ RingConsistent' /\ SlotsMatchWindow'
  BY <1>1, <1>2, <1>3 DEF IInv, Aligned, RingConsistent, SlotsMatchWindow,
     InWindow, ring, conf
<1>6. /\ readcursor \in 0 .. (buffersize - 1) /\ writecursor \in 0 .. (buffersize - 1)
      /\ Held \in 0 .. buffersize /\ buffersize \in Nat
      /\ \/ writecursor = readcursor + Held
         \/ writecursor = readcursor + Held - buffersize
  BY <1>1 DEF IInv, TypeOK, RingConsistent
<1>7. /\ Portion \in 1 .. buffersize
      /\ readcursor + Portion <= buffersize
      /\ readcursor < writecursor => readcursor + Portion <= writecursor
  BY <1>1, <1>6, PortionFits, PortionGap
<1>8. AvailableNow \in Portion .. buffersize /\ Held >= Portion
  BY <1>1, <1>2, <1>6, <1>7 DEF AvailableNow, SamplesAvailable, Unsigned
<1>9. CopyPlan'
  BY <1>2, <1>3, <1>8 DEF CopyPlan
<1>10. QED
  BY <1>4, <1>5, <1>9 DEF IInv

LEMMA CbCopyStep ==
  ASSUME IInv, TypeOK', CbCopy("copy1", "count1")
  PROVE  IInv'
<1> USE ConstantsAssumption
<1>1. state = "RUNNING" /\ apc = "copy1" /\ holder = "audio" /\ Held = bufferfilled
  BY DEF IInv, TypeOK, ThreadsAgree, CbCopy, Held, Pending
<1>2. PICK p \in 1 .. buffersize :
        /\ p = Portion /\ Multiple(readcursor, p) /\ Fits(request, buffersize)
        /\ readcursor + p <= buffersize /\ Multiple(readcursor + p, p)
        /\ Multiple(writecursor, p)
  BY <1>1, PortionFits DEF IInv, Aligned
<1>3. /\ request \in Lengths /\ length = request
      /\ available \in p .. buffersize /\ Held >= p
  BY <1>1, <1>2 DEF IInv, CopyPlan
<1>4. /\ CopyOut /\ apc' = "count1"
      /\ UNCHANGED <<writecursor, bufferfilled, conf, underrun, state, dev, mloc,
                     available, length, request>>
  BY DEF CbCopy
<1>5. /\ readcursor \in 0 .. (buffersize - 1) /\ writecursor \in 0 .. (buffersize - 1)
      /\ Held \in 0 .. buffersize /\ buffersize \in Nat
      /\ \/ writecursor = readcursor + Held
         \/ writecursor = readcursor + Held - buffersize
  BY <1>1 DEF IInv, TypeOK, RingConsistent
<1>6. todo' = p
  <2>1. todo' = Smaller(request, available)
    BY <1>3, <1>4 DEF CopyOut
  <2>2. p = Smaller(request, buffersize) /\ request \in Nat
    BY <1>2 DEF Portion, IInv, TypeOK
  <2>3. QED
    BY <1>3, <1>5, <2>1, <2>2 DEF Smaller
<1>7. /\ readcursor' = Advanced(readcursor, p)
      /\ Held' = Held - p
      /\ UNCHANGED <<writecursor, buffersize, state>>
      /\ Portion' = p
  BY <1>1, <1>2, <1>4, <1>6 DEF CopyOut, Silence, conf, Held, Pending, IInv, TypeOK, Portion
<1>8. request' \in Lengths /\ ThreadsAgree' /\ ResetProgress'
  BY <1>1, <1>3, <1>4 DEF IInv, ThreadsAgree, ResetProgress, Resetting, conf, dev, mloc
<1>9. CopyPlan'
  BY <1>1, <1>3, <1>4, <1>5, <1>6, <1>7 DEF CopyPlan
<1>10. FillPlan'
  BY <1>1, <1>4 DEF IInv, ThreadsAgree, FillPlan, mloc
<1>11. RingConsistent'
  BY <1>2, <1>3, <1>5, <1>7 DEF RingConsistent, Advanced
<1>12. Aligned'
  <2>1. Multiple(readcursor', p)
    BY <1>2, <1>7, MultipleZero DEF Advanced
  <2>2. channelbuffer' = channelbuffer /\ request' = request
    BY <1>4 DEF conf
  <2>3. QED
    BY <1>2, <1>7, <2>1, <2>2 DEF IInv, Aligned
<1>13. \A i \in Index : i < buffersize => (slot[i] = "fresh" <=> InWindow(i))
  BY <1>1 DEF IInv, SlotsMatchWindow
<1>14. SlotsMatchWindow'
  <2>1. SUFFICES ASSUME NEW i \in Index, i < buffersize
                 PROVE  slot'[i] = "fresh" <=> InWindow(i)'
    BY <1>7 DEF SlotsMatchWindow
  <2>2. i \in Int /\ i >= 0
    BY DEF Index
  <2>3. slot'[i] = IF i \in Taken(p) THEN "used" ELSE slot[i]
    BY <1>4, <1>6 DEF CopyOut, Silence
  <2>4. i \in Taken(p) <=> readcursor <= i /\ i < readcursor + p
    BY <1>5, <2>2 DEF Taken
  <2>5. InWindow(i)' <=> InWindow(i) /\ ~(readcursor <= i /\ i < readcursor + p)
    BY <1>2, <1>3, <1>5, <1>7, <2>1, <2>2 DEF InWindow, Advanced
  <2>6. QED
    BY <1>13, <2>1, <2>3, <2>4, <2>5
<1>15. NoGlitch'
  <2>1. ASSUME NEW i \in Taken(p) \cap Index
        PROVE  slot[i] # "used"
    <3>1. i \in Int /\ readcursor <= i /\ i < readcursor + p
      BY <1>5 DEF Taken
    <3>2. i < buffersize /\ InWindow(i)
      BY <1>2, <1>3, <1>5, <3>1 DEF InWindow
    <3>3. slot[i] = "fresh"
      BY <1>13, <3>2
    <3>4. QED
      BY <3>3
  <2>2. ~(readcursor + p > buffersize)
    BY <1>2, <1>5
  <2>3. faults' \subseteq faults \cup {"use_after_free"}
    BY <1>4, <1>6, <2>1, <2>2 DEF CopyOut, Silence, Dangling
  <2>4. QED
    BY <2>3 DEF IInv, NoGlitch
<1>16. QED
  BY <1>8, <1>9, <1>10, <1>11, <1>12, <1>14, <1>15 DEF IInv

LEMMA CbUnderrunStep ==
  ASSUME IInv, TypeOK', CbUnderrun
  PROVE  IInv'
<1>1. UNCHANGED <<ring, conf, slot, state, dev, mloc, aloc, faults>>
  BY DEF CbUnderrun
<1>2. RingPart'
  BY <1>1, RingPartFrame DEF IInv, RingPart
<1>3. ThreadsAgree' /\ ResetProgress' /\ FillPlan'
  BY <1>1 DEF IInv, ThreadsAgree, ResetProgress, FillPlan, Resetting, NeededNow,
              ring, conf, dev, mloc, aloc
<1>4. QED
  BY <1>2, <1>3 DEF IInv, RingPart

(* The second pass, entered where the request is longer than the ring: the *)
(* first has emptied it, and the mono and the surround branch see that.    *)
LEMMA CbCountStep ==
  ASSUME IInv, TypeOK', CbCount1
  PROVE  IInv'
<1> USE ConstantsAssumption
<1>1. /\ state = "RUNNING" /\ apc = "count1" /\ holder = "audio"
      /\ request \in Lengths /\ length = request
      /\ todo = Portion /\ bufferfilled <= buffersize
      /\ Fits(request, buffersize)
  BY DEF IInv, ThreadsAgree, CopyPlan, Aligned, CbCount1
<1>2. /\ bufferfilled' = bufferfilled - todo /\ length' = request - Portion
      /\ UNCHANGED <<readcursor, writecursor, conf, slot, underrun, state, paused,
                     mloc, todo, request, faults>>
  BY <1>1 DEF CbCount1
<1>3. Portion \in 1 .. buffersize /\ Portion' = Portion /\ buffersize' = buffersize
  BY <1>1, <1>2, PortionFits DEF Portion, conf
<1>4. /\ readcursor \in 0 .. (buffersize - 1) /\ writecursor \in 0 .. (buffersize - 1)
      /\ Held \in 0 .. buffersize /\ buffersize \in Nat /\ bufferfilled \in Int
      /\ Held = bufferfilled - Portion
      /\ \/ writecursor = readcursor + Held
         \/ writecursor = readcursor + Held - buffersize
  BY <1>1 DEF IInv, TypeOK, RingConsistent, Held, Pending
<1>5. request \in Nat /\ request > 0
  BY <1>1
<1>6. CASE ~(length' > 0)
  <2>1. length' = 0
    BY <1>2, <1>4, <1>5, <1>6 DEF Portion, Smaller
  <2>2. apc' = "idle" /\ holder' = "none"
    BY <2>1 DEF CbCount1
  <2>3. Held' = Held
    BY <1>1, <1>2, <1>3, <1>4, <2>2 DEF Held, Pending
  <2>4. ThreadsAgree' /\ ResetProgress' /\ FillPlan'
    BY <1>1, <1>2, <2>2 DEF IInv, ThreadsAgree, ResetProgress, FillPlan, Resetting, mloc, conf
  <2>5. request' \in Lengths /\ CopyPlan' /\ NoGlitch'
    BY <1>1, <1>2, <2>2 DEF IInv, CopyPlan, NoGlitch
  <2>6. Aligned' /\ RingConsistent' /\ SlotsMatchWindow'
    BY <1>1, <1>2, <1>3, <2>3 DEF IInv, Aligned, RingConsistent, SlotsMatchWindow, InWindow, conf
  <2>7. QED
    BY <2>4, <2>5, <2>6 DEF IInv
<1>7. CASE length' > 0
  <2>1. buffersize < request /\ Portion = buffersize
    BY <1>2, <1>4, <1>5, <1>7 DEF Portion, Smaller
  <2>2. Channels # 2
    BY <1>1, <2>1 DEF Fits
  <2>3. bufferfilled' = 0 /\ Held = 0 /\ readcursor = writecursor /\ buffersize > 0
    BY <1>1, <1>2, <1>3, <1>4, <2>1
  <2>4. apc' = "copy2" /\ holder' = "audio"
    BY <1>1, <1>7 DEF CbCount1
  <2>5. available' = SamplesAvailable(readcursor, writecursor, bufferfilled', buffersize)
    BY <1>7, <2>2 DEF CbCount1
  <2>6. available' = 0
    BY <2>3, <2>5 DEF SamplesAvailable
  <2>7. Held' = 0
    BY <2>3, <2>4 DEF Held, Pending
  <2>8. /\ request' \in Lengths /\ ThreadsAgree' /\ ResetProgress' /\ FillPlan'
        /\ NoGlitch'
    BY <1>1, <1>2, <2>4 DEF IInv, ThreadsAgree, ResetProgress, FillPlan,
       NoGlitch, Resetting, mloc, conf
  <2>9. CopyPlan'
    BY <1>1, <1>2, <1>3, <1>7, <2>4, <2>6, <2>7 DEF CopyPlan
  <2>10. Aligned' /\ RingConsistent' /\ SlotsMatchWindow'
    BY <1>1, <1>2, <1>3, <2>3, <2>7 DEF IInv, Aligned, RingConsistent, SlotsMatchWindow,
       InWindow, conf
  <2>11. QED
    BY <2>8, <2>9, <2>10 DEF IInv
<1>8. QED
  BY <1>6, <1>7

LEMMA CbSecondCopyStep ==
  ASSUME IInv, TypeOK', CbCopy("copy2", "count2")
  PROVE  IInv'
<1> USE ConstantsAssumption
<1>1. /\ state = "RUNNING" /\ apc = "copy2" /\ holder = "audio"
      /\ request \in Lengths /\ length = request - Portion /\ length > 0
      /\ available = 0 /\ Held = 0 /\ Held = bufferfilled
  BY DEF IInv, TypeOK, ThreadsAgree, CopyPlan, CbCopy, Held, Pending
<1>2. /\ CopyOut /\ apc' = "count2"
      /\ UNCHANGED <<writecursor, bufferfilled, conf, underrun, state, dev, mloc,
                     available, length, request>>
  BY DEF CbCopy
<1>3. /\ readcursor \in 0 .. (buffersize - 1) /\ buffersize \in Nat
      /\ slot \in [Index -> {"fresh", "used"}]
  BY <1>1 DEF IInv, TypeOK, RingConsistent
<1>4. Portion \in 1 .. buffersize /\ Portion' = Portion
  BY <1>1, <1>2, PortionFits DEF Portion, conf
<1>5. todo' = 0
  BY <1>1, <1>2, <1>4 DEF CopyOut, Smaller, IInv, TypeOK
<1>6. Taken(0) = {}
  BY <1>3 DEF Taken
<1>7. slot' = slot
  BY <1>2, <1>3, <1>5, <1>6 DEF CopyOut, Silence
<1>8. readcursor' = readcursor
  BY <1>2, <1>3, <1>5 DEF CopyOut, Advanced
<1>9. faults' \subseteq faults \cup {"use_after_free"}
  BY <1>2, <1>3, <1>5, <1>6 DEF CopyOut, Dangling
<1>10. Held' = 0
  BY <1>1, <1>2, <1>5 DEF Held, Pending
<1>11. /\ request' \in Lengths /\ ThreadsAgree' /\ ResetProgress' /\ FillPlan'
       /\ NoGlitch'
  BY <1>1, <1>2, <1>9 DEF IInv, ThreadsAgree, ResetProgress, FillPlan,
     NoGlitch, Resetting, mloc, conf, dev
<1>12. CopyPlan'
  BY <1>1, <1>2, <1>4, <1>5, <1>10 DEF CopyPlan
<1>13. Aligned' /\ RingConsistent' /\ SlotsMatchWindow'
  BY <1>1, <1>2, <1>4, <1>7, <1>8, <1>10 DEF IInv, Aligned, RingConsistent,
     SlotsMatchWindow, InWindow, conf
<1>14. QED
  BY <1>11, <1>12, <1>13 DEF IInv

LEMMA CbSecondCountStep ==
  ASSUME IInv, TypeOK', CbCount2
  PROVE  IInv'
<1> USE ConstantsAssumption
<1>1. /\ state = "RUNNING" /\ apc = "count2" /\ holder = "audio"
      /\ request \in Lengths /\ length = request - Portion
      /\ todo = 0 /\ Held = 0 /\ Held = bufferfilled
  BY DEF IInv, TypeOK, ThreadsAgree, CopyPlan, CbCount2, Held, Pending
<1>2. /\ bufferfilled' = bufferfilled /\ length' = length
      /\ apc' = "idle" /\ holder' = "none"
      /\ UNCHANGED <<readcursor, writecursor, conf, slot, state, paused,
                     mloc, available, todo, request, faults>>
  BY <1>1 DEF CbCount2, IInv, TypeOK
<1>3. Held' = Held /\ Portion' = Portion
  BY <1>1, <1>2 DEF Held, Pending, Portion, conf
<1>4. /\ request' \in Lengths /\ ThreadsAgree' /\ ResetProgress' /\ FillPlan'
      /\ NoGlitch' /\ CopyPlan'
  BY <1>1, <1>2 DEF IInv, ThreadsAgree, ResetProgress, FillPlan, CopyPlan,
     NoGlitch, Resetting, mloc, conf
<1>5. Aligned' /\ RingConsistent' /\ SlotsMatchWindow'
  BY <1>1, <1>2, <1>3 DEF IInv, Aligned, RingConsistent, SlotsMatchWindow, InWindow, conf
<1>6. QED
  BY <1>4, <1>5 DEF IInv

LEMMA StutterStep ==
  ASSUME IInv, UNCHANGED vars
  PROVE  IInv'
<1>1. UNCHANGED <<ring, conf, slot, underrun, state, dev, mloc, aloc, faults>>
  BY DEF vars
<1>2. TypeOK'
  BY <1>1 DEF IInv, TypeOK, ring, conf, dev, mloc, aloc
<1>3. RingPart'
  BY <1>1, RingPartFrame DEF IInv, RingPart
<1>4. ThreadsAgree' /\ ResetProgress' /\ FillPlan'
  BY <1>1 DEF IInv, ThreadsAgree, ResetProgress, FillPlan, Resetting, NeededNow,
              ring, conf, dev, mloc, aloc
<1>5. QED
  BY <1>2, <1>3, <1>4 DEF IInv, RingPart

LEMMA InitIInv == Init => IInv
<1> SUFFICES ASSUME Init
             PROVE  IInv
  OBVIOUS
<1>1. TypeOK /\ request \in Lengths
  BY ConstantsAssumption DEF Init, TypeOK
<1>2. ThreadsAgree /\ ResetProgress /\ FillPlan /\ CopyPlan
  BY DEF Init, ThreadsAgree, ResetProgress, FillPlan, CopyPlan, Resetting
<1>3. Aligned
  <2>1. FragmentSize * 0 = 0 /\ 0 \in 0 .. MaxFragments
    BY ConstantsAssumption
  <2>2. QED
    BY <2>1 DEF Init, Aligned
<1>4. RingConsistent /\ SlotsMatchWindow /\ NoGlitch
  BY DEF Init, RingConsistent, SlotsMatchWindow, NoGlitch
<1>5. QED
  BY <1>1, <1>2, <1>3, <1>4 DEF IInv

LEMMA IInvStep == Disciplined /\ RequestsFit /\ IInv /\ [Next]_vars => IInv'
<1> SUFFICES ASSUME Disciplined, RequestsFit, IInv, [Next]_vars
             PROVE  IInv'
  OBVIOUS
<1>1. TypeOK'
  BY TypeStep DEF IInv
<1>2. CASE Setter
  BY <1>1, <1>2, SetterStep
<1>3. CASE Frame
  BY <1>1, <1>3, QuietFrameStep, ResetStep, FillStep DEF Frame
<1>4. CASE Free
  BY <1>1, <1>4, QuietFrameStep
<1>5. CASE Callback
  BY <1>1, <1>5, CbUnderrunStep, CbStartStep, CbCopyStep, CbCountStep,
     CbSecondCopyStep, CbSecondCountStep DEF Callback
<1>6. CASE UNCHANGED vars
  BY <1>6, StutterStep
<1>7. QED
  BY <1>2, <1>3, <1>4, <1>5, <1>6 DEF Next, Terminated

LEMMA IInvAlways ==
  ASSUME Disciplined, RequestsFit
  PROVE  Spec => []IInv
<1>1. IInv /\ [Next]_vars => IInv'
  BY IInvStep
<1>2. QED
  BY <1>1, InitIInv, PTL DEF Spec

-----------------------------------------------------------------------------
(* Results.                                                                *)

(* The cursors and the fill count always describe one window of the ring,  *)
(* and its slots are exactly those with unplayed sound                     *)
(* (update_samples_needed and update_samples_available).                   *)
THEOREM WindowAlwaysHolds ==
  ASSUME Disciplined, RequestsFit
  PROVE  Spec => []WindowHolds
<1>1. IInv => WindowHolds
  BY DEF IInv, WindowHolds
<1>2. QED
  BY <1>1, IInvAlways, PTL

(* No frame is played twice, overwritten unplayed, or read or written      *)
(* outside the buffer, for any number of channels.                         *)
THEOREM NeverGlitches ==
  ASSUME Disciplined, RequestsFit
  PROVE  Spec => []NoGlitch
<1>1. IInv => NoGlitch
  BY DEF IInv
<1>2. QED
  BY <1>1, IInvAlways, PTL

(* The two-call fill of synth_frame leaves the ring full.                  *)
THEOREM FrameAlwaysFills ==
  ASSUME Disciplined, RequestsFit
  PROVE  Spec => []FrameLeavesFull
<1>1. IInv => FrameLeavesFull
  BY DEF IInv, FillPlan, FrameLeavesFull
<1>2. QED
  BY <1>1, IInvAlways, PTL

(* An underrun is reported only on an empty ring.                          *)
THEOREM UnderrunIsReal ==
  ASSUME Disciplined, RequestsFit
  PROVE  Spec => UnderrunMeansEmpty
<1>1. IInv /\ [Next]_vars => [underrun = 0 /\ underrun' = 1 => bufferfilled' = 0]_vars
  <2>1. SUFFICES ASSUME IInv, Next, underrun = 0, underrun' = 1
                 PROVE  bufferfilled' = 0
    OBVIOUS
  <2>2. CbUnderrun \/ CbCount2
    BY <2>1
       DEF Next, Setter, Frame, Callback, Terminated, vars, Free,
           Disable, Enable, HasUnderrun, SetFragments, SetFragmentsNoArray,
           SetFragmentsNoMemory, ResetStart, ResetRead, ResetWrite, ResetFill,
           ResetRun, FramePeek, FrameJudge, FrameLock, FrameFill1, FrameFill2,
           FrameUnlock, FrameFail, CbStart, CbCopy, CbCount1
  <2>3. CASE CbUnderrun
    <3>1. /\ state = "RUNNING" /\ Held = bufferfilled /\ bufferfilled' = bufferfilled
          /\ AvailableNow = 0
      BY <2>1, <2>3 DEF IInv, TypeOK, ThreadsAgree, CbUnderrun, Held, Pending, ring
    <3>2. QED
      BY <2>1, <3>1, ConstantsAssumption
         DEF IInv, TypeOK, RingConsistent, AvailableNow, SamplesAvailable, Unsigned
  <2>4. CASE CbCount2
    BY <2>1, <2>4 DEF IInv, TypeOK, CopyPlan, CbCount2, Held, Pending
  <2>5. QED
    BY <2>2, <2>3, <2>4
<1>2. QED
  BY <1>1, IInvAlways, PTL DEF Spec, UnderrunMeansEmpty

-----------------------------------------------------------------------------
(* Refinement.                                                             *)

LEMMA QueueStep ==
  IInv /\ IInv' /\ [Next]_vars => [Queue!Next]_(Queue!vars)
<1> DEFINE level == IF state = "RUNNING" THEN Held ELSE 0
           playing == state = "RUNNING"
<1> SUFFICES ASSUME IInv, IInv', [Next]_vars
             PROVE  [Queue!Next]_(Queue!vars)
  OBVIOUS
<1> USE DEF Queue!Next, Queue!vars, Queue!Configure, Queue!Start, Queue!Put,
            Queue!Take, Queue!Stop
<1>1. CASE state # "RUNNING" /\ state' # "RUNNING"
  BY <1>1 DEF IInv, TypeOK
<1>2. CASE state # "RUNNING" /\ state' = "RUNNING"
  <2>1. ResetRun
    BY <1>2 DEF Next, Setter, Frame, Callback, Terminated, vars, Free,
           Disable, Enable, HasUnderrun, SetFragments, SetFragmentsNoArray,
           SetFragmentsNoMemory, ResetStart, ResetRead, ResetWrite, ResetFill,
           FramePeek, FrameJudge, FrameLock, FrameFill1, FrameFill2,
           FrameUnlock, FrameFail, CbUnderrun, CbStart, CbCopy, CbCount1, CbCount2
  <2>2. Held' = buffersize /\ buffersize' = buffersize
    BY <1>2, <2>1 DEF IInv, TypeOK, ThreadsAgree, ResetProgress, Resetting, ResetRun,
                      Held, Pending, conf, aloc
  <2>3. QED
    BY <1>2, <2>2
<1>3. CASE state = "RUNNING" /\ state' # "RUNNING"
  <2>1. buffersize' = buffersize
    BY <1>3 DEF Next, Setter, Frame, Callback, Terminated, vars, Free, conf,
           Disable, Enable, HasUnderrun, SetFragments, SetFragmentsNoArray,
           SetFragmentsNoMemory, ResetStart, ResetRead, ResetWrite, ResetFill, ResetRun,
           FramePeek, FrameJudge, FrameLock, FrameFill1, FrameFill2,
           FrameUnlock, FrameFail, CbUnderrun, CbStart, CbCopy, CbCount1, CbCount2
  <2>2. QED
    BY <1>3, <2>1
<1>4. CASE state = "RUNNING" /\ state' = "RUNNING"
  <2>1. buffersize' = buffersize
    BY <1>4 DEF Next, Setter, Frame, Callback, Terminated, vars, Free, conf,
           Disable, Enable, HasUnderrun, SetFragments, SetFragmentsNoArray,
           SetFragmentsNoMemory, ResetStart, ResetRead, ResetWrite, ResetFill, ResetRun,
           FramePeek, FrameJudge, FrameLock, FrameFill1, FrameFill2,
           FrameUnlock, FrameFail, CbUnderrun, CbStart, CbCopy, CbCount1, CbCount2
  <2>2. /\ Held \in 0 .. buffersize /\ Held' \in 0 .. buffersize
        /\ buffersize \in Nat
    BY <1>4, <2>1 DEF IInv, TypeOK, RingConsistent
  <2>3. Held' \in Held .. buffersize \/ Held' \in 0 .. Held
    BY <2>2
  <2>4. QED
    BY <1>4, <2>1, <2>3
<1>5. QED
  BY <1>1, <1>2, <1>3, <1>4

(* The ring, its two threads and its setters implement the bounded queue.  *)
THEOREM RingImplementsQueue ==
  ASSUME Disciplined, RequestsFit
  PROVE  Spec => ImplementsQueue
<1>1. Init => Queue!Init
  BY DEF Init, Queue!Init
<1>2. QED
  BY <1>1, QueueStep, IInvAlways, PTL DEF Spec, ImplementsQueue, Queue!Spec
=============================================================================
