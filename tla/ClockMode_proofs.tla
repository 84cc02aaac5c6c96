--------------------------- MODULE ClockMode_proofs ---------------------------
(***************************************************************************)
(* What is proved of trigger mode Clock, for every sample length, every    *)
(* block size, every set of windows, subdivisions, styles and slices:      *)
(* its types, that the tick clock never runs away from the playhead, that  *)
(* a window is drawn exactly once, and that all its ticks play the slice   *)
(* it drew.  The tick clock and the single draw need a host that does not  *)
(* relocate while it plays, the slice lists that differ at the right end   *)
(* only.                                                                   *)
(***************************************************************************)
EXTENDS ClockMode, PickRenderer_proofs

(* A combination whose slice exists in the block's list.                   *)
LEMMA ComboSlice ==
    ASSUME TypeOK, NEW c, SliceExists(c)
    PROVE  slices[c.slice] \in SliceIds
  <1>1. slices \in Seq(SliceIds)
    BY ClockAssumption DEF TypeOK
  <1>. QED  BY <1>1, ElementOfSeq DEF SliceExists

(* The declared length of a tick's pick is a length.                       *)
LEMMA TickLengthType ==
    ASSUME TypeOK, NEW c \in [slice : Nat \ {0}, sub : Subdivisions, style : Styles],
           SliceExists(c), NEW w \in Nat
    PROVE  TickLength(c, w) \in Nat
  <1>1. /\ slices[c.slice] \in SliceIds
        /\ c.style \in PlaybackStyles
        /\ c.sub \in Nat
    BY ComboSlice, ClockAssumption
  <1>2. PassLength(c.style, slices[c.slice]) \in Nat
    BY <1>1, PassLengthType
  <1>. QED  BY <1>1, <1>2 DEF TickLength, Least

(* A tick leaves a voice and a tick position.                              *)
LEMMA TickTypes ==
    ASSUME TypeOK, NEW c \in [slice : Nat \ {0}, sub : Subdivisions, style : Styles],
           NEW w \in Nat, NEW end \in Int, Tick(c, w, end)
    PROVE  voice' \in Voices /\ nextTick' \in Int
  <1>1. c.sub \in Nat /\ c.style \in PlaybackStyles
    BY ClockAssumption
  <1>2. nextTick' \in Int
    BY <1>1 DEF Tick, FollowingTick, TypeOK
  <1>3. CASE ~SliceExists(c)
    BY <1>2, <1>3, ClearPickType, RenderSampleType DEF Tick, TypeOK
  <1>4. CASE SliceExists(c)
    <2>. DEFINE length == TickLength(c, w)
                stop == IF c.style = "tapeStop" THEN length
                        ELSE SliceLen[slices[c.slice]]
    <2>1. slices[c.slice] \in SliceIds
      BY <1>4, ComboSlice
    <2>2. length \in Nat
      BY <1>4, TickLengthType
    <2>3. stop \in Int
      <3>. HIDE DEF length
      <3>. QED  BY <2>1, <2>2, RendererAssumption
    <2>4. voice' = RenderSample(StartPick(slices[c.slice], c.style, length, stop, FALSE))
      BY <1>4 DEF Tick
    <2>5. StartPick(slices[c.slice], c.style, length, stop, FALSE) \in Voices
      <3>1. length \in Int /\ FALSE \in BOOLEAN
        BY <2>2
      <3>. HIDE DEF length, stop
      <3>. QED  BY <1>1, <2>1, <2>3, <3>1, StartPickType
    <2>. QED  BY <1>2, <2>4, <2>5, RenderSampleType
  <1>. QED  BY <1>3, <1>4

(* The types of every variable are as declared: in particular every pick   *)
(* plays a slice that exists, with a length, whatever the trim did to the  *)
(* list since the window was drawn.                                        *)
THEOREM ClockTypes == Spec => []TypeOK
  <1>1. Init => TypeOK
    <2>. SUFFICES ASSUME Init PROVE TypeOK
      OBVIOUS
    <2>1. IdleVoice \in Voices
      BY DEF IdleVoice, Voices, PlaybackStyles
    <2>2. HostTypeOK
      BY HostAssumption DEF Init, HostInit, HostTypeOK
    <2>3. NotDrawn \in [at : Int, grid : Nat, index : Nat, slice : SliceIds \cup {NoSlice}]
      BY DEF NotDrawn
    <2>4. combo \in [slice : Nat \ {0}, sub : Subdivisions, style : Styles]
      <3>1. combo \in [slice : {1}, sub : Subdivisions, style : Styles]
        BY DEF Init
      <3>. QED  BY <3>1
    <2>5. /\ armed \in BOOLEAN /\ shifted \in BOOLEAN /\ pickValid \in BOOLEAN /\ tapeWhole \in BOOLEAN
          /\ voice \in Voices /\ slices \in SliceLists /\ reference \in References
      BY <2>1, Zenon DEF Init
    <2>7. windowEnd \in Int /\ windowLen \in Nat /\ nextTick \in Int
      BY DEF Init
    <2>6. drawn \in [at : Int, grid : Nat, index : Nat, slice : SliceIds \cup {NoSlice}]
      BY <2>3 DEF Init
    <2>. QED  BY <2>2, <2>4, <2>5, <2>6, <2>7 DEF TypeOK
  <1>2. TypeOK /\ [Next]_vars => TypeOK'
    <2>. SUFFICES ASSUME TypeOK, [Next]_vars PROVE TypeOK'
      OBVIOUS
    <2>1. CASE BeginBlock
      <3>1. HostTypeOK'
        BY <2>1, HostMoves DEF BeginBlock, TypeOK
      <3>2. ReadSnapshot
        BY <2>1 DEF BeginBlock
      <3>3. CASE armed
        <4>1. GoOn
          BY <2>1, <3>3 DEF BeginBlock
        <4>2. shifted' \in BOOLEAN
          BY <4>1, Zenon DEF GoOn, TypeOK
        <4>. QED  BY <3>1, <3>2, <4>1, <4>2 DEF GoOn, ReadSnapshot, TypeOK
      <3>4. CASE ~armed
        <4>1. Arm
          BY <2>1, <3>4 DEF BeginBlock
        <4>2. windowEnd' \in Int
          BY <4>1, <3>1, <3>2, NextBoundaryAhead, ClockAssumption
          DEF Arm, ReadSnapshot, HostTypeOK
        <4>3. drawn' \in [at : Int, grid : Nat, index : Nat, slice : SliceIds \cup {NoSlice}]
          BY <4>1 DEF Arm, NotDrawn
        <4>. QED  BY <3>1, <3>2, <4>1, <4>2, <4>3
                  DEF Arm, ReadSnapshot, TypeOK, HostTypeOK
      <3>. QED  BY <3>3, <3>4 DEF TypeOK
    <2>2. CASE BypassBlock
      <3>1. HostTypeOK'
        BY <2>2, HostMoves DEF BypassBlock, TypeOK
      <3>. QED  BY <2>2, <3>1, ClearPickType
                DEF BypassBlock, ReadSnapshot, TypeOK, clockVars
    <2>3. CASE OpenWindow
      <3>1. HostTypeOK'
        BY <2>3, HostMoves DEF OpenWindow, TypeOK
      <3>2. PICK c \in [slice : DOMAIN slices, sub : Subdivisions, style : Styles] :
              /\ combo' = c
              /\ drawn' = [at |-> ppq, grid |-> reference, index |-> c.slice,
                           slice |-> slices[c.slice]]
              /\ Tick(c, reference, windowEnd')
        BY <2>3 DEF OpenWindow
      <3>3. c \in [slice : Nat \ {0}, sub : Subdivisions, style : Styles]
        BY <3>2, ClockAssumption DEF TypeOK
      <3>4. windowEnd' \in Int /\ reference \in Nat
        BY <2>3, NextBoundaryAhead, ClockAssumption
        DEF OpenWindow, TypeOK, HostTypeOK
      <3>5. voice' \in Voices /\ nextTick' \in Int
        BY <3>2, <3>3, <3>4, TickTypes
      <3>6. drawn' \in [at : Int, grid : Nat, index : Nat, slice : SliceIds \cup {NoSlice}]
        BY <3>2, <3>4, ClockAssumption DEF TypeOK, HostTypeOK
      <3>. QED  BY <2>3, <3>1, <3>2, <3>3, <3>4, <3>5, <3>6
                DEF OpenWindow, TypeOK, blockVars
    <2>4. CASE RetriggerTick
      <3>1. HostTypeOK'
        BY <2>4, HostMoves DEF RetriggerTick, TypeOK
      <3>2. voice' \in Voices /\ nextTick' \in Int
        BY <2>4, TickTypes DEF RetriggerTick, TypeOK
      <3>. QED  BY <2>4, <3>1, <3>2 DEF RetriggerTick, TypeOK, blockVars
    <2>5. CASE HoldSample
      <3>1. HostTypeOK'
        BY <2>5, HostMoves DEF HoldSample, TypeOK
      <3>2. voice' \in Voices
        BY <2>5, RenderSampleType DEF HoldSample, TypeOK
      <3>. QED  BY <2>5, <3>1, <3>2
                DEF HoldSample, TypeOK, blockVars, clockVars
    <2>6. CASE UNCHANGED vars
      BY <2>6 DEF vars, hostVars, blockVars, clockVars, TypeOK, HostTypeOK
    <2>. QED  BY <2>1, <2>2, <2>3, <2>4, <2>5, <2>6 DEF Next
  <1>. QED  BY <1>1, <1>2, PTL DEF Spec

-----------------------------------------------------------------------------
(* A tick of a window that ends ahead of the playhead leaves the next tick *)
(* no more than a sample late, no further ahead than its subdivision or,   *)
(* for the styles that may span it, the window, and inside the window.     *)
LEMMA TickPosition ==
    ASSUME TypeOK,
           NEW c \in [slice : Nat \ {0}, sub : Subdivisions, style : Styles],
           NEW w \in Nat, NEW end \in Int,
           Tick(c, w, end),
           nextTick <= ppq, ppq - nextTick < PpqPerSample,
           ppq < end, end - ppq <= w
    PROVE  LET next == ppq + PpqPerSample IN
           /\ next - nextTick' < PpqPerSample
           /\ nextTick' <= end
           /\ nextTick' - next <= Reach(c, w)
  <1>1. /\ PpqPerSample \in Nat \ {0} /\ c.sub \in Nat /\ c.sub >= PpqPerSample
        /\ nextTick \in Int /\ ppq \in Int
    BY HostAssumption, ClockAssumption DEF TypeOK, HostTypeOK
  <1>2. nextTick' = FollowingTick(c, end)
    BY DEF Tick
  <1>3. CASE nextTick' = end /\ SliceExists(c) /\ ContinuousRender(c)
    BY <1>1, <1>3 DEF ContinuousRender, Reach
  <1>4. CASE nextTick' = end /\ nextTick + c.sub > end
    BY <1>1, <1>4 DEF Reach
  <1>5. CASE nextTick' = nextTick + c.sub /\ nextTick + c.sub <= end
    BY <1>1, <1>5 DEF Reach
  <1>. QED  BY <1>1, <1>2, <1>3, <1>4, <1>5 DEF FollowingTick

(* The inductive invariant of the tick clock.                              *)
LEMMA ClockTickInvariant == ASSUME ~Relocates PROVE Spec => []TickClockInv
  <1>1. Init => TickClockInv
    BY DEF Init, HostInit, TickClockInv, EveryTickRetriggers
  <1>2. TypeOK /\ TickClockInv /\ [Next]_vars => TickClockInv'
    <2>. SUFFICES ASSUME TypeOK, TickClockInv, [Next]_vars PROVE TickClockInv'
      OBVIOUS
    <2>0. /\ PpqPerSample \in Nat \ {0} /\ ppq \in Int /\ left \in Nat
          /\ nextTick \in Int /\ windowEnd \in Int /\ windowLen \in Nat
          /\ reference \in Nat \ {0}
      BY HostAssumption, ClockAssumption DEF TypeOK, HostTypeOK
    <2>1. CASE BeginBlock
      <3>1. playing'
        BY <2>1 DEF BeginBlock, HostBlock
      <3>2. CASE armed
        <4>1. playing /\ \E size \in BlockSizes : HostBlock(TRUE, size, TRUE)
          BY <2>1, <3>2 DEF BeginBlock, TickClockInv
        <4>3. ppq' = ppq
          BY <4>1, Zenon DEF HostBlock
        <4>2. UNCHANGED <<armed, windowEnd, windowLen, nextTick, pickValid, combo>>
          BY <2>1, <3>2 DEF BeginBlock, GoOn
        <4>. QED  BY <3>1, <3>2, <4>2, <4>3 DEF TickClockInv, EveryTickRetriggers, Reach
      <3>3. CASE ~armed
        <4>1. Arm
          BY <2>1, <3>3 DEF BeginBlock
        <4>2. PICK p \in Int : ppq' = p
          BY <2>1, HostMoves DEF BeginBlock, TypeOK, HostTypeOK
        <4>3. armed' /\ ~pickValid'
          BY <4>1, Zenon DEF Arm
        <4>4. nextTick' = p
          BY <4>1, <4>2, Zenon DEF Arm
        <4>5. ppq' - nextTick' < PpqPerSample /\ nextTick' <= ppq'
          BY <2>0, <4>2, <4>4
        <4>. QED  BY <3>1, <4>3, <4>5
                  DEF TickClockInv, EveryTickRetriggers, Reach
      <3>. QED  BY <3>2, <3>3
    <2>2. CASE BypassBlock
      BY <2>2 DEF BypassBlock, HostBlock, TickClockInv, EveryTickRetriggers, Reach
    <2>3. CASE OpenWindow
      <3>1. armed /\ playing /\ armed' /\ playing' /\ ppq' = ppq + PpqPerSample
        BY <2>3 DEF OpenWindow, HostSample, TickClockInv
      <3>2. PICK c \in [slice : DOMAIN slices, sub : Subdivisions, style : Styles] :
              combo' = c /\ Tick(c, reference, windowEnd')
        BY <2>3 DEF OpenWindow
      <3>3. c \in [slice : Nat \ {0}, sub : Subdivisions, style : Styles]
        BY <3>2, ClockAssumption DEF TypeOK
      <3>4. PICK end \in Int : /\ windowEnd' = end
                               /\ ppq < end /\ end - ppq <= reference
        BY <2>0, <2>3, NextBoundaryAhead DEF OpenWindow
      <3>5. nextTick <= ppq /\ ppq - nextTick < PpqPerSample
        BY <2>0, <2>3, <3>1 DEF OpenWindow, TickDue, TickClockInv, EveryTickRetriggers
      <3>6. /\ ppq' - nextTick' < PpqPerSample
            /\ nextTick' - ppq' <= Reach(c, reference)
        BY <2>0, <3>1, <3>2, <3>3, <3>4, <3>5, TickPosition
      <3>8. combo' = c /\ windowLen' = reference /\ pickValid'
        BY <2>3, <3>2, Zenon DEF OpenWindow
      <3>7. windowEnd' - ppq' <= windowLen'
        BY <2>0, <3>1, <3>4, <3>8
      <3>9. nextTick' - ppq' <= Reach(combo', windowLen')
        BY <3>6, <3>8 DEF Reach
      <3>. QED  BY <3>1, <3>6, <3>7, <3>8, <3>9
                DEF TickClockInv, EveryTickRetriggers, Reach
    <2>4. CASE RetriggerTick
      <3>1. armed /\ playing /\ armed' /\ playing' /\ ppq' = ppq + PpqPerSample
        BY <2>4 DEF RetriggerTick, HostSample, TickClockInv
      <3>2. /\ Tick(combo, windowLen, windowEnd)
            /\ UNCHANGED <<combo, windowEnd, windowLen, pickValid>>
            /\ pickValid /\ ppq < windowEnd /\ nextTick <= ppq
        BY <2>0, <2>4 DEF RetriggerTick, WindowOver, TickDue
      <3>3. combo \in [slice : Nat \ {0}, sub : Subdivisions, style : Styles]
        BY DEF TypeOK
      <3>4. windowEnd - ppq <= windowLen /\ ppq - nextTick < PpqPerSample
        BY <3>1, <3>2 DEF TickClockInv, EveryTickRetriggers
      <3>5. /\ ppq' - nextTick' < PpqPerSample
            /\ nextTick' - ppq' <= Reach(combo, windowLen)
        BY <2>0, <3>1, <3>2, <3>3, <3>4, TickPosition
      <3>6. windowEnd' - ppq' <= windowLen'
        BY <2>0, <3>1, <3>2, <3>4
      <3>7. combo' = combo /\ windowLen' = windowLen /\ pickValid'
        BY <3>2
      <3>. QED  BY <3>1, <3>5, <3>6, <3>7
                DEF TickClockInv, EveryTickRetriggers, Reach
    <2>5. CASE HoldSample
      <3>1. armed /\ playing /\ ppq' = ppq + PpqPerSample /\ ppq < nextTick
        BY <2>0, <2>5 DEF HoldSample, HostSample, TickDue, TickClockInv
      <3>2. UNCHANGED <<armed, playing, clockVars>>
        BY <2>5 DEF HoldSample, HostSample
      <3>3. combo.sub \in Nat
        BY ClockAssumption DEF TypeOK
      <3>. QED  BY <2>0, <3>1, <3>2, <3>3 DEF clockVars, TickClockInv, EveryTickRetriggers, Reach
    <2>6. CASE UNCHANGED vars
      BY <2>6 DEF vars, hostVars, clockVars, TickClockInv, EveryTickRetriggers, Reach
    <2>. QED  BY <2>1, <2>2, <2>3, <2>4, <2>5, <2>6 DEF Next
  <1>. QED  BY <1>1, <1>2, ClockTypes, PTL DEF Spec

(* The tick clock never runs away from the playhead, whatever the lengths  *)
(* of blocks, windows and subdivisions: so every subdivision tick of a     *)
(* window is found, by the first sample at or after it.                    *)
THEOREM ClockTicks == ASSUME ~Relocates PROVE Spec => []EveryTickRetriggers
  <1>1. TickClockInv => EveryTickRetriggers
    BY DEF TickClockInv
  <1>. QED  BY <1>1, ClockTickInvariant, PTL

-----------------------------------------------------------------------------
(* The place the next tick lies in never passes the window that was drawn. *)
LEMMA ClockWindowInvariant == ASSUME ~Relocates PROVE Spec => []WindowInv
  <1>1. Init => WindowInv
    BY DEF Init, WindowInv
  <1>2. TypeOK /\ TickClockInv /\ WindowInv /\ [Next]_vars => WindowInv'
    <2>. SUFFICES ASSUME TypeOK, TickClockInv, WindowInv, [Next]_vars
                  PROVE  WindowInv'
      OBVIOUS
    <2>0. /\ PpqPerSample \in Nat \ {0} /\ ppq \in Int
          /\ nextTick \in Int /\ windowEnd \in Int /\ windowLen \in Nat
          /\ reference \in Nat \ {0}
      BY HostAssumption, ClockAssumption DEF TypeOK, HostTypeOK
    <2>1. CASE BeginBlock
      <3>1. CASE armed
        BY <2>1, <3>1 DEF BeginBlock, GoOn, WindowInv
      <3>2. CASE ~armed
        <4>1. ~pickValid' /\ drawn' = NotDrawn
          BY <2>1, <3>2, Zenon DEF BeginBlock, Arm
        <4>. QED  BY <4>1 DEF WindowInv
      <3>. QED  BY <3>1, <3>2
    <2>2. CASE BypassBlock
      BY <2>2 DEF BypassBlock, WindowInv
    <2>3. CASE OpenWindow
      <3>1. armed
        BY <2>3 DEF OpenWindow, HostSample, TickClockInv
      <3>2. PICK c \in [slice : DOMAIN slices, sub : Subdivisions, style : Styles] :
              /\ drawn' = [at |-> ppq, grid |-> reference, index |-> c.slice,
                           slice |-> slices[c.slice]]
              /\ Tick(c, reference, windowEnd')
        BY <2>3 DEF OpenWindow
      <3>3. c \in [slice : Nat \ {0}, sub : Subdivisions, style : Styles]
        BY <3>2, ClockAssumption DEF TypeOK
      <3>4. PICK end \in Int : /\ windowEnd' = end
                               /\ end = NextBoundary(ppq, reference)
                               /\ ppq < end /\ end - ppq <= reference
        BY <2>0, <2>3, NextBoundaryAhead DEF OpenWindow
      <3>5. nextTick <= ppq /\ ppq - nextTick < PpqPerSample
        BY <2>0, <2>3, <3>1 DEF OpenWindow, TickDue, TickClockInv, EveryTickRetriggers
      <3>6. nextTick' <= windowEnd'
        BY <2>0, <3>2, <3>3, <3>4, <3>5, TickPosition
      <3>7. pickValid'
        BY <2>3, Zenon DEF OpenWindow
      <3>8. drawn'.at = ppq /\ drawn'.grid = reference
        BY <3>2
      <3>9. drawn' # NotDrawn
        BY <2>0, <3>8 DEF NotDrawn
      <3>10. windowEnd' = NextBoundary(drawn'.at, drawn'.grid)
        BY <3>4, <3>8
      <3>. QED  BY <3>6, <3>7, <3>9, <3>10 DEF WindowInv
    <2>4. CASE RetriggerTick
      <3>1. armed
        BY <2>4 DEF RetriggerTick, HostSample, TickClockInv
      <3>2. /\ Tick(combo, windowLen, windowEnd)
            /\ UNCHANGED <<combo, windowEnd, windowLen, pickValid, drawn>>
            /\ pickValid /\ ppq < windowEnd /\ nextTick <= ppq
        BY <2>0, <2>4 DEF RetriggerTick, WindowOver, TickDue
      <3>3. combo \in [slice : Nat \ {0}, sub : Subdivisions, style : Styles]
        BY DEF TypeOK
      <3>4. windowEnd - ppq <= windowLen /\ ppq - nextTick < PpqPerSample
        BY <3>1, <3>2 DEF TickClockInv, EveryTickRetriggers
      <3>5. nextTick' <= windowEnd
        BY <2>0, <3>2, <3>3, <3>4, TickPosition
      <3>. QED  BY <3>1, <3>2, <3>5 DEF WindowInv
    <2>5. CASE HoldSample
      <3>1. UNCHANGED <<armed, clockVars>>
        BY <2>5 DEF HoldSample
      <3>. QED  BY <3>1 DEF clockVars, WindowInv
    <2>6. CASE UNCHANGED vars
      BY <2>6 DEF vars, clockVars, WindowInv
    <2>. QED  BY <2>1, <2>2, <2>3, <2>4, <2>5, <2>6 DEF Next
  <1>. QED  BY <1>1, <1>2, ClockTypes, ClockTickInvariant, PTL DEF Spec

(* One weighted draw per window: a draw that follows a draw happens on the *)
(* first sample of the next window of the grid the window was drawn on.    *)
THEOREM ClockDraws == ASSUME ~Relocates PROVE Spec => OneDrawPerWindow
  <1>. DEFINE OnGrid ==
         drawn # NotDrawn /\ drawn' \notin {drawn, NotDrawn} =>
            LET boundary == NextBoundary(drawn.at, drawn.grid)
            IN  drawn'.at \in boundary .. (boundary + PpqPerSample - 1)
  <1>1. TypeOK /\ TickClockInv /\ WindowInv /\ [Next]_vars => [OnGrid]_vars
    <2>. SUFFICES ASSUME TypeOK, TickClockInv, WindowInv, Next,
                         drawn # NotDrawn, drawn' \notin {drawn, NotDrawn}
                  PROVE  LET boundary == NextBoundary(drawn.at, drawn.grid)
                         IN  drawn'.at \in boundary .. (boundary + PpqPerSample - 1)
      OBVIOUS
    <2>1. OpenWindow
      BY DEF Next, BeginBlock, GoOn, Arm, BypassBlock, RetriggerTick, HoldSample,
             clockVars
    <2>2. armed /\ pickValid
      BY <2>1 DEF OpenWindow, HostSample, TickClockInv, WindowInv
    <2>3. /\ PpqPerSample \in Nat \ {0} /\ ppq \in Int
          /\ nextTick \in Int /\ windowEnd \in Int
      BY HostAssumption DEF TypeOK, HostTypeOK
    <2>4. ppq >= windowEnd /\ ppq - nextTick < PpqPerSample
      BY <2>1, <2>2 DEF OpenWindow, WindowOver, TickClockInv, EveryTickRetriggers
    <2>5. nextTick <= windowEnd /\ windowEnd = NextBoundary(drawn.at, drawn.grid)
      BY <2>2 DEF WindowInv
    <2>6. drawn'.at = ppq
      BY <2>1 DEF OpenWindow
    <2>7. ppq \in windowEnd .. (windowEnd + PpqPerSample - 1)
      BY <2>3, <2>4, <2>5
    <2>. QED  BY <2>5, <2>6, <2>7
  <1>. QED  BY <1>1, ClockTypes, ClockTickInvariant, ClockWindowInvariant, PTL
            DEF Spec, OneDrawPerWindow

-----------------------------------------------------------------------------
(* Rendering plays no other slice, and brings no pick back.                *)
LEMMA RenderKeepsSlice ==
    ASSUME NEW v \in Voices
    PROVE  /\ RenderSample(v).slice = v.slice
           /\ RenderSample(v).active => v.active
  <1>1. CASE Finished(v)
    BY <1>1 DEF RenderSample
  <1>2. CASE ~Finished(v)
    <2>1. v.active
      BY <1>2 DEF Finished
    <2>. QED  BY <1>2, <2>1 DEF RenderSample, Voices
  <1>. QED  BY <1>1, <1>2

(* A tick plays the slice its index means in the block's list, or nothing. *)
LEMMA TickPlays ==
    ASSUME TypeOK, NEW c \in [slice : Nat \ {0}, sub : Subdivisions, style : Styles],
           NEW w \in Nat, NEW end \in Int, Tick(c, w, end), voice'.active
    PROVE  SliceExists(c) /\ voice'.slice = slices[c.slice]
  <1>1. CASE SliceExists(c)
    <2>. DEFINE length == TickLength(c, w)
                stop == IF c.style = "tapeStop" THEN length
                        ELSE SliceLen[slices[c.slice]]
                pick == StartPick(slices[c.slice], c.style, length, stop, FALSE)
    <2>1. slices[c.slice] \in SliceIds /\ c.style \in PlaybackStyles
      BY <1>1, ComboSlice, ClockAssumption
    <2>2. length \in Int
      BY <1>1, TickLengthType
    <2>3. stop \in Int
      <3>. HIDE DEF length
      <3>. QED  BY <2>1, <2>2, RendererAssumption
    <2>4. pick \in Voices
      <3>1. FALSE \in BOOLEAN
        OBVIOUS
      <3>. HIDE DEF length, stop
      <3>. QED  BY <2>1, <2>2, <2>3, <3>1, StartPickType
    <2>5. voice' = RenderSample(pick)
      BY <1>1 DEF Tick
    <2>6. pick.slice = slices[c.slice]
      BY DEF StartPick
    <2>7. voice'.slice = pick.slice
      <3>. HIDE DEF pick
      <3>. QED  BY <2>4, <2>5, RenderKeepsSlice
    <2>. QED  BY <1>1, <2>6, <2>7
  <1>2. CASE ~SliceExists(c)
    <2>1. voice' = RenderSample(ClearPick(voice)) /\ ClearPick(voice) \in Voices
      BY <1>2, ClearPickType DEF Tick, TypeOK
    <2>2. ClearPick(voice).active
      BY <2>1, RenderKeepsSlice
    <2>. QED  BY <2>2 DEF ClearPick, TypeOK, Voices
  <1>. QED  BY <1>1, <1>2

(* The combination a window keeps is the drawn one, and the voice plays it *)
(* until a list with another slice at its index comes.                     *)
LEMMA ClockComboInvariant == Spec => [](ComboInv /\ SameSliceInWindow)
  <1>. DEFINE Inv == ComboInv /\ SameSliceInWindow
  <1>1. Init => Inv
    BY DEF Init, ComboInv, SameSliceInWindow
  <1>2. TypeOK /\ Inv /\ [Next]_vars => Inv'
    <2>. SUFFICES ASSUME TypeOK, ComboInv, SameSliceInWindow, [Next]_vars
                  PROVE  ComboInv' /\ SameSliceInWindow'
      OBVIOUS
    <2>1. CASE BeginBlock
      <3>1. CASE armed
        <4>1. GoOn
          BY <2>1, <3>1 DEF BeginBlock
        <4>2. /\ UNCHANGED <<armed, voice, pickValid, combo, drawn>>
              /\ ~shifted' => ~shifted
          BY <4>1 DEF GoOn
        <4>3. ~shifted' /\ drawn.index \in DOMAIN slices' =>
                 slices'[drawn.index] = drawn.slice
          BY <4>1 DEF GoOn
        <4>. QED  BY <4>2, <4>3 DEF ComboInv, SameSliceInWindow
      <3>2. CASE ~armed
        <4>1. ~pickValid' /\ drawn' = NotDrawn
          BY <2>1, <3>2, Zenon DEF BeginBlock, Arm
        <4>2. drawn'.index \notin DOMAIN slices'
          BY <2>1, <4>1, ClockAssumption DEF BeginBlock, ReadSnapshot, NotDrawn
        <4>. QED  BY <4>1, <4>2 DEF ComboInv, SameSliceInWindow
      <3>. QED  BY <3>1, <3>2
    <2>2. CASE BypassBlock
      BY <2>2 DEF BypassBlock, ComboInv, SameSliceInWindow
    <2>3. CASE OpenWindow
      <3>1. PICK c \in [slice : DOMAIN slices, sub : Subdivisions, style : Styles] :
              /\ combo' = c
              /\ drawn' = [at |-> ppq, grid |-> reference, index |-> c.slice,
                           slice |-> slices[c.slice]]
              /\ Tick(c, reference, windowEnd')
        BY <2>3 DEF OpenWindow
      <3>2. /\ c \in [slice : Nat \ {0}, sub : Subdivisions, style : Styles]
            /\ c.slice \in DOMAIN slices /\ slices \in SliceLists
        BY <3>1, ClockAssumption DEF TypeOK
      <3>3. windowEnd' \in Int /\ reference \in Nat \ {0}
        BY <2>3, NextBoundaryAhead, ClockAssumption
        DEF OpenWindow, TypeOK, HostTypeOK
      <3>4. /\ combo'.slice = drawn'.index
            /\ drawn'.slice = slices[combo'.slice] /\ drawn' # NotDrawn
        BY <3>1, <3>3 DEF NotDrawn
      <3>5. pickValid'
        BY <2>3, Zenon DEF OpenWindow
      <3>6. slices'[combo'.slice] = drawn'.slice
        BY <2>3, <3>4 DEF OpenWindow, blockVars
      <3>7. voice'.active => voice'.slice = drawn'.slice
        BY <3>1, <3>2, <3>3, <3>4, TickPlays
      <3>. QED  BY <3>4, <3>5, <3>6, <3>7 DEF ComboInv, SameSliceInWindow
    <2>4. CASE RetriggerTick
      <3>1. /\ Tick(combo, windowLen, windowEnd)
            /\ UNCHANGED <<armed, combo, pickValid, drawn, shifted, slices>>
            /\ pickValid
        BY <2>4 DEF RetriggerTick, WindowOver, blockVars
      <3>2. /\ combo \in [slice : Nat \ {0}, sub : Subdivisions, style : Styles]
            /\ windowLen \in Nat /\ windowEnd \in Int
        BY DEF TypeOK
      <3>3. armed /\ ~shifted /\ voice'.active => voice'.slice = drawn.slice
        BY <3>1, <3>2, TickPlays DEF ComboInv, SliceExists
      <3>. QED  BY <3>1, <3>3 DEF ComboInv, SameSliceInWindow
    <2>5. CASE HoldSample
      <3>1. UNCHANGED <<armed, slices, clockVars>> /\ voice' = RenderSample(voice)
        BY <2>5 DEF HoldSample, blockVars
      <3>. QED  BY <3>1, RenderKeepsSlice
                DEF clockVars, TypeOK, ComboInv, SameSliceInWindow
    <2>6. CASE UNCHANGED vars
      BY <2>6 DEF vars, blockVars, clockVars, ComboInv, SameSliceInWindow
    <2>. QED  BY <2>1, <2>2, <2>3, <2>4, <2>5, <2>6 DEF Next
  <1>. QED  BY <1>1, <1>2, ClockTypes, PTL DEF Spec

(* Every tick of a window plays the slice the window drew, however the     *)
(* list comes and goes between the blocks and wherever the host jumps,     *)
(* until the first block in which the kept index is another slice.         *)
THEOREM ClockSameSlice == Spec => []SameSliceInWindow
  BY ClockComboInvariant, PTL
=============================================================================
