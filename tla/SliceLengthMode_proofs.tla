------------------------ MODULE SliceLengthMode_proofs ------------------------
(***************************************************************************)
(* What is proved of trigger mode Slice Length, for every sample length,   *)
(* block size, set of reset windows, styles, slices and slice lists: its   *)
(* types, that a pick's declared length ends by the reset, that the window *)
(* is held to its end, and, on a timeline that does not jump, that nothing *)
(* plays across a reset and that every pick lasts as long as declared.     *)
(***************************************************************************)
EXTENDS SliceLengthMode, PickRenderer_proofs

(* A pick is a voice, and its length is capped by the time to the reset.   *)
LEMMA PickFacts ==
    ASSUME TypeOK, NEW end \in Int, NEW pick \in Picks(end)
    PROVE  /\ pick \in Voices
           /\ pick.len <= end - ppq
  <1>1. PICK i \in DOMAIN slices, style \in Styles : pick = Pick(slices[i], style, end)
    BY DEF Picks
  <1>2. slices[i] \in SliceIds /\ style \in PlaybackStyles
    <2>1. slices \in Seq(SliceIds)
      BY SliceLengthAssumption DEF TypeOK
    <2>. QED  BY <2>1, ElementOfSeq, SliceLengthAssumption
  <1>. DEFINE len == Least(PassLength(style, slices[i]), end - ppq)
              stop == Least(SliceLen[slices[i]], end - ppq)
  <1>3. ppq \in Int /\ PassLength(style, slices[i]) \in Nat /\ SliceLen[slices[i]] \in Nat
    BY <1>2, PassLengthType, RendererAssumption DEF TypeOK, HostTypeOK
  <1>4. len \in Int /\ stop \in Int /\ len <= end - ppq
    BY <1>3 DEF Least
  <1>5. pick = StartPick(slices[i], style, len, stop, FALSE)
    BY <1>1 DEF Pick
  <1>6. pick \in Voices
    <2>. HIDE DEF len, stop
    <2>. QED  BY <1>2, <1>4, <1>5, StartPickType
  <1>7. pick.len = len
    BY <1>5 DEF StartPick
  <1>. QED  BY <1>4, <1>6, <1>7

(* Rendering never makes a pick sound again, and keeps its length.         *)
LEMMA RenderKeeps ==
    ASSUME NEW v \in Voices, ~Finished(RenderSample(v))
    PROVE  ~Finished(v) /\ RenderSample(v).len = v.len
  <1>1. ~Finished(v)
    BY DEF RenderSample
  <1>. QED  BY <1>1 DEF RenderSample, Voices

(* A cleared pick does not sound. *)
LEMMA ClearedIsFinished ==
    ASSUME NEW v \in Voices
    PROVE  Finished(ClearPick(v))
  BY DEF Finished, ClearPick, Voices

(* The reset window after the boundary check of a sample. *)
LEMMA AfterReset ==
    ASSUME TypeOK, ResetStep
    PROVE  /\ resetEnd' \in Int /\ grid' \in ResetWindows /\ at' \in Int
           /\ ppq < resetEnd' /\ at' = ppq
           /\ VoiceAfterReset \in Voices
           /\ ~Finished(VoiceAfterReset) =>
                 ~ResetDue /\ VoiceAfterReset = voice
  <1>1. /\ ppq \in Int /\ resetEnd \in Int /\ voice \in Voices
        /\ resetBars \in ResetWindows /\ resetBars \in Nat \ {0}
        /\ grid \in ResetWindows
    BY HostAssumption, SliceLengthAssumption DEF TypeOK, HostTypeOK
  <1>2. CASE ResetDue
    <2>1. resetEnd' = NextBoundary(ppq, resetBars) /\ grid' = resetBars /\ at' = ppq
      BY <1>2 DEF ResetStep, EndAfterSample
    <2>2. VoiceAfterReset = ClearPick(voice)
      BY <1>2 DEF VoiceAfterReset
    <2>. QED  BY <1>1, <2>1, <2>2, NextBoundaryAhead, ClearPickType, ClearedIsFinished
  <1>3. CASE ~ResetDue
    <2>1. resetEnd' = resetEnd /\ grid' = grid /\ at' = ppq /\ ppq < resetEnd
      BY <1>1, <1>3 DEF ResetStep, EndAfterSample, ResetDue
    <2>2. VoiceAfterReset = voice
      BY <1>3 DEF VoiceAfterReset
    <2>. QED  BY <1>1, <1>3, <2>1, <2>2
  <1>. QED  BY <1>2, <1>3

(* What bailing out does to the types of the timeline. *)
LEMMA BailTypes ==
    ASSUME HostTypeOK, HostBail
    PROVE  HostTypeOK' /\ (playing => ppq <= ppq')
  <1>1. PpqPerSample \in Nat /\ left \in Nat /\ ppq \in Int /\ playing \in BOOLEAN
    BY HostAssumption DEF HostTypeOK
  <1>2. PICK rest \in Nat : rest = left * PpqPerSample
    BY <1>1
  <1>3. ppq' = (IF playing THEN ppq + rest ELSE ppq) /\ left' = 0 /\ playing' = playing
    BY <1>2 DEF HostBail
  <1>4. ppq' \in Int /\ (playing => ppq <= ppq')
    BY <1>1, <1>2, <1>3
  <1>. QED  BY <1>1, <1>3, <1>4 DEF HostTypeOK

-----------------------------------------------------------------------------
(* The types of every variable are as declared: every pick plays a slice   *)
(* of the block's list (Scheduler.cpp:372-451).                            *)
THEOREM SliceTypes == Spec => []TypeOK
  <1>1. Init => TypeOK
    <2>. SUFFICES ASSUME Init PROVE TypeOK
      OBVIOUS
    <2>1. IdleVoice \in Voices
      BY DEF IdleVoice, Voices, PlaybackStyles
    <2>2. HostTypeOK
      BY HostAssumption DEF Init, HostInit, HostTypeOK
    <2>3. voice \in Voices /\ armed \in BOOLEAN /\ abandoned \in BOOLEAN
      BY <2>1, Zenon DEF Init
    <2>4. /\ slices \in SliceLists /\ resetBars \in ResetWindows
          /\ grid \in ResetWindows /\ resetEnd \in Int /\ born \in Int /\ at \in Int
      BY DEF Init
    <2>. QED  BY <2>2, <2>3, <2>4 DEF TypeOK
  <1>2. TypeOK /\ [Next]_vars => TypeOK'
    <2>. SUFFICES ASSUME TypeOK, [Next]_vars PROVE TypeOK'
      OBVIOUS
    <2>1. CASE BeginBlock
      <3>1. HostTypeOK' /\ ReadSnapshot
        BY <2>1, HostMoves DEF BeginBlock, TypeOK
      <3>2. CASE armed
        BY <2>1, <3>1, <3>2 DEF BeginBlock, ReadSnapshot, TypeOK, resetVars
      <3>3. CASE ~armed
        <4>1. Arm
          BY <2>1, <3>3 DEF BeginBlock
        <4>2. resetBars' \in Nat \ {0} /\ ppq' \in Int
          BY <3>1, HostAssumption, SliceLengthAssumption DEF ReadSnapshot, HostTypeOK
        <4>3. resetEnd' \in Int /\ grid' \in ResetWindows
          BY <3>1, <4>1, <4>2, NextBoundaryAhead DEF Arm, ReadSnapshot
        <4>4. voice' \in Voices
          BY <4>1, ClearPickType DEF Arm, TypeOK
        <4>5. armed' \in BOOLEAN /\ abandoned' \in BOOLEAN
          BY <2>1, <4>1, Zenon DEF Arm, BeginBlock, TypeOK
        <4>. QED  BY <2>1, <3>1, <4>3, <4>4, <4>5 DEF BeginBlock, ReadSnapshot, TypeOK
      <3>. QED  BY <3>2, <3>3
    <2>2. CASE BypassBlock
      <3>1. HostTypeOK'
        BY <2>2, HostMoves DEF BypassBlock, TypeOK
      <3>2. voice' \in Voices
        BY <2>2, ClearPickType DEF BypassBlock, TypeOK
      <3>. QED  BY <2>2, <3>1, <3>2 DEF BypassBlock, ReadSnapshot, TypeOK, resetVars
    <2>3. CASE ContinuePick
      <3>1. HostTypeOK' /\ ResetStep
        BY <2>3, HostMoves DEF ContinuePick, TypeOK
      <3>2. voice' \in Voices
        BY <2>3, <3>1, AfterReset, RenderSampleType DEF ContinuePick
      <3>3. abandoned' \in BOOLEAN
        BY <2>3 DEF ContinuePick, TypeOK
      <3>. QED  BY <2>3, <3>1, <3>2, <3>3, AfterReset
                DEF ContinuePick, ResetStep, TypeOK, blockVars
    <2>4. CASE ChainPick
      <3>1. HostTypeOK' /\ ResetStep
        BY <2>4, HostMoves DEF ChainPick, TypeOK
      <3>2. voice' \in Voices
        BY <2>4, <3>1, AfterReset, PickFacts, RenderSampleType DEF ChainPick
      <3>3. born' \in Int /\ abandoned' = FALSE
        BY <2>4 DEF ChainPick, TypeOK, HostTypeOK
      <3>. QED  BY <3>1, <3>2, <3>3, AfterReset DEF ResetStep, TypeOK, blockVars
    <2>5. CASE BailOut
      <3>1. HostTypeOK' /\ ResetStep
        BY <2>5, BailTypes DEF BailOut, TypeOK
      <3>2. voice' \in Voices
        BY <2>5, <3>1, AfterReset, PickFacts, RenderSampleType DEF BailOut
      <3>3. born' \in Int /\ abandoned' = TRUE
        BY <2>5 DEF BailOut, TypeOK, HostTypeOK
      <3>. QED  BY <3>1, <3>2, <3>3, AfterReset DEF ResetStep, TypeOK, blockVars
    <2>6. CASE UNCHANGED vars
      BY <2>6 DEF vars, hostVars, blockVars, resetVars, TypeOK, HostTypeOK
    <2>. QED  BY <2>1, <2>2, <2>3, <2>4, <2>5, <2>6 DEF Next
  <1>. QED  BY <1>1, <1>2, PTL DEF Spec

-----------------------------------------------------------------------------
(* A fresh pick's declared length ends by the reset; a pick that goes on   *)
(* has not met one.                                                        *)
LEMMA FreshPickCapped ==
    ASSUME TypeOK, ResetStep, born' = ppq,
           NEW pick \in Picks(resetEnd'), voice' = RenderSample(pick)
    PROVE  ~Finished(voice') => born' + voice'.len <= resetEnd'
  <1>. SUFFICES ASSUME ~Finished(voice') PROVE born' + voice'.len <= resetEnd'
    OBVIOUS
  <1>1. resetEnd' \in Int /\ ppq \in Int
    BY AfterReset DEF TypeOK, HostTypeOK
  <1>2. pick \in Voices /\ pick.len <= resetEnd' - ppq
    BY <1>1, PickFacts
  <1>3. voice'.len = pick.len /\ pick.len \in Int
    BY <1>2, RenderKeeps DEF Voices
  <1>. QED  BY <1>1, <1>2, <1>3

LEMMA SoundingPickGoesOn ==
    ASSUME TypeOK, ContinuePick, ~Finished(voice')
    PROVE  /\ ~Finished(voice) /\ ~ResetDue
           /\ voice'.len = voice.len
           /\ UNCHANGED <<armed, born, resetEnd, grid>>
  <1>1. ResetStep /\ voice' = RenderSample(VoiceAfterReset) /\ born' = born
    BY DEF ContinuePick
  <1>2. ~Finished(VoiceAfterReset) /\ voice'.len = VoiceAfterReset.len
    BY <1>1, AfterReset, RenderKeeps
  <1>3. ~ResetDue /\ VoiceAfterReset = voice
    BY <1>1, <1>2, AfterReset
  <1>4. UNCHANGED <<armed, resetEnd, grid>>
    BY <1>1, <1>3 DEF ResetStep, EndAfterSample
  <1>. QED  BY <1>1, <1>2, <1>3, <1>4

(* Every pick's declared length ends no later than the reset that would    *)
(* cut it, even when the bar setting changes or the host jumps             *)
(* (Scheduler.cpp:366-370, 436-440).                                       *)
THEOREM SliceCuts == Spec => []CutsAreAnticipated
  <1>1. Init => CutsAreAnticipated
    BY DEF Init, CutsAreAnticipated
  <1>2. TypeOK /\ CutsAreAnticipated /\ [Next]_vars => CutsAreAnticipated'
    <2>. SUFFICES ASSUME TypeOK, CutsAreAnticipated, [Next]_vars
                  PROVE  CutsAreAnticipated'
      OBVIOUS
    <2>1. CASE BeginBlock
      <3>1. CASE armed
        BY <2>1, <3>1 DEF BeginBlock, resetVars, CutsAreAnticipated, Finished
      <3>2. CASE ~armed
        <4>1. Finished(ClearPick(voice)) /\ voice' = ClearPick(voice)
          BY <2>1, <3>2, ClearedIsFinished DEF BeginBlock, Arm, TypeOK
        <4>. QED  BY <4>1 DEF CutsAreAnticipated, Finished
      <3>. QED  BY <3>1, <3>2
    <2>2. CASE BypassBlock
      BY <2>2 DEF BypassBlock, CutsAreAnticipated
    <2>3. CASE ContinuePick
      <3>1. ~Finished(voice') => /\ ~Finished(voice) /\ voice'.len = voice.len
                                 /\ UNCHANGED <<armed, born, resetEnd>>
        BY <2>3, SoundingPickGoesOn
      <3>. QED  BY <3>1 DEF CutsAreAnticipated, Finished
    <2>4. CASE ChainPick
      <3>1. ~Finished(voice') => born' + voice'.len <= resetEnd'
        BY <2>4, FreshPickCapped DEF ChainPick
      <3>. QED  BY <3>1 DEF CutsAreAnticipated, Finished
    <2>5. CASE BailOut
      <3>1. ~Finished(voice') => born' + voice'.len <= resetEnd'
        BY <2>5, FreshPickCapped DEF BailOut
      <3>. QED  BY <3>1 DEF CutsAreAnticipated, Finished
    <2>6. CASE UNCHANGED vars
      BY <2>6 DEF vars, resetVars, CutsAreAnticipated, Finished
    <2>. QED  BY <2>1, <2>2, <2>3, <2>4, <2>5, <2>6 DEF Next
  <1>. QED  BY <1>1, <1>2, SliceTypes, PTL DEF Spec

(* A change of the bar setting waits for the end of the window, and the    *)
(* next window ends at the first point of the new grid                     *)
(* (Scheduler.cpp:350-358).                                                *)
THEOREM SliceWindows == Spec => WindowHeldToItsEnd
  <1>. DEFINE Held ==
         armed /\ armed' /\ resetEnd' # resetEnd =>
            /\ ppq >= resetEnd
            /\ resetEnd' \in (ppq + 1) .. (ppq + resetBars)
            /\ resetEnd' % resetBars = 0
  <1>1. TypeOK /\ [Next]_vars => [Held]_vars
    <2>. SUFFICES ASSUME TypeOK, Next, armed, resetEnd' # resetEnd
                  PROVE  /\ ppq >= resetEnd
                         /\ resetEnd' \in (ppq + 1) .. (ppq + resetBars)
                         /\ resetEnd' % resetBars = 0
      OBVIOUS
    <2>1. ResetStep
      BY DEF Next, BeginBlock, BypassBlock, ContinuePick, ChainPick, BailOut, resetVars
    <2>2. ResetDue /\ resetEnd' = NextBoundary(ppq, resetBars)
      BY <2>1 DEF ResetStep, EndAfterSample
    <2>3. ppq \in Int /\ resetBars \in Nat \ {0}
      BY HostAssumption, SliceLengthAssumption DEF TypeOK, HostTypeOK
    <2>4. PICK end \in Int : /\ end = NextBoundary(ppq, resetBars)
                             /\ ppq < end /\ end <= ppq + resetBars
      BY <2>3, NextBoundaryAhead
    <2>5. resetEnd' \in (ppq + 1) .. (ppq + resetBars)
      BY <2>2, <2>3, <2>4
    <2>6. resetEnd' % resetBars = 0
      BY <2>2, <2>3, NextBoundaryOnGrid
    <2>. QED  BY <2>2, <2>5, <2>6 DEF ResetDue
  <1>. QED  BY <1>1, SliceTypes, PTL DEF Spec, WindowHeldToItsEnd

-----------------------------------------------------------------------------
(* The boundary check leaves the playhead in the reset window.             *)
LEMMA PlayheadInWindow ==
    ASSUME TypeOK, ResetStep, resetEnd % grid = 0, resetEnd - grid <= ppq
    PROVE  /\ resetEnd' % grid' = 0
           /\ resetEnd' - grid' <= ppq
           /\ NextBoundary(ppq, grid') = resetEnd'
  <1>1. /\ ppq \in Int /\ resetEnd \in Int
        /\ resetBars \in Nat \ {0} /\ grid \in Nat \ {0}
    BY HostAssumption, SliceLengthAssumption DEF TypeOK, HostTypeOK
  <1>2. CASE ResetDue
    <2>1. resetEnd' = NextBoundary(ppq, resetBars) /\ grid' = resetBars
      BY <1>2 DEF ResetStep, EndAfterSample
    <2>2. NextBoundary(ppq, resetBars) % resetBars = 0
      BY <1>1, NextBoundaryOnGrid
    <2>3. NextBoundary(ppq, resetBars) - resetBars <= ppq
      BY <1>1, NextBoundaryAhead
    <2>. QED  BY <2>1, <2>2, <2>3
  <1>3. CASE ~ResetDue
    <2>1. resetEnd' = resetEnd /\ grid' = grid /\ ppq < resetEnd
      BY <1>1, <1>3 DEF ResetStep, EndAfterSample, ResetDue
    <2>2. NextBoundary(ppq, grid) = resetEnd
      BY <1>1, <2>1, NextBoundaryUnique
    <2>. QED  BY <2>1, <2>2
  <1>. QED  BY <1>2, <1>3

(* It stays there with the next sample, and no boundary was crossed.       *)
LEMMA WalkKeepsWindow ==
    ASSUME TypeOK, ResetInv, armed, ResetStep, ppq' \in Int, ppq <= ppq'
    PROVE  /\ resetEnd' % grid' = 0
           /\ resetEnd' - grid' <= ppq'
           /\ NextBoundary(ppq, grid') = resetEnd'
           /\ at' < resetEnd'
  <1>1. PICK end \in Int, g \in Nat \ {0} : resetEnd' = end /\ grid' = g
    <2>1. resetEnd' \in Int /\ grid' \in ResetWindows
      BY AfterReset
    <2>2. \A w \in ResetWindows : w \in Nat \ {0}
      BY HostAssumption, SliceLengthAssumption
    <2>. QED  BY <2>1, <2>2
  <1>2. resetEnd' % grid' = 0 /\ end - g <= ppq /\ NextBoundary(ppq, grid') = resetEnd'
    BY <1>1, PlayheadInWindow DEF ResetInv
  <1>3. PICK p \in Int : ppq' = p
    OBVIOUS
  <1>4. end - g <= p
    BY <1>1, <1>2, <1>3 DEF TypeOK, HostTypeOK
  <1>. QED  BY <1>1, <1>2, <1>3, <1>4, AfterReset

(* The inductive invariant of the reset window. *)
LEMMA SliceResetInvariant == ASSUME ~Relocates PROVE Spec => []ResetInv
  <1>1. Init => ResetInv
    BY DEF Init, HostInit, ResetInv
  <1>2. TypeOK /\ ResetInv /\ [Next]_vars => ResetInv'
    <2>. SUFFICES ASSUME TypeOK, ResetInv, [Next]_vars PROVE ResetInv'
      OBVIOUS
    <2>0. /\ PpqPerSample \in Nat /\ ppq \in Int /\ left \in Nat
          /\ resetEnd \in Int /\ grid \in Nat \ {0}
      BY HostAssumption, SliceLengthAssumption DEF TypeOK, HostTypeOK
    <2>1. CASE BeginBlock
      <3>1. playing' /\ armed'
        BY <2>1, Zenon DEF BeginBlock, HostBlock, Arm
      <3>2. CASE armed
        <4>1. playing /\ \E size \in BlockSizes : HostBlock(TRUE, size, TRUE)
          BY <2>1, <3>2 DEF BeginBlock, ResetInv
        <4>2. ppq' = ppq
          BY <4>1, Zenon DEF HostBlock
        <4>3. UNCHANGED <<armed, voice, resetEnd, grid, born, at>>
          BY <2>1, <3>2 DEF BeginBlock, resetVars
        <4>. QED  BY <3>1, <4>2, <4>3 DEF ResetInv, Finished
      <3>3. CASE ~armed
        <4>1. Arm
          BY <2>1, <3>3 DEF BeginBlock
        <4>2. PICK p \in Int : ppq' = p
          BY <2>1, HostMoves DEF BeginBlock, TypeOK, HostTypeOK
        <4>3. PICK bars \in Nat \ {0} : resetBars' = bars
          BY <2>1, HostAssumption, SliceLengthAssumption DEF BeginBlock, ReadSnapshot
        <4>4. grid' = bars /\ resetEnd' = NextBoundary(p, bars)
          BY <4>1, <4>2, <4>3 DEF Arm
        <4>5. resetEnd' % grid' = 0 /\ resetEnd' - grid' <= ppq'
          <5>1. NextBoundary(p, bars) % bars = 0
            BY NextBoundaryOnGrid
          <5>2. NextBoundary(p, bars) - bars <= p
            BY NextBoundaryAhead
          <5>. QED  BY <4>2, <4>4, <5>1, <5>2
        <4>6. Finished(ClearPick(voice)) /\ voice' = ClearPick(voice)
          BY <4>1, ClearedIsFinished DEF Arm, TypeOK
        <4>. QED  BY <3>1, <4>5, <4>6 DEF ResetInv, Finished
      <3>. QED  BY <3>2, <3>3
    <2>2. CASE BypassBlock
      BY <2>2 DEF BypassBlock, HostBlock, ResetInv
    <2>3. CASE ContinuePick
      <3>1. armed /\ playing /\ armed' /\ playing' /\ ppq' = ppq + PpqPerSample
        BY <2>3 DEF ContinuePick, ResetStep, HostSample, ResetInv
      <3>2. /\ resetEnd' % grid' = 0 /\ resetEnd' - grid' <= ppq' /\ at' < resetEnd'
        BY <2>0, <2>3, <3>1, WalkKeepsWindow DEF ContinuePick
      <3>3. ~Finished(voice') => ~Finished(voice) /\ UNCHANGED <<born, resetEnd, grid>>
        BY <2>3, SoundingPickGoesOn
      <3>. QED  BY <3>1, <3>2, <3>3 DEF ResetInv, Finished
    <2>4. CASE ChainPick
      <3>1. armed /\ playing /\ armed' /\ playing' /\ ppq' = ppq + PpqPerSample
        BY <2>4 DEF ChainPick, ResetStep, HostSample, ResetInv
      <3>2. /\ resetEnd' % grid' = 0 /\ resetEnd' - grid' <= ppq'
            /\ NextBoundary(ppq, grid') = resetEnd' /\ at' < resetEnd'
        BY <2>0, <2>4, <3>1, WalkKeepsWindow DEF ChainPick
      <3>3. born' = ppq
        BY <2>4 DEF ChainPick
      <3>. QED  BY <3>1, <3>2, <3>3 DEF ResetInv
    <2>5. CASE BailOut
      <3>1. armed /\ playing /\ armed' /\ playing'
        BY <2>5 DEF BailOut, ResetStep, HostBail, ResetInv
      <3>2. ppq' \in Int /\ ppq <= ppq'
        BY <2>5, <3>1, BailTypes DEF BailOut, TypeOK, HostTypeOK
      <3>3. /\ resetEnd' % grid' = 0 /\ resetEnd' - grid' <= ppq'
            /\ NextBoundary(ppq, grid') = resetEnd' /\ at' < resetEnd'
        BY <2>5, <3>1, <3>2, WalkKeepsWindow DEF BailOut
      <3>4. born' = ppq
        BY <2>5 DEF BailOut
      <3>. QED  BY <3>1, <3>3, <3>4 DEF ResetInv
    <2>6. CASE UNCHANGED vars
      BY <2>6 DEF vars, hostVars, resetVars, ResetInv, Finished
    <2>. QED  BY <2>1, <2>2, <2>3, <2>4, <2>5, <2>6 DEF Next
  <1>. QED  BY <1>1, <1>2, SliceTypes, PTL DEF Spec

(* No pick plays across a reset: no point of the reset grid lies between   *)
(* the start of a sounding pick and the sample last rendered               *)
(* (Scheduler.cpp:350-364).                                                *)
THEOREM SliceResets == ASSUME ~Relocates PROVE Spec => []NoPickAcrossReset
  <1>1. ResetInv => NoPickAcrossReset
    BY DEF ResetInv, NoPickAcrossReset
  <1>. QED  BY <1>1, SliceResetInvariant, PTL

-----------------------------------------------------------------------------
(* A pick starts on schedule. *)
LEMMA FreshOnSchedule ==
    ASSUME TypeOK, NEW end \in Int, ppq < end, NEW pick \in Picks(end)
    PROVE  OnSchedule(pick, ppq, ppq, end)
  <1>1. PICK i \in DOMAIN slices, style \in Styles : pick = Pick(slices[i], style, end)
    BY DEF Picks
  <1>2. slices[i] \in SliceIds /\ style \in PlaybackStyles
    <2>1. slices \in Seq(SliceIds)
      BY SliceLengthAssumption DEF TypeOK
    <2>. QED  BY <2>1, ElementOfSeq, SliceLengthAssumption
  <1>. DEFINE pass == PassLength(style, slices[i])
              len == Least(pass, end - ppq)
              stop == Least(SliceLen[slices[i]], end - ppq)
  <1>3. /\ ppq \in Int /\ PpqPerSample \in Nat \ {0} /\ pass \in Nat
        /\ SliceLen[slices[i]] \in Nat
    BY <1>2, HostAssumption, PassLengthType, RendererAssumption
    DEF TypeOK, HostTypeOK, SliceIds
  <1>4. /\ len \in Int /\ 0 <= len /\ len <= pass /\ ppq + len <= end
        /\ len < pass => ppq + len = end
    <2>. HIDE DEF pass
    <2>. QED  BY <1>3 DEF Least
  <1>5. style = "tapeStop" => stop = len
    <2>1. style = "tapeStop" => pass = SliceLen[slices[i]]
      BY <1>3 DEF PassLength
    <2>. HIDE DEF pass
    <2>. QED  BY <2>1
  <1>6. /\ pick.gated = FALSE /\ pick.releasing = FALSE /\ pick.since = 0
        /\ pick.len = len /\ pick.stop = stop /\ pick.span = pass /\ pick.style = style
    <2>1. pick = StartPick(slices[i], style, len, stop, FALSE)
      BY <1>1 DEF Pick
    <2>. HIDE DEF len, stop, pass
    <2>2. pick.span = PassLength(style, slices[i])
      BY <2>1 DEF StartPick
    <2>. QED  BY <2>1, <2>2 DEF StartPick, pass
  <1>. HIDE DEF pass, len, stop
  <1>. QED  BY <1>3, <1>4, <1>5, <1>6 DEF OnSchedule

(* A sounding pick stays on schedule with the sample rendered before the   *)
(* reset.                                                                  *)
LEMMA RenderOnSchedule ==
    ASSUME NEW v \in Voices, ~Finished(v),
           NEW start \in Int, NEW now \in Int, NEW end \in Int, now < end,
           OnSchedule(v, start, now, end)
    PROVE  OnSchedule(RenderSample(v), start, now + PpqPerSample, end)
  <1>1. PpqPerSample \in Nat \ {0}
    BY HostAssumption
  <1>. DEFINE w == RenderSample(v)
  <1>2. ~ReleaseCompletes(v) /\ ~v.releasing /\ ~v.gated
    BY DEF OnSchedule, ReleaseCompletes
  <1>3. /\ w.gated = v.gated /\ ~w.releasing /\ w.len = v.len /\ w.stop = v.stop
        /\ w.span = v.span /\ w.style = v.style /\ w.since = v.since + PpqPerSample
    BY <1>2 DEF RenderSample, Voices
  <1>4. v.style = "tapeStop" \/ v.style = "stretch" => v.since < v.len
    BY <1>1 DEF Finished, OnSchedule, Voices
  <1>5. v.style \notin {"tapeStop", "stretch"} => v.since < v.span - PpqPerSample
    BY <1>1 DEF Finished, OnSchedule, Voices
  <1>6. /\ v.since \in Nat /\ v.len \in Int /\ v.span \in Nat
        /\ v.since = now - start /\ v.len <= v.span
        /\ v.style \notin {"tapeStop", "stretch"} /\ v.len < v.span =>
              start + v.len = end
    BY DEF OnSchedule, Voices
  <1>7. now + PpqPerSample - start < v.len + PpqPerSample
    BY <1>1, <1>4, <1>5, <1>6
  <1>. HIDE DEF w
  <1>8. OnSchedule(w, start, now + PpqPerSample, end)
    BY <1>1, <1>2, <1>3, <1>6, <1>7 DEF OnSchedule
  <1>. QED  BY <1>8 DEF w

(* A pick on schedule that has run its course, or that the reset cuts, is  *)
(* within a sample of its declared length.                                 *)
LEMMA EndsOnSchedule ==
    ASSUME NEW v \in Voices, v.active,
           NEW start \in Int, NEW now \in Int, NEW end \in Int,
           OnSchedule(v, start, now, end), Finished(v) \/ end <= now
    PROVE  now - start >= v.len - PpqPerSample
  <1>1. PpqPerSample \in Nat \ {0}
    BY HostAssumption
  <1>2. CASE end <= now
    BY <1>1, <1>2 DEF OnSchedule, Voices
  <1>3. CASE Finished(v)
    BY <1>1, <1>3 DEF OnSchedule, Finished, Voices
  <1>. QED  BY <1>2, <1>3

(* What a sample that draws a pick does to the schedule. *)
LEMMA ChainOnSchedule ==
    ASSUME TypeOK, ChainPick, playing
    PROVE  LastInv'
  <1>1. PICK pick \in Picks(resetEnd') : ~Finished(pick) /\ voice' = RenderSample(pick)
    BY DEF ChainPick
  <1>2. PICK end \in Int : resetEnd' = end /\ ppq < end
    BY AfterReset DEF ChainPick
  <1>3. ppq \in Int /\ PpqPerSample \in Nat /\ born' = ppq /\ ppq' = ppq + PpqPerSample
    BY HostAssumption DEF ChainPick, HostSample, TypeOK, HostTypeOK
  <1>4. pick \in Voices /\ OnSchedule(pick, ppq, ppq, end)
    BY <1>1, <1>2, PickFacts, FreshOnSchedule
  <1>5. OnSchedule(RenderSample(pick), ppq, ppq + PpqPerSample, end)
    BY <1>1, <1>2, <1>3, <1>4, RenderOnSchedule
  <1>. QED  BY <1>1, <1>2, <1>3, <1>5 DEF LastInv, OnSchedule

(* The inductive invariant of the schedule. *)
LEMMA SliceScheduleInvariant == ASSUME ~Relocates PROVE Spec => []LastInv
  <1>1. Init => LastInv
    BY DEF Init, LastInv
  <1>2. TypeOK /\ ResetInv /\ LastInv /\ [Next]_vars => LastInv'
    <2>. SUFFICES ASSUME TypeOK, ResetInv, LastInv, [Next]_vars PROVE LastInv'
      OBVIOUS
    <2>1. CASE BeginBlock
      <3>1. CASE armed
        <4>1. playing /\ \E size \in BlockSizes : HostBlock(TRUE, size, TRUE)
          BY <2>1, <3>1 DEF BeginBlock, ResetInv
        <4>2. ppq' = ppq
          BY <4>1, Zenon DEF HostBlock
        <4>3. UNCHANGED <<armed, voice, resetEnd, born, abandoned>>
          BY <2>1, <3>1 DEF BeginBlock, resetVars
        <4>. QED  BY <4>2, <4>3 DEF LastInv, OnSchedule
      <3>2. CASE ~armed
        <4>1. voice' = ClearPick(voice) /\ voice \in Voices
          BY <2>1, <3>2 DEF BeginBlock, Arm, TypeOK
        <4>2. ~voice'.active
          BY <4>1 DEF ClearPick, Voices
        <4>. QED  BY <4>2 DEF LastInv
      <3>. QED  BY <3>1, <3>2
    <2>2. CASE BypassBlock
      BY <2>2 DEF BypassBlock, LastInv
    <2>3. CASE ContinuePick
      <3>1. /\ ResetStep /\ ~Finished(VoiceAfterReset)
            /\ voice' = RenderSample(VoiceAfterReset)
            /\ UNCHANGED <<born, abandoned>>
        BY <2>3 DEF ContinuePick, NeedsPick
      <3>2. armed /\ armed' /\ ppq' = ppq + PpqPerSample
        BY <2>3, <3>1 DEF ContinuePick, HostSample, ResetStep, ResetInv
      <3>3. VoiceAfterReset = voice /\ resetEnd' = resetEnd /\ ppq < resetEnd
        BY <3>1, AfterReset DEF ResetStep, EndAfterSample
      <3>4. voice.active /\ voice \in Voices
        BY <3>1, <3>3 DEF Finished, TypeOK
      <3>5. ~abandoned => OnSchedule(voice', born, ppq + PpqPerSample, resetEnd)
        <4>. SUFFICES ASSUME ~abandoned
                      PROVE  OnSchedule(voice', born, ppq + PpqPerSample, resetEnd)
          OBVIOUS
        <4>1. OnSchedule(voice, born, ppq, resetEnd)
          BY <3>2, <3>4 DEF LastInv
        <4>2. born \in Int /\ ppq \in Int /\ resetEnd \in Int
          BY DEF TypeOK, HostTypeOK
        <4>. QED  BY <3>1, <3>3, <3>4, <4>1, <4>2, RenderOnSchedule
      <3>. QED  BY <3>1, <3>2, <3>3, <3>5 DEF LastInv, OnSchedule
    <2>4. CASE ChainPick
      <3>1. playing
        BY <2>4 DEF ChainPick, HostSample, ResetInv
      <3>. QED  BY <2>4, <3>1, ChainOnSchedule
    <2>5. CASE BailOut
      BY <2>5 DEF BailOut, LastInv
    <2>6. CASE UNCHANGED vars
      BY <2>6 DEF vars, hostVars, resetVars, LastInv, OnSchedule
    <2>. QED  BY <2>1, <2>2, <2>3, <2>4, <2>5, <2>6 DEF Next
  <1>. QED  BY <1>1, <1>2, SliceTypes, SliceResetInvariant, PTL DEF Spec

(* A pick lasts as long as it was declared to, to the sample, whichever of *)
(* the four ways it ends in and wherever the reset falls                   *)
(* (Scheduler.cpp:366-451, PickRenderer::finished).                        *)
THEOREM SliceLasts == ASSUME ~Relocates PROVE Spec => PicksLastAsDeclared
  <1>. DEFINE Lasts ==
         left > 0 /\ voice.active /\ ~abandoned =>
            /\ ppq - born < voice.len + PpqPerSample
            /\ born' # born => ppq - born >= voice.len - PpqPerSample
  <1>1. TypeOK /\ ResetInv /\ LastInv /\ [Next]_vars => [Lasts]_vars
    <2>. SUFFICES ASSUME TypeOK, ResetInv, LastInv, Next,
                         left > 0, voice.active, ~abandoned
                  PROVE  /\ ppq - born < voice.len + PpqPerSample
                         /\ born' # born => ppq - born >= voice.len - PpqPerSample
      OBVIOUS
    <2>1. OnSchedule(voice, born, ppq, resetEnd)
      BY DEF LastInv, ResetInv
    <2>2. born' # born => Finished(VoiceAfterReset)
      BY DEF Next, BeginBlock, BypassBlock, ContinuePick, ChainPick, BailOut, NeedsPick
    <2>3. Finished(VoiceAfterReset) => Finished(voice) \/ resetEnd <= ppq
      BY DEF VoiceAfterReset, ResetDue, TypeOK, HostTypeOK
    <2>4. born \in Int /\ ppq \in Int /\ resetEnd \in Int /\ voice \in Voices
      BY DEF TypeOK, HostTypeOK
    <2>. QED  BY <2>1, <2>2, <2>3, <2>4, EndsOnSchedule DEF OnSchedule
  <1>. QED  BY <1>1, SliceTypes, SliceResetInvariant, SliceScheduleInvariant, PTL
            DEF Spec, PicksLastAsDeclared
=============================================================================
