----------------------- MODULE PerformanceMode_proofs -----------------------
(***************************************************************************)
(* What is proved of trigger mode Performance, for every set of keys,      *)
(* snapshots and plugin states, sample length and block size: its types,   *)
(* that a one-shot sounds once, that edits of the bank do not reach what   *)
(* is already recalled; and, on a timeline that does not jump, that a      *)
(* deferred recall lands on the interval grid.                             *)
(***************************************************************************)
EXTENDS PerformanceMode, PickRenderer_proofs

LEMMA SnapshotFacts ==
    ASSUME NEW s \in Snapshots, Populated(s)
    PROVE  s.segment \in SliceIds /\ s.style \in PlaybackStyles
  BY PerformanceAssumption DEF Populated

LEMMA StateFacts ==
    ASSUME NEW st \in States
    PROVE  /\ st.working \in Snapshots /\ st.interval \in Nat \ {0}
           /\ \A k \in Keys : st.bank[k] \in Snapshots
  BY PerformanceAssumption DEF PerformanceStates

(* What a recall decides: which pattern is asked for and where it is from. *)
SameRecall(p, q) ==
    q.recall = p.recall /\ q.focused = p.focused /\ q.frozen = p.frozen
NewRecall(q) == q.recall /\ (q.focused \/ Populated(q.frozen))

(* A recall that is applied asks for the working state or for a slot that  *)
(* holds something; an empty slot changes nothing.                         *)
LEMMA ApplyCases ==
    ASSUME NEW p \in Runtimes, NEW note \in Keys, NEW st \in States
    PROVE  LET q == Apply(p, note, st) IN
           /\ q \in Runtimes
           /\ q.pending = p.pending /\ q.snapped = p.snapped
           /\ q.boundary = p.boundary /\ q.voice = p.voice
           /\ SameRecall(p, q) \/ NewRecall(q)
  <1>1. st.bank[note] \in Snapshots
    BY StateFacts
  <1>2. CASE note = st.focus
    BY <1>2 DEF Apply, Runtimes, NewRecall
  <1>3. CASE note # st.focus /\ ~Populated(st.bank[note])
    BY <1>3 DEF Apply, SameRecall
  <1>4. CASE note # st.focus /\ Populated(st.bank[note])
    BY <1>1, <1>4 DEF Apply, Runtimes, NewRecall
  <1>. QED  BY <1>2, <1>3, <1>4

(* A note-on waits for a boundary of its own or is applied.                *)
LEMMA RoutedCases ==
    ASSUME NEW p \in Runtimes, NEW note \in Keys \cup {NoNote},
           NEW st \in States, NEW play \in BOOLEAN
    PROVE  LET q == NoteOn(p, note, st, play) IN
           /\ q \in Runtimes /\ q.voice = p.voice
           /\ SameRecall(p, q) \/ NewRecall(q)
           /\ Defers(note, st, play) => ~q.snapped
           /\ ~Defers(note, st, play) => /\ q.pending = p.pending
                                         /\ q.snapped = p.snapped
                                         /\ q.boundary = p.boundary
  <1>1. CASE ~Accepted(note, st)
    BY <1>1 DEF NoteOn, Defers, SameRecall
  <1>2. CASE Accepted(note, st) /\ Defers(note, st, play)
    <2>1. note \in Keys
      BY <1>2 DEF Accepted
    <2>. QED  BY <1>2, <2>1 DEF NoteOn, Defer, Runtimes, SameRecall
  <1>3. CASE Accepted(note, st) /\ ~Defers(note, st, play)
    <2>1. note \in Keys
      BY <1>3 DEF Accepted
    <2>. QED  BY <1>3, <2>1, ApplyCases DEF NoteOn
  <1>. QED  BY <1>1, <1>2, <1>3

LEMMA SnappedCases ==
    ASSUME TypeOK
    PROVE  /\ Snapped(perf) \in Runtimes
           /\ Snapped(perf).pending = perf.pending
           /\ Snapped(perf).voice = perf.voice
           /\ SameRecall(perf, Snapped(perf))
           /\ \/ Snapped(perf) = perf
              \/ /\ playing /\ ~perf.snapped /\ Snapped(perf).snapped
                 /\ Snapped(perf).boundary = NextBoundary(ppq, state.interval)
           /\ playing => Snapped(perf).snapped
  <1>1. /\ perf \in Runtimes /\ state \in States /\ ppq \in Int
        /\ NextBoundary(ppq, state.interval) \in Int
    BY StateFacts, NextBoundaryAhead DEF TypeOK, HostTypeOK
  <1>2. CASE playing /\ ~perf.snapped
    BY <1>1, <1>2 DEF Snapped, Runtimes, SameRecall
  <1>3. CASE ~(playing /\ ~perf.snapped)
    BY <1>1, <1>3 DEF Snapped, SameRecall
  <1>. QED  BY <1>2, <1>3

(* Before a sample is rendered a deferred recall goes on waiting or fires. *)
LEMMA RecalledCases ==
    ASSUME TypeOK
    PROVE  LET p == Recalled(perf) IN
           /\ p \in Runtimes /\ p.voice = perf.voice
           /\ \/ perf.pending = NoNote /\ p = perf
              \/ /\ perf.pending # NoNote /\ p = Snapped(perf)
                 /\ ~BoundaryCrossed(Snapped(perf))
              \/ /\ perf.pending # NoNote /\ BoundaryCrossed(Snapped(perf))
                 /\ p.pending = NoNote /\ ~p.snapped
                 /\ SameRecall(perf, p) \/ NewRecall(p)
  <1>. DEFINE s == Snapped(perf)
              a == Apply(perf, perf.pending, state)
              f == [a EXCEPT !.pending = NoNote, !.snapped = FALSE]
  <1>1. CASE perf.pending = NoNote
    BY <1>1 DEF Recalled, TypeOK
  <1>2. CASE perf.pending # NoNote /\ ~BoundaryCrossed(s)
    BY <1>2, SnappedCases DEF Recalled
  <1>3. CASE perf.pending # NoNote /\ BoundaryCrossed(s)
    <2>1. perf \in Runtimes /\ state \in States /\ perf.pending \in Keys
      BY <1>3 DEF TypeOK, Runtimes
    <2>2. Recalled(perf) = f
      BY <1>3 DEF Recalled
    <2>3. a \in Runtimes /\ a.voice = perf.voice /\ (SameRecall(perf, a) \/ NewRecall(a))
      BY <2>1, ApplyCases
    <2>. HIDE DEF a
    <2>4. /\ f \in Runtimes /\ f.voice = a.voice
          /\ f.pending = NoNote /\ ~f.snapped /\ SameRecall(a, f)
      BY <2>3 DEF Runtimes, SameRecall
    <2>. HIDE DEF f
    <2>5. SameRecall(perf, f) \/ NewRecall(f)
      BY <2>3, <2>4 DEF SameRecall, NewRecall
    <2>. QED  BY <1>3, <2>2, <2>3, <2>4, <2>5
  <1>. QED  BY <1>1, <1>2, <1>3

(* What the voice becomes when the sample is rendered.                     *)
LEMMA VoiceCases ==
    ASSUME TypeOK, NEW p \in Runtimes
    PROVE  LET v == VoiceAt(p) IN
           /\ v \in Voices
           /\ \/ /\ Starts(p) /\ Populated(ActiveState(p))
                 /\ v.slice = ActiveState(p).segment
                 /\ v.style = ActiveState(p).style
              \/ /\ ~Starts(p) /\ v.slice = p.voice.slice
                 /\ v.style = p.voice.style /\ (v.active => p.voice.active)
  <1>. DEFINE v == VoiceAt(p)
  <1>1. p.voice \in Voices
    BY DEF Runtimes
  <1>2. CASE Starts(p)
    <2>. DEFINE a == ActiveState(p)
                len == PassLength(a.style, a.segment)
                stop == SliceLen[a.segment]
                gated == FoldingStyle(a.style)
    <2>1. Populated(a)
      BY <1>2 DEF Starts
    <2>2. a \in Snapshots
      BY StateFacts DEF ActiveState, Runtimes, TypeOK
    <2>3. a.segment \in SliceIds /\ a.style \in PlaybackStyles
      <3>. HIDE DEF a
      <3>. QED  BY <2>1, <2>2, SnapshotFacts
    <2>4. len \in Int /\ stop \in Int
      BY <2>3, PassLengthType, RendererAssumption
    <2>5. gated \in BOOLEAN
      BY DEF FoldingStyle
    <2>6. v = StartPick(a.segment, a.style, len, stop, gated)
      BY <1>2, Zenon DEF VoiceAt, Fresh
    <2>7. v \in Voices
      <3>. HIDE DEF a, len, stop, gated, v
      <3>. QED  BY <2>3, <2>4, <2>5, <2>6, StartPickType
    <2>8. v.slice = a.segment /\ v.style = a.style
      <3>. HIDE DEF a, len, stop, gated, v
      <3>. QED  BY <2>6 DEF StartPick
    <2>. QED  BY <1>2, <2>1, <2>7, <2>8
  <1>3. CASE ~Starts(p)
    <2>1. v \in {p.voice, ClearPick(p.voice)}
      BY <1>3, Zenon DEF VoiceAt
    <2>. HIDE DEF v
    <2>2. /\ v \in Voices /\ v.slice = p.voice.slice
          /\ v.style = p.voice.style /\ (v.active => p.voice.active)
      BY <1>1, <2>1, ClearPickType DEF ClearPick, Voices
    <2>. QED  BY <1>3, <2>2 DEF v
  <1>. QED  BY <1>2, <1>3

(* A sample of the mode. *)
LEMMA SampleCases ==
    ASSUME TypeOK, Sample
    PROVE  LET p == Recalled(perf) IN
           /\ perf' \in Runtimes
           /\ perf'.pending = p.pending /\ perf'.snapped = p.snapped
           /\ perf'.boundary = p.boundary /\ ~perf'.recall
           /\ perf'.focused = p.focused /\ perf'.frozen = p.frozen
           /\ perf'.voice.slice = VoiceAt(p).slice
           /\ perf'.voice.style = VoiceAt(p).style
           /\ perf'.voice.active => VoiceAt(p).active
  <1>. DEFINE p == Recalled(perf)
              w == RenderSample(VoiceAt(p))
  <1>1. p \in Runtimes
    BY RecalledCases
  <1>2. VoiceAt(p) \in Voices
    BY <1>1, VoiceCases
  <1>3. /\ w \in Voices /\ w.slice = VoiceAt(p).slice /\ w.style = VoiceAt(p).style
        /\ w.active => VoiceAt(p).active
    BY <1>2, RenderSampleType, RenderKeepsPick
  <1>4. perf' = [p EXCEPT !.recall = FALSE, !.voice = w]
    BY DEF Sample
  <1>. HIDE DEF p, w
  <1>5. /\ perf' \in Runtimes
        /\ perf'.pending = p.pending /\ perf'.snapped = p.snapped
        /\ perf'.boundary = p.boundary /\ ~perf'.recall
        /\ perf'.focused = p.focused /\ perf'.frozen = p.frozen
        /\ perf'.voice = w
    BY <1>1, <1>3, <1>4 DEF Runtimes
  <1>. QED  BY <1>3, <1>5 DEF p

(* A block: what its note-on leaves, with the voice going on or cleared.   *)
LEMMA BlockCases ==
    ASSUME TypeOK, BeginBlock \/ BypassBlock
    PROVE  \E note \in Keys \cup {NoNote}, play \in BOOLEAN :
             LET q == NoteOn(perf, note, state', play) IN
             /\ play = playing' /\ state' \in States
             /\ q \in Runtimes /\ q.voice = perf.voice
             /\ SameRecall(perf, q) \/ NewRecall(q)
             /\ Defers(note, state', play) => ~q.snapped
             /\ ~Defers(note, state', play) => /\ q.pending = perf.pending
                                               /\ q.snapped = perf.snapped
                                               /\ q.boundary = perf.boundary
             /\ perf' \in {q, [q EXCEPT !.voice = ClearPick(@)]}
             /\ BeginBlock => stale' = (/\ perf'.snapped /\ ~Defers(note, state', play)
                                        /\ stale \/ state'.interval # state.interval)
             /\ BypassBlock => stale' = (q.snapped /\ ~Defers(note, state', play))
  <1>1. playing' \in BOOLEAN /\ state' \in States /\ perf \in Runtimes
    BY DEF BeginBlock, BypassBlock, HostBlock, TypeOK
  <1>2. PICK note \in Keys \cup {NoNote} :
          LET q == NoteOn(perf, note, state', playing') IN
          /\ perf' \in {q, [q EXCEPT !.voice = ClearPick(@)]}
          /\ BeginBlock => stale' = (/\ perf'.snapped /\ ~Defers(note, state', playing')
                                     /\ stale \/ state'.interval # state.interval)
          /\ BypassBlock => stale' = (q.snapped /\ ~Defers(note, state', playing'))
    <2>1. BeginBlock => ~BypassBlock
      BY DEF BeginBlock, BypassBlock
    <2>2. CASE BeginBlock
      BY <2>1, <2>2, Zenon DEF BeginBlock
    <2>3. CASE BypassBlock
      BY <2>1, <2>3, Zenon DEF BypassBlock
    <2>. QED  BY <2>2, <2>3
  <1>3. PICK play \in BOOLEAN : play = playing'
    BY <1>1
  <1>4. PICK st \in States : st = state'
    BY <1>1
  <1>5. LET q == NoteOn(perf, note, st, play) IN
        /\ q \in Runtimes /\ q.voice = perf.voice
        /\ SameRecall(perf, q) \/ NewRecall(q)
        /\ Defers(note, st, play) => ~q.snapped
        /\ ~Defers(note, st, play) => /\ q.pending = perf.pending
                                      /\ q.snapped = perf.snapped
                                      /\ q.boundary = perf.boundary
    BY <1>1, RoutedCases
  <1>. WITNESS note \in Keys \cup {NoNote}, play \in BOOLEAN
  <1>. QED  BY <1>1, <1>2, <1>3, <1>4, <1>5, Zenon

-----------------------------------------------------------------------------
(* The runtime of the mode is of its type, whatever notes, stops and edits *)
(* follow each other.                                                      *)
THEOREM PerformanceTypes == Spec => []TypeOK
  <1>1. Init => TypeOK
    <2>. SUFFICES ASSUME Init PROVE TypeOK
      OBVIOUS
    <2>1. HostTypeOK
      BY HostAssumption DEF Init, HostInit, HostTypeOK
    <2>2. IdleVoice \in Voices /\ Unpopulated \in Snapshots
      BY PerformanceAssumption DEF IdleVoice, Voices, PlaybackStyles
    <2>3. perf \in Runtimes
      BY <2>2 DEF Init, Runtimes
    <2>4. plays \in 0 .. 2 /\ state \in States
      BY DEF Init
    <2>5. armed \in BOOLEAN /\ stale \in BOOLEAN
      BY Zenon DEF Init
    <2>. QED  BY <2>1, <2>3, <2>4, <2>5, Zenon DEF TypeOK
  <1>2. TypeOK /\ [Next]_vars => TypeOK'
    <2>. SUFFICES ASSUME TypeOK, [Next]_vars PROVE TypeOK'
      OBVIOUS
    <2>1. CASE BeginBlock \/ BypassBlock
      <3>1. HostTypeOK'
        <4>1. \E play \in BOOLEAN, size \in BlockSizes, runs \in BOOLEAN :
                  HostBlock(play, size, runs)
          <5>1. TRUE \in BOOLEAN /\ FALSE \in BOOLEAN
            OBVIOUS
          <5>. QED  BY <2>1, <5>1, Zenon DEF BeginBlock, BypassBlock
        <4>. QED  BY <4>1, HostMoves DEF TypeOK
      <3>2. PICK q \in Runtimes : perf' \in {q, [q EXCEPT !.voice = ClearPick(@)]}
        BY <2>1, BlockCases, Zenon
      <3>3. perf' \in Runtimes
        <4>1. ClearPick(q.voice) \in Voices
          BY ClearPickType DEF Runtimes
        <4>. QED  BY <3>2, <4>1 DEF Runtimes
      <3>4. /\ armed' \in BOOLEAN /\ state' \in States /\ plays' = plays
        BY <2>1 DEF BeginBlock, BypassBlock
      <3>5. stale' \in BOOLEAN
        <4>1. CASE BeginBlock
          BY <4>1, Zenon DEF BeginBlock
        <4>2. CASE BypassBlock
          BY <4>2, Zenon DEF BypassBlock
        <4>. QED  BY <2>1, <4>1, <4>2
      <3>. QED  BY <3>1, <3>3, <3>4, <3>5 DEF TypeOK
    <2>2. CASE Sample
      <3>1. HostTypeOK'
        BY <2>2, HostMoves DEF Sample, TypeOK
      <3>2. perf' \in Runtimes /\ UNCHANGED <<armed, state>>
        BY <2>2, SampleCases DEF Sample
      <3>3. plays' \in {0, 1, 2, plays}
        <4>. DEFINE c == Recalled(perf).recall
        <4>1. \/ plays' = 0 \/ plays' = 1 \/ plays' = 2 \/ plays' = plays
          BY <2>2, Zenon DEF Sample
        <4>. QED  BY <4>1
      <3>4. stale' \in BOOLEAN
        BY <2>2, Zenon DEF Sample
      <3>. QED  BY <3>1, <3>2, <3>3, <3>4 DEF TypeOK
    <2>3. CASE UNCHANGED vars
      BY <2>3 DEF vars, hostVars, historyVars, HostTypeOK, TypeOK
    <2>. QED  BY <2>1, <2>2, <2>3 DEF Next
  <1>. QED  BY <1>1, <1>2, PTL DEF Spec

-----------------------------------------------------------------------------
(* A one-shot sounds once per recall: the sample on which its pick has run *)
(* its course leaves it silent, and only a new recall starts it again      *)
(* (Scheduler.cpp:1093-1094); also when the host jumps.                    *)
THEOREM PerformanceOneShot == Spec => []OneShotPlaysOnce
  <1>1. Init => OneShotPlaysOnce
    BY DEF Init, OneShotPlaysOnce
  <1>2. TypeOK /\ OneShotPlaysOnce /\ [Next]_vars => OneShotPlaysOnce'
    <2>. SUFFICES ASSUME TypeOK, OneShotPlaysOnce, [Next]_vars
                  PROVE  OneShotPlaysOnce'
      OBVIOUS
    <2>1. CASE BeginBlock \/ BypassBlock
      <3>1. PICK q \in Runtimes :
              /\ SameRecall(perf, q) \/ NewRecall(q)
              /\ perf' \in {q, [q EXCEPT !.voice = ClearPick(@)]}
        BY <2>1, BlockCases, Zenon
      <3>2. perf'.recall = q.recall /\ perf'.focused = q.focused /\ perf'.frozen = q.frozen
        BY <3>1 DEF Runtimes
      <3>3. plays' = plays
        BY <2>1 DEF BeginBlock, BypassBlock
      <3>. QED  BY <3>1, <3>2, <3>3 DEF SameRecall, NewRecall, OneShotPlaysOnce
    <2>2. CASE Sample
      <3>. DEFINE p == Recalled(perf)
      <3>1. /\ ~perf'.recall /\ perf'.focused = p.focused /\ perf'.frozen = p.frozen
        BY <2>2, SampleCases
      <3>2. SameRecall(perf, p) \/ NewRecall(p)
        BY RecalledCases, SnappedCases DEF SameRecall
      <3>3. CASE p.recall
        <4>1. plays' = IF Starts(p) THEN 1 ELSE 0
          BY <2>2, <3>3 DEF Sample
        <4>. QED  BY <4>1 DEF OneShotPlaysOnce
      <3>4. CASE ~p.recall /\ Starts(p) /\ ~p.focused
        <4>1. p.frozen.loop
          BY <3>4 DEF Starts, NeedsFreshPick, Rechains, ActiveState
        <4>. QED  BY <3>1, <4>1 DEF OneShotPlaysOnce
      <3>5. CASE ~p.recall /\ ~Starts(p)
        <4>1. plays' = plays
          BY <2>2, <3>5 DEF Sample
        <4>2. SameRecall(perf, p)
          BY <3>2, <3>5 DEF NewRecall
        <4>. QED  BY <3>1, <3>5, <4>1, <4>2 DEF SameRecall, OneShotPlaysOnce
      <3>6. CASE p.focused
        BY <3>1, <3>6 DEF OneShotPlaysOnce
      <3>. QED  BY <3>3, <3>4, <3>5, <3>6
    <2>3. CASE UNCHANGED vars
      BY <2>3 DEF vars, hostVars, historyVars, OneShotPlaysOnce
    <2>. QED  BY <2>1, <2>2, <2>3 DEF Next
  <1>. QED  BY <1>1, <1>2, PerformanceTypes, PTL DEF Spec

-----------------------------------------------------------------------------
(* What the voice plays under a slot's recall is the copy that was made.   *)
LEMMA PerformanceFrozen == Spec => []FrozenInv
  <1>1. Init => FrozenInv
    BY DEF Init, IdleVoice, FrozenInv
  <1>2. TypeOK /\ FrozenInv /\ [Next]_vars => FrozenInv'
    <2>. SUFFICES ASSUME TypeOK, FrozenInv, [Next]_vars PROVE FrozenInv'
      OBVIOUS
    <2>1. CASE BeginBlock \/ BypassBlock
      <3>1. PICK q \in Runtimes :
              /\ q.voice = perf.voice
              /\ SameRecall(perf, q) \/ NewRecall(q)
              /\ perf' \in {q, [q EXCEPT !.voice = ClearPick(@)]}
        BY <2>1, BlockCases, Zenon
      <3>2. /\ perf'.recall = q.recall /\ perf'.focused = q.focused
            /\ perf'.frozen = q.frozen
        BY <3>1 DEF Runtimes
      <3>3. /\ perf'.voice.slice = perf.voice.slice
            /\ perf'.voice.style = perf.voice.style
            /\ perf'.voice.active => perf.voice.active
        <4>1. perf'.voice \in {q.voice, ClearPick(q.voice)}
          BY <3>1 DEF Runtimes
        <4>2. q.voice = perf.voice /\ q.voice \in Voices
          BY <3>1 DEF Runtimes
        <4>. QED  BY <4>1, <4>2 DEF Voices, ClearPick
      <3>. QED  BY <3>1, <3>2, <3>3 DEF SameRecall, NewRecall, FrozenInv
    <2>2. CASE Sample
      <3>. DEFINE p == Recalled(perf)
                  v == VoiceAt(p)
      <3>1. /\ ~perf'.recall /\ perf'.focused = p.focused /\ perf'.frozen = p.frozen
            /\ perf'.voice.slice = v.slice /\ perf'.voice.style = v.style
            /\ perf'.voice.active => v.active
        BY <2>2, SampleCases
      <3>2. (SameRecall(perf, p) \/ NewRecall(p)) /\ p \in Runtimes /\ p.voice = perf.voice
        BY RecalledCases, SnappedCases DEF SameRecall
      <3>3. \/ /\ Populated(ActiveState(p))
               /\ v.slice = ActiveState(p).segment
               /\ v.style = ActiveState(p).style
            \/ /\ ~Starts(p) /\ v.slice = perf.voice.slice
               /\ v.style = perf.voice.style /\ (v.active => perf.voice.active)
        BY <3>2, VoiceCases
      <3>. SUFFICES ASSUME ~p.focused, v.active
                    PROVE  /\ Populated(p.frozen)
                           /\ v.slice = p.frozen.segment
                           /\ v.style = p.frozen.style
        BY <3>1 DEF FrozenInv
      <3>4. ActiveState(p) = p.frozen
        BY DEF ActiveState
      <3>5. ~Starts(p) => ~p.recall \/ ~Populated(p.frozen)
        BY <3>4 DEF Starts, NeedsFreshPick
      <3>. HIDE DEF p, v
      <3>6. p.recall => Populated(p.frozen)
        BY <3>2 DEF SameRecall, NewRecall, FrozenInv
      <3>7. ~p.recall => SameRecall(perf, p)
        BY <3>2 DEF NewRecall
      <3>. QED  BY <3>3, <3>4, <3>5, <3>6, <3>7 DEF SameRecall, FrozenInv
    <2>3. CASE UNCHANGED vars
      BY <2>3 DEF vars, hostVars, historyVars, FrozenInv
    <2>. QED  BY <2>1, <2>2, <2>3 DEF Next
  <1>. QED  BY <1>1, <1>2, PerformanceTypes, PTL DEF Spec

(* As long as no recall is applied, a slot that sounds goes on with the    *)
(* segment and the style it was recalled with, also when it loops and its  *)
(* slot was edited or emptied (Scheduler.cpp:1038-1039).                   *)
THEOREM PerformanceFrozenKept == Spec => FrozenUndisturbed
  <1>1. TypeOK /\ FrozenInv /\ [Next]_vars =>
          [/\ left' < left /\ ~perf.focused /\ ~perf.recall /\ ~Fires
           /\ perf.voice.active
           => /\ perf'.voice.slice = perf.voice.slice
              /\ perf'.voice.style = perf.voice.style]_vars
    <2>. SUFFICES ASSUME TypeOK, FrozenInv, [Next]_vars,
                         left' < left, ~perf.focused, ~perf.recall, ~Fires,
                         perf.voice.active
                  PROVE  /\ perf'.voice.slice = perf.voice.slice
                         /\ perf'.voice.style = perf.voice.style
      OBVIOUS
    <2>1. Sample
      <3>1. BlockSizes \subseteq Nat /\ left \in Nat
        BY HostAssumption DEF TypeOK, HostTypeOK
      <3>2. ASSUME NEW play, NEW size \in BlockSizes, NEW runs,
                   HostBlock(play, size, runs)
            PROVE  FALSE
        BY <3>1, <3>2 DEF HostBlock
      <3>3. ~BeginBlock /\ ~BypassBlock
        BY <3>2, Zenon DEF BeginBlock, BypassBlock
      <3>. QED  BY <3>1, <3>3 DEF Next, vars, hostVars
    <2>. DEFINE p == Recalled(perf)
                v == VoiceAt(p)
    <2>2. /\ perf'.pending = p.pending
          /\ perf'.voice.slice = v.slice /\ perf'.voice.style = v.style
      BY <2>1, SampleCases
    <2>3. SameRecall(perf, p) /\ p \in Runtimes /\ p.voice = perf.voice
      BY <2>2, RecalledCases, SnappedCases DEF SameRecall, Fires
    <2>4. ActiveState(p) = perf.frozen
      BY <2>3 DEF SameRecall, ActiveState
    <2>5. \/ v.slice = perf.frozen.segment /\ v.style = perf.frozen.style
          \/ v.slice = perf.voice.slice /\ v.style = perf.voice.style
      BY <2>3, <2>4, VoiceCases
    <2>. QED  BY <2>2, <2>5 DEF FrozenInv
  <1>. QED  BY <1>1, PerformanceTypes, PerformanceFrozen, PTL DEF Spec, FrozenUndisturbed

-----------------------------------------------------------------------------
(* The boundary of a note that waits. *)
LEMMA PerformanceBoundary == ASSUME ~Relocates PROVE Spec => []BoundaryInv
  <1>1. Init => BoundaryInv
    BY DEF Init, BoundaryInv
  <1>2. TypeOK /\ BoundaryInv /\ [Next]_vars => BoundaryInv'
    <2>. SUFFICES ASSUME TypeOK, BoundaryInv, [Next]_vars PROVE BoundaryInv'
      OBVIOUS
    <2>0. /\ PpqPerSample \in Nat \ {0} /\ ppq \in Int /\ perf \in Runtimes
          /\ state.interval \in Nat \ {0}
      BY HostAssumption, StateFacts DEF TypeOK, HostTypeOK
    <2>1. CASE BeginBlock \/ BypassBlock
      <3>1. PICK note \in Keys \cup {NoNote}, play \in BOOLEAN, q \in Runtimes :
             /\ play = playing'
             /\ Defers(note, state', play) => ~q.snapped
             /\ ~Defers(note, state', play) => /\ q.pending = perf.pending
                                               /\ q.snapped = perf.snapped
                                               /\ q.boundary = perf.boundary
             /\ perf' \in {q, [q EXCEPT !.voice = ClearPick(@)]}
             /\ BeginBlock => stale' = (/\ perf'.snapped /\ ~Defers(note, state', play)
                                        /\ stale \/ state'.interval # state.interval)
             /\ BypassBlock => stale' = (q.snapped /\ ~Defers(note, state', play))
        BY <2>1, BlockCases, Zenon
      <3>2. /\ perf'.pending = q.pending /\ perf'.snapped = q.snapped
            /\ perf'.boundary = q.boundary
        BY <3>1 DEF Runtimes
      <3>. SUFFICES ASSUME perf'.snapped PROVE
                      /\ perf.snapped /\ perf'.pending = perf.pending
                      /\ ~stale' =>
                           /\ playing' \/ left' > 0
                           /\ playing' => /\ perf'.boundary % state'.interval = 0
                                          /\ ppq' < perf'.boundary + PpqPerSample
        BY DEF BoundaryInv
      <3>3. /\ ~Defers(note, state', play) /\ perf.snapped
            /\ perf'.pending = perf.pending /\ perf'.boundary = perf.boundary
        BY <3>1, <3>2
      <3>4. BypassBlock => stale'
        BY <3>1, <3>2, <3>3
      <3>5. BeginBlock /\ ~stale' => ~stale /\ state'.interval = state.interval
        BY <3>1, <3>3
      <3>6. CASE BeginBlock /\ ~stale'
        <4>1. PICK size \in BlockSizes, starts \in BOOLEAN : HostBlock(starts, size, TRUE)
          BY <3>6, Zenon DEF BeginBlock
        <4>2. left = 0 /\ left' = size /\ size > 0
          BY <4>1, HostAssumption DEF HostBlock
        <4>3. playing
          BY <3>3, <3>5, <3>6, <4>2 DEF BoundaryInv
        <4>4. playing' => ppq' = ppq
          <5>1. playing' = starts
            BY <4>1 DEF HostBlock
          <5>. QED  BY <4>1, <4>3, <5>1 DEF HostBlock
        <4>5. perf.boundary % state.interval = 0 /\ ppq < perf.boundary + PpqPerSample
          BY <3>3, <3>5, <3>6, <4>3 DEF BoundaryInv
        <4>. QED  BY <3>3, <3>5, <3>6, <4>2, <4>4, <4>5
      <3>. QED  BY <2>1, <3>3, <3>4, <3>6
    <2>2. CASE Sample
      <3>. DEFINE p == Recalled(perf)
                  s == Snapped(perf)
      <3>1. /\ perf'.pending = p.pending /\ perf'.snapped = p.snapped
            /\ perf'.boundary = p.boundary
        BY <2>2, SampleCases
      <3>2. /\ playing' = playing /\ state' = state
            /\ playing => ppq' = ppq + PpqPerSample
        BY <2>2 DEF Sample, HostSample
      <3>3. stale' = (stale /\ p.snapped)
        BY <2>2, Zenon DEF Sample
      <3>4. CASE ~p.snapped
        BY <3>1, <3>4 DEF BoundaryInv
      <3>5. CASE p.snapped
        <4>1. /\ perf.pending # NoNote /\ p = s
              /\ ~BoundaryCrossed(s) /\ s.pending = perf.pending
          BY <3>5, RecalledCases, SnappedCases DEF BoundaryInv
        <4>2. playing /\ ppq < s.boundary
          BY <2>0, <4>1, SnappedCases DEF BoundaryCrossed, Runtimes
        <4>3. ~stale' => s.boundary % state.interval = 0
          <5>1. CASE s = perf
            BY <3>3, <3>5, <4>1, <4>2, <5>1, Zenon DEF BoundaryInv
          <5>2. CASE s.boundary = NextBoundary(ppq, state.interval)
            BY <2>0, <5>2, NextBoundaryOnGrid
          <5>. QED  BY <5>1, <5>2, SnappedCases
        <4>4. s.boundary \in Int
          BY SnappedCases DEF Runtimes
        <4>. HIDE DEF p, s
        <4>. QED  BY <2>0, <3>1, <3>2, <4>1, <4>2, <4>3, <4>4 DEF BoundaryInv
      <3>. QED  BY <3>4, <3>5
    <2>3. CASE UNCHANGED vars
      BY <2>3 DEF vars, hostVars, historyVars, BoundaryInv
    <2>. QED  BY <2>1, <2>2, <2>3 DEF Next
  <1>. QED  BY <1>1, <1>2, PerformanceTypes, PTL DEF Spec

(* A deferred recall on a playing transport lands on the interval grid, to *)
(* the sample, unless its boundary went stale; whatever the length of      *)
(* blocks, samples and intervals (Scheduler.cpp:1011-1014, 1059-1088).     *)
THEOREM PerformanceRecallOnGrid ==
    ASSUME ~Relocates PROVE Spec => UndisturbedRecallOnGrid
  <1>1. TypeOK /\ BoundaryInv /\ [Next]_vars =>
          [Fires /\ playing /\ ~stale => ppq % state.interval < PpqPerSample]_vars
    <2>. SUFFICES ASSUME TypeOK, BoundaryInv, [Next]_vars, Fires, playing, ~stale
                  PROVE  ppq % state.interval < PpqPerSample
      OBVIOUS
    <2>0. /\ PpqPerSample \in Nat \ {0} /\ ppq \in Int /\ perf \in Runtimes
          /\ state.interval \in Nat \ {0}
      BY HostAssumption, StateFacts DEF TypeOK, HostTypeOK
    <2>1. Sample
      <3>1. CASE BeginBlock \/ BypassBlock
        <4>1. PICK note \in Keys \cup {NoNote}, play \in BOOLEAN, q \in Runtimes :
                /\ q = NoteOn(perf, note, state', play)
                /\ ~Defers(note, state', play) => q.pending = perf.pending
                /\ perf' \in {q, [q EXCEPT !.voice = ClearPick(@)]}
          BY <3>1, BlockCases, Zenon
        <4>2. perf'.pending = q.pending
          BY <4>1 DEF Runtimes
        <4>3. Defers(note, state', play) => q.pending = note /\ note # NoNote
          BY <2>0, <4>1 DEF NoteOn, Defers, Defer, Accepted, Runtimes
        <4>. QED  BY <4>1, <4>2, <4>3 DEF Fires
      <3>2. CASE UNCHANGED vars
        BY <3>2 DEF vars, Fires
      <3>. QED  BY <3>1, <3>2 DEF Next
    <2>2. perf'.pending = Recalled(perf).pending
      BY <2>1, SampleCases
    <2>3. BoundaryCrossed(Snapped(perf))
      BY <2>2, RecalledCases, SnappedCases DEF Fires
    <2>4. ppq >= Snapped(perf).boundary
      BY <2>3 DEF BoundaryCrossed
    <2>5. Snapped(perf) # perf => Snapped(perf).boundary = NextBoundary(ppq, state.interval)
      BY SnappedCases
    <2>6. Snapped(perf) = perf
      <3>. SUFFICES ASSUME Snapped(perf) # perf PROVE FALSE
        OBVIOUS
      <3>1. ppq < NextBoundary(ppq, state.interval)
        BY <2>0, NextBoundaryAhead
      <3>2. Snapped(perf).boundary = NextBoundary(ppq, state.interval)
        BY <2>5
      <3>3. NextBoundary(ppq, state.interval) \in Int
        BY <2>0, NextBoundaryAhead
      <3>. QED  BY <2>0, <2>4, <3>1, <3>2, <3>3
    <2>7. perf.snapped
      BY <2>6, SnappedCases
    <2>8. /\ perf.boundary % state.interval = 0 /\ perf.boundary \in Int
          /\ perf.boundary <= ppq /\ ppq < perf.boundary + PpqPerSample
      BY <2>0, <2>4, <2>6, <2>7 DEF BoundaryInv, Runtimes
    <2>. QED  BY <2>0, <2>8, JustPast
  <1>. QED  BY <1>1, PerformanceTypes, PerformanceBoundary, PTL
            DEF Spec, UndisturbedRecallOnGrid
=============================================================================
