------------------------ MODULE SequencedMode_proofs ------------------------
(***************************************************************************)
(* What is proved of trigger mode Sequenced, for every sample length,      *)
(* block size, set of patterns, bank, switch interval, slice and list of   *)
(* slices: its types, that a pick ends with its window, that a retrigger   *)
(* keeps the slice and that a recall is heard on its sample; and, on a     *)
(* timeline that does not jump, that recalls land on their boundaries.     *)
(***************************************************************************)
EXTENDS SequencedMode, PickRenderer_proofs, WellFoundedInduction

(* A set of numbers that is not empty has a least element. *)
LEMMA LeastElement ==
    ASSUME NEW S \in SUBSET Nat, S # {}
    PROVE  \E n \in S : \A m \in S : n <= m
  <1>1. PICK n \in S : \A m \in S : ~(<<m, n>> \in OpToRel(<, Nat))
    BY NatLessThanWellFounded, WFMin
  <1>2. \A m \in S : ~(m < n)
    BY <1>1 DEF OpToRel
  <1>. QED  BY <1>2

(* The pattern that plays is a pattern with columns and a step length.     *)
LEMMA PatternFacts ==
    ASSUME NEW p, IsPattern(p)
    PROVE  /\ p.step \in Nat \ {0}
           /\ Columns(p) \in Nat \ {0}
           /\ \A c \in 1 .. Columns(p) :
                 /\ p.cells[c] \in Cells
                 /\ p.cells[c].sub = 0 \/ p.cells[c].sub >= PpqPerSample
  <1>1. /\ p.step \in Nat \ {0} /\ p.cells \in Seq(Cells) /\ p.cells # <<>>
        /\ \A c \in DOMAIN p.cells : p.cells[c].sub = 0 \/ p.cells[c].sub >= PpqPerSample
    BY HostAssumption DEF IsPattern
  <1>2. DOMAIN p.cells = 1 .. Columns(p) /\ Columns(p) \in Nat \ {0}
    BY <1>1 DEF Columns
  <1>. QED  BY <1>1, <1>2

LEMMA EffectiveIsPattern ==
    ASSUME TypeOK, NEW s \in Runtimes
    PROVE  IsPattern(Effective(s))
  <1>1. CASE s.recalled = NoNote
    BY <1>1, SequencedAssumption DEF Effective, TypeOK
  <1>2. CASE s.recalled # NoNote
    <2>1. s.recalled \in Populated
      BY <1>2 DEF Runtimes
    <2>. QED  BY <1>2, <2>1, SequencedAssumption DEF Effective, Populated
  <1>. QED  BY <1>1, <1>2

(* The step the playhead is in is one of the pattern's.                    *)
LEMMA StepInside ==
    ASSUME NEW p, IsPattern(p), NEW at \in Int
    PROVE  StepIndex(at, p) \in 0 .. (Columns(p) - 1)
  <1>1. p.step \in Nat \ {0} /\ Columns(p) \in Nat \ {0}
    BY PatternFacts
  <1>. DEFINE steps == at \div p.step
              columns == Columns(p)
  <1>2. steps \in Int
    BY <1>1
  <1>3. steps % columns \in 0 .. (columns - 1)
    <2>1. columns \in Nat \ {0}
      BY <1>1
    <2>. HIDE DEF steps, columns
    <2>. QED  BY <1>2, <2>1
  <1>. QED  BY <1>3 DEF StepIndex

(* The next active column is one to as many steps away as there are        *)
(* columns.                                                                *)
LEMMA NextActiveType ==
    ASSUME NEW p, IsPattern(p), NEW step
    PROVE  UntilNextActive(p, step) \in Nat
  <1>. DEFINE active(d) == Filled(p.cells[((step + d) % Columns(p)) + 1])
              ahead == {d \in 1 .. Columns(p) : active(d)}
              least == CHOOSE d \in ahead : \A e \in ahead : d <= e
              first == IF ahead = {} THEN Columns(p) ELSE least
  <1>1. p.step \in Nat /\ Columns(p) \in Nat
    BY PatternFacts
  <1>2. ahead \in SUBSET Nat
    BY <1>1
  <1>3. ahead # {} => least \in ahead
    <2>. HIDE DEF ahead
    <2>. QED  BY <1>2, LeastElement
  <1>4. first \in Nat
    <2>. HIDE DEF ahead, least
    <2>. QED  BY <1>1, <1>2, <1>3
  <1>5. UntilNextActive(p, step) = first * p.step
    BY DEF UntilNextActive
  <1>. QED
    <2>. HIDE DEF first
    <2>. QED  BY <1>1, <1>4, <1>5

(* The length of a note is a length. *)
LEMMA NoteLengthType ==
    ASSUME TypeOK, NEW p, IsPattern(p), NEW cell \in Cells, Filled(cell), NEW step
    PROVE  /\ NoteLength(p, cell, step) \in Nat
           /\ slices[cell.row] \in SliceIds
  <1>1. slices[cell.row] \in SliceIds
    BY ElementOfSeq, SequencedAssumption DEF Filled, TypeOK
  <1>2. /\ SliceLen[slices[cell.row]] \in Nat /\ ScratchCycle \in Nat
        /\ p.step \in Nat \ {0} /\ cell.steps \in Nat
    BY <1>1, RendererAssumption, PatternFacts DEF Cells
  <1>. DEFINE natural == (2 * SliceLen[slices[cell.row]] + p.step) \div (2 * p.step)
              count == Most(Most(1, natural), cell.steps)
  <1>3. natural \in Int
    BY <1>2
  <1>4. count \in Nat
    <2>. HIDE DEF natural
    <2>. QED  BY <1>2, <1>3 DEF Most
  <1>5. DeclaredLength(p, cell) \in Nat
    <2>1. DeclaredLength(p, cell) = count * p.step
      BY DEF DeclaredLength
    <2>. HIDE DEF count
    <2>. QED  BY <1>2, <1>4, <2>1
  <1>6. UntilNextActive(p, step) \in Nat
    BY NextActiveType
  <1>. QED  BY <1>1, <1>2, <1>5, <1>6 DEF NoteLength, Least

-----------------------------------------------------------------------------
(* Phase 1: what the deferred switch leaves. *)
LEMMA SwitchedType ==
    ASSUME TypeOK
    PROVE  /\ Switched(seq) \in Runtimes
           /\ Switched(seq).voice = seq.voice
           /\ Switched(seq).window = seq.window /\ Switched(seq).windowAge = seq.windowAge
           /\ Switched(seq).subActive = seq.subActive /\ Switched(seq).subRow = seq.subRow
           /\ Switched(seq).row = seq.row /\ Switched(seq).shifted = seq.shifted
  <1>1. /\ seq \in Runtimes /\ NextBoundary(ppq, interval) \in Int
    BY NextBoundaryAhead, SequencedAssumption DEF TypeOK, HostTypeOK
  <1>2. /\ Snapped(seq) \in Runtimes
        /\ Snapped(seq) = [seq EXCEPT !.snapped = Snapped(seq).snapped,
                                      !.boundary = Snapped(seq).boundary]
    BY <1>1 DEF Snapped, Runtimes
  <1>3. CASE seq.pending # NoNote
    <2>1. seq.pending \in Notes /\ Snapped(seq).pending = seq.pending
      BY <1>1, <1>2, <1>3 DEF Runtimes
    <2>2. /\ Recalled(Snapped(seq)) \in Runtimes
          /\ Recalled(Snapped(seq)).voice = seq.voice
          /\ Recalled(Snapped(seq)).window = seq.window /\ Recalled(Snapped(seq)).windowAge = seq.windowAge
          /\ Recalled(Snapped(seq)).subActive = seq.subActive /\ Recalled(Snapped(seq)).subRow = seq.subRow
          /\ Recalled(Snapped(seq)).row = seq.row
          /\ Recalled(Snapped(seq)).shifted = seq.shifted
      BY <1>1, <1>2, <2>1 DEF Recalled, Runtimes, Populated
    <2>3. /\ Snapped(seq).voice = seq.voice
          /\ Snapped(seq).window = seq.window /\ Snapped(seq).windowAge = seq.windowAge
          /\ Snapped(seq).subActive = seq.subActive /\ Snapped(seq).subRow = seq.subRow
          /\ Snapped(seq).row = seq.row /\ Snapped(seq).shifted = seq.shifted
      BY <1>1, <1>2 DEF Runtimes
    <2>. QED  BY <1>2, <1>3, <2>2, <2>3 DEF Switched
  <1>4. CASE seq.pending = NoNote
    BY <1>1, <1>4 DEF Switched
  <1>. QED  BY <1>3, <1>4

(* Phase 2: a pick that starts is one of a slice of the block's list, as   *)
(* long as its window or shorter.                                          *)
LEMMA StartedPick ==
    ASSUME TypeOK, NEW s \in Runtimes, NEW p, IsPattern(p),
           NEW step \in 0 .. (Columns(p) - 1), Filled(p.cells[step + 1])
    PROVE  LET cell == p.cells[step + 1]
               t    == Started(s, p, step) IN
           /\ t \in Runtimes
           /\ t.voice.active /\ t.voice.since = 0 /\ t.windowAge = 0
           /\ t.voice.slice = slices[cell.row] /\ t.voice.head = slices[cell.row]
           /\ t.voice.style = cell.style
           /\ t.voice.len <= t.window
           /\ t.row = cell.row
           /\ t.subActive => t.subRow = cell.row /\ t.subNext > 0
           /\ t.last = s.last /\ t.pending = s.pending /\ t.recalled = s.recalled
           /\ t.snapped = s.snapped /\ t.boundary = s.boundary
  <1>. DEFINE cell == p.cells[step + 1]
              length == NoteLength(p, cell, step)
              len == IF cell.sub = 0 THEN length ELSE Least(length, cell.sub)
              slice == slices[cell.row]
              stop == IF cell.style = "tapeStop" THEN len ELSE SliceLen[slice]
              voice == StartPick(slice, cell.style, len, stop, TRUE)
              row == SubRow(s, cell)
              on == cell.sub # 0
              tick == IF on THEN cell.sub ELSE s.subTick
              next == IF on THEN cell.sub ELSE s.subNext
  <1>1. /\ cell \in Cells
        /\ cell.sub = 0 \/ cell.sub >= PpqPerSample
    <2>1. step + 1 \in 1 .. Columns(p)
      BY PatternFacts
    <2>. QED  BY <2>1, PatternFacts
  <1>2. length \in Nat /\ slice \in SliceIds
    BY <1>1, NoteLengthType
  <1>3. /\ cell.row \in Nat /\ cell.sub \in Nat /\ cell.style \in PlaybackStyles
        /\ on => cell.sub > 0
    BY <1>1, HostAssumption DEF Cells
  <1>4. len \in Nat /\ len <= length
    <2>. HIDE DEF length
    <2>. QED  BY <1>2, <1>3 DEF Least
  <1>5. stop \in Int
    <2>. HIDE DEF len
    <2>. QED  BY <1>2, <1>4, RendererAssumption
  <1>6. /\ voice \in Voices
        /\ voice.active /\ voice.since = 0 /\ voice.slice = slice /\ voice.head = slice
        /\ voice.style = cell.style /\ voice.len = len
    <2>1. voice \in Voices
      <3>1. len \in Int /\ TRUE \in BOOLEAN
        BY <1>4
      <3>. HIDE DEF len, stop, slice
      <3>. QED  BY <1>2, <1>3, <1>5, <3>1, StartPickType
    <2>. QED  BY <2>1, Zenon DEF StartPick
  <1>7. row \in Nat /\ (on => row = cell.row)
    BY <1>3 DEF SubRow
  <1>8. tick \in Nat /\ next \in Nat /\ (on => next > 0)
    BY <1>3 DEF Runtimes
  <1>9. PICK b \in BOOLEAN :
          /\ b => on
          /\ Started(s, p, step) =
               [s EXCEPT !.window = length, !.windowAge = 0, !.subActive = b,
                         !.subRow = row, !.subTick = tick, !.subNext = next,
                         !.voice = voice, !.row = cell.row, !.shifted = FALSE]
    <2>1. on \in BOOLEAN
      BY Zenon
    <2>. WITNESS on \in BOOLEAN
    <2>. QED  BY Zenon DEF Started
  <1>10. Started(s, p, step) \in Runtimes
    <2>1. cell.row \in Nat
      BY <1>3
    <2>. HIDE DEF cell, length, on, row, tick, next, voice
    <2>3. length \in Nat /\ row \in Nat /\ tick \in Nat /\ next \in Nat /\ voice \in Voices
      BY <1>2, <1>6, <1>7, <1>8
    <2>2. [s EXCEPT !.window = length, !.windowAge = 0, !.subActive = b,
                         !.subRow = row, !.subTick = tick, !.subNext = next,
                         !.voice = voice, !.row = cell.row, !.shifted = FALSE] \in Runtimes
      BY <2>1, <2>3 DEF Runtimes
    <2>. QED  BY <1>9, <2>2
  <1>11. LET t == Started(s, p, step) IN
           /\ t.voice = voice /\ t.windowAge = 0 /\ t.window = length
           /\ t.subActive = b /\ t.subRow = row /\ t.row = cell.row
           /\ t.subNext = next
           /\ t.last = s.last /\ t.pending = s.pending /\ t.recalled = s.recalled
           /\ t.snapped = s.snapped /\ t.boundary = s.boundary
    <2>. HIDE DEF length, on, row, tick, next, voice
    <2>. QED  BY <1>9 DEF Runtimes
  <1>. HIDE DEF length, on, row, next, voice, slice, len
  <1>. QED  BY <1>4, <1>6, <1>7, <1>8, <1>9, <1>10, <1>11 DEF slice

LEMMA SteppedType ==
    ASSUME TypeOK, NEW s \in Runtimes
    PROVE  /\ Stepped(s) \in Runtimes
           /\ Stepped(s).last = StepIndex(ppq, Effective(s))
           /\ Stepped(s).pending = s.pending /\ Stepped(s).recalled = s.recalled
           /\ Stepped(s).snapped = s.snapped /\ Stepped(s).boundary = s.boundary
           /\ FitsWindow(s) => FitsWindow(Stepped(s))
           /\ PicksItsSlice(s, slices) => PicksItsSlice(Stepped(s), slices)
  <1>. DEFINE p == Effective(s)
              step == StepIndex(ppq, p)
              on == [s EXCEPT !.last = step]
  <1>1. IsPattern(p) /\ step \in 0 .. (Columns(p) - 1)
    BY EffectiveIsPattern, StepInside DEF TypeOK, HostTypeOK
  <1>2. /\ on \in Runtimes /\ on.last = step
        /\ on.pending = s.pending /\ on.recalled = s.recalled
        /\ on.snapped = s.snapped /\ on.boundary = s.boundary
        /\ on.voice = s.voice /\ on.window = s.window /\ on.windowAge = s.windowAge
        /\ on.subActive = s.subActive /\ on.subRow = s.subRow
        /\ on.row = s.row /\ on.shifted = s.shifted
    <2>1. step \in Nat
      BY <1>1, PatternFacts
    <2>. HIDE DEF step
    <2>. QED  BY <2>1 DEF Runtimes
  <1>3. CASE step = s.last
    BY <1>3 DEF Stepped
  <1>4. CASE step # s.last /\ ~Filled(p.cells[step + 1])
    <2>1. Stepped(s) = on
      BY <1>4 DEF Stepped
    <2>. HIDE DEF on, step, p
    <2>. QED  BY <1>2, <2>1 DEF FitsWindow, PicksItsSlice, step, p
  <1>5. CASE step # s.last /\ Filled(p.cells[step + 1])
    <2>. DEFINE cell == p.cells[step + 1]
                t == Started(on, p, step)
    <2>1. Stepped(s) = t
      BY <1>5 DEF Stepped
    <2>2. /\ t \in Runtimes
          /\ t.voice.active /\ t.voice.since = 0 /\ t.windowAge = 0
          /\ t.voice.slice = slices[cell.row] /\ t.voice.head = slices[cell.row]
          /\ t.voice.len <= t.window
          /\ t.row = cell.row
          /\ t.subActive => t.subRow = cell.row
          /\ t.last = on.last /\ t.pending = on.pending /\ t.recalled = on.recalled
          /\ t.snapped = on.snapped /\ t.boundary = on.boundary
      <3>. HIDE DEF on, step, p
      <3>. QED  BY <1>1, <1>2, <1>5, StartedPick
    <2>3. FitsWindow(t)
      <3>. HIDE DEF t
      <3>. QED  BY <2>2 DEF FitsWindow, Runtimes, Voices
    <2>4. PicksItsSlice(t, slices)
      <3>. HIDE DEF t, cell
      <3>. QED  BY <2>2 DEF PicksItsSlice
    <2>. HIDE DEF t, on, step, p
    <2>. QED  BY <1>2, <2>1, <2>2, <2>3, <2>4 DEF step, p
  <1>. QED  BY <1>3, <1>4, <1>5

(* Phase 3: a retrigger is of the same slice and ends with the window.     *)
LEMMA SubdividedType ==
    ASSUME TypeOK, NEW s \in Runtimes
    PROVE  LET t == Subdivided(s) IN
           /\ t \in Runtimes
           /\ t.last = s.last /\ t.pending = s.pending /\ t.recalled = s.recalled
           /\ t.snapped = s.snapped /\ t.boundary = s.boundary
           /\ t.voice.slice = s.voice.slice /\ t.voice.style = s.voice.style
           /\ t.voice.since <= s.voice.since
           /\ FitsWindow(s) => FitsWindow(t)
           /\ PicksItsSlice(s, slices) => PicksItsSlice(t, slices)
  <1>. DEFINE due == /\ s.subActive
                     /\ s.subRow \in DOMAIN slices
                     /\ s.windowAge < s.window
                     /\ s.windowAge >= s.subNext
              len == RetriggerLength(s)
              stop == IF s.voice.style = "tapeStop" THEN len ELSE s.voice.stop
              slice == slices[s.subRow]
              voice == Retrigger(s.voice, slice, len, stop)
              next == s.subNext + s.subTick
              t == [s EXCEPT !.voice = voice, !.subNext = next]
  <1>1. CASE ~due
    BY <1>1 DEF Subdivided, Runtimes, Voices
  <1>2. CASE due
    <2>1. Subdivided(s) = t
      BY <1>2 DEF Subdivided
    <2>2. slice \in SliceIds /\ slices \in SliceLists
      BY <1>2, ElementOfSeq, SequencedAssumption DEF TypeOK
    <2>3. len \in Int /\ next \in Nat /\ s.voice \in Voices
          /\ s.windowAge + len <= s.window
      BY DEF RetriggerLength, Least, Runtimes
    <2>4. stop \in Int
      <3>. HIDE DEF len
      <3>. QED  BY <2>3 DEF Voices
    <2>5. /\ voice \in Voices /\ voice.slice = s.voice.slice
          /\ voice.style = s.voice.style /\ voice.since = 0
          /\ voice.head = slice /\ voice.len = len
      <3>. HIDE DEF len, stop, slice
      <3>. QED  BY <2>2, <2>3, <2>4 DEF Retrigger, Voices
    <2>6. /\ t \in Runtimes
          /\ t.last = s.last /\ t.pending = s.pending /\ t.recalled = s.recalled
          /\ t.snapped = s.snapped /\ t.boundary = s.boundary
          /\ t.voice = voice /\ t.window = s.window /\ t.windowAge = s.windowAge
          /\ t.subActive = s.subActive /\ t.subRow = s.subRow
          /\ t.row = s.row /\ t.shifted = s.shifted
      <3>. HIDE DEF voice, next
      <3>. QED  BY <2>3, <2>5 DEF Runtimes
    <2>7. PicksItsSlice(s, slices) /\ ~s.shifted => slice = s.voice.slice
      BY <1>2 DEF PicksItsSlice
    <2>. HIDE DEF t, voice, len, slice
    <2>8. FitsWindow(t)
      BY <2>3, <2>5, <2>6 DEF FitsWindow, Runtimes
    <2>9. PicksItsSlice(s, slices) => PicksItsSlice(t, slices)
      BY <2>5, <2>6, <2>7 DEF PicksItsSlice
    <2>10. t.voice.since <= s.voice.since
      BY <2>3, <2>5, <2>6 DEF Voices
    <2>. QED  BY <2>1, <2>5, <2>6, <2>8, <2>9, <2>10
  <1>. QED  BY <1>1, <1>2

(* Phase 4: a sample goes by. *)
LEMMA RenderedType ==
    ASSUME NEW s \in Runtimes
    PROVE  LET t == Rendered(s) IN
           /\ t \in Runtimes
           /\ t.last = s.last /\ t.pending = s.pending /\ t.recalled = s.recalled
           /\ t.snapped = s.snapped /\ t.boundary = s.boundary
           /\ t.voice = RenderSample(s.voice)
           /\ FitsWindow(s) => FitsWindow(t)
           /\ PicksItsSlice(s, slices) => PicksItsSlice(t, slices)
  <1>. DEFINE voice == RenderSample(s.voice)
              age == Least(s.windowAge + PpqPerSample, s.window)
              t == [s EXCEPT !.windowAge = age, !.voice = voice]
  <1>1. /\ Rendered(s) = t
        /\ s.voice \in Voices /\ voice \in Voices
        /\ age \in Nat /\ age <= s.windowAge + PpqPerSample
    BY RenderSampleType, HostAssumption DEF Rendered, Least, Runtimes
  <1>2. /\ t \in Runtimes
        /\ t.last = s.last /\ t.pending = s.pending /\ t.recalled = s.recalled
        /\ t.snapped = s.snapped /\ t.boundary = s.boundary
        /\ t.voice = voice /\ t.window = s.window /\ t.windowAge = age
        /\ t.subActive = s.subActive /\ t.subRow = s.subRow
        /\ t.row = s.row /\ t.shifted = s.shifted
    <2>. HIDE DEF voice, age
    <2>. QED  BY <1>1 DEF Runtimes
  <1>3. /\ voice.slice = s.voice.slice /\ voice.head = s.voice.head
        /\ voice.len = s.voice.len
        /\ voice.active => s.voice.active
        /\ ~Finished(voice) => ~Finished(s.voice) /\ voice.since = s.voice.since + PpqPerSample
    BY <1>1, RenderKeepsPick
  <1>. HIDE DEF t, voice, age
  <1>4. FitsWindow(s) => FitsWindow(t)
    BY <1>1, <1>2, <1>3, HostAssumption DEF FitsWindow, Runtimes, Voices
  <1>5. PicksItsSlice(s, slices) => PicksItsSlice(t, slices)
    BY <1>2, <1>3 DEF PicksItsSlice
  <1>. QED  BY <1>1, <1>2, <1>4, <1>5 DEF voice

-----------------------------------------------------------------------------
(* What a block does before its first sample: routing a note touches       *)
(* neither the voice nor the clocks.                                       *)
LEMMA RoutedType ==
    ASSUME TypeOK, NEW note \in Notes \cup {NoNote}
    PROVE  LET t == NoteOn(note, seq) IN
           /\ t \in Runtimes
           /\ t.voice = seq.voice /\ t.window = seq.window
           /\ t.windowAge = seq.windowAge
           /\ t.subActive = seq.subActive /\ t.subRow = seq.subRow
           /\ t.row = seq.row /\ t.shifted = seq.shifted
           /\ t.last = seq.last /\ t.snapped = seq.snapped
           /\ t.boundary = seq.boundary
           /\ t.pending = (IF note = NoNote THEN seq.pending ELSE note)
           /\ t.recalled = seq.recalled
  BY DEF NoteOn, Runtimes, TypeOK

LEMMA ArmedType ==
    ASSUME NEW s \in Runtimes
    PROVE  /\ Armed(s) \in Runtimes
           /\ Armed(s).last = NoStep
           /\ ~Armed(s).subActive /\ ~Armed(s).voice.active
           /\ Armed(s).row = 0
           /\ Armed(s).pending = s.pending /\ Armed(s).recalled = s.recalled
           /\ Armed(s).snapped = s.snapped /\ Armed(s).boundary = s.boundary
  <1>1. s.voice \in Voices /\ ClearPick(s.voice) \in Voices /\ ~ClearPick(s.voice).active
    BY ClearPickType DEF ClearPick, Runtimes, Voices
  <1>. QED  BY <1>1 DEF Armed, Runtimes

LEMMA GoneOnType ==
    ASSUME NEW s \in Runtimes
    PROVE  /\ GoneOn(s) \in Runtimes
           /\ GoneOn(s).last = s.last
           /\ GoneOn(s).subActive = s.subActive /\ GoneOn(s).subRow = s.subRow
           /\ GoneOn(s).row = s.row
           /\ GoneOn(s).voice = s.voice /\ GoneOn(s).window = s.window
           /\ GoneOn(s).windowAge = s.windowAge
           /\ GoneOn(s).pending = s.pending /\ GoneOn(s).recalled = s.recalled
           /\ GoneOn(s).snapped = s.snapped /\ GoneOn(s).boundary = s.boundary
           /\ ~GoneOn(s).shifted =>
                 /\ ~s.shifted
                 /\ s.row \in DOMAIN slices' => slices'[s.row] = s.voice.slice
  <1>. DEFINE moved == /\ s.row \in DOMAIN slices'
                       /\ slices'[s.row] # s.voice.slice
  <1>1. PICK b \in BOOLEAN : b = (s.shifted \/ moved)
    BY DEF Runtimes
  <1>2. GoneOn(s) = [s EXCEPT !.shifted = b]
    BY <1>1 DEF GoneOn
  <1>3. ~b => /\ ~s.shifted
              /\ s.row \in DOMAIN slices' => slices'[s.row] = s.voice.slice
    BY <1>1
  <1>4. GoneOn(s) \in Runtimes /\ GoneOn(s).shifted = b
    BY <1>2 DEF Runtimes
  <1>5. /\ GoneOn(s).last = s.last
        /\ GoneOn(s).subActive = s.subActive /\ GoneOn(s).subRow = s.subRow
        /\ GoneOn(s).row = s.row
        /\ GoneOn(s).voice = s.voice /\ GoneOn(s).window = s.window
        /\ GoneOn(s).windowAge = s.windowAge
        /\ GoneOn(s).pending = s.pending /\ GoneOn(s).recalled = s.recalled
        /\ GoneOn(s).snapped = s.snapped /\ GoneOn(s).boundary = s.boundary
    BY <1>2 DEF Runtimes
  <1>. QED  BY <1>3, <1>4, <1>5, Zenon

(* What a block that is walked, or bypassed, leaves in the runtime.        *)
LEMMA BeginBlockType ==
    ASSUME TypeOK, BeginBlock
    PROVE  /\ seq' \in Runtimes
           /\ seq'.snapped = seq.snapped /\ seq'.boundary = seq.boundary
           /\ seq'.pending = NoNote => seq.pending = NoNote
           /\ seq'.recalled = seq.recalled
           /\ armed => /\ seq'.voice = seq.voice /\ seq'.window = seq.window
                       /\ seq'.windowAge = seq.windowAge /\ seq'.last = seq.last
           /\ ~armed => /\ ~seq'.voice.active /\ ~seq'.subActive
                        /\ seq'.last = NoStep /\ seq'.row = 0
           /\ armed /\ PicksItsSlice(seq, slices) => PicksItsSlice(seq', slices')
  <1>1. PICK note \in Notes \cup {NoNote} :
          seq' = IF armed THEN GoneOn(NoteOn(note, seq))
                 ELSE Armed(NoteOn(note, seq))
    BY DEF BeginBlock
  <1>. DEFINE routed == NoteOn(note, seq)
  <1>2. /\ routed \in Runtimes
        /\ routed.voice = seq.voice /\ routed.window = seq.window
        /\ routed.windowAge = seq.windowAge
        /\ routed.subActive = seq.subActive /\ routed.subRow = seq.subRow
        /\ routed.row = seq.row /\ routed.shifted = seq.shifted
        /\ routed.last = seq.last /\ routed.snapped = seq.snapped
        /\ routed.boundary = seq.boundary
        /\ routed.pending = NoNote => seq.pending = NoNote
        /\ routed.recalled = seq.recalled
    BY RoutedType
  <1>3. CASE armed
    <2>1. seq' = GoneOn(routed)
      BY <1>1, <1>3
    <2>. HIDE DEF routed
    <2>2. PicksItsSlice(seq, slices) => PicksItsSlice(seq', slices')
      <3>1. ~seq'.shifted =>
              /\ ~seq.shifted
              /\ seq.row \in DOMAIN slices' =>
                    slices'[seq.row] = seq.voice.slice
        <4>1. ~seq'.shifted =>
                /\ ~routed.shifted
                /\ routed.row \in DOMAIN slices' =>
                      slices'[routed.row] = routed.voice.slice
          BY <1>2, <2>1, GoneOnType
        <4>. QED  BY <1>2, <4>1
      <3>2. /\ seq'.voice = seq.voice
            /\ seq'.subActive = seq.subActive /\ seq'.subRow = seq.subRow
            /\ seq'.row = seq.row
        BY <1>2, <2>1, GoneOnType
      <3>. QED  BY <3>1, <3>2 DEF PicksItsSlice
    <2>. QED  BY <1>2, <1>3, <2>1, <2>2, GoneOnType
  <1>4. CASE ~armed
    <2>1. seq' = Armed(routed)
      BY <1>1, <1>4
    <2>. HIDE DEF routed
    <2>. QED  BY <1>2, <1>4, <2>1, ArmedType
  <1>. QED  BY <1>3, <1>4

LEMMA BypassBlockType ==
    ASSUME TypeOK, BypassBlock
    PROVE  /\ seq' \in Runtimes
           /\ seq'.snapped = seq.snapped
           /\ seq'.pending = NoNote => seq.pending = NoNote
           /\ seq'.recalled = seq.recalled
  <1>1. PICK note \in Notes \cup {NoNote} :
          seq' = [NoteOn(note, seq) EXCEPT !.voice = ClearPick(@)]
    BY DEF BypassBlock
  <1>. DEFINE routed == NoteOn(note, seq)
  <1>2. /\ routed \in Runtimes
        /\ routed.snapped = seq.snapped
        /\ routed.pending = NoNote => seq.pending = NoNote
        /\ routed.recalled = seq.recalled
    BY RoutedType
  <1>3. seq' = [routed EXCEPT !.voice = ClearPick(routed.voice)]
    BY <1>1
  <1>4. ClearPick(routed.voice) \in Voices
    BY <1>2, ClearPickType DEF Runtimes
  <1>. HIDE DEF routed
  <1>. QED  BY <1>2, <1>3, <1>4 DEF Runtimes

(* What a sample leaves in the runtime, phase after phase.                 *)
LEMMA SampleType ==
    ASSUME TypeOK, Sample
    PROVE  LET s == Switched(seq) IN
           /\ s \in Runtimes /\ seq' \in Runtimes
           /\ seq'.last = StepIndex(ppq, Effective(s))
           /\ seq'.pending = s.pending /\ seq'.recalled = s.recalled
           /\ seq'.snapped = s.snapped /\ seq'.boundary = s.boundary
           /\ FitsWindow(seq) => FitsWindow(seq')
           /\ PicksItsSlice(seq, slices) => PicksItsSlice(seq', slices)
  <1>. DEFINE s == Switched(seq)
              t == Stepped(s)
              u == Subdivided(t)
  <1>1. seq' = Rendered(u)
    BY DEF Sample
  <1>2. /\ s \in Runtimes
        /\ FitsWindow(seq) => FitsWindow(s)
        /\ PicksItsSlice(seq, slices) => PicksItsSlice(s, slices)
    BY SwitchedType DEF FitsWindow, PicksItsSlice
  <1>. HIDE DEF s
  <1>3. /\ t \in Runtimes
        /\ t.last = StepIndex(ppq, Effective(s))
        /\ t.pending = s.pending /\ t.recalled = s.recalled
        /\ t.snapped = s.snapped /\ t.boundary = s.boundary
        /\ FitsWindow(s) => FitsWindow(t)
        /\ PicksItsSlice(s, slices) => PicksItsSlice(t, slices)
    BY <1>2, SteppedType
  <1>. HIDE DEF t
  <1>4. /\ u \in Runtimes
        /\ u.last = t.last /\ u.pending = t.pending /\ u.recalled = t.recalled
        /\ u.snapped = t.snapped /\ u.boundary = t.boundary
        /\ FitsWindow(t) => FitsWindow(u)
        /\ PicksItsSlice(t, slices) => PicksItsSlice(u, slices)
    BY <1>3, SubdividedType
  <1>. HIDE DEF u
  <1>5. /\ seq' \in Runtimes
        /\ seq'.last = u.last /\ seq'.pending = u.pending /\ seq'.recalled = u.recalled
        /\ seq'.snapped = u.snapped /\ seq'.boundary = u.boundary
        /\ FitsWindow(u) => FitsWindow(seq')
        /\ PicksItsSlice(u, slices) => PicksItsSlice(seq', slices)
    BY <1>1, <1>4, RenderedType
  <1>. QED  BY <1>2, <1>3, <1>4, <1>5 DEF s

(* The types of every variable are as declared: in particular every pick   *)
(* plays a slice that exists, whatever lists, patterns and recalls the     *)
(* blocks see.                                                             *)
THEOREM SequencedTypes == Spec => []TypeOK
  <1>1. Init => TypeOK
    <2>. SUFFICES ASSUME Init PROVE TypeOK
      OBVIOUS
    <2>1. IdleVoice \in Voices
      BY DEF IdleVoice, Voices, PlaybackStyles
    <2>2. HostTypeOK
      BY HostAssumption DEF Init, HostInit, HostTypeOK
    <2>3. seq \in Runtimes
      BY <2>1 DEF Init, Runtimes
    <2>. QED  BY <2>2, <2>3, Zenon DEF Init, TypeOK
  <1>2. TypeOK /\ [Next]_vars => TypeOK'
    <2>. SUFFICES ASSUME TypeOK, [Next]_vars PROVE TypeOK'
      OBVIOUS
    <2>1. CASE BeginBlock
      <3>1. HostTypeOK' /\ seq' \in Runtimes
        BY <2>1, HostMoves, BeginBlockType DEF BeginBlock, TypeOK
      <3>2. /\ slices' \in SliceLists /\ timing' \in Timings /\ interval' \in Intervals
            /\ working' \in Patterns
        BY <2>1 DEF BeginBlock, ReadSnapshot, TypeOK
      <3>3. armed' \in BOOLEAN /\ stale' \in BOOLEAN /\ fresh' \in BOOLEAN
        BY <2>1, Zenon DEF BeginBlock, TypeOK
      <3>. QED  BY <3>1, <3>2, <3>3 DEF TypeOK
    <2>2. CASE BypassBlock
      <3>1. HostTypeOK' /\ seq' \in Runtimes
        BY <2>2, HostMoves, BypassBlockType DEF BypassBlock, TypeOK
      <3>2. /\ slices' \in SliceLists /\ timing' \in Timings /\ interval' \in Intervals
            /\ working' \in Patterns
        BY <2>2 DEF BypassBlock, ReadSnapshot, TypeOK
      <3>3. armed' \in BOOLEAN /\ stale' \in BOOLEAN /\ fresh' \in BOOLEAN
        <4>1. seq.snapped \in BOOLEAN
          BY DEF TypeOK, Runtimes
        <4>. QED  BY <2>2, <4>1, Zenon DEF BypassBlock, TypeOK
      <3>. QED  BY <3>1, <3>2, <3>3 DEF TypeOK
    <2>3. CASE Sample
      <3>1. HostTypeOK' /\ seq' \in Runtimes
        BY <2>3, HostMoves, SampleType DEF Sample, TypeOK
      <3>2. /\ slices' \in SliceLists /\ timing' \in Timings /\ interval' \in Intervals
            /\ working' \in Patterns
        BY <2>3 DEF Sample, blockVars, TypeOK
      <3>3. armed' \in BOOLEAN /\ stale' \in BOOLEAN /\ fresh' \in BOOLEAN
        BY <2>3, Zenon DEF Sample, TypeOK
      <3>. QED  BY <3>1, <3>2, <3>3 DEF TypeOK
    <2>4. CASE Edit
      <3>1. /\ UNCHANGED <<hostVars, armed, blockVars, seq, stale>>
            /\ working' \in Patterns /\ fresh' \in BOOLEAN
        BY <2>4 DEF Edit
      <3>. QED  BY <3>1 DEF TypeOK, HostTypeOK, hostVars, blockVars
    <2>5. CASE UNCHANGED vars
      BY <2>5 DEF vars, hostVars, blockVars, TypeOK, HostTypeOK
    <2>. QED  BY <2>1, <2>2, <2>3, <2>4, <2>5 DEF Next
  <1>. QED  BY <1>1, <1>2, PTL DEF Spec

-----------------------------------------------------------------------------
(* A pick, retriggered or not, ends with the window of its step.           *)
THEOREM SequencedWindows == Spec => []PickEndsWithWindow
  <1>. DEFINE Inv == armed => FitsWindow(seq)
  <1>1. Init => Inv
    BY DEF Init
  <1>2. TypeOK /\ Inv /\ [Next]_vars => Inv'
    <2>. SUFFICES ASSUME TypeOK, Inv, [Next]_vars PROVE armed' => FitsWindow(seq')
      BY DEF FitsWindow, Finished
    <2>1. CASE BeginBlock
      BY <2>1, BeginBlockType DEF FitsWindow, Finished
    <2>2. CASE BypassBlock
      BY <2>2 DEF BypassBlock
    <2>3. CASE Sample
      BY <2>3, SampleType DEF Sample
    <2>4. CASE Edit \/ UNCHANGED vars
      BY <2>4 DEF Edit, vars
    <2>. QED  BY <2>1, <2>2, <2>3, <2>4 DEF Next
  <1>3. Inv => PickEndsWithWindow
    BY DEF FitsWindow, PickEndsWithWindow
  <1>. QED  BY <1>1, <1>2, <1>3, SequencedTypes, PTL DEF Spec

(* A retrigger starts from the slice the pick was committed with, until    *)
(* the first block in which its row is another slice.                      *)
THEOREM SequencedRetriggers == Spec => []RetriggerKeepsSlice
  <1>. DEFINE Inv == armed => PicksItsSlice(seq, slices)
  <1>1. Init => Inv
    BY DEF Init
  <1>2. TypeOK /\ Inv /\ [Next]_vars => Inv'
    <2>. SUFFICES ASSUME TypeOK, Inv, [Next]_vars
                  PROVE  armed' => PicksItsSlice(seq', slices')
      BY DEF PicksItsSlice
    <2>1. CASE BeginBlock
      <3>1. 0 \notin DOMAIN slices'
        BY <2>1, SequencedAssumption DEF BeginBlock, ReadSnapshot
      <3>. QED  BY <2>1, <3>1, BeginBlockType DEF PicksItsSlice
    <2>2. CASE BypassBlock
      BY <2>2 DEF BypassBlock
    <2>3. CASE Sample
      <3>1. UNCHANGED <<armed, slices>>
        BY <2>3 DEF Sample, blockVars
      <3>. QED  BY <2>3, <3>1, SampleType
    <2>4. CASE Edit \/ UNCHANGED vars
      BY <2>4 DEF Edit, vars, blockVars
    <2>. QED  BY <2>1, <2>2, <2>3, <2>4 DEF Next
  <1>3. Inv => RetriggerKeepsSlice
    BY DEF PicksItsSlice, RetriggerKeepsSlice
  <1>. QED  BY <1>1, <1>2, <1>3, SequencedTypes, PTL DEF Spec

-----------------------------------------------------------------------------
(* The three things the deferred switch of a sample may do: nothing, wait  *)
(* for its boundary, or act on the pending recall.                         *)
LEMMA SwitchedCases ==
    ASSUME TypeOK
    PROVE  LET s == Switched(seq) IN
           \/ seq.pending = NoNote /\ s = seq
           \/ /\ seq.pending # NoNote /\ ~SwitchDue(Snapped(seq))
              /\ s = Snapped(seq) /\ s.pending = seq.pending
              /\ s.recalled = seq.recalled
           \/ /\ seq.pending # NoNote /\ SwitchDue(Snapped(seq))
              /\ s.pending = NoNote /\ ~s.snapped
              /\ Bank[seq.pending] = EmptySlot => s.recalled = seq.recalled
              /\ Bank[seq.pending] # EmptySlot =>
                    s.recalled = seq.pending /\ s.last = NoStep
  <1>1. /\ Snapped(seq).pending = seq.pending
        /\ Snapped(seq).recalled = seq.recalled
        /\ Snapped(seq) = [seq EXCEPT !.snapped = Snapped(seq).snapped,
                                      !.boundary = Snapped(seq).boundary]
    BY DEF Snapped, TypeOK, Runtimes
  <1>2. CASE seq.pending = NoNote
    BY <1>2 DEF Switched
  <1>3. CASE seq.pending # NoNote /\ ~SwitchDue(Snapped(seq))
    BY <1>1, <1>3 DEF Switched
  <1>4. CASE seq.pending # NoNote /\ SwitchDue(Snapped(seq))
    <2>1. Switched(seq) = Recalled(Snapped(seq))
      BY <1>4 DEF Switched
    <2>. QED  BY <1>1, <1>4, <2>1 DEF Recalled, TypeOK, Runtimes
  <1>. QED  BY <1>2, <1>3, <1>4

(* Only a walked sample acts on a pending recall, or applies one.          *)
LEMMA OnlySamplesFire ==
    ASSUME TypeOK, [Next]_vars, Fires \/ (left' < left /\ seq' # seq)
    PROVE  Sample
  <1>1. CASE BeginBlock
    <2>1. left = 0 /\ left' \in Nat
      BY <1>1, HostAssumption DEF BeginBlock, HostBlock
    <2>. QED  BY <1>1, <2>1, BeginBlockType DEF Fires
  <1>2. CASE BypassBlock
    <2>1. left = 0 /\ left' \in Nat
      BY <1>2 DEF BypassBlock, HostBlock
    <2>. QED  BY <1>2, <2>1, BypassBlockType DEF Fires
  <1>3. CASE Edit \/ UNCHANGED vars
    BY <1>3 DEF Edit, vars, Fires
  <1>. QED  BY <1>1, <1>2, <1>3 DEF Next

(* A recall is heard on its very sample: the step the playhead is inside   *)
(* is triggered from the recalled grid (Scheduler.cpp:645-648).            *)
THEOREM SequencedRecallHeard == Spec => RecallHeardAtOnce
  <1>. DEFINE Heard ==
         left' < left /\ seq'.recalled # seq.recalled =>
            LET p    == Bank[seq'.recalled]
                cell == p.cells[StepIndex(ppq, p) + 1]
            IN  Filled(cell) =>
                  /\ seq'.voice.slice = slices[cell.row]
                  /\ seq'.voice.style = cell.style
                  /\ seq'.voice.since <= PpqPerSample
  <1>1. TypeOK /\ [Next]_vars => [Heard]_vars
    <2>. SUFFICES ASSUME TypeOK, [Next]_vars,
                         left' < left, seq'.recalled # seq.recalled,
                         NEW p, p = Bank[seq'.recalled],
                         NEW cell, cell = p.cells[StepIndex(ppq, p) + 1],
                         Filled(cell)
                  PROVE  /\ seq'.voice.slice = slices[cell.row]
                         /\ seq'.voice.style = cell.style
                         /\ seq'.voice.since <= PpqPerSample
      OBVIOUS
    <2>. DEFINE s == Switched(seq)
                step == StepIndex(ppq, p)
                on == [s EXCEPT !.last = step]
                t == Started(on, p, step)
    <2>1. Sample
      BY OnlySamplesFire
    <2>2. /\ s \in Runtimes /\ seq'.recalled = s.recalled
          /\ seq' = Rendered(Subdivided(Stepped(s)))
      BY <2>1, SampleType DEF Sample
    <2>3. s.recalled # NoNote /\ s.last = NoStep
      <3>1. s.recalled = seq.pending /\ s.last = NoStep /\ seq.pending # NoNote
        BY <2>2, SwitchedCases
      <3>. QED  BY <3>1
    <2>4. p = Effective(s) /\ IsPattern(p)
      BY <2>2, <2>3, EffectiveIsPattern DEF Effective
    <2>5. step \in 0 .. (Columns(p) - 1) /\ step \in Nat
      BY <2>4, StepInside, PatternFacts DEF TypeOK, HostTypeOK
    <2>6. on \in Runtimes
      <3>. HIDE DEF s, step
      <3>. QED  BY <2>2, <2>5 DEF Runtimes
    <2>7. Stepped(s) = t
      <3>1. step # s.last
        BY <2>3, <2>5 DEF NoStep
      <3>2. Filled(p.cells[step + 1])
        OBVIOUS
      <3>. HIDE DEF s
      <3>. QED  BY <2>4, <3>1, <3>2 DEF Stepped
    <2>8. /\ t \in Runtimes
          /\ t.voice.since = 0 /\ t.windowAge = 0
          /\ t.voice.slice = slices[cell.row] /\ t.voice.style = cell.style
          /\ t.subActive => t.subNext > 0
      <3>. HIDE DEF s, on, step
      <3>. QED  BY <2>4, <2>5, <2>6, StartedPick DEF step
    <2>9. Subdivided(t) = t
      <3>1. t.subActive => ~(t.windowAge >= t.subNext)
        BY <2>8 DEF Runtimes
      <3>. HIDE DEF t
      <3>. QED  BY <3>1 DEF Subdivided
    <2>10. seq'.voice = RenderSample(t.voice) /\ t.voice \in Voices
      BY <2>2, <2>7, <2>8, <2>9, RenderedType DEF Runtimes
    <2>. HIDE DEF t
    <2>. QED  BY <2>8, <2>10, RenderKeepsPick, HostAssumption
  <1>. QED  BY <1>1, SequencedTypes, PTL DEF Spec, RecallHeardAtOnce

-----------------------------------------------------------------------------
(* The step index wraps, from the last of several columns to the first,    *)
(* between two positions no more than a step apart: the later one is less  *)
(* than that distance past a multiple of the whole cycle.                  *)
LEMMA WrapIsCycle ==
    ASSUME NEW at \in Int, NEW d \in Nat \ {0}, NEW step \in Nat \ {0}, d <= step,
           NEW n \in Nat, n > 1,
           (at \div step) % n = 0, ((at - d) \div step) % n = n - 1
    PROVE  at % (step * n) < d
  <1>1. PICK q \in Int, r \in 0 .. (step - 1) : at = step * q + r /\ q = at \div step
    <2>1. /\ at = step * (at \div step) + (at % step)
          /\ at \div step \in Int /\ at % step \in 0 .. (step - 1)
      OBVIOUS
    <2>. QED  BY <2>1
  <1>2. r < d
    <2>1. SUFFICES ASSUME d <= r PROVE FALSE
      OBVIOUS
    <2>2. PICK m \in 0 .. (step - 1) : m = r - d
      BY <2>1
    <2>3. at - d = step * q + m
      BY <1>1, <2>2
    <2>4. (at - d) \div step = q
      BY <2>3, DivisionUnique
    <2>. QED  BY <1>1, <2>4
  <1>3. PICK k \in Int : q = n * k
    <2>1. q % n = 0
      BY <1>1
    <2>. QED  BY <2>1, Multiple
  <1>4. at = (step * n) * k + r
    <2>1. step * (n * k) = (step * n) * k
      OBVIOUS
    <2>. QED  BY <1>1, <1>3, <2>1
  <1>5. PICK g \in Nat \ {0} : g = step * n /\ step <= g
    OBVIOUS
  <1>6. r \in 0 .. (g - 1)
    BY <1>5
  <1>7. at = g * k + r
    BY <1>4, <1>5
  <1>8. at % g = r
    BY <1>6, <1>7, DivisionUnique
  <1>. QED  BY <1>2, <1>5, <1>8

-----------------------------------------------------------------------------
(* On a timeline that does not jump an armed mode stays where the host     *)
(* left it between two blocks, and walks on from there.                    *)
LEMMA SequencedWalk ==
    ASSUME ~Relocates
    PROVE  Spec => []WalkInv
  <1>1. Init => WalkInv
    BY DEF Init, HostInit, WalkInv
  <1>2. WalkInv /\ [Next]_vars => WalkInv'
    <2>. SUFFICES ASSUME WalkInv, [Next]_vars PROVE WalkInv'
      OBVIOUS
    <2>1. CASE BeginBlock
      <3>1. armed' /\ playing'
        BY <2>1, Zenon DEF BeginBlock, HostBlock
      <3>. QED  BY <3>1 DEF WalkInv
    <2>2. CASE BypassBlock
      BY <2>2 DEF BypassBlock, HostBlock, WalkInv
    <2>3. CASE Sample
      <3>1. armed /\ UNCHANGED <<armed, playing>>
        BY <2>3 DEF Sample, HostSample, WalkInv
      <3>. QED  BY <3>1 DEF WalkInv
    <2>4. CASE Edit \/ UNCHANGED vars
      BY <2>4 DEF Edit, vars, hostVars, WalkInv
    <2>. QED  BY <2>1, <2>2, <2>3, <2>4 DEF Next
  <1>. QED  BY <1>1, <1>2, PTL DEF Spec

LEMMA ContiguousBlocks ==
    ASSUME ~Relocates, WalkInv, armed, BeginBlock
    PROVE  ppq' = ppq
  <1>1. playing /\ \E size \in BlockSizes : HostBlock(TRUE, size, TRUE)
    BY DEF BeginBlock, WalkInv
  <1>. QED  BY <1>1, Zenon DEF HostBlock

(* The interval boundary of a pending recall. *)
LEMMA SequencedSwitchInvariant ==
    ASSUME ~Relocates
    PROVE  Spec => []SwitchInv
  <1>1. Init => SwitchInv
    BY DEF Init, SwitchInv
  <1>2. TypeOK /\ WalkInv /\ SwitchInv /\ [Next]_vars => SwitchInv'
    <2>. SUFFICES ASSUME TypeOK, WalkInv, SwitchInv, [Next]_vars PROVE SwitchInv'
      OBVIOUS
    <2>0. /\ PpqPerSample \in Nat \ {0} /\ ppq \in Int
          /\ interval \in Nat \ {0} /\ seq \in Runtimes
      BY HostAssumption, SequencedAssumption DEF TypeOK, HostTypeOK
    <2>1. CASE BeginBlock
      <3>1. /\ seq'.snapped = seq.snapped /\ seq'.boundary = seq.boundary
            /\ seq'.pending = NoNote => seq.pending = NoNote
        BY <2>1, BeginBlockType
      <3>2. ~stale' /\ seq.snapped => /\ ~stale /\ timing' = timing /\ interval' = interval
        BY <2>1 DEF BeginBlock
      <3>3. armed' /\ (armed => ppq' = ppq)
        BY <2>1, ContiguousBlocks DEF BeginBlock
      <3>. QED  BY <3>1, <3>2, <3>3 DEF SwitchInv
    <2>2. CASE BypassBlock
      <3>1. /\ seq'.snapped = seq.snapped
            /\ seq'.pending = NoNote => seq.pending = NoNote
        BY <2>2, BypassBlockType
      <3>2. seq.snapped => stale'
        BY <2>2 DEF BypassBlock
      <3>. QED  BY <3>1, <3>2 DEF SwitchInv
    <2>3. CASE Sample
      <3>1. /\ armed /\ armed' /\ ppq' = ppq + PpqPerSample
            /\ timing' = timing /\ interval' = interval
        BY <2>3 DEF Sample, HostSample, blockVars, WalkInv
      <3>2. /\ seq'.snapped = Switched(seq).snapped
            /\ seq'.boundary = Switched(seq).boundary
            /\ seq'.pending = Switched(seq).pending
        BY <2>3, SampleType
      <3>. SUFFICES ASSUME seq'.snapped
                    PROVE  /\ seq'.pending # NoNote
                           /\ ~stale' => /\ timing = "setInterval"
                                         /\ seq'.boundary % interval = 0
                                         /\ ppq < seq'.boundary
        BY <2>0, <3>1, <3>2, SampleType, <2>3 DEF SwitchInv, Runtimes
      <3>3. /\ seq.pending # NoNote /\ Switched(seq) = Snapped(seq)
            /\ Switched(seq).pending = seq.pending
            /\ ~SwitchDue(Snapped(seq))
        BY <3>2, SwitchedCases DEF SwitchInv
      <3>4. CASE seq.snapped
        <4>1. Snapped(seq) = seq
          BY <3>4 DEF Snapped
        <4>2. ~stale' => ~stale
          BY <2>3, Zenon DEF Sample
        <4>3. timing = "setInterval" => ~(ppq >= seq.boundary)
          BY <3>3, <4>1 DEF SwitchDue
        <4>. QED  BY <2>0, <3>2, <3>3, <3>4, <4>1, <4>2, <4>3 DEF SwitchInv, Runtimes
      <3>5. CASE ~seq.snapped
        <4>1. /\ timing = "setInterval"
              /\ Snapped(seq).boundary = NextBoundary(ppq, interval)
          BY <2>0, <3>2, <3>3, <3>5 DEF Snapped, Runtimes
        <4>2. /\ NextBoundary(ppq, interval) % interval = 0
              /\ ppq < NextBoundary(ppq, interval)
          BY <2>0, NextBoundaryOnGrid, NextBoundaryAhead
        <4>. QED  BY <3>2, <3>3, <4>1, <4>2
      <3>. QED  BY <3>4, <3>5
    <2>4. CASE Edit \/ UNCHANGED vars
      BY <2>4 DEF Edit, vars, hostVars, blockVars, SwitchInv
    <2>. QED  BY <2>1, <2>2, <2>3, <2>4 DEF Next
  <1>. QED  BY <1>1, <1>2, SequencedTypes, SequencedWalk, PTL DEF Spec

(* A recall with Set Interval timing lands on the interval grid, to the    *)
(* sample, when nothing disturbed its boundary; whatever the length of     *)
(* blocks, samples and intervals (Scheduler.cpp:871-889).                  *)
THEOREM SequencedRecallOnGrid ==
    ASSUME ~Relocates PROVE Spec => UndisturbedRecallOnGrid
  <1>1. TypeOK /\ SwitchInv /\ [Next]_vars =>
          [Fires /\ timing = "setInterval" /\ ~stale => ppq % interval < PpqPerSample]_vars
    <2>. SUFFICES ASSUME TypeOK, SwitchInv, [Next]_vars,
                         Fires, timing = "setInterval", ~stale
                  PROVE  ppq % interval < PpqPerSample
      OBVIOUS
    <2>0. /\ PpqPerSample \in Nat \ {0} /\ ppq \in Int
          /\ interval \in Nat \ {0} /\ seq \in Runtimes
      BY HostAssumption, SequencedAssumption DEF TypeOK, HostTypeOK
    <2>1. Sample
      BY OnlySamplesFire
    <2>2. SwitchDue(Snapped(seq))
      BY <2>1, SampleType, SwitchedCases DEF Fires
    <2>3. ppq >= Snapped(seq).boundary
      BY <2>2 DEF SwitchDue
    <2>4. CASE seq.snapped
      <3>1. Snapped(seq) = seq
        BY <2>4 DEF Snapped
      <3>2. /\ seq.boundary % interval = 0 /\ seq.boundary \in Int
            /\ seq.boundary <= ppq /\ ppq < seq.boundary + PpqPerSample
        BY <2>0, <2>3, <2>4, <3>1 DEF SwitchInv, Runtimes
      <3>. QED  BY <2>0, <3>2, JustPast
    <2>5. CASE ~seq.snapped
      <3>1. Snapped(seq).boundary = NextBoundary(ppq, interval)
        BY <2>0, <2>5 DEF Snapped, Runtimes
      <3>. QED  BY <2>0, <2>3, <3>1, NextBoundaryAhead
    <2>. QED  BY <2>4, <2>5
  <1>. QED  BY <1>1, SequencedTypes, SequencedSwitchInvariant, PTL
            DEF Spec, UndisturbedRecallOnGrid

-----------------------------------------------------------------------------
(* The step tracker holds the step of the last sample that was walked.     *)
LEMMA SequencedWrapInvariant ==
    ASSUME ~Relocates
    PROVE  Spec => []WrapInv
  <1>1. Init => WrapInv
    BY DEF Init, WrapInv
  <1>2. TypeOK /\ WalkInv /\ WrapInv /\ [Next]_vars => WrapInv'
    <2>. SUFFICES ASSUME TypeOK, WalkInv, WrapInv, [Next]_vars PROVE WrapInv'
      OBVIOUS
    <2>1. CASE BeginBlock
      <3>. SUFFICES ASSUME ~Regridded', seq'.last # NoStep
                    PROVE  (seq.last = StepIndex(ppq - PpqPerSample, Effective(seq)))'
        BY DEF WrapInv
      <3>1. armed /\ seq'.last = seq.last
        BY <2>1, BeginBlockType
      <3>3. seq'.recalled = seq.recalled
        BY <2>1, BeginBlockType
      <3>2. ~Regridded /\ working' = working
        BY <2>1, <3>3 DEF BeginBlock, Regridded
      <3>4. ppq' = ppq
        BY <2>1, <3>1, ContiguousBlocks
      <3>. QED  BY <3>1, <3>2, <3>3, <3>4 DEF WrapInv, Effective, StepIndex, Columns
    <2>2. CASE BypassBlock
      BY <2>2 DEF BypassBlock, WrapInv
    <2>3. CASE Sample
      <3>1. ppq' = ppq + PpqPerSample /\ working' = working
        BY <2>3 DEF Sample, HostSample, WalkInv
      <3>2. /\ seq'.last = StepIndex(ppq, Effective(Switched(seq)))
            /\ seq'.recalled = Switched(seq).recalled
        BY <2>3, SampleType
      <3>3. ppq' - PpqPerSample = ppq
        BY <3>1, HostAssumption DEF TypeOK, HostTypeOK
      <3>4. Effective(seq)' = Effective(Switched(seq))
        BY <3>1, <3>2 DEF Effective
      <3>. QED  BY <3>2, <3>3, <3>4 DEF WrapInv, StepIndex, Columns
    <2>4. CASE Edit
      <3>1. UNCHANGED <<hostVars, armed, seq>>
        BY <2>4 DEF Edit
      <3>2. ~Regridded' => ~Regridded /\ seq.recalled # NoNote
        BY <2>4 DEF Edit, Regridded
      <3>. QED  BY <3>1, <3>2 DEF hostVars, WrapInv, Effective, StepIndex, Columns
    <2>5. CASE UNCHANGED vars
      BY <2>5 DEF vars, hostVars, WrapInv, Regridded, Effective, StepIndex, Columns
    <2>. QED  BY <2>1, <2>2, <2>3, <2>4, <2>5 DEF Next
  <1>. QED  BY <1>1, <1>2, SequencedTypes, SequencedWalk, PTL DEF Spec

(* A recall with End of Pattern timing comes with the sample that enters   *)
(* the pattern's first step after its last one (Scheduler.cpp:892-894),    *)
(* for every pattern of more than one column that was not just put under   *)
(* the playhead by an edit.                                                *)
THEOREM SequencedWraps == ASSUME ~Relocates PROVE Spec => WrapIsGenuine
  <1>. DEFINE Genuine ==
         Fires /\ timing = "endOfPattern" /\ ~Regridded =>
           LET p == Effective(seq)
           IN  Columns(p) > 1 =>
                 ppq % (p.step * Columns(p)) < PpqPerSample
  <1>1. TypeOK /\ WalkInv /\ WrapInv /\ [Next]_vars => [Genuine]_vars
    <2>. SUFFICES ASSUME TypeOK, WalkInv, WrapInv, [Next]_vars,
                         Fires, timing = "endOfPattern", ~Regridded,
                         NEW p, p = Effective(seq), Columns(p) > 1
                  PROVE  ppq % (p.step * Columns(p)) < PpqPerSample
      OBVIOUS
    <2>1. Sample
      BY OnlySamplesFire
    <2>2. SwitchDue(Snapped(seq)) /\ Snapped(seq) = seq
      BY <2>1, SampleType, SwitchedCases DEF Fires, Snapped
    <2>3. /\ IsPattern(p) /\ p.step \in Nat \ {0} /\ p.step >= PpqPerSample
          /\ Columns(p) \in Nat \ {0}
          /\ PpqPerSample \in Nat \ {0} /\ ppq \in Int
      <3>1. IsPattern(p)
        BY EffectiveIsPattern DEF TypeOK
      <3>. QED  BY <3>1, PatternFacts, HostAssumption DEF IsPattern, TypeOK, HostTypeOK
    <2>4. StepIndex(ppq, p) = 0 /\ seq.last = Columns(p) - 1
      BY <2>2 DEF SwitchDue
    <2>5. armed
      BY <2>1 DEF Sample, HostSample, WalkInv
    <2>6. seq.last = StepIndex(ppq - PpqPerSample, p)
      <3>1. seq.last # NoStep
        BY <2>3, <2>4 DEF NoStep
      <3>. QED  BY <2>5, <3>1 DEF WrapInv
    <2>. DEFINE n == Columns(p)
    <2>7. /\ (ppq \div p.step) % n = 0
          /\ ((ppq - PpqPerSample) \div p.step) % n = n - 1
      BY <2>4, <2>6 DEF StepIndex
    <2>8. n \in Nat /\ n > 1
      BY <2>3
    <2>. HIDE DEF n
    <2>9. ppq % (p.step * n) < PpqPerSample
      BY <2>3, <2>7, <2>8, WrapIsCycle
    <2>. QED  BY <2>9 DEF n
  <1>. QED  BY <1>1, SequencedTypes, SequencedWalk, SequencedWrapInvariant, PTL
            DEF Spec, WrapIsGenuine
=============================================================================
