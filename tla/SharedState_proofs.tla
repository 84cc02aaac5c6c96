-------------------------- MODULE SharedState_proofs --------------------------
(***************************************************************************)
(* What is proved of the state the editor's thread and the audio thread    *)
(* share.                                                                  *)
(*                                                                         *)
(* A block and its auditions (ProcessBlock), for every length of the       *)
(* sample and of the block, all rates, trims and slices and any number of  *)
(* presses and starts: the types of both threads' state; that an audition  *)
(* is heard from places in its span only, and from the frame at its end    *)
(* where it is blended in, by induction over the samples of the block (the *)
(* cursor is a recursive function of them); and that a press is heard      *)
(* whole, because its three stores are made in an order in which the flag  *)
(* comes last, and the audio thread loads it first (PressInv).             *)
(*                                                                         *)
(* The ring between them (CommandQueue) implements the bounded queue, for  *)
(* every set of commands, every capacity and every width of the cursors.   *)
(* The refinement mapping reads the slots between the cursors; a push      *)
(* takes effect when the producer stores its cursor, a pop when the        *)
(* consumer stores its own.                                                *)
(*                                                                         *)
(* The grid whose pattern the editor pushes (SequencerGrid), for every set *)
(* of styles, parameters, slice lists, step lengths and bounds: the        *)
(* pattern stays monophonic and without leftovers; a drag keeps the role   *)
(* of its press; a bar covers the steps its note is held for; Randomize    *)
(* cuts no bar.  PatternConsistent is inductive once it is known that the  *)
(* pattern is a record of its five fields.  Every operation on it is a     *)
(* lemma; the one with an argument is the randomizer: a bar is only placed *)
(* where its span is free, hence no two spans meet, and a span holds its   *)
(* own start.  That a bar is heard as drawn needs no history: it follows   *)
(* from the types and from Good, by the least element of a set of columns, *)
(* which is what the view and the scheduler both look for, each its way.   *)
(***************************************************************************)
EXTENDS ProcessBlock, CommandQueue, SequencerGrid, WellFoundedInduction,
        SequenceTheorems, TLAPS

(* Every set of natural numbers that is not empty has a least element: the *)
(* form in which induction is used below.                                  *)
LEMMA LeastElement ==
    ASSUME NEW S \in SUBSET Nat, S # {}
    PROVE  \E n \in S : \A m \in S : n <= m
  <1>1. PICK n \in S : \A m \in S : ~(<<m, n>> \in OpToRel(<, Nat))
    BY NatLessThanWellFounded, WFMin
  <1>2. \A m \in S : ~(m < n)
    BY <1>1 DEF OpToRel
  <1>. QED  BY <1>2

(* The place that is read lies in the span, wherever the cursor was.       *)
LEMMA ReadInside ==
    ASSUME NEW p \in Places, NEW span \in Spans
    PROVE  /\ ReadAt(p, span) \in Places
           /\ ReadAt(p, span).frame \in span.lo .. (span.hi - 1)
  <1>1. span.lo \in Nat /\ span.hi \in Nat /\ span.lo < span.hi
    BY ProcessAssumption DEF Spans
  <1>2. OnFrame(span.lo) \in Places /\ OnFrame(span.lo).frame = span.lo
    BY <1>1, ProcessAssumption DEF OnFrame, Places
  <1>3. p.frame \in Nat
    BY DEF Places
  <1>. QED  BY <1>1, <1>2, <1>3 DEF ReadAt

(* The cursor moves from place to place. *)
LEMMA AdvancedType ==
    ASSUME NEW p \in Places, NEW rate \in Rates
    PROVE  Advanced(p, rate) \in Places
  <1>1. /\ p.frame \in Nat /\ p.part \in 0..(Unit - 1)
        /\ rate.frame \in Nat /\ rate.part \in 0..(Unit - 1) /\ Unit \in Nat
    BY ProcessAssumption DEF Places
  <1>. QED  BY <1>1 DEF Advanced, Places

(* The recursion of the cursor's way through a block has a solution.       *)
LEMMA WalkDefined ==
    ASSUME NEW p \in Places, NEW span \in Spans, NEW rate \in Rates
    PROVE  Walk(p, span, rate) =
             [i \in 0..BlockSize |->
                IF i = 0 THEN p
                ELSE Advanced(ReadAt(Walk(p, span, rate)[i - 1], span), rate)]
  <1>. DEFINE Step(q) == Advanced(ReadAt(q, span), rate)
              Solves(g, n) ==
                g = [i \in 0..n |-> IF i = 0 THEN p ELSE Step(g[i - 1])]
              Bad == {n \in 0..BlockSize : ~\E g : Solves(g, n)}
  <1>0. BlockSize \in Nat \ {0}
    BY ProcessAssumption
  <1>3. Walk(p, span, rate) = CHOOSE g : Solves(g, BlockSize)
    BY DEF Walk
  <1>. HIDE DEF Step
  <1>1. Bad = {}
    <2>. SUFFICES ASSUME Bad # {} PROVE FALSE
      OBVIOUS
    <2>1. Bad \in SUBSET Nat
      BY <1>0
    <2>2. PICK n \in Bad : \A m \in Bad : n <= m
      <3>. HIDE DEF Bad
      <3>. QED  BY <2>1, LeastElement
    <2>3. n \in 0..BlockSize /\ ~\E g : Solves(g, n)
      OBVIOUS
    <2>4. CASE n = 0
      <3>1. Solves([i \in 0..0 |-> p], 0)
        OBVIOUS
      <3>. HIDE DEF Solves
      <3>. QED  BY <2>3, <2>4, <3>1
    <2>5. CASE n > 0
      <3>1. (n - 1) \in 0..BlockSize /\ ~(n <= n - 1)
        BY <1>0, <2>3, <2>5
      <3>2. PICK g : Solves(g, n - 1)
        <4>1. (n - 1) \notin Bad
          <5>. HIDE DEF Bad
          <5>. QED  BY <2>2, <3>1
        <4>. QED  BY <3>1, <4>1
      <3>. DEFINE h == [i \in 0..n |-> IF i < n THEN g[i] ELSE Step(g[n - 1])]
      <3>3. ASSUME NEW i \in 0..n
            PROVE  h[i] = IF i = 0 THEN p ELSE Step(h[i - 1])
        <4>1. CASE i = n
          BY <2>3, <2>5, <4>1
        <4>2. CASE i # n
          <5>1. i \in 0..(n - 1) /\ h[i] = g[i] /\ n \in Nat
            BY <2>3, <4>2
          <5>2. g[i] = IF i = 0 THEN p ELSE Step(g[i - 1])
            BY <3>2, <5>1
          <5>3. i # 0 => h[i - 1] = g[i - 1]
            BY <5>1
          <5>. QED  BY <5>1, <5>2, <5>3
        <4>. QED  BY <4>1, <4>2
      <3>4. Solves(h, n)
        BY <3>3
      <3>. HIDE DEF Solves, h
      <3>. QED  BY <2>3, <3>4
    <2>. QED  BY <2>3, <2>4, <2>5
  <1>2. \E g : Solves(g, BlockSize)
    BY <1>0, <1>1
  <1>4. Solves(Walk(p, span, rate), BlockSize)
    <2>. HIDE DEF Solves
    <2>. QED  BY <1>2, <1>3
  <1>. QED  BY <1>4 DEF Step

(* The cursor is at a place all the way. *)
LEMMA WalkType ==
    ASSUME NEW p \in Places, NEW span \in Spans, NEW rate \in Rates
    PROVE  \A i \in 0..BlockSize : Walk(p, span, rate)[i] \in Places
  <1>. DEFINE w == Walk(p, span, rate)
              Bad == {n \in 0..BlockSize : w[n] \notin Places}
  <1>0. BlockSize \in Nat \ {0}
    BY ProcessAssumption
  <1>1. \A i \in 0..BlockSize :
          w[i] = IF i = 0 THEN p ELSE Advanced(ReadAt(w[i - 1], span), rate)
    <2>1. w = [i \in 0..BlockSize |->
                IF i = 0 THEN p ELSE Advanced(ReadAt(w[i - 1], span), rate)]
      BY WalkDefined
    <2>. HIDE DEF w
    <2>. QED  BY <2>1
  <1>. HIDE DEF w
  <1>2. Bad = {}
    <2>. SUFFICES ASSUME Bad # {} PROVE FALSE
      OBVIOUS
    <2>1. Bad \in SUBSET Nat
      BY <1>0
    <2>2. PICK n \in Bad : \A m \in Bad : n <= m
      <3>. HIDE DEF Bad
      <3>. QED  BY <2>1, LeastElement
    <2>3. n \in 0..BlockSize /\ w[n] \notin Places
      OBVIOUS
    <2>4. n # 0
      BY <1>0, <1>1, <2>3
    <2>5. (n - 1) \in 0..BlockSize /\ w[n - 1] \in Places
      BY <1>0, <2>2, <2>3, <2>4
    <2>6. ReadAt(w[n - 1], span) \in Places
      BY <2>5, ReadInside
    <2>7. Advanced(ReadAt(w[n - 1], span), rate) \in Places
      BY <2>6, AdvancedType
    <2>. QED  BY <1>1, <2>3, <2>4, <2>7
  <1>. QED  BY <1>2 DEF w

(* A block is heard from places in its span only... *)
LEMMA PlacesInside ==
    ASSUME NEW p \in Places, NEW span \in Spans, NEW rate \in Rates,
           NEW q \in PlacesRead(p, span, rate)
    PROVE  q \in Places /\ q.frame \in span.lo .. (span.hi - 1)
  <1>1. PICK i \in 0..(BlockSize - 1) : q = ReadAt(Walk(p, span, rate)[i], span)
    BY DEF PlacesRead
  <1>2. Walk(p, span, rate)[i] \in Places
    <2>1. i \in 0..BlockSize
      BY ProcessAssumption
    <2>. QED  BY <2>1, WalkType
  <1>. QED  BY <1>1, <1>2, ReadInside

(* ...and what is blended in between them ends with the frame at its end.  *)
LEMMA FramesInside ==
    ASSUME NEW p \in Places, NEW span \in Spans, NEW rate \in Rates
    PROVE  LET read == PlacesRead(p, span, rate) IN
           /\ FramesRead(read) \subseteq span.lo .. (span.hi - 1)
           /\ FramesBlended(read) \subseteq span.lo .. span.hi
           /\ FramesRead(read) \subseteq 0..Frames
           /\ FramesBlended(read) \subseteq 0..Frames
  <1>. DEFINE read == PlacesRead(p, span, rate)
  <1>1. /\ span.lo \in Nat /\ span.hi \in Nat /\ span.hi <= Frames
        /\ Frames \in Nat \ {0}
    BY ProcessAssumption DEF Spans
  <1>2. \A q \in read : q.frame \in span.lo .. (span.hi - 1)
    BY PlacesInside
  <1>. HIDE DEF read
  <1>3. ASSUME NEW q \in read
        PROVE  /\ Clamped(q.frame) \in span.lo .. (span.hi - 1)
               /\ Clamped(q.frame + 1) \in span.lo .. span.hi
    BY <1>1, <1>2 DEF Clamped
  <1>4. FramesRead(read) \subseteq span.lo .. (span.hi - 1)
    BY <1>3 DEF FramesRead
  <1>5. FramesBlended(read) \subseteq span.lo .. span.hi
    BY <1>3 DEF FramesBlended
  <1>6. span.lo .. (span.hi - 1) \subseteq 0..Frames /\ span.lo .. span.hi \subseteq 0..Frames
    BY <1>1
  <1>. QED  BY <1>4, <1>5, <1>6 DEF read

(* Every trim a state may hold is a span.                                  *)
LEMMA TrimsAreSpans ==
    /\ Whole \in Spans
    /\ \A s \in States : s.trim \in Spans
    /\ \A s \in Spans : /\ s.lo \in 0..Frames /\ s.hi \in 0..Frames /\ s.lo < s.hi
                        /\ s.lo .. (s.hi - 1) \subseteq 0..Frames
  BY ProcessAssumption DEF Whole, Spans, States

-----------------------------------------------------------------------------
(* Types                                                                   *)

(* ProcessTypeOK in two halves: the UI thread's state, and what only the audio    *)
(* thread writes; a step of either thread leaves the other's half alone.   *)
UITypeOK ==
    /\ ui \in States /\ snapshot \in States
    /\ loaded \in BOOLEAN /\ pending \in BOOLEAN /\ editor \in BOOLEAN
    /\ held \in [active : BOOLEAN, lo : 0..Frames, hi : 0..Frames,
                 by : 0..MaxPress]
    /\ ui_pc \in {"idle", "first", "second", "third", "load", "fold"}
    /\ gesture \in [n : 0..MaxPress, span : SliceSpans \cup {NoSpan},
                    down : BOOLEAN]

AudioTypeOK ==
    /\ host \in [playing : BOOLEAN, run : 0..MaxRun]
    /\ pc \in {"host", "gate", "start", "end", "engine"}
    /\ block \in [state : States, loaded : BOOLEAN, by : 0..MaxPress,
                  lo : 0..Frames]
    /\ cursor \in [trim : Places, slice : Places]
    /\ was \in [trim : BOOLEAN, slice : BOOLEAN]
    /\ heard \in [by : {"nothing", "engine", "trim", "slice"},
                  after : {"nothing", "engine", "trim", "slice"},
                  first : Places, frames : SUBSET (0..Frames),
                  blended : SUBSET (0..Frames),
                  span : MaybeSpans, asked : SliceSpans \cup {NoSpan}]

LEMMA TypesSplit == ProcessTypeOK <=> UITypeOK /\ AudioTypeOK
  BY DEF ProcessTypeOK, UITypeOK, AudioTypeOK

LEMMA NoBlockType ==
    NoBlock \in [state : States, loaded : BOOLEAN, by : 0..MaxPress, lo : 0..Frames]
  BY ProcessAssumption DEF NoBlock, States

LEMMA UIStepTypes ==
    ASSUME ProcessTypeOK, UI
    PROVE  ProcessTypeOK'
  <1>. USE DEF UITypeOK, UIOnly, audioVars, Publish
  <1>0. UITypeOK /\ AudioTypeOK
    BY TypesSplit
  <1>1. CASE OpenOrClose
    <2>1. editor' \in BOOLEAN
      BY <1>1, Zenon DEF OpenOrClose
    <2>2. gesture' \in [n : 0..MaxPress, span : SliceSpans \cup {NoSpan},
                       down : BOOLEAN]
      BY <1>0, <1>1 DEF OpenOrClose
    <2>. QED  BY <1>0, <1>1, <2>1, <2>2 DEF OpenOrClose, ProcessTypeOK
  <1>2. CASE SetState
    BY <1>0, <1>2 DEF SetState, ProcessTypeOK
  <1>3. CASE RequestSampleLoad
    BY <1>0, <1>3 DEF RequestSampleLoad, ProcessTypeOK
  <1>4. CASE PublishLoaded
    BY <1>0, <1>4 DEF PublishLoaded, ProcessTypeOK, States
  <1>5. CASE SetAuditionEnabled
    <2>. DEFINE toggled == ~ui.audition
    <2>1. toggled \in BOOLEAN
      OBVIOUS
    <2>2. [ui EXCEPT !.audition = toggled] \in States
      <3>. HIDE DEF toggled
      <3>. QED  BY <1>0, <2>1 DEF States
    <2>. QED  BY <1>0, <1>5, <2>2 DEF SetAuditionEnabled, ProcessTypeOK
  <1>6. CASE SetTrimFrames
    BY <1>0, <1>6 DEF SetTrimFrames, ProcessTypeOK, States
  <1>7. CASE Press
    BY <1>0, <1>7, ProcessAssumption DEF Press, ProcessTypeOK
  <1>8. CASE StartSliceAudition
    <2>1. gesture.span.lo \in 0..Frames /\ gesture.span.hi \in 0..Frames
      BY <1>0, ProcessAssumption DEF Spans, NoSpan
    <2>2. CASE ui_pc = "first"
      BY <1>0, <1>8, <2>1, <2>2 DEF StartSliceAudition, Store, StoreOrder, ProcessTypeOK
    <2>3. CASE ui_pc = "second"
      BY <1>0, <1>8, <2>1, <2>3 DEF StartSliceAudition, Store, StoreOrder, ProcessTypeOK
    <2>4. CASE ui_pc = "third"
      <3>1. held' = [held EXCEPT !.active = TRUE, !.by = gesture.n] /\ ui_pc' = "idle"
        BY <1>8, <2>4 DEF StartSliceAudition, Store, StoreOrder
      <3>2. held' \in [active : BOOLEAN, lo : 0..Frames, hi : 0..Frames, by : 0..MaxPress]
        BY <1>0, <3>1
      <3>. QED  BY <1>0, <1>8, <3>1, <3>2 DEF StartSliceAudition, ProcessTypeOK
    <2>. QED  BY <1>8, <2>2, <2>3, <2>4 DEF StartSliceAudition, StoreOrder
  <1>9. CASE StopSliceAudition
    <2>1. /\ held' \in [active : BOOLEAN, lo : 0..Frames, hi : 0..Frames, by : 0..MaxPress]
          /\ gesture' \in [n : 0..MaxPress, span : SliceSpans \cup {NoSpan},
                           down : BOOLEAN]
      BY <1>0, <1>9 DEF StopSliceAudition
    <2>. QED  BY <1>0, <1>9, <2>1 DEF StopSliceAudition, ProcessTypeOK
  <1>10. CASE PollAuditionAutoStop
    <2>1. pending' \in BOOLEAN /\ ui_pc' \in {"fold", "idle"}
      BY <1>10, Zenon DEF PollAuditionAutoStop
    <2>. QED  BY <1>0, <1>10, <2>1 DEF PollAuditionAutoStop, ProcessTypeOK
  <1>11. CASE Fold
    <2>1. [ui EXCEPT !.audition = FALSE] \in States
      BY <1>0 DEF States
    <2>. QED  BY <1>0, <1>11, <2>1 DEF Fold, ProcessTypeOK
  <1>. QED  BY <1>1, <1>2, <1>3, <1>4, <1>5, <1>6, <1>7, <1>8, <1>9, <1>10, <1>11
            DEF UI

(* What a report of the block says is of the types declared.               *)
LEMMA ReportType ==
    ASSUME ProcessTypeOK,
           NEW by \in {"nothing", "engine", "trim", "slice"},
           NEW first \in Places, NEW places,
           FramesRead(places) \in SUBSET (0..Frames),
           FramesBlended(places) \in SUBSET (0..Frames),
           NEW span \in MaybeSpans, NEW asked \in SliceSpans \cup {NoSpan},
           Report(by, first, places, span, asked)
    PROVE  heard' \in [by : {"nothing", "engine", "trim", "slice"},
                  after : {"nothing", "engine", "trim", "slice"},
                  first : Places, frames : SUBSET (0..Frames),
                  blended : SUBSET (0..Frames),
                  span : MaybeSpans, asked : SliceSpans \cup {NoSpan}]
  BY DEF Report, ProcessTypeOK

(* Silence is heard from no frame. *)
LEMMA NothingRead == FramesRead({}) = {} /\ FramesBlended({}) = {}
  BY DEF FramesRead, FramesBlended

(* What a walk over a span leaves behind.                                  *)
LEMMA WalkLeaves ==
    ASSUME NEW p \in Places, NEW span \in Spans, NEW rate \in Rates
    PROVE  /\ ReadAt(p, span) \in Places
           /\ FramesRead(PlacesRead(p, span, rate)) \in SUBSET (0..Frames)
           /\ FramesBlended(PlacesRead(p, span, rate)) \in SUBSET (0..Frames)
           /\ Walk(p, span, rate)[BlockSize] \in Places
           /\ span \in MaybeSpans
  <1>1. BlockSize \in 0..BlockSize
    BY ProcessAssumption
  <1>2. Walk(p, span, rate)[BlockSize] \in Places
    BY <1>1, WalkType
  <1>3. span \in MaybeSpans
    BY DEF Spans, MaybeSpans
  <1>. QED  BY <1>2, <1>3, ReadInside, FramesInside

LEMMA AudioStepTypes ==
    ASSUME ProcessTypeOK, Audio
    PROVE  ProcessTypeOK'
  <1>0. UITypeOK /\ AudioTypeOK
    BY TypesSplit
  <1>. DEFINE Reports == [by : {"nothing", "engine", "trim", "slice"},
                  after : {"nothing", "engine", "trim", "slice"},
                  first : Places, frames : SUBSET (0..Frames),
                  blended : SUBSET (0..Frames),
                  span : MaybeSpans, asked : SliceSpans \cup {NoSpan}]
  <1>00. /\ NoSpan \in MaybeSpans /\ OnFrame(0) \in Places
         /\ FramesRead({}) \in SUBSET (0..Frames) /\ FramesBlended({}) \in SUBSET (0..Frames)
         /\ {} \in SUBSET (0..Frames)
    BY NothingRead, ProcessAssumption DEF NoSpan, MaybeSpans, OnFrame, Places
  <1>01. \A f \in 0..Frames : OnFrame(f) \in Places
    BY ProcessAssumption DEF OnFrame, Places
  <1>1. CASE Process
    <2>1. block' \in [state : States, loaded : BOOLEAN, by : 0..MaxPress, lo : 0..Frames]
      BY <1>0, <1>1, NoBlockType DEF Process, UITypeOK
    <2>2. heard' \in Reports
      BY <1>0, <1>1, <1>00 DEF Process, Silence, AudioTypeOK
    <2>3. host' \in [playing : BOOLEAN, run : 0..MaxRun]
      BY <1>0, <1>1, ProcessAssumption DEF Process, AudioTypeOK
    <2>. QED  BY <1>0, <1>1, <2>1, <2>2, <2>3
              DEF Process, UITypeOK, AudioTypeOK, ProcessTypeOK, AudioOnly, uiVars
  <1>2. CASE Gate
    <2>1. was' \in [trim : BOOLEAN, slice : BOOLEAN]
      BY <1>0, <1>2 DEF Gate, AudioTypeOK
    <2>2. cursor' \in [trim : Places, slice : Places]
      <3>1. OnFrame(held.lo) \in Places
        BY <1>0, <1>01 DEF UITypeOK
      <3>. QED  BY <1>0, <1>2, <3>1 DEF Gate, AudioTypeOK
    <2>3. block' \in [state : States, loaded : BOOLEAN, by : 0..MaxPress, lo : 0..Frames]
      BY <1>0, <1>2 DEF Gate, UITypeOK, AudioTypeOK
    <2>4. pc' \in {"start", "engine"}
      BY <1>2, Zenon DEF Gate
    <2>. QED  BY <1>0, <1>2, <2>1, <2>2, <2>3, <2>4
              DEF Gate, UITypeOK, AudioTypeOK, ProcessTypeOK, AudioOnly, uiVars
  <1>3. CASE LoadStart
    BY <1>0, <1>3 DEF LoadStart, UITypeOK, AudioTypeOK, ProcessTypeOK, AudioOnly, uiVars
  <1>4. CASE RenderSliceAudition
    <2>. DEFINE span == [lo |-> block.lo, hi |-> held.hi]
                asked == IF block.by = gesture.n THEN gesture.span ELSE NoSpan
    <2>1. span \in MaybeSpans /\ asked \in SliceSpans \cup {NoSpan}
      BY <1>0 DEF UITypeOK, AudioTypeOK, MaybeSpans
    <2>2. block' \in [state : States, loaded : BOOLEAN, by : 0..MaxPress, lo : 0..Frames]
      BY <1>4, NoBlockType DEF RenderSliceAudition, Return
    <2>3. heard' \in Reports /\ cursor' \in [trim : Places, slice : Places]
      <3>1. CASE span.hi <= span.lo
        <4>1. Report("slice", OnFrame(0), {}, span, asked) /\ UNCHANGED cursor
          BY <1>4, <3>1 DEF RenderSliceAudition
        <4>2. heard' \in Reports
          <5>. HIDE DEF span, asked
          <5>. QED  BY <1>00, <2>1, <4>1, ReportType
        <4>. QED  BY <1>0, <4>1, <4>2 DEF AudioTypeOK
      <3>2. CASE ~(span.hi <= span.lo)
        <4>1. PICK rate \in Rates :
                /\ Report("slice", ReadAt(cursor.slice, span),
                          PlacesRead(cursor.slice, span, rate), span, asked)
                /\ cursor' = [cursor EXCEPT !.slice = Walk(@, span, rate)[BlockSize]]
          BY <1>4, <3>2 DEF RenderSliceAudition
        <4>2. span \in Spans /\ cursor.slice \in Places
          BY <1>0, <2>1, <3>2 DEF Spans, MaybeSpans, UITypeOK, AudioTypeOK
        <4>. HIDE DEF span, asked
        <4>3. /\ ReadAt(cursor.slice, span) \in Places
              /\ FramesRead(PlacesRead(cursor.slice, span, rate)) \in SUBSET (0..Frames)
              /\ FramesBlended(PlacesRead(cursor.slice, span, rate)) \in SUBSET (0..Frames)
              /\ Walk(cursor.slice, span, rate)[BlockSize] \in Places
          BY <4>2, WalkLeaves
        <4>4. heard' \in Reports
          BY <2>1, <4>1, <4>3, ReportType
        <4>. QED  BY <1>0, <4>1, <4>3, <4>4 DEF AudioTypeOK
      <3>. QED  BY <3>1, <3>2
    <2>. QED  BY <1>0, <1>4, <2>2, <2>3
              DEF RenderSliceAudition, Return, UITypeOK, AudioTypeOK, ProcessTypeOK,
                  AudioOnly, uiVars
  <1>5. CASE RenderAudition
    <2>2. block' \in [state : States, loaded : BOOLEAN, by : 0..MaxPress, lo : 0..Frames]
      BY <1>5, NoBlockType DEF RenderAudition, Return
    <2>3. /\ heard' \in Reports /\ cursor' \in [trim : Places, slice : Places]
          /\ was' \in [trim : BOOLEAN, slice : BOOLEAN]
      <3>1. CASE ~block.loaded
        <4>1. Report("nothing", OnFrame(0), {}, NoSpan, NoSpan) /\ UNCHANGED <<cursor, was>>
          BY <1>5, <3>1 DEF RenderAudition
        <4>2. heard' \in Reports
          BY <1>00, <4>1, ReportType
        <4>. QED  BY <1>0, <4>1, <4>2 DEF AudioTypeOK
      <3>2. CASE block.loaded
        <4>. DEFINE span == block.state.trim
        <4>1. PICK rate \in Rates :
                /\ Report("trim", ReadAt(Reseeded, span),
                          PlacesRead(Reseeded, span, rate), span, NoSpan)
                /\ cursor' = [cursor EXCEPT !.trim = Walk(Reseeded, span, rate)[BlockSize]]
                /\ was' = [was EXCEPT !.trim = TRUE]
          BY <1>5, <3>2 DEF RenderAudition
        <4>2. span \in Spans
          BY <1>0, TrimsAreSpans DEF AudioTypeOK
        <4>3. Reseeded \in Places
          BY <1>0, <1>01, <4>2 DEF Reseeded, AudioTypeOK, Spans
        <4>. HIDE DEF span
        <4>4. /\ ReadAt(Reseeded, span) \in Places
              /\ FramesRead(PlacesRead(Reseeded, span, rate)) \in SUBSET (0..Frames)
              /\ FramesBlended(PlacesRead(Reseeded, span, rate)) \in SUBSET (0..Frames)
              /\ Walk(Reseeded, span, rate)[BlockSize] \in Places
              /\ span \in MaybeSpans
          BY <4>2, <4>3, WalkLeaves
        <4>5. heard' \in Reports
          BY <1>00, <4>1, <4>4, ReportType
        <4>. QED  BY <1>0, <4>1, <4>4, <4>5 DEF AudioTypeOK
      <3>. QED  BY <3>1, <3>2
    <2>. QED  BY <1>0, <1>5, <2>2, <2>3
              DEF RenderAudition, Return, UITypeOK, AudioTypeOK, ProcessTypeOK,
                  AudioOnly, uiVars
  <1>6. CASE RunScheduler
    <2>1. heard' \in Reports
      BY <1>00, <1>6, ReportType DEF RunScheduler
    <2>2. block' \in [state : States, loaded : BOOLEAN, by : 0..MaxPress, lo : 0..Frames]
      BY <1>6, NoBlockType DEF RunScheduler, Return
    <2>3. pending' \in BOOLEAN /\ was' \in [trim : BOOLEAN, slice : BOOLEAN]
      BY <1>0, <1>6 DEF RunScheduler, EngineEdge, UITypeOK, AudioTypeOK, States
    <2>. QED  BY <1>0, <1>6, <2>1, <2>2, <2>3
              DEF RunScheduler, Return, UITypeOK, AudioTypeOK, ProcessTypeOK,
                  AudioOnly, uiVars
  <1>. QED  BY <1>1, <1>2, <1>3, <1>4, <1>5, <1>6 DEF Audio

(* The types of every variable are as declared: in particular no block is  *)
(* heard from a frame outside the sample.                                  *)
THEOREM ProcessTypes == ProcessSpec => []ProcessTypeOK
  <1>1. ProcessInit => ProcessTypeOK
    <2>. SUFFICES ASSUME ProcessInit PROVE ProcessTypeOK
      OBVIOUS
    <2>1. UITypeOK
      <3>1. ui \in States /\ snapshot \in States
        BY DEF ProcessInit, States
      <3>2. held \in [active : BOOLEAN, lo : 0..Frames, hi : 0..Frames, by : 0..MaxPress]
        BY ProcessAssumption DEF ProcessInit
      <3>3. gesture \in [n : 0..MaxPress, span : SliceSpans \cup {NoSpan}, down : BOOLEAN]
        BY ProcessAssumption DEF ProcessInit
      <3>. QED  BY <3>1, <3>2, <3>3, Zenon DEF ProcessInit, UITypeOK
    <2>2. heard \in [by : {"nothing", "engine", "trim", "slice"},
                    after : {"nothing", "engine", "trim", "slice"},
                    first : Places, frames : SUBSET (0..Frames),
                  blended : SUBSET (0..Frames),
                    span : MaybeSpans, asked : SliceSpans \cup {NoSpan}]
      BY ProcessAssumption DEF ProcessInit, Silence, NoSpan, MaybeSpans, OnFrame, Places
    <2>3. AudioTypeOK
      BY <2>2, NoBlockType, ProcessAssumption DEF ProcessInit, AudioTypeOK, OnFrame, Places
    <2>. QED  BY <2>1, <2>3, TypesSplit
  <1>2. ProcessTypeOK /\ [ProcessNext]_processVars => ProcessTypeOK'
    <2>. SUFFICES ASSUME ProcessTypeOK, [ProcessNext]_processVars PROVE ProcessTypeOK'
      OBVIOUS
    <2>1. CASE UNCHANGED processVars
      BY <2>1 DEF processVars, uiVars, audioVars, ProcessTypeOK
    <2>. QED  BY <2>1, UIStepTypes, AudioStepTypes DEF ProcessNext
  <1>. QED  BY <1>1, <1>2, PTL DEF ProcessSpec

-----------------------------------------------------------------------------
(* Whatever the trim or the pressed slice did since the cursor was last    *)
(* advanced, however many frames a block has, at whatever rate and however *)
(* often it wraps, no place outside the span the block works with is heard,*)
(* and of the frames blended in only the one at its end lies outside.      *)
THEOREM HeardInside == ProcessSpec => []HeardInsideSpan
  <1>1. ProcessInit => HeardInsideSpan
    BY DEF ProcessInit, HeardInsideSpan, Silence
  <1>2. ProcessTypeOK /\ HeardInsideSpan /\ [ProcessNext]_processVars => HeardInsideSpan'
    <2>. SUFFICES ASSUME ProcessTypeOK, HeardInsideSpan, [ProcessNext]_processVars
                  PROVE  HeardInsideSpan'
      OBVIOUS
    <2>1. CASE UNCHANGED heard
      BY <2>1 DEF HeardInsideSpan
    <2>2. ASSUME NEW by, NEW after, NEW first, NEW span, NEW asked,
                 heard' = [by |-> by, after |-> after, first |-> first,
                           frames |-> {}, blended |-> {},
                           span |-> span, asked |-> asked]
          PROVE  HeardInsideSpan'
      BY <2>2 DEF HeardInsideSpan
    <2>3. CASE Process
      BY <2>2, <2>3 DEF Process, HeardInsideSpan, Silence
    <2>4. CASE RenderSliceAudition
      <3>. DEFINE span == [lo |-> block.lo, hi |-> held.hi]
                  asked == IF block.by = gesture.n THEN gesture.span ELSE NoSpan
      <3>1. CASE span.hi <= span.lo
        BY <2>4, <3>1, NothingRead DEF RenderSliceAudition, Report, HeardInsideSpan
      <3>2. CASE ~(span.hi <= span.lo)
        <4>1. PICK rate \in Rates :
                /\ heard'.frames = FramesRead(PlacesRead(cursor.slice, span, rate))
                /\ heard'.blended = FramesBlended(PlacesRead(cursor.slice, span, rate))
                /\ heard'.span = span
          BY <2>4, <3>2 DEF RenderSliceAudition, Report
        <4>2. span \in Spans /\ cursor.slice \in Places
          BY <3>2 DEF ProcessTypeOK, Spans
        <4>. HIDE DEF span
        <4>. QED  BY <4>1, <4>2, FramesInside DEF HeardInsideSpan
      <3>. QED  BY <3>1, <3>2
    <2>5. CASE RenderAudition
      <3>1. CASE ~block.loaded
        BY <2>5, <3>1, NothingRead DEF RenderAudition, Report, HeardInsideSpan
      <3>2. CASE block.loaded
        <4>. DEFINE span == block.state.trim
        <4>1. PICK rate \in Rates :
                /\ heard'.frames = FramesRead(PlacesRead(Reseeded, span, rate))
                /\ heard'.blended = FramesBlended(PlacesRead(Reseeded, span, rate))
                /\ heard'.span = span
          BY <2>5, <3>2 DEF RenderAudition, Report
        <4>2. span \in Spans
          BY TrimsAreSpans DEF ProcessTypeOK
        <4>3. Reseeded \in Places
          BY <4>2, ProcessAssumption DEF Reseeded, ProcessTypeOK, Spans, OnFrame, Places
        <4>. HIDE DEF span
        <4>. QED  BY <4>1, <4>2, <4>3, FramesInside DEF HeardInsideSpan
      <3>. QED  BY <3>1, <3>2
    <2>6. CASE RunScheduler
      BY <2>6, NothingRead DEF RunScheduler, Report, HeardInsideSpan
    <2>7. CASE UI
      BY <2>1, <2>7 DEF UI, UIOnly, audioVars, OpenOrClose, SetState,
         RequestSampleLoad, PublishLoaded, SetAuditionEnabled, SetTrimFrames,
         Press, StartSliceAudition, StopSliceAudition, PollAuditionAutoStop, Fold
    <2>8. CASE Gate \/ LoadStart \/ UNCHANGED processVars
      BY <2>1, <2>8 DEF Gate, LoadStart, processVars, audioVars
    <2>. QED  BY <2>3, <2>4, <2>5, <2>6, <2>7, <2>8 DEF ProcessNext, Audio
  <1>. QED  BY <1>1, <1>2, ProcessTypes, PTL DEF ProcessSpec

-----------------------------------------------------------------------------
(* The press of the right button                                           *)

(* The steps that touch neither the button nor its stores.                 *)
LEMMA BoundsUntouched ==
    ASSUME StoredInOrder, UNCHANGED <<held, gesture>>,
           ui_pc' \in {"first", "second", "third"} => ui_pc' = ui_pc
    PROVE  StoredInOrder'
  BY DEF StoredInOrder

(* A press stores its bounds first and its flag last.                      *)
LEMMA StoredInOrderKept ==
    ASSUME ProcessTypeOK, StoredInOrder, [ProcessNext]_processVars
    PROVE  StoredInOrder'
  <1>1. CASE Press
    <2>1. held' = held /\ ui_pc' = "first" /\ gesture'.n = gesture.n + 1
      BY <1>1 DEF Press
    <2>. QED  BY <2>1 DEF StoredInOrder, ProcessTypeOK
  <1>2. CASE StartSliceAudition
    <2>0. UNCHANGED gesture /\ held.by \in Nat /\ gesture.n \in Nat
      BY <1>2, ProcessAssumption DEF StartSliceAudition, ProcessTypeOK
    <2>1. CASE ui_pc = "first"
      <3>1. held' = [held EXCEPT !.lo = gesture.span.lo] /\ ui_pc' = "second"
        BY <1>2, <2>1 DEF StartSliceAudition, Store, StoreOrder
      <3>2. /\ held'.lo = gesture.span.lo /\ held'.hi = held.hi
            /\ held'.by = held.by
        BY <3>1 DEF ProcessTypeOK
      <3>. QED  BY <2>0, <2>1, <3>1, <3>2 DEF StoredInOrder
    <2>2. CASE ui_pc = "second"
      <3>1. held' = [held EXCEPT !.hi = gesture.span.hi] /\ ui_pc' = "third"
        BY <1>2, <2>2 DEF StartSliceAudition, Store, StoreOrder
      <3>2. /\ held'.lo = held.lo /\ held'.hi = gesture.span.hi
            /\ held'.by = held.by
        BY <3>1 DEF ProcessTypeOK
      <3>. QED  BY <2>0, <2>2, <3>1, <3>2 DEF StoredInOrder
    <2>3. CASE ui_pc = "third"
      <3>1. /\ held' = [held EXCEPT !.active = TRUE, !.by = gesture.n]
            /\ ui_pc' = "idle"
        BY <1>2, <2>3 DEF StartSliceAudition, Store, StoreOrder
      <3>2. /\ held'.lo = held.lo /\ held'.hi = held.hi
            /\ held'.by = gesture.n
        BY <3>1 DEF ProcessTypeOK
      <3>. QED  BY <2>0, <2>3, <3>1, <3>2 DEF StoredInOrder
    <2>. QED  BY <1>2, <2>1, <2>2, <2>3 DEF StartSliceAudition, StoreOrder
  <1>3. CASE StopSliceAudition
    <2>1. /\ held'.lo = held.lo /\ held'.hi = held.hi /\ held'.by = held.by
          /\ gesture'.n = gesture.n /\ gesture'.span = gesture.span
          /\ ui_pc' = ui_pc
      BY <1>3 DEF StopSliceAudition, ProcessTypeOK
    <2>. QED  BY <2>1 DEF StoredInOrder
  <1>4. CASE OpenOrClose
    <2>1. /\ held' = held /\ ui_pc' = ui_pc
          /\ gesture'.n = gesture.n /\ gesture'.span = gesture.span
      BY <1>4 DEF OpenOrClose, ProcessTypeOK
    <2>. QED  BY <2>1 DEF StoredInOrder
  <1>5. CASE SetState \/ RequestSampleLoad \/ PublishLoaded \/ SetAuditionEnabled
             \/ SetTrimFrames \/ PollAuditionAutoStop \/ Fold
    BY <1>5, BoundsUntouched
    DEF SetState, RequestSampleLoad, PublishLoaded, SetAuditionEnabled,
        SetTrimFrames, PollAuditionAutoStop, Fold
  <1>6. CASE Audio \/ UNCHANGED processVars
    BY <1>6, BoundsUntouched
    DEF Audio, Process, Gate, LoadStart, RenderSliceAudition, RenderAudition,
        RunScheduler, AudioOnly, processVars, uiVars
  <1>. QED  BY <1>1, <1>2, <1>3, <1>4, <1>5, <1>6 DEF ProcessNext, UI

(* A step of the UI thread takes nothing from what a block has seen: it    *)
(* begins a press, and then the block is of an older one, or it stores the *)
(* flag of a press that the block, having seen the flag, cannot be of.     *)
LEMMA UIKeepsSeen ==
    ASSUME ProcessTypeOK, StoredInOrder, SeenInOrder, UI
    PROVE  SeenInOrder'
  <1>1. UNCHANGED <<pc, block, cursor, was, heard>>
    BY DEF UI, UIOnly, audioVars, OpenOrClose, SetState,
       RequestSampleLoad, PublishLoaded, SetAuditionEnabled, SetTrimFrames,
       Press, StartSliceAudition, StopSliceAudition, PollAuditionAutoStop, Fold
  <1>2. /\ held.by \in Nat /\ gesture.n \in Nat /\ block.by \in Nat
        /\ held.by <= gesture.n
    BY ProcessAssumption DEF ProcessTypeOK, StoredInOrder
  <1>3. CASE Press
    <2>1. held' = held /\ gesture'.n = gesture.n + 1
      BY <1>3 DEF Press
    <2>. QED  BY <1>1, <1>2, <2>1 DEF SeenInOrder
  <1>4. CASE StartSliceAudition
    <2>1. gesture' = gesture
      BY <1>4 DEF StartSliceAudition
    <2>2. held.by <= held'.by
      <3>1. CASE ui_pc = "third"
        BY <1>2, <1>4, <3>1 DEF StartSliceAudition, Store, StoreOrder, ProcessTypeOK
      <3>2. CASE ui_pc \in {"first", "second"}
        BY <1>2, <1>4, <3>2 DEF StartSliceAudition, Store, StoreOrder, ProcessTypeOK
      <3>. QED  BY <1>4, <3>1, <3>2 DEF StartSliceAudition, StoreOrder
    <2>3. held'.by \in Nat
      BY <1>4, UIStepTypes, ProcessAssumption DEF ProcessTypeOK
    <2>. QED  BY <1>1, <1>2, <2>1, <2>2, <2>3 DEF SeenInOrder
  <1>5. CASE StopSliceAudition \/ OpenOrClose
    <2>1. /\ held'.by = held.by
          /\ gesture'.n = gesture.n /\ gesture'.span = gesture.span
      BY <1>5 DEF StopSliceAudition, OpenOrClose, ProcessTypeOK
    <2>. QED  BY <1>1, <2>1 DEF SeenInOrder
  <1>6. CASE UNCHANGED <<held, gesture>>
    BY <1>1, <1>6 DEF SeenInOrder
  <1>. QED  BY <1>3, <1>4, <1>5, <1>6
            DEF UI, SetState, RequestSampleLoad, PublishLoaded, SetAuditionEnabled,
                SetTrimFrames, PollAuditionAutoStop, Fold

(* The block sees the flag first and then the bounds.                      *)
LEMMA AudioKeepsSeen ==
    ASSUME ProcessTypeOK, StoredInOrder, SeenInOrder, Audio
    PROVE  SeenInOrder'
  <1>0. UNCHANGED <<held, gesture>>
    BY DEF Audio, Process, Gate, LoadStart, RenderSliceAudition, RenderAudition,
       RunScheduler, AudioOnly, uiVars
  <1>1. CASE Process
    BY <1>0, <1>1 DEF Process, SeenInOrder, Silence
  <1>2. CASE Gate
    <2>. DEFINE slice == held.active /\ loaded
    <2>1. /\ pc = "gate" /\ heard' = heard /\ block'.by = held.by
          /\ was'.slice = slice
          /\ pc' = IF slice THEN "start" ELSE "engine"
          /\ slice /\ ~was.slice => cursor'.slice = OnFrame(held.lo)
      BY <1>2 DEF Gate, ProcessTypeOK
    <2>2. held.by \in Nat
      BY ProcessAssumption DEF ProcessTypeOK
    <2>3. slice /\ held.by = gesture.n /\ heard.by # "slice" =>
              cursor'.slice = OnFrame(gesture.span.lo)
      BY <2>1 DEF SeenInOrder, StoredInOrder
    <2>. HIDE DEF slice
    <2>. QED  BY <1>0, <2>1, <2>2, <2>3 DEF SeenInOrder
  <1>3. CASE LoadStart
    <2>1. /\ pc = "start" /\ pc' = "end" /\ UNCHANGED <<cursor, was, heard>>
          /\ block'.lo = held.lo /\ block'.by = block.by
      BY <1>3 DEF LoadStart, ProcessTypeOK
    <2>2. block.by = gesture.n => held.by = gesture.n
      BY <2>1, ProcessAssumption DEF SeenInOrder, StoredInOrder, ProcessTypeOK
    <2>. QED  BY <1>0, <2>1, <2>2 DEF SeenInOrder, StoredInOrder
  <1>4. CASE RenderSliceAudition
    <2>1. pc = "end" /\ pc' = "host" /\ was' = was /\ heard'.by = "slice"
      BY <1>4 DEF RenderSliceAudition, Return, Report
    <2>2. was.slice
      BY <2>1 DEF SeenInOrder
    <2>. QED  BY <2>1, <2>2 DEF SeenInOrder
  <1>5. CASE RenderAudition
    <2>1. pc = "engine" /\ pc' = "host" /\ was'.slice = was.slice /\ heard'.by # "slice"
      BY <1>5 DEF RenderAudition, Return, Report, ProcessTypeOK
    <2>2. ~was.slice
      BY <2>1 DEF SeenInOrder
    <2>. QED  BY <2>1, <2>2 DEF SeenInOrder
  <1>6. CASE RunScheduler
    <2>1. pc = "engine" /\ pc' = "host" /\ was'.slice = was.slice /\ heard'.by # "slice"
      BY <1>6 DEF RunScheduler, Return, Report, EngineEdge, ProcessTypeOK
    <2>2. ~was.slice
      BY <2>1 DEF SeenInOrder
    <2>. QED  BY <2>1, <2>2 DEF SeenInOrder
  <1>. QED  BY <1>1, <1>2, <1>3, <1>4, <1>5, <1>6 DEF Audio

(* What is rendered for a press is its own slice from its own head.        *)
LEMMA RenderedWhole ==
    ASSUME ProcessTypeOK, StoredInOrder, SeenInOrder, RenderSliceAudition
    PROVE  PressHeardWhole'
  <1>. DEFINE span == [lo |-> block.lo, hi |-> held.hi]
              asked == IF block.by = gesture.n THEN gesture.span ELSE NoSpan
  <1>. SUFFICES ASSUME asked # NoSpan
                PROVE  /\ heard'.span = asked
                       /\ heard'.after # "slice" => heard'.first = OnFrame(heard'.span.lo)
    BY DEF RenderSliceAudition, Report, PressHeardWhole
  <1>1. block.by = gesture.n /\ asked = gesture.span /\ gesture.span \in Spans
    BY ProcessAssumption DEF ProcessTypeOK
  <1>2. pc = "end" /\ held.by = gesture.n
    <2>1. /\ pc = "end" /\ block.by <= held.by /\ held.by <= gesture.n
          /\ held.by \in Nat /\ gesture.n \in Nat
      BY ProcessAssumption
      DEF RenderSliceAudition, SeenInOrder, StoredInOrder, ProcessTypeOK
    <2>. QED  BY <1>1, <2>1
  <1>3. block.lo = gesture.span.lo /\ held.hi = gesture.span.hi
    BY <1>1, <1>2 DEF SeenInOrder, StoredInOrder
  <1>4. span = gesture.span /\ ~(span.hi <= span.lo)
    BY <1>1, <1>3, ProcessAssumption DEF Spans
  <1>5. /\ heard'.span = span /\ heard'.after = heard.by
        /\ heard'.first = ReadAt(cursor.slice, span)
    BY <1>4 DEF RenderSliceAudition, Report
  <1>6. heard.by # "slice" => cursor.slice = OnFrame(span.lo)
    BY <1>1, <1>2, <1>4 DEF SeenInOrder
  <1>7. span.lo \in Int /\ span.hi \in Int
    BY <1>1, <1>4, ProcessAssumption DEF Spans
  <1>. HIDE DEF span, asked
  <1>8. cursor.slice = OnFrame(span.lo) => ReadAt(cursor.slice, span) = OnFrame(span.lo)
    BY <1>4, <1>7 DEF ReadAt, OnFrame
  <1>. QED  BY <1>1, <1>4, <1>5, <1>6, <1>8

(* A block that saw the flag of a press plays exactly that press's slice,  *)
(* however the stores of this and of newer presses and the loads of the    *)
(* block fall between each other.                                          *)
THEOREM PressHeard == ProcessSpec => []PressHeardWhole
  <1>1. ProcessInit => PressInv
    BY DEF ProcessInit, PressInv, StoredInOrder, SeenInOrder, PressHeardWhole, Silence,
           NoSpan, NoBlock
  <1>2. ProcessTypeOK /\ PressInv /\ [ProcessNext]_processVars => PressInv'
    <2>. SUFFICES ASSUME ProcessTypeOK, PressInv, [ProcessNext]_processVars PROVE PressInv'
      OBVIOUS
    <2>0. StoredInOrder /\ SeenInOrder /\ PressHeardWhole
      BY DEF PressInv
    <2>1. StoredInOrder'
      BY <2>0, StoredInOrderKept
    <2>2. SeenInOrder'
      <3>1. CASE UNCHANGED processVars
        BY <2>0, <3>1 DEF processVars, uiVars, audioVars, SeenInOrder
      <3>. QED  BY <2>0, <3>1, UIKeepsSeen, AudioKeepsSeen DEF ProcessNext
    <2>3. PressHeardWhole'
      <3>1. CASE RenderSliceAudition
        BY <2>0, <3>1, RenderedWhole
      <3>2. CASE Process
        BY <3>2 DEF Process, Silence, PressHeardWhole
      <3>3. CASE RenderAudition \/ RunScheduler
        BY <3>3 DEF RenderAudition, RunScheduler, Report, PressHeardWhole
      <3>4. CASE UNCHANGED heard
        BY <2>0, <3>4 DEF PressHeardWhole
      <3>5. CASE UI \/ Gate \/ LoadStart \/ UNCHANGED processVars
        BY <3>4, <3>5
        DEF UI, UIOnly, processVars, audioVars, OpenOrClose, SetState,
            RequestSampleLoad, PublishLoaded, SetAuditionEnabled, SetTrimFrames,
            Press, StartSliceAudition, StopSliceAudition, PollAuditionAutoStop,
            Fold, Gate, LoadStart
      <3>. QED  BY <3>1, <3>2, <3>3, <3>5 DEF ProcessNext, Audio
    <2>. QED  BY <2>1, <2>2, <2>3 DEF PressInv
  <1>3. PressInv => PressHeardWhole
    BY DEF PressInv
  <1>. QED  BY <1>1, <1>2, <1>3, ProcessTypes, PTL DEF ProcessSpec

-----------------------------------------------------------------------------
(* Remainders.                                                             *)

\* A quotient and a remainder are unique.
LEMMA ModUnique ==
  ASSUME NEW a \in Nat, NEW c \in Nat \ {0}, NEW q \in Int,
         NEW r \in 0..(c - 1), a = q * c + r
  PROVE  a % c = r
BY SMT

\* Every natural number has them.
LEMMA ModParts ==
  ASSUME NEW a \in Nat, NEW c \in Nat \ {0}
  PROVE  \E q \in Nat : \E r \in 0..(c - 1) : a = q * c + r
<1>1. a = c * (a \div c) + (a % c) /\ a % c \in 0..(c - 1) /\ a \div c \in Nat
  BY SMT
<1>2. a = (a \div c) * c + (a % c)
  BY <1>1, SMT
<1> QED
  BY <1>1, <1>2

\* Multiples of the divisor do not change a remainder.
LEMMA ModShift ==
  ASSUME NEW a \in Nat, NEW c \in Nat \ {0}, NEW k \in Nat
  PROVE  (a + k * c) % c = a % c
<1>1. PICK q \in Nat, r \in 0..(c - 1) : a = q * c + r
  BY ModParts
<1>2. a + k * c = (q + k) * c + r
  BY <1>1, SMT
<1>3. a + k * c \in Nat /\ q + k \in Int
  BY SMT
<1>4. (a + k * c) % c = r
  BY <1>2, <1>3, ModUnique, Zenon
<1>5. a % c = r
  BY <1>1, ModUnique
<1> QED
  BY <1>4, <1>5

\* Numbers less than the divisor apart have different remainders.
LEMMA ModApart ==
  ASSUME NEW a \in Nat, NEW c \in Nat \ {0}, NEW d \in 1..(c - 1)
  PROVE  (a + d) % c # a % c
<1>1. PICK q \in Nat, r \in 0..(c - 1) : a = q * c + r
  BY ModParts
<1>2. CASE r + d < c
  BY <1>1, <1>2, ModUnique
<1>3. CASE r + d >= c
  <2>1. a + d = (q + 1) * c + (r + d - c)
    BY <1>1, SMT
  <2> QED
    BY <1>1, <1>3, <2>1, ModUnique
<1> QED
  BY <1>2, <1>3

\* Below the divisor, and one lap above it.
LEMMA ModNear ==
  ASSUME NEW c \in Nat \ {0}, NEW a \in 0..(c - 1)
  PROVE  a % c = a /\ (a + c) % c = a
<1>1. a = 0 * c + a /\ a + c = 1 * c + a /\ a \in Nat /\ a + c \in Nat
  BY SMT
<1> QED
  BY <1>1, ModUnique

-----------------------------------------------------------------------------
(* The cursors.                                                            *)

\* The cursors' width is a whole number of laps of the ring.
LEMMA Laps == \E k \in Nat : Modulus = k * Capacity
<1>1. PICK q \in Nat, r \in 0..(Capacity - 1) : Modulus = q * Capacity + r
  BY QueueAssumption, ModParts
<1>2. r = 0
  BY <1>1, ModUnique, QueueAssumption
<1>3. Modulus = q * Capacity
  BY <1>1, <1>2, QueueAssumption, SMT
<1> QED
  BY <1>3

\* A cursor's successor.
LEMMA AfterCases ==
  ASSUME NEW c \in Cursors
  PROVE  After(c) = IF c = Modulus - 1 THEN 0 ELSE c + 1
<1>1. Modulus \in Nat \ {0}
  BY QueueAssumption
<1>2. CASE c = Modulus - 1
  <2>1. c + 1 = 0 + Modulus /\ 0 \in 0..(Modulus - 1)
    BY <1>1, <1>2 DEF Cursors
  <2> QED
    BY <1>1, <1>2, <2>1, ModNear DEF After
<1>3. CASE c # Modulus - 1
  <2>1. c + 1 \in 0..(Modulus - 1)
    BY <1>1, <1>3 DEF Cursors
  <2> QED
    BY <1>1, <1>3, <2>1, ModNear DEF After
<1> QED
  BY <1>2, <1>3

\* The distance between two cursors.
LEMMA UsedCases ==
  ASSUME NEW t \in Cursors, NEW h \in Cursors
  PROVE  Used(t, h) = IF t >= h THEN t - h ELSE t - h + Modulus
<1>1. Modulus \in Nat \ {0} /\ t \in 0..(Modulus - 1) /\ h \in 0..(Modulus - 1)
  BY QueueAssumption DEF Cursors
<1>2. CASE t >= h
  <2>1. t - h \in 0..(Modulus - 1)
    BY <1>1, <1>2
  <2>2. ((t - h) + Modulus) % Modulus = t - h
    BY <1>1, <2>1, ModNear
  <2> QED
    BY <1>2, <2>2 DEF Used
<1>3. CASE ~(t >= h)
  <2>1. t - h + Modulus \in 0..(Modulus - 1)
    BY <1>1, <1>3
  <2>2. (t - h + Modulus) % Modulus = t - h + Modulus
    BY <1>1, <2>1, ModNear
  <2> QED
    BY <1>3, <2>2 DEF Used
<1> QED
  BY <1>2, <1>3

\* One more command in the ring, and one less.
LEMMA UsedAfter ==
  ASSUME NEW t \in Cursors, NEW h \in Cursors
  PROVE  /\ After(t) \in Cursors /\ Used(t, h) \in 0..(Modulus - 1)
         /\ Used(t, h) = 0 <=> t = h
         /\ Used(t, h) < Modulus - 1 => Used(After(t), h) = Used(t, h) + 1
         /\ t # h => Used(t, After(h)) = Used(t, h) - 1
<1>1. Modulus \in Nat \ {0} /\ t \in 0..(Modulus - 1) /\ h \in 0..(Modulus - 1)
  BY QueueAssumption DEF Cursors
<1>2. After(t) \in Cursors /\ After(h) \in Cursors
  BY <1>1, AfterCases DEF Cursors
<1> QED
  BY <1>1, <1>2, AfterCases, UsedCases

\* The slot of a cursor that is n commands ahead, wherever the cursors wrap.
LEMMA SlotAhead ==
  ASSUME NEW t \in Cursors, NEW h \in Cursors
  PROVE  (h + Used(t, h)) % Capacity = Slot(t)
<1>1. /\ Modulus \in Nat \ {0} /\ Capacity \in Nat \ {0}
      /\ t \in 0..(Modulus - 1) /\ h \in 0..(Modulus - 1)
  BY QueueAssumption DEF Cursors
<1>2. PICK k \in Nat : Modulus = k * Capacity
  BY Laps
<1>3. CASE t >= h
  <2>1. h + Used(t, h) = t
    BY <1>1, <1>3, UsedCases
  <2> QED
    BY <2>1 DEF Slot
<1>4. CASE ~(t >= h)
  <2>1. h + Used(t, h) = t + Modulus
    BY <1>1, <1>4, UsedCases
  <2>2. t \in Nat
    BY <1>1
  <2>3. (t + k * Capacity) % Capacity = t % Capacity
    BY <1>1, <2>2, ModShift
  <2> QED
    BY <2>1, <2>3, <1>2 DEF Slot
<1> QED
  BY <1>3, <1>4

\* Counting on from a cursor's successor reads the same slots.
LEMMA SlotFromAfter ==
  ASSUME NEW h \in Cursors, NEW i \in Nat
  PROVE  (After(h) + i) % Capacity = (h + i + 1) % Capacity
<1>1. /\ Modulus \in Nat \ {0} /\ Capacity \in Nat \ {0} /\ h \in 0..(Modulus - 1)
  BY QueueAssumption DEF Cursors
<1>2. PICK k \in Nat : Modulus = k * Capacity
  BY Laps
<1>3. CASE h = Modulus - 1
  <2>1. After(h) + i = i /\ h + i + 1 = i + Modulus
    BY <1>1, <1>3, AfterCases
  <2>2. (i + k * Capacity) % Capacity = i % Capacity
    BY <1>1, ModShift
  <2> QED
    BY <2>1, <2>2, <1>2
<1>4. CASE h # Modulus - 1
  <2>1. After(h) + i = h + i + 1
    BY <1>1, <1>4, AfterCases
  <2> QED
    BY <2>1
<1> QED
  BY <1>3, <1>4
-----------------------------------------------------------------------------
(* The invariant.                                                          *)

\* The slot of the i-th waiting command.
At(i) == (head + i - 1) % Capacity

\* What a call knows between its load and its store still holds when it acts
\* on it: the other thread only ever makes room, or more commands.
IInv ==
    /\ QueueTypeOK
    /\ Used(tail, head) <= Capacity
    /\ producer.pc # "idle" =>
          Used(tail, head) < Capacity /\ producer.command \in Commands
    /\ producer.pc = "publish" => slots[Slot(tail)] = producer.command
    /\ consumer.pc # "idle" => Used(tail, head) > 0
    /\ consumer.pc \in {"reading", "free"} => consumer.command = slots[Slot(head)]
    /\ \A i \in 1..Used(tail, head) : slots[At(i)] \in Commands

\* While a slot is being filled it is none of those that hold a command.
LEMMA SlotOfTailFree ==
  ASSUME QueueTypeOK, Used(tail, head) < Capacity
  PROVE  \A i \in 1..Used(tail, head) : At(i) # Slot(tail)
<1> SUFFICES ASSUME NEW i \in 1..Used(tail, head) PROVE At(i) # Slot(tail)
  OBVIOUS
<1>1. /\ Capacity \in Nat \ {0} /\ Modulus \in Nat \ {0} /\ head \in Cursors /\ tail \in Cursors
      /\ head \in Nat
  BY QueueAssumption DEF QueueTypeOK, Cursors
<1>2. Used(tail, head) \in Nat
  BY <1>1, UsedAfter
<1> DEFINE d == Used(tail, head) - i + 1
<1>3. /\ d \in 1..(Capacity - 1) /\ head + i - 1 \in Nat
      /\ (head + i - 1) + d = head + Used(tail, head)
  BY <1>1, <1>2
<1> HIDE DEF d
<1>4. ((head + i - 1) + d) % Capacity # (head + i - 1) % Capacity
  BY <1>1, <1>3, ModApart
<1> QED
  BY <1>1, <1>3, <1>4, SlotAhead DEF At

\* The first waiting command is where the consumer's cursor points.
LEMMA HeadIsFirst ==
  ASSUME QueueTypeOK
  PROVE  At(1) = Slot(head)
<1>1. head + 1 - 1 = head
  BY QueueAssumption DEF QueueTypeOK, Cursors
<1> QED
  BY <1>1 DEF At, Slot

\* QueueTypeOK and the bounds are kept by every step; what a step changes is the
\* occupancy (StoreTail, StoreHead) or a slot that holds no command (the writes).
LEMMA Inductive == IInv /\ [QueueNext]_queueVars => IInv'
<1> SUFFICES ASSUME IInv, [QueueNext]_queueVars PROVE IInv'
  OBVIOUS
<1> USE DEF Idle, NoCommand
<1>0. /\ Capacity \in Nat \ {0} /\ Modulus \in Nat \ {0} /\ Modulus > Capacity
      /\ head \in Cursors /\ tail \in Cursors
      /\ Used(tail, head) \in 0..(Modulus - 1)
  <2>1. head \in Cursors /\ tail \in Cursors
    BY DEF IInv, QueueTypeOK
  <2>2. Used(tail, head) \in 0..(Modulus - 1)
    BY <2>1, UsedAfter
  <2>3. Capacity \in Nat \ {0} /\ Modulus \in Nat \ {0} /\ Modulus > Capacity
    BY QueueAssumption
  <2>. QED
    BY <2>1, <2>2, <2>3
<1>1. \A c \in Cursors : Slot(c) \in 0..(Capacity - 1)
  BY <1>0 DEF Slot, Cursors
<1>2. ASSUME NEW c \in Commands, BeginPush(c) PROVE IInv'
  <2>1. Used(tail, head) # Capacity => Used(tail, head) < Capacity
    BY <1>0 DEF IInv
  <2> QED
    BY <1>2, <2>1 DEF IInv, QueueTypeOK, BeginPush, IsFull, At, Transfers
<1>3. CASE BeginWrite
  <2>1. /\ UNCHANGED <<head, tail, consumer, ret>>
        /\ slots' = [slots EXCEPT ![Slot(tail)] = Torn]
        /\ producer.pc = "write" /\ producer' = [producer EXCEPT !.pc = "writing"]
    BY <1>3 DEF BeginWrite
  <2>2. QueueTypeOK'
    BY <2>1, <1>0, <1>1 DEF IInv, QueueTypeOK, Transfers
  <2>3. \A i \in 1..Used(tail, head) : At(i) # Slot(tail)
    BY <2>1, SlotOfTailFree DEF IInv
  <2>4. Used(tail, head) > 0 => Slot(head) # Slot(tail)
    BY <2>3, <1>0, HeadIsFirst DEF IInv
  <2>5. \A i \in 1..Used(tail, head) : slots'[At(i)] = slots[At(i)]
    BY <2>1, <2>3, <1>0 DEF IInv, QueueTypeOK, At, Cursors
  <2>6. Used(tail, head) > 0 => slots'[Slot(head)] = slots[Slot(head)]
    BY <2>1, <2>4, <1>0, <1>1 DEF IInv, QueueTypeOK
  <2> QED
    BY <2>1, <2>2, <2>5, <2>6, <1>0 DEF IInv, QueueTypeOK, At
<1>4. CASE EndWrite
  <2>1. /\ UNCHANGED <<head, tail, consumer, ret>>
        /\ slots' = [slots EXCEPT ![Slot(tail)] = producer.command]
        /\ producer.pc = "writing" /\ producer' = [producer EXCEPT !.pc = "publish"]
    BY <1>4 DEF EndWrite
  <2>2. QueueTypeOK'
    BY <2>1, <1>0, <1>1 DEF IInv, QueueTypeOK, Transfers
  <2>3. \A i \in 1..Used(tail, head) : At(i) # Slot(tail)
    BY <2>1, SlotOfTailFree DEF IInv
  <2>4. Used(tail, head) > 0 => Slot(head) # Slot(tail)
    BY <2>3, <1>0, HeadIsFirst DEF IInv
  <2>5. \A i \in 1..Used(tail, head) : slots'[At(i)] = slots[At(i)]
    BY <2>1, <2>3, <1>0 DEF IInv, QueueTypeOK, At, Cursors
  <2>6. Used(tail, head) > 0 => slots'[Slot(head)] = slots[Slot(head)]
    BY <2>1, <2>4, <1>0, <1>1 DEF IInv, QueueTypeOK
  <2>7. slots'[Slot(tail)] = producer.command /\ producer'.command = producer.command
    BY <2>1, <1>0, <1>1 DEF IInv, QueueTypeOK
  <2> QED
    BY <2>1, <2>2, <2>5, <2>6, <2>7, <1>0 DEF IInv, QueueTypeOK, At
<1>5. CASE StoreTail
  <2>1. /\ producer.pc = "publish" /\ tail' = After(tail) /\ producer' = Idle
        /\ ret' = [ret EXCEPT !.push = "pushed"] /\ UNCHANGED <<slots, head, consumer>>
    BY <1>5 DEF StoreTail
  <2>2. QueueTypeOK'
    BY <2>1, <1>0, UsedAfter DEF IInv, QueueTypeOK
  <2>3. Used(tail', head') = Used(tail, head) + 1
    BY <2>1, <1>0, UsedAfter DEF IInv
  <2>4. ASSUME NEW i \in 1..Used(tail', head') PROVE slots'[At(i)'] \in Commands
    <3>1. CASE i \in 1..Used(tail, head)
      BY <2>1, <3>1 DEF IInv, At
    <3>2. CASE i = Used(tail, head) + 1
      <4>1. head + i - 1 = head + Used(tail, head)
        BY <3>2, <1>0 DEF Cursors
      <4> QED
        BY <2>1, <4>1, <1>0, SlotAhead DEF IInv, At
    <3> QED
      BY <2>3, <2>4, <3>1, <3>2, <1>0
  <2> QED
    BY <2>1, <2>2, <2>3, <2>4, <1>0 DEF IInv
<1>6. CASE BeginPop
  <2>1. head # tail => Used(tail, head) > 0
    <3>1. Used(tail, head) = 0 <=> tail = head
      BY <1>0, UsedAfter, Zenon
    <3> QED
      BY <3>1, <1>0
  <2> QED
    BY <1>6, <2>1 DEF IInv, QueueTypeOK, BeginPop, At
<1>7. CASE BeginRead
  <2>1. slots[Slot(head)] \in Transfers
    BY <1>0, <1>1 DEF IInv, QueueTypeOK
  <2> QED
    BY <1>7, <2>1 DEF IInv, QueueTypeOK, BeginRead, At
<1>8. CASE EndRead
  BY <1>8 DEF IInv, QueueTypeOK, EndRead, At, Transfers
<1>9. CASE StoreHead
  <2>1. /\ consumer.pc = "free" /\ head' = After(head) /\ consumer' = Idle
        /\ ret' = [ret EXCEPT !.pop = consumer.command] /\ UNCHANGED <<slots, tail, producer>>
    BY <1>9 DEF StoreHead
  <2>2. Used(tail, head) > 0
    BY <2>1 DEF IInv
  <2>3. Used(tail', head') = Used(tail, head) - 1
    BY <2>1, <2>2, <1>0, UsedAfter
  <2>4. consumer.command \in Commands
    BY <2>1, <2>2, <1>0, HeadIsFirst DEF IInv
  <2>5. QueueTypeOK'
    BY <2>1, <2>4, <1>0, UsedAfter DEF IInv, QueueTypeOK, Transfers
  <2>6. ASSUME NEW i \in 1..Used(tail', head') PROVE slots'[At(i)'] \in Commands
    <3>1. i + 1 \in 1..Used(tail, head) /\ i - 1 \in Nat
      BY <2>3, <1>0
    <3>2. (After(head) + (i - 1)) % Capacity = (head + (i - 1) + 1) % Capacity
      BY <3>1, <1>0, SlotFromAfter
    <3>3. After(head) + i - 1 = After(head) + (i - 1) /\ head + (i - 1) + 1 = head + (i + 1) - 1
      BY <1>0, <3>1, UsedAfter DEF Cursors
    <3>4. At(i)' = At(i + 1)
      BY <2>1, <3>2, <3>3 DEF At
    <3> QED
      BY <2>1, <3>1, <3>4 DEF IInv
  <2> QED
    BY <2>1, <2>2, <2>3, <2>5, <2>6, <1>0 DEF IInv
<1>10. CASE UNCHANGED queueVars
  BY <1>10 DEF IInv, QueueTypeOK, queueVars, At
<1> QED
  BY <1>2, <1>3, <1>4, <1>5, <1>6, <1>7, <1>8, <1>9, <1>10 DEF QueueNext

\* Nothing is in the ring at the start.
LEMMA Initially == QueueInit => IInv
<1> SUFFICES ASSUME QueueInit PROVE IInv
  OBVIOUS
<1>1. 0 \in Cursors /\ Capacity \in Nat \ {0}
  BY QueueAssumption DEF Cursors
<1>2. Used(0, 0) = 0
  BY <1>1, UsedAfter
<1> QED
  BY <1>1, <1>2 DEF QueueInit, IInv, QueueTypeOK, Idle, NoCommand, Transfers

LEMMA Invariant == QueueSpec => []IInv
<1> QED
  BY Initially, Inductive, PTL DEF QueueSpec

\* The two threads never touch the same slot at the same time, for every
\* capacity and every width of the cursors: engine/CommandQueue.h keeps its
\* slots in plain memory.
THEOREM QueueRaceFree == QueueSpec => []RaceFree
<1>1. IInv => RaceFree
  <2> SUFFICES ASSUME IInv, producer.pc = "writing", consumer.pc = "reading"
               PROVE  Slot(tail) # Slot(head)
    BY DEF RaceFree
  <2>1. Used(tail, head) > 0 /\ Used(tail, head) < Capacity
    BY DEF IInv
  <2>2. 1 \in 1..Used(tail, head)
    BY <2>1, QueueAssumption, UsedAfter DEF IInv, QueueTypeOK
  <2>3. At(1) # Slot(tail)
    BY <2>1, <2>2, SlotOfTailFree DEF IInv
  <2> QED
    BY <2>3, HeadIsFirst DEF IInv
<1> QED
  BY <1>1, Invariant, PTL

-----------------------------------------------------------------------------
(* The refinement.                                                         *)

\* A sequence is the function of its elements.
LEMMA SeqIsFunction ==
  ASSUME NEW S, NEW s \in Seq(S)
  PROVE  s = [i \in 1..Len(s) |-> s[i]]
BY LenProperties

\* The mapped queue, as the invariant speaks of it.
LEMMA PendingIs ==
  /\ Pending = [i \in 1..Used(tail, head) |-> slots[At(i)]]
  /\ Pending' = [i \in 1..Used(tail', head') |-> slots'[At(i)']]
BY DEF Pending, At

\* It is a sequence of commands.
LEMMA PendingSeq ==
  ASSUME IInv
  PROVE  Pending \in Seq(Commands) /\ Len(Pending) = Used(tail, head)
<1>1. Used(tail, head) \in Nat
  BY QueueAssumption, UsedAfter DEF IInv, QueueTypeOK
<1>2. Pending = [i \in 1..Used(tail, head) |-> slots[At(i)]]
  BY PendingIs
<1> QED
  BY <1>1, <1>2 DEF IInv

\* The ring implements the bounded queue of CommandFifo: SpscCommandQueue
\* keeps the order of its commands, loses and repeats none, and refuses a
\* push only when it is full and a pop only when it is empty.
THEOREM QueueImplementsFifo == QueueSpec => ImplementsFifo
<1>1. QueueInit => Fifo!Init
  <2> SUFFICES ASSUME QueueInit PROVE Fifo!Init
    OBVIOUS
  <2>1. 0 \in Cursors
    BY QueueAssumption DEF Cursors
  <2>2. Used(0, 0) = 0
    BY <2>1, UsedAfter, Zenon
  <2>3. Pending = <<>>
    BY <2>2 DEF QueueInit, Pending
  <2> QED
    BY <2>3 DEF QueueInit, Fifo!Init
<1>2. IInv /\ [QueueNext]_queueVars => [Fifo!Next]_(Fifo!fifoVars)
  <2> SUFFICES ASSUME IInv, [QueueNext]_queueVars
               PROVE  Fifo!Next \/ (Pending' = Pending /\ ret' = ret)
    BY DEF Fifo!fifoVars
  <2>0. /\ Capacity \in Nat \ {0} /\ Modulus \in Nat \ {0} /\ Modulus > Capacity
        /\ head \in Cursors /\ tail \in Cursors
        /\ Used(tail, head) \in 0..(Modulus - 1)
        /\ Pending \in Seq(Commands) /\ Len(Pending) = Used(tail, head)
    BY QueueAssumption, UsedAfter, PendingSeq DEF IInv, QueueTypeOK
  <2>1. \A c \in Cursors : Slot(c) \in 0..(Capacity - 1)
    BY <2>0 DEF Slot, Cursors
  <2>2. ASSUME UNCHANGED <<head, tail>>,
               \A i \in 1..Used(tail, head) : slots'[At(i)] = slots[At(i)]
        PROVE  Pending' = Pending
    BY <2>2, PendingIs DEF At
  <2>3. ASSUME NEW c \in Commands, BeginPush(c)
        PROVE  Fifo!Next \/ (Pending' = Pending /\ ret' = ret)
    <3>1. Pending' = Pending
      BY <2>2, <2>3 DEF BeginPush
    <3>2. CASE IsFull(tail, head)
      BY <2>0, <2>3, <3>1, <3>2 DEF BeginPush, IsFull, Fifo!Next, Fifo!RefusePush
    <3>3. CASE ~IsFull(tail, head)
      BY <2>3, <3>1, <3>3 DEF BeginPush
    <3> QED
      BY <3>2, <3>3
  <2>4. CASE BeginWrite \/ EndWrite
    <3>1. /\ UNCHANGED <<head, tail, ret>> /\ producer.pc # "idle"
          /\ \E x : slots' = [slots EXCEPT ![Slot(tail)] = x]
      BY <2>4 DEF BeginWrite, EndWrite
    <3>2. \A i \in 1..Used(tail, head) : At(i) # Slot(tail)
      BY <3>1, SlotOfTailFree DEF IInv
    <3>3. \A i \in 1..Used(tail, head) : slots'[At(i)] = slots[At(i)]
      BY <3>1, <3>2, <2>0 DEF IInv, QueueTypeOK, At, Cursors
    <3> QED
      BY <2>2, <3>1, <3>3
  <2>5. CASE StoreTail
    <3>1. /\ producer.pc = "publish" /\ tail' = After(tail) /\ UNCHANGED <<slots, head>>
          /\ ret' = [ret EXCEPT !.push = "pushed"]
      BY <2>5 DEF StoreTail
    <3>2. /\ Used(tail, head) < Capacity /\ producer.command \in Commands
          /\ slots[Slot(tail)] = producer.command
      BY <3>1 DEF IInv
    <3>3. Used(tail', head') = Used(tail, head) + 1
      BY <3>1, <3>2, <2>0, UsedAfter
    <3>4. At(Used(tail, head) + 1) = Slot(tail)
      <4>1. head + (Used(tail, head) + 1) - 1 = head + Used(tail, head)
        BY <2>0 DEF Cursors
      <4> QED
        BY <4>1, <2>0, SlotAhead DEF At
    <3>5. Pending' = [i \in 1..(Used(tail, head) + 1) |-> slots[At(i)]]
      BY <3>1, <3>3, PendingIs DEF At
    <3>6. Append(Pending, producer.command) =
             [i \in 1..(Used(tail, head) + 1) |-> slots[At(i)]]
      <4>1. Pending = [i \in 1..Used(tail, head) |-> slots[At(i)]]
        BY PendingIs
      <4>2. Append(Pending, producer.command) =
               [i \in 1..(Len(Pending) + 1) |->
                   IF i = Len(Pending) + 1 THEN producer.command ELSE Pending[i]]
        BY <2>0, <3>2
      <4> QED
        BY <4>1, <4>2, <3>2, <3>4, <2>0
    <3> QED
      BY <3>1, <3>2, <3>5, <3>6, <2>0 DEF Fifo!Next, Fifo!Push
  <2>6. CASE BeginPop
    <3>1. Pending' = Pending
      BY <2>2, <2>6 DEF BeginPop
    <3>2. Used(tail, head) = 0 <=> tail = head
      BY <2>0, UsedAfter, Zenon
    <3>3. CASE head = tail
      <4>1. Pending = <<>>
        BY <3>2, <3>3, <2>0
      <4> QED
        BY <2>6, <3>1, <3>3, <4>1 DEF BeginPop, Fifo!Next, Fifo!RefusePop
    <3>4. CASE head # tail
      BY <2>6, <3>1, <3>4 DEF BeginPop
    <3> QED
      BY <3>3, <3>4
  <2>7. CASE BeginRead
    BY <2>2, <2>7 DEF BeginRead
  <2>8. CASE EndRead
    BY <2>2, <2>8 DEF EndRead
  <2>9. CASE StoreHead
    <3>1. /\ consumer.pc = "free" /\ head' = After(head) /\ UNCHANGED <<slots, tail>>
          /\ ret' = [ret EXCEPT !.pop = consumer.command]
      BY <2>9 DEF StoreHead
    <3>2. Used(tail, head) > 0 /\ consumer.command = slots[Slot(head)]
      BY <3>1 DEF IInv
    <3>3. Used(tail', head') = Used(tail, head) - 1
      BY <3>1, <3>2, <2>0, UsedAfter
    <3>4. Pending # <<>> /\ Head(Pending) = consumer.command
      <4>1. Head(Pending) = Pending[1] /\ Pending # <<>>
        BY <2>0, <3>2
      <4>2. 1 \in 1..Used(tail, head)
        BY <2>0, <3>2
      <4> QED
        BY <4>1, <4>2, <3>2, HeadIsFirst, PendingIs DEF IInv
    <3>5. \A i \in 1..(Used(tail, head) - 1) : slots'[At(i)'] = slots[At(i + 1)]
      <4> SUFFICES ASSUME NEW i \in 1..(Used(tail, head) - 1)
                   PROVE  At(i)' = At(i + 1)
        BY <3>1
      <4>1. i - 1 \in Nat
        BY <2>0
      <4>2. (After(head) + (i - 1)) % Capacity = (head + (i - 1) + 1) % Capacity
        BY <4>1, <2>0, SlotFromAfter
      <4>3. After(head) + i - 1 = After(head) + (i - 1) /\ head + (i - 1) + 1 = head + (i + 1) - 1
        BY <2>0, <4>1, UsedAfter DEF Cursors
      <4> QED
        BY <3>1, <4>2, <4>3 DEF At
    <3>6. Pending' = [i \in 1..(Used(tail, head) - 1) |-> slots[At(i + 1)]]
      BY <3>3, <3>5, PendingIs
    <3>7. Tail(Pending) = [i \in 1..(Used(tail, head) - 1) |-> slots[At(i + 1)]]
      <4>1. Tail(Pending) = [i \in 1..(Len(Pending) - 1) |-> Pending[i + 1]]
        <5>1. /\ Tail(Pending) \in Seq(Commands) /\ Len(Tail(Pending)) = Len(Pending) - 1
              /\ \A i \in 1..Len(Tail(Pending)) : Tail(Pending)[i] = Pending[i + 1]
          BY <2>0, <3>4, HeadTailProperties
        <5>2. Tail(Pending) = [i \in 1..Len(Tail(Pending)) |-> Tail(Pending)[i]]
          BY <5>1, SeqIsFunction
        <5> QED
          BY <5>1, <5>2
      <4>2. \A i \in 1..(Used(tail, head) - 1) : Pending[i + 1] = slots[At(i + 1)]
        BY <2>0, PendingIs
      <4> QED
        BY <4>1, <4>2, <2>0
    <3> QED
      BY <3>1, <3>4, <3>6, <3>7 DEF Fifo!Next, Fifo!Pop
  <2>10. CASE UNCHANGED queueVars
    BY <2>2, <2>10 DEF queueVars
  <2> QED
    BY <2>3, <2>4, <2>5, <2>6, <2>7, <2>8, <2>9, <2>10 DEF QueueNext
<1> QED
  BY <1>1, <1>2, Invariant, PTL DEF QueueSpec, ImplementsFifo, Fifo!Spec

-----------------------------------------------------------------------------
(* The grid *)

PatternOf(r, c, n, o, e) ==
    [rows |-> r, columns |-> c, notes |-> n, overrides |-> o, extensions |-> e]
IsPattern(p) == \E r, c, n, o, e : p = PatternOf(r, c, n, o, e)

Good(p) == IsPattern(p) /\ OneCellPerColumn(p) /\ DataAtNotes(p)

-----------------------------------------------------------------------------
(* The operations of the shell *)

\* A wiped grid is good, whatever its dimensions (clearGrid).
LEMMA BlankGood == \A rows, columns : Good(Blank(rows, columns))
  BY DEF Good, IsPattern, PatternOf, Blank, Nothing, OneCellPerColumn, DataAtNotes

\* Without keeps the rest of a function's domain.
LEMMA WithoutDomain == \A f, S : DOMAIN Without(f, S) = DOMAIN f \ S
  BY DEF Without, Restrict

\* Put adds one cell to a function's domain.
LEMMA PutDomain == \A f, c, v : DOMAIN Put(f, c, v) = DOMAIN f \cup {c}
  BY DEF Put

\* Fields are replaced one after the other, the others stay.
WithNotes(p, n) == [p EXCEPT !.notes = n]
WithOverrides(p, o) == [p EXCEPT !.overrides = o]
WithExtensions(p, e) == [p EXCEPT !.extensions = e]
WithMarks(p, n, o) == [p EXCEPT !.notes = n, !.overrides = o]
WithAll(p, n, o, e) ==
    [p EXCEPT !.notes = n, !.overrides = o, !.extensions = e]

LEMMA FieldReplaced ==
  \A p, n, o, e : IsPattern(p) =>
      /\ WithNotes(p, n)
            = PatternOf(p.rows, p.columns, n, p.overrides, p.extensions)
      /\ WithOverrides(p, o)
            = PatternOf(p.rows, p.columns, p.notes, o, p.extensions)
      /\ WithExtensions(p, e)
            = PatternOf(p.rows, p.columns, p.notes, p.overrides, e)
  BY DEF IsPattern, PatternOf, WithNotes, WithOverrides, WithExtensions

LEMMA FieldsReplaced ==
  \A p, n, o, e : IsPattern(p) =>
      /\ WithMarks(p, n, o) = PatternOf(p.rows, p.columns, n, o, p.extensions)
      /\ WithAll(p, n, o, e) = PatternOf(p.rows, p.columns, n, o, e)
<1> SUFFICES ASSUME NEW p, IsPattern(p), NEW n, NEW o, NEW e
             PROVE  /\ WithMarks(p, n, o)
                          = PatternOf(p.rows, p.columns, n, o, p.extensions)
                    /\ WithAll(p, n, o, e)
                          = PatternOf(p.rows, p.columns, n, o, e)
  BY Zenon
<1>1. [p EXCEPT !.notes = n]
         = PatternOf(p.rows, p.columns, n, p.overrides, p.extensions)
  BY DEF IsPattern, PatternOf
<1>2. [PatternOf(p.rows, p.columns, n, p.overrides, p.extensions) EXCEPT !.overrides = o]
         = PatternOf(p.rows, p.columns, n, o, p.extensions)
  BY DEF PatternOf
<1>3. [PatternOf(p.rows, p.columns, n, o, p.extensions) EXCEPT !.extensions = e]
         = PatternOf(p.rows, p.columns, n, o, e)
  BY DEF PatternOf
<1>4. /\ WithMarks(p, n, o) = [[p EXCEPT !.notes = n] EXCEPT !.overrides = o]
      /\ WithAll(p, n, o, e) = [[[p EXCEPT !.notes = n] EXCEPT !.overrides = o]
                                   EXCEPT !.extensions = e]
  BY Zenon DEF WithMarks, WithAll
<1> QED
  BY <1>1, <1>2, <1>3, <1>4, Zenon

\* Erasing notes takes what was set at their cells along.
LEMMA ErasedFields ==
  ASSUME NEW p, IsPattern(p), NEW S
  PROVE  LET q == Erased(p, S) IN
         /\ IsPattern(q)
         /\ q.rows = p.rows /\ q.columns = p.columns
         /\ q.notes = Without(p.notes, S)
         /\ q.overrides = Without(p.overrides, S)
         /\ q.extensions = Without(p.extensions, S)
<1> DEFINE q == Erased(p, S)
<1>1. q = PatternOf(p.rows, p.columns, Without(p.notes, S),
                    Without(p.overrides, S), Without(p.extensions, S))
  <2>1. Erased(p, S) = WithAll(p, Without(p.notes, S), Without(p.overrides, S),
                               Without(p.extensions, S))
    BY Zenon DEF Erased, WithAll
  <2> QED
    BY <2>1, FieldsReplaced, Zenon
<1> HIDE DEF q
<1>2. IsPattern(q)
  BY <1>1, Zenon DEF IsPattern
<1>3. /\ q.rows = p.rows /\ q.columns = p.columns
      /\ q.notes = Without(p.notes, S)
      /\ q.overrides = Without(p.overrides, S)
      /\ q.extensions = Without(p.extensions, S)
  BY <1>1 DEF PatternOf
<1> QED
  BY <1>2, <1>3 DEF q

LEMMA ErasedGood ==
  ASSUME NEW p, Good(p), NEW S
  PROVE  /\ Good(Erased(p, S))
         /\ DOMAIN Erased(p, S).notes = DOMAIN p.notes \ S
         /\ Erased(p, S).rows = p.rows /\ Erased(p, S).columns = p.columns
<1> DEFINE q == Erased(p, S)
<1>1. IsPattern(p)
  BY DEF Good
<1>2. /\ IsPattern(q)
      /\ q.rows = p.rows /\ q.columns = p.columns
      /\ q.notes = Without(p.notes, S)
      /\ q.overrides = Without(p.overrides, S)
      /\ q.extensions = Without(p.extensions, S)
  BY <1>1, ErasedFields
<1>3. /\ DOMAIN q.notes = DOMAIN p.notes \ S
      /\ DOMAIN q.overrides = DOMAIN p.overrides \ S
      /\ DOMAIN q.extensions = DOMAIN p.extensions \ S
  BY <1>2, WithoutDomain, Zenon
<1>4. OneCellPerColumn(q)
  BY <1>3 DEF Good, OneCellPerColumn
<1>5. DataAtNotes(q)
  BY <1>2, <1>3 DEF Good, DataAtNotes, InGrid
<1> QED
  BY <1>2, <1>3, <1>4, <1>5 DEF Good

\* setSequencerCell
LEMMA CellSetGood ==
  ASSUME NEW p, Good(p), NEW cell, NEW style
  PROVE  Good(CellSet(p, cell, style))
<1> DEFINE others == {c \in DOMAIN p.notes : c[2] = cell[2] /\ c # cell}
           alone == Erased(p, others)
           q == [alone EXCEPT !.notes = Put(alone.notes, cell, style)]
<1>1. Good(Erased(p, {cell}))
  BY ErasedGood
<1>2. ASSUME InGrid(p, cell) PROVE Good(q)
  <2>1. /\ Good(alone)
        /\ DOMAIN alone.notes = DOMAIN p.notes \ others
        /\ alone.rows = p.rows /\ alone.columns = p.columns
    BY ErasedGood
  <2>2. q = PatternOf(alone.rows, alone.columns, Put(alone.notes, cell, style),
                      alone.overrides, alone.extensions)
    <3>1. IsPattern(alone)
      BY <2>1 DEF Good
    <3>2. q = WithNotes(alone, Put(alone.notes, cell, style))
      BY Zenon DEF WithNotes
    <3> QED
      BY <3>1, <3>2, FieldReplaced, Zenon
  <2>3. /\ DOMAIN q.notes = DOMAIN alone.notes \cup {cell}
        /\ q.overrides = alone.overrides /\ q.extensions = alone.extensions
        /\ q.rows = p.rows /\ q.columns = p.columns
    <3> HIDE DEF q, alone
    <3>1. /\ q.notes = Put(alone.notes, cell, style)
          /\ q.overrides = alone.overrides /\ q.extensions = alone.extensions
          /\ q.rows = alone.rows /\ q.columns = alone.columns
      BY <2>2 DEF PatternOf
    <3>2. DOMAIN Put(alone.notes, cell, style)
             = DOMAIN alone.notes \cup {cell}
      BY PutDomain, Zenon
    <3>3. DOMAIN q.notes = DOMAIN alone.notes \cup {cell}
      BY <3>1, <3>2
    <3> QED
      BY <2>1, <3>1, <3>3
  <2>4. IsPattern(q)
    <3> HIDE DEF q, alone
    <3> QED
      BY <2>2, Zenon DEF IsPattern
  <2>5. OneCellPerColumn(q)
    <3>1. \A c \in DOMAIN alone.notes : c[2] = cell[2] => c = cell
      BY <2>1
    <3> QED
      BY <2>1, <2>3, <3>1 DEF Good, OneCellPerColumn
  <2>6. DataAtNotes(q)
    <3>1. \A c \in DOMAIN q.notes : InGrid(q, c)
      BY <1>2, <2>1, <2>3 DEF Good, DataAtNotes, InGrid
    <3> QED
      BY <2>1, <2>3, <3>1 DEF Good, DataAtNotes
  <2> QED
    BY <2>4, <2>5, <2>6 DEF Good
<1> QED
  BY <1>1, <1>2 DEF CellSet, OthersErased

\* setSequencerCellExtension and setSequencerCellOverride: data is added at
\* notes only.
LEMMA DataGood ==
  ASSUME NEW p, Good(p), NEW o, NEW e,
         DOMAIN o \subseteq DOMAIN p.notes, DOMAIN e \subseteq DOMAIN p.notes
  PROVE  Good([p EXCEPT !.overrides = o]) /\ Good([p EXCEPT !.extensions = e])
<1> DEFINE q == [p EXCEPT !.overrides = o]
           r == [p EXCEPT !.extensions = e]
<1>1. q = PatternOf(p.rows, p.columns, p.notes, o, p.extensions)
  <2>1. IsPattern(p) /\ q = WithOverrides(p, o)
    BY Zenon DEF Good, WithOverrides
  <2> QED
    BY <2>1, FieldReplaced, Zenon
<1>2. r = PatternOf(p.rows, p.columns, p.notes, p.overrides, e)
  <2>1. IsPattern(p) /\ r = WithExtensions(p, e)
    BY Zenon DEF Good, WithExtensions
  <2> QED
    BY <2>1, FieldReplaced, Zenon
<1>3. Good(q)
  <2> HIDE DEF q
  <2>1. IsPattern(q)
    BY <1>1, Zenon DEF IsPattern
  <2>2. /\ q.rows = p.rows /\ q.columns = p.columns /\ q.notes = p.notes
        /\ q.overrides = o /\ q.extensions = p.extensions
    BY <1>1 DEF PatternOf
  <2> QED
    BY <2>1, <2>2 DEF Good, OneCellPerColumn, DataAtNotes, InGrid
<1>4. Good(r)
  <2> HIDE DEF r
  <2>1. IsPattern(r)
    BY <1>2, Zenon DEF IsPattern
  <2>2. /\ r.rows = p.rows /\ r.columns = p.columns /\ r.notes = p.notes
        /\ r.overrides = p.overrides /\ r.extensions = e
    BY <1>2 DEF PatternOf
  <2> QED
    BY <2>1, <2>2 DEF Good, OneCellPerColumn, DataAtNotes, InGrid
<1> QED
  BY <1>3, <1>4

LEMMA ExtendedGood ==
  ASSUME NEW p, Good(p), NEW cell, NEW delta
  PROVE  Good(Extended(p, cell, delta))
<1> DEFINE steps == Clamp(ExtensionAt(p, cell) + delta, 0, MaxExtension)
<1>1. CASE ~Filled(p, cell)
  BY <1>1 DEF Extended
<1>2. CASE Filled(p, cell)
  <2>1. /\ DOMAIN Without(p.extensions, {cell}) \subseteq DOMAIN p.notes
        /\ DOMAIN Put(p.extensions, cell, steps) \subseteq DOMAIN p.notes
    BY <1>2 DEF Without, Restrict, Put, Filled, Good, DataAtNotes
  <2>2. /\ Good([p EXCEPT !.extensions = Without(p.extensions, {cell})])
        /\ Good([p EXCEPT !.extensions = Put(p.extensions, cell, steps)])
    BY <2>1, DataGood
  <2> QED
    BY <1>2, <2>2 DEF Extended
<1> QED
  BY <1>1, <1>2

LEMMA OverriddenGood ==
  ASSUME NEW p, Good(p), NEW cell, NEW id
  PROVE  Good(Overridden(p, cell, id))
<1> DEFINE o == Put(p.overrides, cell, OverridesAt(p, cell) \cup {id})
<1>1. CASE ~Filled(p, cell)
  BY <1>1 DEF Overridden
<1>2. CASE Filled(p, cell)
  <2>1. DOMAIN o \subseteq DOMAIN p.notes
    BY <1>2 DEF Put, Filled, Good, DataAtNotes
  <2>2. Good([p EXCEPT !.overrides = o])
    BY <2>1, DataGood
  <2> QED
    BY <1>2, <2>2 DEF Overridden
<1> QED
  BY <1>1, <1>2

\* clearSequencerCellOverride
LEMMA OverrideClearedGood ==
  ASSUME NEW p, Good(p), NEW cell, NEW id
  PROVE  Good(OverrideCleared(p, cell, id))
<1> DEFINE left == OverridesAt(p, cell) \ {id}
<1>1. CASE cell \notin DOMAIN p.overrides
  BY <1>1 DEF OverrideCleared
<1>2. CASE cell \in DOMAIN p.overrides
  <2>1. /\ DOMAIN Without(p.overrides, {cell}) \subseteq DOMAIN p.notes
        /\ DOMAIN Put(p.overrides, cell, left) \subseteq DOMAIN p.notes
    BY <1>2 DEF Without, Restrict, Put, Good, DataAtNotes
  <2>2. /\ Good([p EXCEPT !.overrides = Without(p.overrides, {cell})])
        /\ Good([p EXCEPT !.overrides = Put(p.overrides, cell, left)])
    BY <2>1, DataGood
  <2> QED
    BY <2>2 DEF OverrideCleared
<1> QED
  BY <1>1, <1>2

\* resizeGrid: the pattern as it is, or a wiped one.
LEMMA ResizedGood ==
  ASSUME NEW p, Good(p), NEW list, NEW step, NEW length
  PROVE  Good(Resized(p, list, step, length))
  BY BlankGood DEF Resized

-----------------------------------------------------------------------------
(* The randomizer *)

\* The span of a bar holds the column it starts in: a note lasts a step.
LEMMA SpanHoldsStart ==
  ASSUME NEW list \in Seq(Nat), NEW step \in Nat \ {0},
         NEW row \in 0..(RowsFor(list) - 1),
         NEW columns \in Int, NEW start \in 0..(columns - 1)
  PROVE  start \in Span(list, columns, step, row, start)
<1>1. RowsFor(list) <= Len(list) /\ RowsFor(list) \in Int
  BY PatternAssumption DEF RowsFor, Clamp, PatternAssumption
<1>2. row + 1 \in 1..Len(list)
  BY <1>1
<1>3. list[row + 1] \in Nat
  BY <1>2
<1>4. Round(list[row + 1], step) \in Int
  BY <1>3 DEF Round
<1>5. NaturalSteps(list, row, step) \in Int /\ NaturalSteps(list, row, step) >= 1
  BY <1>4 DEF NaturalSteps, AtLeastOne
<1> QED
  BY <1>5 DEF Span

\* A bar of a run lies on rows and columns of the grid, its span holds its
\* start, and no two spans meet: each is placed where the earlier ones left
\* it free.
LEMMA SpansApart ==
  ASSUME NEW list \in SliceLists, NEW step \in Resolutions, NEW length \in Lengths,
         NEW b \in Placements(list, step, length),
         NEW i \in DOMAIN b, NEW j \in DOMAIN b
  PROVE  LET columns == ColumnsFor(step, length)
             SpanOf(k) == Span(list, columns, step, b[k].row, b[k].start)
         IN  /\ b[i].row \in 0..(RowsFor(list) - 1)
             /\ b[i].start \in 0..(columns - 1)
             /\ b[i].start \in SpanOf(i)
             /\ j # i => SpanOf(i) \cap SpanOf(j) = {}
<1> DEFINE rows == RowsFor(list)
           columns == ColumnsFor(step, length)
           SpanOf(k) == Span(list, columns, step, b[k].row, b[k].start)
<1>1. PICK n \in 0..columns :
         /\ b \in [1..n -> Bar(rows, columns)]
         /\ \A k \in 1..n : IsBestStart(list, columns, step,
                                Claimed(list, columns, step, b, k),
                                b[k].row, b[k].start)
  BY DEF Placements
<1>2. list \in Seq(Nat) /\ step \in Nat \ {0} /\ length \in Nat \ {0}
  BY PatternAssumption DEF PatternAssumption
<1>3. columns \in Int
  <2>1. Round(BarTicks, step) \in Int
    BY <1>2, PatternAssumption DEF Round, PatternAssumption
  <2>2. AtLeastOne(Round(BarTicks, step)) * length \in Int
    BY <1>2, <2>1 DEF AtLeastOne
  <2> QED
    BY <2>2, PatternAssumption DEF ColumnsFor, Clamp, PatternAssumption
<1>4. \A k \in 1..n : /\ b[k].row \in 0..(rows - 1)
                      /\ b[k].start \in 0..(columns - 1)
                      /\ b[k].start \in SpanOf(k)
  <2> SUFFICES ASSUME NEW k \in 1..n
               PROVE  /\ b[k].row \in 0..(rows - 1)
                      /\ b[k].start \in 0..(columns - 1)
                      /\ b[k].start \in SpanOf(k)
    OBVIOUS
  <2>1. b[k].row \in 0..(rows - 1) /\ b[k].start \in 0..(columns - 1)
    BY <1>1 DEF Bar
  <2> QED
    BY <1>2, <1>3, <2>1, SpanHoldsStart
<1>5. \A k \in 1..n, m \in 1..n : m < k => SpanOf(k) \cap SpanOf(m) = {}
  <2> SUFFICES ASSUME NEW k \in 1..n, NEW m \in 1..n, m < k
               PROVE  SpanOf(k) \cap SpanOf(m) = {}
    OBVIOUS
  <2>1. m \in 1..(k - 1)
    BY <1>3
  <2>2. SpanOf(m) \subseteq Claimed(list, columns, step, b, k)
    BY <2>1 DEF Claimed
  <2>3. SpanOf(k) \cap Claimed(list, columns, step, b, k) = {}
    BY <1>1 DEF IsBestStart
  <2> QED
    BY <2>2, <2>3
<1> HIDE DEF SpanOf, rows, columns
<1>6. i \in 1..n /\ j \in 1..n
  BY <1>1
<1>7. j # i => SpanOf(i) \cap SpanOf(j) = {}
  <2>1. CASE i < j
    BY <1>5, <1>6, <2>1
  <2>2. CASE j < i
    BY <1>5, <1>6, <2>2
  <2> QED
    BY <1>3, <1>6, <2>1, <2>2
<1> QED
  BY <1>4, <1>6, <1>7 DEF SpanOf, rows, columns

\* No two bars of a run start in the same column.
LEMMA StartsDiffer ==
  ASSUME NEW list \in SliceLists, NEW step \in Resolutions, NEW length \in Lengths,
         NEW b \in Placements(list, step, length),
         NEW i \in DOMAIN b, NEW j \in DOMAIN b, j # i
  PROVE  b[i].start # b[j].start
<1> DEFINE SpanOf(k) == Span(list, ColumnsFor(step, length), step,
                             b[k].row, b[k].start)
<1>1. b[i].start \in SpanOf(i) /\ SpanOf(i) \cap SpanOf(j) = {}
  BY SpansApart
<1>2. b[j].start \in SpanOf(j)
  BY SpansApart
<1> QED
  BY <1>1, <1>2

\* What randomizeSequence writes: a note per bar that was placed, in a style
\* of the palette, and no extension.
LEMMA RandomizedFields ==
  ASSUME NEW list \in SliceLists, NEW step \in Resolutions, NEW length \in Lengths,
         NEW b \in Placements(list, step, length), NEW optedIn
  PROVE  LET q == Randomized(RowsFor(list), ColumnsFor(step, length), b, optedIn)
         IN  /\ IsPattern(q)
             /\ q.rows = RowsFor(list) /\ q.columns = ColumnsFor(step, length)
             /\ DOMAIN q.notes = {CellOf(b[i]) : i \in DOMAIN b}
             /\ q.notes \in [DOMAIN q.notes -> Styles]
             /\ DOMAIN q.overrides \subseteq DOMAIN q.notes
             /\ q.extensions = Nothing
<1> DEFINE rows == RowsFor(list)
           columns == ColumnsFor(step, length)
           I == DOMAIN b
           EventAt(c) == CHOOSE i \in I : CellOf(b[i]) = c
           Opted == {i \in I : b[i].style \in optedIn /\ Rolled(b[i].style) # {}}
           cells == {CellOf(b[i]) : i \in I}
           data == {CellOf(b[i]) : i \in Opted}
           notes == [c \in cells |-> b[EventAt(c)].style]
           overrides == [c \in data |-> Rolled(b[EventAt(c)].style)]
           q == Randomized(rows, columns, b, optedIn)
<1>1. q = PatternOf(rows, columns, notes, overrides, Nothing)
  <2> DEFINE blank == Blank(rows, columns)
  <2>1. /\ IsPattern(blank) /\ blank.rows = rows
        /\ blank.columns = columns /\ blank.extensions = Nothing
    BY BlankGood DEF Good, Blank
  <2>2. q = WithMarks(blank, notes, overrides)
    BY Zenon DEF Randomized, WithMarks
  <2> HIDE DEF blank, notes, overrides, rows, columns, q
  <2> QED
    BY <2>1, <2>2, FieldsReplaced, Zenon
<1>2. \A c \in cells : b[EventAt(c)].style \in Styles
  <2> SUFFICES ASSUME NEW i \in I PROVE b[EventAt(CellOf(b[i]))].style \in Styles
    OBVIOUS
  <2>1. EventAt(CellOf(b[i])) \in I
    OBVIOUS
  <2>2. \A k \in I : b[k] \in Bar(rows, columns)
    BY DEF Placements
  <2>3. \A k \in I : b[k].style \in Styles
    BY <2>2 DEF Bar
  <2> HIDE DEF EventAt, I
  <2> QED
    BY <2>1, <2>3
<1>3. notes \in [cells -> Styles] /\ DOMAIN notes = cells
  <2> HIDE DEF cells, EventAt
  <2> QED
    BY <1>2
<1>4. DOMAIN overrides \subseteq DOMAIN notes
  OBVIOUS
<1> HIDE DEF q, notes, overrides, rows, columns, cells
<1>5. /\ q.rows = rows /\ q.columns = columns /\ q.notes = notes
      /\ q.overrides = overrides /\ q.extensions = Nothing
  BY <1>1 DEF PatternOf
<1>6. IsPattern(q)
  BY <1>1, Zenon DEF IsPattern
<1> QED
  BY <1>3, <1>4, <1>5, <1>6 DEF q, rows, columns, cells

\* randomizeSequence leaves a monophonic pattern with data at its notes.
LEMMA RandomizedGood ==
  ASSUME NEW list \in SliceLists, NEW step \in Resolutions, NEW length \in Lengths,
         NEW b \in Placements(list, step, length), NEW optedIn
  PROVE  Good(Randomized(RowsFor(list), ColumnsFor(step, length), b, optedIn))
<1> DEFINE rows == RowsFor(list)
           columns == ColumnsFor(step, length)
           I == DOMAIN b
           q == Randomized(rows, columns, b, optedIn)
<1>1. /\ IsPattern(q)
      /\ q.rows = rows /\ q.columns = columns
      /\ DOMAIN q.notes = {CellOf(b[i]) : i \in I}
      /\ DOMAIN q.overrides \subseteq DOMAIN q.notes
      /\ DOMAIN q.extensions = {}
  BY RandomizedFields DEF Nothing
<1>2. OneCellPerColumn(q)
  <2> SUFFICES ASSUME NEW i \in I, NEW j \in I,
                      CellOf(b[i])[2] = CellOf(b[j])[2]
               PROVE  CellOf(b[i]) = CellOf(b[j])
    BY <1>1 DEF OneCellPerColumn
  <2>1. b[i].start = b[j].start
    BY DEF CellOf
  <2>2. i = j
    BY <2>1, StartsDiffer
  <2> QED
    BY <2>2
<1>3. DataAtNotes(q)
  <2>1. \A i \in I : b[i] \in Bar(rows, columns)
    BY DEF Placements
  <2>2. \A i \in I : CellOf(b[i]) \in (0..(rows - 1)) \X (0..(columns - 1))
    BY <2>1 DEF CellOf, Bar
  <2>3. \A c \in DOMAIN q.notes : InGrid(q, c)
    BY <1>1, <2>2 DEF InGrid
  <2> QED
    BY <1>1, <2>3 DEF DataAtNotes
<1> QED
  BY <1>1, <1>2, <1>3 DEF Good

-----------------------------------------------------------------------------
(* The steps *)

\* applyPaintAt and editSliderFromX
LEMMA PaintedGood ==
  ASSUME NEW p, Good(p), NEW how, NEW cell
  PROVE  Good(Painted(p, how, cell))
  BY CellSetGood DEF Painted

LEMMA ScrubbedGood ==
  ASSUME NEW p, Good(p)
  PROVE  Good(Scrubbed(p))
  BY OverriddenGood DEF Scrubbed

\* Wherever the pointer goes, onMouseMoved leaves a good pattern.
LEMMA MovedGood ==
  ASSUME Good(pattern), NEW cell
  PROVE  Good(PatternMovedTo(cell))
<1>1. Good(Scrubbed(pattern)) /\ Good(Painted(pattern, paint, cell))
  BY ScrubbedGood, PaintedGood
<1>2. Good(Extended(pattern, extend.cell, cell[2] - extend.cell[2] - extend.delta))
  BY ExtendedGood
<1> QED
  BY <1>1, <1>2 DEF PatternMovedTo

LEMMA GridGood == Spec => []Good(pattern)
<1>1. Init => Good(pattern)
  BY BlankGood DEF Init
<1>2. Good(pattern) /\ [Next]_vars => Good(pattern)'
  <2> SUFFICES ASSUME Good(pattern), [Next]_vars PROVE Good(pattern')
    BY DEF Good, IsPattern, PatternOf, OneCellPerColumn, DataAtNotes, InGrid
  <2>1. ASSUME NEW style \in Styles, PressPalette(style) PROVE Good(pattern')
    BY <2>1 DEF PressPalette
  <2>2. CASE PressToScroll
    BY <2>2 DEF PressToScroll
  <2>3. CASE PressSlider
    BY <2>3, ScrubbedGood DEF PressSlider
  <2>4. ASSUME NEW cell \in Pointer, PressToExtend(cell) PROVE Good(pattern')
    BY <2>4 DEF PressToExtend
  <2>5. ASSUME NEW cell \in Pointer, PressToPaint(cell) PROVE Good(pattern')
    BY <2>5, PaintedGood DEF PressToPaint
  <2>6. ASSUME NEW cell \in Pointer, PressToErase(cell) PROVE Good(pattern')
    BY <2>6, PaintedGood DEF PressToErase
  <2>7. ASSUME NEW cell \in Pointer, OpenMenu(cell) PROVE Good(pattern')
    BY <2>7 DEF OpenMenu
  <2>8. ASSUME NEW cell \in Pointer, Move(cell) \/ Release(cell) PROVE Good(pattern')
    BY <2>8, MovedGood DEF Move, Release
  <2>9. CASE DismissMenu
    BY <2>9 DEF DismissMenu
  <2>10. ASSUME NEW id \in ParamIds, PickSlider(id) PROVE Good(pattern')
    BY <2>10 DEF PickSlider
  <2>11. ASSUME NEW id \in ParamIds, PickOption(id) \/ PickMode(id) PROVE Good(pattern')
    BY <2>11, OverriddenGood DEF PickOption, PickMode
  <2>12. CASE Cancel
    BY <2>12 DEF Cancel
  <2>13. CASE Randomize
    <3>1. PICK o \in Outcomes : pattern' = o.left
      BY <2>13 DEF Randomize
    <3>2. PICK list \in SliceLists, r \in Resolutions, n \in Lengths :
             \E run \in Placements(list, r, n), optedIn \in SUBSET Styles :
                o.left = Randomized(RowsFor(list), ColumnsFor(r, n), run, optedIn)
      BY <3>1 DEF Outcomes
    <3>3. PICK run \in Placements(list, r, n), optedIn \in SUBSET Styles :
             o.left = Randomized(RowsFor(list), ColumnsFor(r, n), run, optedIn)
      BY <3>2
    <3> QED
      BY <3>1, <3>3, RandomizedGood
  <2>14. CASE Clear
    BY <2>14, BlankGood DEF Clear
  <2>15. ASSUME NEW r \in Resolutions, SetResolution(r) PROVE Good(pattern')
    BY <2>15, ResizedGood DEF SetResolution
  <2>16. ASSUME NEW n \in Lengths, SetLength(n) PROVE Good(pattern')
    BY <2>16, ResizedGood DEF SetLength
  <2>17. ASSUME NEW list \in SliceLists, Reslice(list) PROVE Good(pattern')
    BY <2>17, ResizedGood DEF Reslice
  <2>18. ASSUME NEW cell \in DOMAIN pattern.overrides, NEW id \in ParamIds,
                ClearOverride(cell, id)
         PROVE  Good(pattern')
    BY <2>18, OverrideClearedGood DEF ClearOverride
  <2>19. CASE UNCHANGED vars
    BY <2>19 DEF vars
  <2> QED
    BY <2>1, <2>2, <2>3, <2>4, <2>5, <2>6, <2>7, <2>8, <2>9, <2>10, <2>11,
       <2>12, <2>13, <2>14, <2>15, <2>16, <2>17, <2>18, <2>19 DEF Next
<1> QED
  BY <1>1, <1>2, PTL DEF Spec

\* One cell per column and no data without its note, for all values of the
\* constants (setSequencerCell's "Monophonic", sanitizeGrid's invariants).
THEOREM GridConsistent == Spec => []PatternConsistent
<1>1. Good(pattern) => PatternConsistent
  BY DEF Good, PatternConsistent
<1> QED
  BY <1>1, GridGood, PTL

-----------------------------------------------------------------------------
(* The fields of an edited pattern *)

\* setSequencerCell does nothing, drops a note, or puts one in place of the
\* others of its column.
LEMMA CellSetFields ==
  ASSUME NEW p, IsPattern(p), NEW cell, NEW style
  PROVE  LET q == CellSet(p, cell, style)
             others == {c \in DOMAIN p.notes : c[2] = cell[2] /\ c # cell}
         IN  /\ q.rows = p.rows /\ q.columns = p.columns
             /\ \/ q = p /\ (style # NoStyle => cell \in DOMAIN p.notes
                                                \/ ~InGrid(p, cell))
                \/ /\ style = NoStyle
                   /\ q.notes = Without(p.notes, {cell})
                   /\ q.extensions = Without(p.extensions, {cell})
                \/ /\ style # NoStyle
                   /\ q.notes = Put(Without(p.notes, others), cell, style)
                   /\ q.extensions = Without(p.extensions, others)
<1> DEFINE others == {c \in DOMAIN p.notes : c[2] = cell[2] /\ c # cell}
           alone == Erased(p, others)
           notes == Put(alone.notes, cell, style)
           q == [alone EXCEPT !.notes = notes]
<1>1. LET e == Erased(p, {cell}) IN
         /\ e.rows = p.rows /\ e.columns = p.columns
         /\ e.notes = Without(p.notes, {cell})
         /\ e.extensions = Without(p.extensions, {cell})
  BY ErasedFields
<1>2. /\ IsPattern(alone)
      /\ alone.rows = p.rows /\ alone.columns = p.columns
      /\ alone.notes = Without(p.notes, others)
      /\ alone.extensions = Without(p.extensions, others)
  BY ErasedFields
<1>3. /\ q.rows = p.rows /\ q.columns = p.columns
      /\ q.notes = Put(Without(p.notes, others), cell, style)
      /\ q.extensions = Without(p.extensions, others)
  <2>1. q = PatternOf(alone.rows, alone.columns, notes, alone.overrides,
                      alone.extensions)
    <3>1. q = WithNotes(alone, notes)
      BY Zenon DEF WithNotes
    <3> QED
      BY <1>2, <3>1, FieldReplaced, Zenon
  <2>2. notes = Put(Without(p.notes, others), cell, style)
    BY <1>2
  <2> HIDE DEF q, alone, notes, others
  <2> QED
    BY <1>2, <2>1, <2>2 DEF PatternOf
<1>4. \/ CellSet(p, cell, style) = p /\ (style # NoStyle =>
                                 cell \in DOMAIN p.notes \/ ~InGrid(p, cell))
      \/ style = NoStyle /\ CellSet(p, cell, style) = Erased(p, {cell})
      \/ style # NoStyle /\ CellSet(p, cell, style) = q
  BY DEF CellSet, OthersErased
<1> HIDE DEF q, alone, others
<1> QED
  BY <1>1, <1>3, <1>4 DEF others

\* setSequencerCellExtension keeps everything but the extensions, and these
\* within their bounds.
LEMMA ExtendedFields ==
  ASSUME NEW p, IsPattern(p), PatternTypes(p), NEW cell, NEW delta \in Int
  PROVE  LET q == Extended(p, cell, delta) IN
         /\ q.rows = p.rows /\ q.columns = p.columns /\ q.notes = p.notes
         /\ q.extensions \in [DOMAIN q.extensions -> Nat]
<1> DEFINE steps == Clamp(ExtensionAt(p, cell) + delta, 0, MaxExtension)
<1>1. ExtensionAt(p, cell) \in Nat
  BY DEF ExtensionAt, PatternTypes
<1>2. steps \in Nat
  BY <1>1, PatternAssumption DEF Clamp, PatternAssumption
<1> DEFINE kept == Without(p.extensions, {cell})
           set == Put(p.extensions, cell, steps)
<1>3. kept \in [DOMAIN kept -> Nat]
  BY DEF Without, Restrict, PatternTypes
<1>4. set \in [DOMAIN set -> Nat]
  <2> HIDE DEF steps
  <2> QED
    BY <1>2 DEF Put, PatternTypes
<1>5. \A e : LET q == [p EXCEPT !.extensions = e] IN
             /\ q.rows = p.rows /\ q.columns = p.columns /\ q.notes = p.notes
             /\ q.extensions = e
  BY DEF IsPattern, PatternOf
<1>6. CASE ~Filled(p, cell)
  BY <1>6 DEF Extended, PatternTypes
<1>7. CASE Filled(p, cell)
  <2> HIDE DEF kept, set
  <2>1. \/ Extended(p, cell, delta) = [p EXCEPT !.extensions = kept]
        \/ Extended(p, cell, delta) = [p EXCEPT !.extensions = set]
    BY <1>7 DEF Extended, kept, set
  <2> QED
    BY <1>3, <1>4, <1>5, <2>1
<1> QED
  BY <1>6, <1>7

\* The setters of overrides touch nothing else.
LEMMA OverriddenFields ==
  ASSUME NEW p, IsPattern(p), NEW cell, NEW id
  PROVE  LET q == Overridden(p, cell, id)
             r == OverrideCleared(p, cell, id)
         IN  /\ q.rows = p.rows /\ q.columns = p.columns
             /\ q.notes = p.notes /\ q.extensions = p.extensions
             /\ r.rows = p.rows /\ r.columns = p.columns
             /\ r.notes = p.notes /\ r.extensions = p.extensions
<1>1. \A o : LET q == [p EXCEPT !.overrides = o] IN
             /\ q.rows = p.rows /\ q.columns = p.columns /\ q.notes = p.notes
             /\ q.extensions = p.extensions
  BY DEF IsPattern, PatternOf
<1> QED
  BY <1>1 DEF Overridden, OverrideCleared

-----------------------------------------------------------------------------
(* Types *)

LEMMA RowsType == ASSUME NEW list \in SliceLists \cup {<<>>} PROVE RowsFor(list) \in Nat
<1>1. Len(list) \in Nat
  BY PatternAssumption DEF PatternAssumption
<1> QED
  BY <1>1, PatternAssumption DEF RowsFor, Clamp, PatternAssumption

LEMMA ColumnsType ==
  ASSUME NEW step \in Resolutions, NEW length \in Lengths
  PROVE  ColumnsFor(step, length) \in Nat
<1>1. step \in Nat \ {0} /\ length \in Nat \ {0}
  BY PatternAssumption DEF PatternAssumption
<1>2. Round(BarTicks, step) \in Int
  BY <1>1, PatternAssumption DEF Round, PatternAssumption
<1>3. AtLeastOne(Round(BarTicks, step)) * length \in Int
  BY <1>1, <1>2 DEF AtLeastOne
<1> QED
  BY <1>3, PatternAssumption DEF ColumnsFor, Clamp, PatternAssumption

\* A wiped grid of some width.
LEMMA BlankTypes ==
  ASSUME NEW rows, NEW columns \in Nat
  PROVE  /\ PatternTypes(Blank(rows, columns))
         /\ Blank(rows, columns).rows = rows
         /\ Blank(rows, columns).columns = columns
  BY DEF Blank, Nothing, PatternTypes

LEMMA ResizedTypes ==
  ASSUME NEW p, PatternTypes(p), NEW list,
         NEW step \in Resolutions, NEW length \in Lengths
  PROVE  LET q == Resized(p, list, step, length) IN
         /\ PatternTypes(q)
         /\ q.rows = RowsFor(list) /\ q.columns = ColumnsFor(step, length)
  BY ColumnsType, BlankTypes DEF Resized

LEMMA CellSetTypes ==
  ASSUME NEW p, IsPattern(p), PatternTypes(p), NEW cell, NEW style \in Styles \cup {NoStyle}
  PROVE  LET q == CellSet(p, cell, style) IN
         PatternTypes(q) /\ q.rows = p.rows /\ q.columns = p.columns
<1> DEFINE q == CellSet(p, cell, style)
           others == {c \in DOMAIN p.notes : c[2] = cell[2] /\ c # cell}
<1>1. \A f, S, T : f \in [DOMAIN f -> T] =>
               Without(f, S) \in [DOMAIN Without(f, S) -> T]
  BY DEF Without, Restrict
<1>2. \A f, c, v, T : f \in [DOMAIN f -> T] /\ v \in T =>
               Put(f, c, v) \in [DOMAIN Put(f, c, v) -> T]
  BY DEF Put
<1>3. p.notes \in [DOMAIN p.notes -> Styles] /\ p.extensions \in [DOMAIN p.extensions -> Nat]
  BY DEF PatternTypes
<1>4. Without(p.notes, others) \in [DOMAIN Without(p.notes, others) -> Styles]
  <2> HIDE DEF others
  <2> QED
    BY <1>1, <1>3
<1>5. style # NoStyle => LET n == Put(Without(p.notes, others), cell, style) IN
                            n \in [DOMAIN n -> Styles]
  <2> HIDE DEF others
  <2> QED
    BY <1>2, <1>4
<1>6. \A S : /\ Without(p.notes, S) \in [DOMAIN Without(p.notes, S) -> Styles]
            /\ Without(p.extensions, S) \in [DOMAIN Without(p.extensions, S) -> Nat]
  BY <1>1, <1>3
<1>7. /\ q.rows = p.rows /\ q.columns = p.columns
      /\ \/ q = p
         \/ /\ q.notes = Without(p.notes, {cell})
            /\ q.extensions = Without(p.extensions, {cell})
         \/ /\ style # NoStyle
            /\ q.notes = Put(Without(p.notes, others), cell, style)
            /\ q.extensions = Without(p.extensions, others)
  BY CellSetFields
<1> HIDE DEF q, others
<1> QED
  BY <1>3, <1>5, <1>6, <1>7 DEF PatternTypes, q

LEMMA RandomizedTypes ==
  ASSUME NEW list \in SliceLists, NEW step \in Resolutions, NEW length \in Lengths,
         NEW b \in Placements(list, step, length), NEW optedIn
  PROVE  LET q == Randomized(RowsFor(list), ColumnsFor(step, length), b, optedIn)
         IN  /\ PatternTypes(q)
             /\ q.rows = RowsFor(list) /\ q.columns = ColumnsFor(step, length)
<1>1. ColumnsFor(step, length) \in Nat /\ Nothing \in [DOMAIN Nothing -> Nat]
  BY ColumnsType DEF Nothing
<1> QED
  BY <1>1, RandomizedFields DEF PatternTypes

\* Wherever the pointer goes, onMouseMoved leaves a pattern of its types.
LEMMA MovedTypes ==
  ASSUME TypeOK, Good(pattern), NEW cell \in Pointer
  PROVE  LET q == PatternMovedTo(cell) IN
         /\ PatternTypes(q)
         /\ q.rows = pattern.rows /\ q.columns = pattern.columns
<1>1. IsPattern(pattern) /\ PatternTypes(pattern)
  BY DEF Good, TypeOK
<1>2. CASE MoveScrubs
  <2>1. PatternMovedTo(cell) = Overridden(pattern, slider.cell, slider.id)
    BY <1>2 DEF PatternMovedTo, MoveScrubs, MoveExtends, MovePaints, Scrubbed
  <2> QED
    BY <1>1, <2>1, OverriddenFields DEF PatternTypes
<1>3. CASE MoveExtends /\ cell[2] >= 0
  <2> DEFINE delta == cell[2] - extend.cell[2] - extend.delta
  <2>1. delta \in Int
    BY <1>3 DEF Pointer, MoveExtends, TypeOK
  <2>2. PatternMovedTo(cell) = Extended(pattern, extend.cell, delta)
    BY <1>3 DEF PatternMovedTo, MoveScrubs, MoveExtends, MovePaints
  <2> HIDE DEF delta
  <2> QED
    BY <1>1, <2>1, <2>2, ExtendedFields DEF PatternTypes
<1>4. CASE MovePaints /\ OnGrid(cell)
  <2> DEFINE style == IF paint.erase THEN NoStyle ELSE paint.style
  <2>1. style \in Styles \cup {NoStyle}
    BY <1>4 DEF MovePaints, TypeOK
  <2>2. PatternMovedTo(cell) = CellSet(pattern, cell, style)
    BY <1>4 DEF PatternMovedTo, MoveScrubs, MoveExtends, MovePaints, Painted
  <2> HIDE DEF style
  <2> QED
    BY <1>1, <2>1, <2>2, CellSetTypes
<1>5. CASE PatternMovedTo(cell) = pattern
  BY <1>1, <1>5
<1> QED
  BY <1>2, <1>3, <1>4, <1>5 DEF PatternMovedTo

\* What the button leaves is a run for the grid as it is.
LEMMA RandomizeOutcome ==
  ASSUME Randomize
  PROVE  /\ slices \in SliceLists
         /\ \E run \in Placements(slices, resolution, bars),
               optedIn \in SUBSET Styles :
              pattern' = Randomized(RowsFor(slices), ColumnsFor(resolution, bars),
                                    run, optedIn)
<1>1. PICK o \in Outcomes :
         /\ o.slices = slices /\ o.resolution = resolution /\ o.bars = bars
         /\ pattern' = o.left
  BY DEF Randomize
<1>2. PICK list \in SliceLists, r \in Resolutions, n \in Lengths :
         \E run \in Placements(list, r, n), optedIn \in SUBSET Styles :
            o = [slices |-> list, resolution |-> r, bars |-> n,
                 left |-> Randomized(RowsFor(list), ColumnsFor(r, n), run, optedIn)]
  BY DEF Outcomes
<1>3. list = slices /\ r = resolution /\ n = bars
  BY <1>1, <1>2
<1> QED
  BY <1>1, <1>2, <1>3

LEMMA GridTypesStep == TypeOK /\ Good(pattern) /\ [Next]_vars => TypeOK'
<1> SUFFICES ASSUME TypeOK, Good(pattern), [Next]_vars PROVE TypeOK'
  OBVIOUS
<1>0. IsPattern(pattern) /\ PatternTypes(pattern)
  BY DEF Good, TypeOK
<1>1. ASSUME NEW style \in Styles, PressPalette(style) PROVE TypeOK'
  BY <1>1 DEF PressPalette, TypeOK, PatternTypes
<1>2. CASE PressToScroll
  BY <1>2 DEF PressToScroll, TypeOK, PatternTypes
<1>3. CASE PressSlider
  <2>1. /\ PatternTypes(pattern')
        /\ pattern'.rows = pattern.rows /\ pattern'.columns = pattern.columns
    BY <1>0, <1>3, OverriddenFields DEF PressSlider, Scrubbed, PatternTypes
  <2> QED
    BY <1>3, <2>1 DEF PressSlider, TypeOK, PatternTypes
<1>4. ASSUME NEW cell \in Pointer, PressToExtend(cell) PROVE TypeOK'
  <2>1. cell[2] \in Int
    BY DEF Pointer
  <2> QED
    BY <1>4, <2>1 DEF PressToExtend, TypeOK, PatternTypes
<1>5. ASSUME NEW cell \in Pointer, PressToPaint(cell) \/ PressToErase(cell)
      PROVE  TypeOK'
  <2>1. paint'.on /\ ~paint'.erase => paint'.style \in Styles
    BY <1>5 DEF PressToPaint, PressToErase, TypeOK
  <2>2. paint'.on
    BY <1>5 DEF PressToPaint, PressToErase
  <2>3. /\ PatternTypes(pattern')
        /\ pattern'.rows = pattern.rows /\ pattern'.columns = pattern.columns
    <3> DEFINE style == IF paint'.erase THEN NoStyle ELSE paint'.style
    <3>1. style \in Styles \cup {NoStyle}
      BY <2>1, <2>2
    <3>2. pattern' = CellSet(pattern, cell, style)
      BY <1>5 DEF PressToPaint, PressToErase, Painted
    <3> HIDE DEF style
    <3> QED
      BY <1>0, <3>1, <3>2, CellSetTypes
  <2> QED
    BY <1>5, <2>1, <2>3 DEF PressToPaint, PressToErase, TypeOK, PatternTypes
<1>6. ASSUME NEW cell \in Pointer, OpenMenu(cell) PROVE TypeOK'
  BY <1>6 DEF OpenMenu, TypeOK, PatternTypes
<1>7. ASSUME NEW cell \in Pointer, Move(cell) \/ Release(cell) PROVE TypeOK'
  <2>1. /\ PatternTypes(pattern')
        /\ pattern'.rows = pattern.rows /\ pattern'.columns = pattern.columns
    BY <1>7, MovedTypes DEF Move, Release
  <2>2. extend'.on => extend'.cell[2] \in Int /\ extend'.delta \in Int
    <3>1. CASE Release(cell)
      BY <3>1 DEF Release, NoGesture
    <3>2. CASE Move(cell) /\ extend' = extend
      BY <3>2 DEF TypeOK
    <3>3. CASE /\ Move(cell) /\ extend.on
               /\ extend' = [extend EXCEPT !.delta = cell[2] - extend.cell[2]]
      <4>1. cell[2] - extend.cell[2] \in Int
        BY <3>3 DEF Pointer, TypeOK
      <4>2. extend'.cell = extend.cell
        BY <3>3
      <4>3. extend'.delta \in {extend.delta, cell[2] - extend.cell[2]}
        BY <3>3
      <4> QED
        BY <3>3, <4>1, <4>2, <4>3 DEF TypeOK
    <3> QED
      BY <1>7, <3>1, <3>2, <3>3 DEF Move, ExtendMovedTo, MoveExtends
  <2>3. paint' = paint \/ paint' = NoGesture
    BY <1>7 DEF Move, Release
  <2>4. paint'.on /\ ~paint'.erase => paint'.style \in Styles
    BY <2>3 DEF TypeOK, NoGesture
  <2>5. /\ UNCHANGED <<slices, resolution, bars, drawingStyle>>
        /\ scrolling' \in BOOLEAN /\ scrubbing' \in BOOLEAN
    BY <1>7, Zenon DEF Move, Release, TypeOK
  <2> QED
    BY <2>1, <2>2, <2>4, <2>5 DEF TypeOK, PatternTypes
<1>8. CASE DismissMenu
  BY <1>8 DEF DismissMenu, TypeOK, PatternTypes
<1>9. ASSUME NEW id \in ParamIds, PickSlider(id) \/ PickOption(id) \/ PickMode(id)
      PROVE  TypeOK'
  <2>1. /\ PatternTypes(pattern')
        /\ pattern'.rows = pattern.rows /\ pattern'.columns = pattern.columns
    BY <1>0, <1>9, OverriddenFields DEF PickSlider, PickOption, PickMode, PatternTypes
  <2> QED
    BY <1>9, <2>1 DEF PickSlider, PickOption, PickMode, Pick, TypeOK, PatternTypes
<1>10. CASE Cancel
  BY <1>10 DEF Cancel, NoGesture, TypeOK, PatternTypes
<1>11. CASE Randomize
  <2>1. PICK run \in Placements(slices, resolution, bars), optedIn \in SUBSET Styles :
          pattern' = Randomized(RowsFor(slices), ColumnsFor(resolution, bars),
                                run, optedIn)
    BY <1>11, RandomizeOutcome
  <2>2. /\ PatternTypes(pattern')
        /\ pattern'.rows = RowsFor(slices) /\ pattern'.columns = ColumnsFor(resolution, bars)
    BY <2>1, <1>11, RandomizeOutcome, RandomizedTypes DEF TypeOK
  <2> QED
    BY <1>11, <2>2 DEF Randomize, gestureVars, TypeOK, PatternTypes
<1>12. CASE Clear
  <2>1. /\ PatternTypes(pattern')
        /\ pattern'.rows = pattern.rows /\ pattern'.columns = pattern.columns
    BY <1>0, <1>12, BlankTypes DEF Clear, PatternTypes
  <2> QED
    BY <1>12, <2>1 DEF Clear, gestureVars, TypeOK, PatternTypes
<1>13. ASSUME NEW r \in Resolutions, SetResolution(r) PROVE TypeOK'
  <2>1. /\ PatternTypes(pattern')
        /\ pattern'.rows = RowsFor(slices) /\ pattern'.columns = ColumnsFor(r, bars)
    BY <1>0, <1>13, ResizedTypes DEF SetResolution, TypeOK
  <2> QED
    BY <1>13, <2>1 DEF SetResolution, gestureVars, TypeOK, PatternTypes
<1>14. ASSUME NEW n \in Lengths, SetLength(n) PROVE TypeOK'
  <2>1. /\ PatternTypes(pattern')
        /\ pattern'.rows = RowsFor(slices) /\ pattern'.columns = ColumnsFor(resolution, n)
    BY <1>0, <1>14, ResizedTypes DEF SetLength, TypeOK
  <2> QED
    BY <1>14, <2>1 DEF SetLength, gestureVars, TypeOK, PatternTypes
<1>15. ASSUME NEW list \in SliceLists, Reslice(list) PROVE TypeOK'
  <2>1. /\ PatternTypes(pattern')
        /\ pattern'.rows = RowsFor(list) /\ pattern'.columns = ColumnsFor(resolution, bars)
    BY <1>0, <1>15, ResizedTypes DEF Reslice, TypeOK
  <2> QED
    BY <1>15, <2>1 DEF Reslice, gestureVars, TypeOK, PatternTypes
<1>16. ASSUME NEW cell \in DOMAIN pattern.overrides, NEW id \in ParamIds,
              ClearOverride(cell, id)
       PROVE  TypeOK'
  <2>1. /\ PatternTypes(pattern')
        /\ pattern'.rows = pattern.rows /\ pattern'.columns = pattern.columns
    BY <1>0, <1>16, OverriddenFields DEF ClearOverride, PatternTypes
  <2> QED
    BY <1>16, <2>1 DEF ClearOverride, gestureVars, TypeOK, PatternTypes
<1>17. CASE UNCHANGED vars
  BY <1>17 DEF vars, gestureVars, TypeOK, PatternTypes
<1> QED
  BY <1>1, <1>2, <1>3, <1>4, <1>5, <1>6, <1>7, <1>8, <1>9, <1>10, <1>11,
     <1>12, <1>13, <1>14, <1>15, <1>16, <1>17 DEF Next

\* The types of the view's state are as declared: in particular a drag that
\* paints has a style, and the grid has a row for each slice it counts.
THEOREM GridTypes == Spec => []TypeOK
<1>1. Init => TypeOK
  <2> SUFFICES ASSUME Init PROVE TypeOK
    OBVIOUS
  <2>1. RowsFor(<<>>) = 0
    BY PatternAssumption DEF RowsFor, Clamp, PatternAssumption
  <2>2. PatternTypes(pattern) /\ pattern.rows = 0
    BY BlankTypes DEF Init
  <2> QED
    BY <2>1, <2>2 DEF Init, NoGesture, TypeOK
<1> QED
  BY <1>1, GridTypesStep, GridGood, PTL DEF Spec

-----------------------------------------------------------------------------
(* What a drag may do *)

\* The cells an edit of setSequencerCell leaves filled.
LEMMA CellSetCells ==
  ASSUME NEW p, IsPattern(p), NEW cell,
         NEW style \in Styles \cup {NoStyle}
  PROVE  LET q == CellSet(p, cell, style)
             others == {c \in DOMAIN p.notes : c[2] = cell[2] /\ c # cell}
         IN  \/ q = p
             \/ style = NoStyle /\ DOMAIN q.notes = DOMAIN p.notes \ {cell}
             \/ /\ style # NoStyle
                /\ DOMAIN q.notes = (DOMAIN p.notes \ others) \cup {cell}
<1> DEFINE q == CellSet(p, cell, style)
           others == {c \in DOMAIN p.notes : c[2] = cell[2] /\ c # cell}
<1>1. /\ q.rows = p.rows /\ q.columns = p.columns
      /\ \/ q = p
         \/ /\ style = NoStyle
            /\ q.notes = Without(p.notes, {cell})
            /\ q.extensions = Without(p.extensions, {cell})
         \/ /\ style # NoStyle
            /\ q.notes = Put(Without(p.notes, others), cell, style)
            /\ q.extensions = Without(p.extensions, others)
  BY CellSetFields
<1> HIDE DEF q, others
<1>2. DOMAIN Without(p.notes, {cell}) = DOMAIN p.notes \ {cell}
  BY WithoutDomain, Zenon
<1>3. DOMAIN Put(Without(p.notes, others), cell, style)
         = (DOMAIN p.notes \ others) \cup {cell}
  <2>1. DOMAIN Without(p.notes, others) = DOMAIN p.notes \ others
    BY WithoutDomain, Zenon
  <2>2. DOMAIN Put(Without(p.notes, others), cell, style)
           = DOMAIN Without(p.notes, others) \cup {cell}
    BY PutDomain, Zenon
  <2> QED
    BY <2>1, <2>2, Zenon
<1>4. \/ q = p
      \/ style = NoStyle /\ DOMAIN q.notes = DOMAIN p.notes \ {cell}
      \/ /\ style # NoStyle
         /\ DOMAIN q.notes = (DOMAIN p.notes \ others) \cup {cell}
  BY <1>1, <1>2, <1>3, Zenon
<1> QED
  BY <1>4 DEF q, others

\* A paint drag keeps the role its press gave it, whatever the pattern and
\* wherever the pointer goes: an erase drag puts no note anywhere, and a
\* paint drag that replaces the note of a column leaves the column a note.
THEOREM GridDrags == Spec => DragKeepsRole
<1> DEFINE Kept ==
      (MovePaints /\ \E cell \in Pointer : Move(cell) \/ Release(cell)) =>
          IF paint.erase
          THEN DOMAIN pattern'.notes \subseteq DOMAIN pattern.notes
          ELSE ActiveColumns(pattern) \subseteq ActiveColumns(pattern')
<1>1. TypeOK /\ Good(pattern) /\ [Next]_vars => [Kept]_vars
  <2> SUFFICES ASSUME TypeOK, Good(pattern), MovePaints,
                      NEW cell \in Pointer, Move(cell) \/ Release(cell)
               PROVE  IF paint.erase
                      THEN DOMAIN pattern'.notes \subseteq DOMAIN pattern.notes
                      ELSE ActiveColumns(pattern) \subseteq ActiveColumns(pattern')
    OBVIOUS
  <2> DEFINE style == IF paint.erase THEN NoStyle ELSE paint.style
             q == CellSet(pattern, cell, style)
             others == {c \in DOMAIN pattern.notes : c[2] = cell[2] /\ c # cell}
  <2>1. pattern' = q \/ pattern' = pattern
    BY DEF Move, Release, PatternMovedTo, MoveScrubs, MoveExtends, MovePaints, Painted
  <2>2. \/ q = pattern
        \/ style = NoStyle /\ DOMAIN q.notes = DOMAIN pattern.notes \ {cell}
        \/ /\ style # NoStyle
           /\ DOMAIN q.notes = (DOMAIN pattern.notes \ others) \cup {cell}
    <3>1. IsPattern(pattern)
      BY DEF Good
    <3>2. style \in Styles \cup {NoStyle}
      BY Zenon DEF MovePaints, TypeOK
    <3> HIDE DEF style
    <3> QED
      BY <3>1, <3>2, CellSetCells, Zenon
  <2>3. paint.erase <=> style = NoStyle
    <3>1. ~paint.erase => paint.style \in Styles
      BY Zenon DEF MovePaints, TypeOK
    <3>2. NoStyle \notin Styles
      BY PatternAssumption DEF PatternAssumption
    <3> QED
      BY <3>1, <3>2, Zenon
  <2> HIDE DEF q, style
  <2>6. CASE pattern' = pattern
    BY <2>6 DEF ActiveColumns
  <2>7. CASE paint.erase /\ pattern' = q
    BY <2>2, <2>3, <2>7
  <2>8. CASE ~paint.erase /\ pattern' = q
    <3> SUFFICES ASSUME NEW c \in DOMAIN pattern.notes
                 PROVE  \E d \in DOMAIN q.notes : d[2] = c[2]
      BY <2>8 DEF ActiveColumns
    <3>1. CASE q = pattern
      BY <3>1
    <3>2. CASE DOMAIN q.notes = (DOMAIN pattern.notes \ others) \cup {cell}
      BY <3>2
    <3> QED
      BY <2>2, <2>3, <2>8, <3>1, <3>2
  <2> QED
    BY <2>1, <2>6, <2>7, <2>8
<1> QED
  BY <1>1, GridTypes, GridGood, PTL DEF Spec, DragKeepsRole

-----------------------------------------------------------------------------
(* Bars *)

\* A note declares at least one step.
LEMMA NaturalType ==
  ASSUME NEW list \in Seq(Nat), NEW step \in Nat \ {0},
         NEW row \in 0..(RowsFor(list) - 1)
  PROVE  NaturalSteps(list, row, step) \in Nat \ {0}
<1>1. RowsFor(list) <= Len(list) /\ RowsFor(list) \in Int
  BY PatternAssumption DEF RowsFor, Clamp, PatternAssumption
<1>2. row + 1 \in 1..Len(list)
  BY <1>1
<1>3. list[row + 1] \in Nat
  BY <1>2
<1>4. Round(list[row + 1], step) \in Int
  BY <1>3 DEF Round
<1> QED
  BY <1>4 DEF NaturalSteps, AtLeastOne

\* Where a bar ends: at the least of its own end, the grid's and the active
\* columns behind its start.
LEMMA DrawnEndIsLeast ==
  ASSUME NEW p, NEW list, NEW cell, NEW r,
         NEW start \in Nat, start = cell[2],
         NEW steps \in Nat, steps = DeclaredSteps(p, list, cell, r),
         p.columns \in Nat, ActiveColumns(p) \subseteq Nat
  PROVE  LET ends == {c \in ActiveColumns(p) : c > start} \cup {start + steps, p.columns}
         IN  /\ DrawnEnd(p, list, cell, r) \in ends
             /\ \A f \in ends : DrawnEnd(p, list, cell, r) <= f
<1> DEFINE ends == {c \in ActiveColumns(p) : c > start} \cup {start + steps, p.columns}
<1>1. ends \in SUBSET Nat /\ ends # {}
  OBVIOUS
<1>2. DrawnEnd(p, list, cell, r) = CHOOSE e \in ends : \A f \in ends : e <= f
  BY DEF DrawnEnd
<1> HIDE DEF ends
<1>3. \E e \in ends : \A f \in ends : e <= f
  BY <1>1, LeastElement
<1>4. /\ DrawnEnd(p, list, cell, r) \in ends
      /\ \A f \in ends : DrawnEnd(p, list, cell, r) <= f
  BY <1>2, <1>3
<1> QED
  BY <1>4 DEF ends

\* The distance to the next active column around the grid, from a column
\* that is active itself.
LEMMA NextActive ==
  ASSUME NEW columns \in Nat \ {0}, NEW A \in SUBSET (0..(columns - 1)),
         NEW start \in A
  PROVE  LET Active(offset) == (start + offset) % columns \in A
             next == CHOOSE n \in 1..columns :
                         Active(n) /\ \A m \in 1..(n - 1) : ~Active(m)
         IN  /\ next \in 1..columns
             /\ Active(next) /\ \A m \in 1..(next - 1) : ~Active(m)
<1> DEFINE Active(offset) == (start + offset) % columns \in A
           S == {n \in 1..columns : Active(n)}
<1>1. columns \in S
  <2>1. start \in 0..(columns - 1)
    OBVIOUS
  <2>2. (start + columns) % columns = start
    BY <2>1
  <2> QED
    BY <2>2
<1>2. PICK n \in S : \A m \in S : n <= m
  <2>1. S \in SUBSET Nat
    <3> HIDE DEF Active
    <3> QED
      OBVIOUS
  <2>2. S # {}
    <3> HIDE DEF S
    <3> QED
      BY <1>1
  <2> HIDE DEF S
  <2> QED
    BY <2>1, <2>2, LeastElement
<1>3. n \in 1..columns /\ Active(n) /\ \A m \in 1..(n - 1) : ~Active(m)
  <2>1. n \in 1..columns /\ Active(n)
    OBVIOUS
  <2>2. ASSUME NEW m \in 1..(n - 1), Active(m) PROVE FALSE
    <3>1. m \in S
      BY <2>1, <2>2
    <3> HIDE DEF S
    <3> QED
      BY <1>2, <2>1, <3>1
  <2> QED
    BY <2>1, <2>2
<1> HIDE DEF Active, S
<1>4. LET next == CHOOSE k \in 1..columns :
                      Active(k) /\ \A m \in 1..(k - 1) : ~Active(m)
      IN  /\ next \in 1..columns
          /\ Active(next) /\ \A m \in 1..(next - 1) : ~Active(m)
  BY <1>3
<1> QED
  BY <1>4 DEF Active

\* The place of a note in a pattern of its types.
LEMMA NotePlace ==
  ASSUME TypeOK, Good(pattern), NEW cell \in DOMAIN pattern.notes
  PROVE  /\ pattern.columns \in Nat \ {0}
         /\ ActiveColumns(pattern) \in SUBSET (0..(pattern.columns - 1))
         /\ cell[2] \in ActiveColumns(pattern)
         /\ cell[2] \in 0..(pattern.columns - 1)
         /\ DeclaredSteps(pattern, slices, cell, resolution) \in Nat \ {0}
<1>1. pattern.columns \in Nat /\ pattern.rows = RowsFor(slices)
  BY DEF TypeOK, PatternTypes
<1>2. \A c \in DOMAIN pattern.notes :
         c[1] \in 0..(pattern.rows - 1) /\ c[2] \in 0..(pattern.columns - 1)
  BY DEF Good, DataAtNotes, InGrid
<1>3. slices \in Seq(Nat) /\ resolution \in Nat \ {0}
  <2>1. <<>> \in Seq(Nat)
    OBVIOUS
  <2> QED
    BY <2>1, PatternAssumption, Zenon DEF TypeOK, PatternAssumption
<1>4. NaturalSteps(slices, cell[1], resolution) \in Nat \ {0}
  BY <1>1, <1>2, <1>3, NaturalType
<1>5. ExtensionAt(pattern, cell) \in Nat
  BY DEF ExtensionAt, TypeOK, PatternTypes
<1>6. DeclaredSteps(pattern, slices, cell, resolution) \in Nat \ {0}
  BY <1>4, <1>5 DEF DeclaredSteps
<1> QED
  BY <1>1, <1>2, <1>6 DEF ActiveColumns

\* A bar covers exactly the steps in which the scheduler holds its note, up
\* to the right edge of the grid, under every trim that leaves the notes
\* their rows and this one its slice: the scheduler searches the next active
\* column around the pattern's end and among the rows it has a slice for, the
\* view only to its edge, and the two agree on every pattern the gestures,
\* buttons and samples can produce.
THEOREM GridBarsHeard == Spec => []DrawnBarIsHeard
<1>1. TypeOK /\ Good(pattern) => DrawnBarIsHeard
  <2> SUFFICES ASSUME TypeOK, Good(pattern), NEW span \in TrimSpans,
                      NEW cell \in DOMAIN pattern.notes, NEW clipped,
                      clipped = Clipped(slices, span),
                      pattern.notes[cell] # Scratch, TrimKeeps(cell, clipped)
               PROVE  BarIsHeard(cell, clipped)
    BY DEF DrawnBarIsHeard
  <2> DEFINE A == ActiveColumns(pattern)
             Active(offset) == (cell[2] + offset) % pattern.columns \in A
             next == CHOOSE n \in 1..pattern.columns :
                         Active(n) /\ \A m \in 1..(n - 1) : ~Active(m)
             steps == DeclaredSteps(pattern, slices, cell, resolution)
             end == DrawnEnd(pattern, slices, cell, resolution)
             played == PlayedSteps(pattern, clipped, cell, resolution)
  <2>1. PICK columns \in Nat \ {0}, start \in Nat, d \in Nat \ {0} :
          /\ columns = pattern.columns /\ start = cell[2] /\ d = steps
          /\ start \in 0..(columns - 1)
          /\ A \in SUBSET (0..(columns - 1)) /\ start \in A
    BY NotePlace
  <2>2. PICK n \in 1..columns :
          /\ n = next /\ (start + n) % columns \in A
          /\ \A m \in 1..(n - 1) : (start + m) % columns \notin A
    <3>1. /\ next \in 1..columns
          /\ (start + next) % columns \in A
          /\ \A m \in 1..(next - 1) : (start + m) % columns \notin A
      BY <2>1, NextActive
    <3> HIDE DEF next
    <3> QED
      BY <3>1
  <2>3. played = IF d < n THEN d ELSE n
    <3>1. \A c \in DOMAIN pattern.notes : c[1] < RowsHeard(pattern, clipped)
      <4> SUFFICES ASSUME NEW c \in DOMAIN pattern.notes
                   PROVE  c[1] < RowsHeard(pattern, clipped)
        OBVIOUS
      <4>1. c[1] < pattern.rows
        <5>1. pattern.rows \in Nat
          BY RowsType DEF TypeOK
        <5>2. c[1] \in 0..(pattern.rows - 1)
          BY DEF Good, DataAtNotes, InGrid
        <5> QED
          BY <5>1, <5>2
      <4>2. c[1] < Len(clipped)
        BY DEF TrimKeeps
      <4> QED
        BY <4>1, <4>2 DEF RowsHeard
    <3> DEFINE H == {c[2] : c \in {x \in DOMAIN pattern.notes :
                                      x[1] < RowsHeard(pattern, clipped)}}
               NextIn(S) ==
                  CHOOSE k \in 1..pattern.columns :
                      /\ (cell[2] + k) % pattern.columns \in S
                      /\ \A m \in 1..(k - 1) :
                             ~((cell[2] + m) % pattern.columns \in S)
    <3>2. H = A
      BY <3>1 DEF ActiveColumns
    <3>3. DeclaredSteps(pattern, clipped, cell, resolution) = d
      BY <2>1 DEF TrimKeeps, DeclaredSteps, NaturalSteps
    <3>4. NextIn(A) = next
      OBVIOUS
    <3>5. played = LET full == DeclaredSteps(pattern, clipped, cell, resolution)
                   IN  IF full < NextIn(H) THEN full ELSE NextIn(H)
      <4>1. cell[1] < RowsHeard(pattern, clipped) /\ pattern.notes[cell] # Scratch
        BY <3>1
      <4>2. played = LET full == IF pattern.notes[cell] = Scratch
                                 THEN (ScratchCycle + resolution - 1) \div resolution
                                 ELSE DeclaredSteps(pattern, clipped, cell, resolution)
                     IN  IF cell[1] < RowsHeard(pattern, clipped)
                         THEN IF full < NextIn(H) THEN full ELSE NextIn(H) ELSE 0
        BY DEF PlayedSteps
      <4> HIDE DEF H, NextIn, played
      <4> QED
        BY <4>1, <4>2
    <3> HIDE DEF A, H, NextIn, next, played
    <3> QED
      BY <2>2, <3>2, <3>3, <3>4, <3>5
  <2>4. PICK e \in {c \in A : c > start} \cup {start + d, columns} :
          e = end /\ \A f \in {c \in A : c > start} \cup {start + d, columns} : e <= f
    <3>1. A \subseteq Nat /\ start \in Nat
      BY <2>1
    <3> QED
      BY <2>1, <3>1, DrawnEndIsLeast
  <2> HIDE DEF A, next, steps, end, played
  <2>5. \A k \in Nat : start + k < columns => (start + k) % columns = start + k
    BY <2>1
  <2>6. CASE start + n < columns
    <3>1. start + n \in A
      BY <2>2, <2>5, <2>6
    <3>2. \A c \in A : c > start => c >= start + n
      <4> SUFFICES ASSUME NEW c \in A, c > start, c < start + n PROVE FALSE
        BY <2>1
      <4>1. c - start \in 1..(n - 1) /\ start + (c - start) = c /\ c < columns
        BY <2>1
      <4>2. (start + (c - start)) % columns = c
        BY <2>5, <4>1
      <4> QED
        BY <2>2, <4>1, <4>2
    <3>3. e = IF d < n THEN start + d ELSE start + n
      BY <2>1, <2>4, <2>6, <3>1, <3>2
    <3> QED
      BY <2>1, <2>3, <2>4, <2>6, <3>3 DEF end, played, BarIsHeard
  <2>7. CASE start + n >= columns
    <3>1. \A c \in A : ~(c > start)
      <4> SUFFICES ASSUME NEW c \in A, c > start PROVE FALSE
        OBVIOUS
      <4>1. c - start \in 1..(n - 1) /\ start + (c - start) = c /\ c < columns
        BY <2>1, <2>7
      <4>2. (start + (c - start)) % columns = c
        BY <2>5, <4>1
      <4> QED
        BY <2>2, <4>1, <4>2
    <3>2. e = IF start + d < columns THEN start + d ELSE columns
      BY <2>1, <2>4, <3>1
    <3> QED
      BY <2>1, <2>3, <2>4, <2>7, <3>2 DEF end, played, BarIsHeard
  <2> QED
    BY <2>1, <2>6, <2>7
<1> QED
  BY <1>1, GridTypes, GridGood, PTL

\* The bars of a run keep their natural length: an active column is a start
\* of the run, a start is in its own span, and no span holds another start.
THEOREM GridRandomized == Spec => RandomizedBarsWhole
<1> DEFINE WholeStep ==
      \A cell \in DOMAIN pattern'.notes :
          LET whole == cell[2] + NaturalSteps(slices, cell[1], resolution)
          IN  DrawnEnd(pattern', slices, cell, resolution)
                  = IF whole < pattern.columns THEN whole ELSE pattern.columns
<1>1. TypeOK /\ Randomize => WholeStep
  <2> SUFFICES ASSUME TypeOK, Randomize, NEW cell \in DOMAIN pattern'.notes
               PROVE  LET whole == cell[2] + NaturalSteps(slices, cell[1], resolution)
                      IN  DrawnEnd(pattern', slices, cell, resolution)
                              = IF whole < pattern.columns THEN whole
                                ELSE pattern.columns
    OBVIOUS
  <2> DEFINE columns == ColumnsFor(resolution, bars)
             q == pattern'
             A == ActiveColumns(q)
             natural == NaturalSteps(slices, cell[1], resolution)
             end == DrawnEnd(q, slices, cell, resolution)
  <2>1. PICK run \in Placements(slices, resolution, bars), optedIn \in SUBSET Styles :
          q = Randomized(RowsFor(slices), columns, run, optedIn)
    BY RandomizeOutcome
  <2>2. slices \in SliceLists /\ resolution \in Resolutions /\ bars \in Lengths
    BY RandomizeOutcome DEF TypeOK
  <2>3. /\ q.columns = columns /\ pattern.columns = columns
        /\ DOMAIN q.notes = {CellOf(run[k]) : k \in DOMAIN run}
        /\ DOMAIN q.extensions = {}
    BY <2>1, <2>2, RandomizedFields DEF Nothing, Randomize, TypeOK
  <2>4. PICK i \in DOMAIN run : cell = CellOf(run[i])
    BY <2>3
  <2>5. columns \in Nat /\ slices \in Seq(Nat) /\ resolution \in Nat \ {0}
    BY <2>2, ColumnsType, PatternAssumption DEF PatternAssumption
  <2> HIDE DEF columns, q, A
  <2>6. PICK start \in 0..(columns - 1) : start = cell[2] /\ start = run[i].start
    BY <2>2, <2>4, SpansApart DEF CellOf, columns
  <2>7. natural \in Nat \ {0}
    BY <2>2, <2>4, <2>5, SpansApart, NaturalType DEF CellOf
  <2>8. DeclaredSteps(q, slices, cell, resolution) = natural
    BY <2>3, <2>7 DEF DeclaredSteps, ExtensionAt
  <2>9. A \subseteq Nat /\ \A c \in A : c > start => c >= start + natural
    <3> SUFFICES ASSUME NEW j \in DOMAIN run
                 PROVE  /\ run[j].start \in Nat
                        /\ run[j].start > start => run[j].start >= start + natural
      BY <2>3 DEF A, ActiveColumns, CellOf
    <3>1. /\ run[j].start \in 0..(columns - 1)
          /\ run[j].start \in Span(slices, columns, resolution, run[j].row, run[j].start)
      BY <2>2, SpansApart DEF columns
    <3>2. j # i => run[j].start \notin
                      Span(slices, columns, resolution, run[i].row, run[i].start)
      BY <2>2, <3>1, SpansApart DEF columns
    <3>3. run[i].row = cell[1]
      BY <2>4 DEF CellOf
    <3> HIDE DEF natural
    <3>4. j # i /\ run[j].start > start => run[j].start >= start + natural
      BY <2>5, <2>6, <2>7, <3>1, <3>2, <3>3 DEF Span, natural
    <3> QED
      BY <2>5, <2>6, <3>1, <3>4
  <2> HIDE DEF natural
  <2>10. PICK e \in {c \in A : c > start} \cup {start + natural, columns} :
           e = end /\ \A f \in {c \in A : c > start} \cup {start + natural, columns} : e <= f
    <3>1. /\ start \in Nat /\ natural \in Nat /\ q.columns \in Nat
          /\ ActiveColumns(q) \subseteq Nat
      BY <2>3, <2>5, <2>6, <2>7, <2>9 DEF A
    <3>2. LET ends == {c \in ActiveColumns(q) : c > start}
                          \cup {start + natural, q.columns}
          IN  /\ end \in ends
              /\ \A f \in ends : end <= f
      BY <2>6, <2>8, <3>1, DrawnEndIsLeast
    <3> HIDE DEF end
    <3> QED
      BY <2>3, <3>2 DEF A
  <2> HIDE DEF end
  <2>11. e = IF start + natural < columns THEN start + natural ELSE columns
    <3>1. start + natural \in Nat
      BY <2>6, <2>7
    <3>2. e <= start + natural /\ e <= columns
      BY <2>10
    <3>3. e \in A /\ e > start => e >= start + natural
      BY <2>9
    <3>4. (e \in A /\ e > start) \/ e = start + natural \/ e = columns
      BY <2>10
    <3>5. e \in Nat
      BY <2>5, <2>9, <3>1, <3>4
    <3> QED
      BY <2>5, <3>1, <3>2, <3>3, <3>4, <3>5
  <2> QED
    BY <2>3, <2>6, <2>10, <2>11 DEF natural, end, q
<1> QED
  BY <1>1, GridTypes, PTL DEF Spec, RandomizedBarsWhole
=============================================================================
