---------------------------- MODULE ProcessBlock ----------------------------
(***************************************************************************)
(* NeditProcessor::process and the audition: what the audio thread renders *)
(* in a block while the UI thread toggles the audition, moves the trim and *)
(* holds the right button over a slice, and the editor's idle timer folds  *)
(* the auto-stop back into the state.                                      *)
(*                                                                         *)
(* The UI thread publishes whole snapshots (SnapshotProvider); the bounds  *)
(* and the flag of a slice audition are separate atomics, stored and       *)
(* loaded one at a time.  A cursor moves by the sample's rate over the     *)
(* host's, in parts of a frame, and between two frames both are heard.     *)
(* What the scheduler plays in its block is the subject of modules of its  *)
(* own.                                                                    *)
(***************************************************************************)
EXTENDS Integers, FiniteSets

CONSTANTS
    Frames,      \* the length of the sample
    Unit,        \* a frame has so many parts
    Rates,       \* the rates a cursor may move at, per sample
    BlockSize,   \* numSamples
    Trims,       \* the trims the waveform view may set
    SliceSpans,  \* the slices the right button may be held over
    MaxPress,    \* bound: presses of the right button
    MaxRun       \* bound: starts of the transport

\* A place in the sample: a frame, and how far the next one is approached.
Places == [frame : Nat, part : 0..(Unit - 1)]
OnFrame(frame) == [frame |-> frame, part |-> 0]

Spans == {s \in [lo : 0..Frames, hi : 0..Frames] : s.lo < s.hi}

ASSUME ProcessAssumption ==
    /\ Frames \in Nat \ {0} /\ BlockSize \in Nat \ {0}
    /\ Unit \in Nat \ {0} /\ Rates \subseteq Places \ {OnFrame(0)}
    /\ Trims \subseteq Spans /\ SliceSpans \subseteq Spans
    /\ MaxPress \in Nat /\ MaxRun \in Nat

VARIABLES
    ui,        \* uiState_: the audition toggle and the trim
    snapshot,  \* what provider_ holds
    loaded,    \* is there a sample in the slot?
    pending,   \* auditionAutoStopPending_
    held,      \* sliceAuditionActive_, its bounds, and who stored them
    ui_pc,     \* where the UI thread is
    gesture,   \* the newest press of the right button and its slice
    editor,    \* is the editor open (does its idle timer run)?
    host,      \* is the transport playing, and its how manyth start is it?
    pc,        \* where the audio thread is in process()
    block,     \* what this block acquired so far
    cursor,    \* auditionPosition_, sliceAuditionPosition_
    was,       \* auditionWasActive_, sliceAuditionWasActive_
    heard      \* history: what the last block rendered

uiVars == <<ui, snapshot, loaded, held, ui_pc, gesture, editor>>
audioVars == <<pc, block, cursor, was, heard>>
processVars == <<uiVars, pending, host, audioVars>>

Whole == [lo |-> 0, hi |-> Frames]
States == [audition : BOOLEAN, trim : Trims \cup {Whole}]
NoSpan == [lo |-> 0, hi |-> 0]
MaybeSpans == [lo : 0..Frames, hi : 0..Frames]

\* The locals of process() while it is not running.
NoBlock == [state |-> [audition |-> FALSE, trim |-> Whole],
            loaded |-> FALSE, by |-> 0, lo |-> 0]

Silence == [by |-> "nothing", after |-> "nothing", first |-> OnFrame(0),
            frames |-> {}, blended |-> {}, span |-> NoSpan, asked |-> NoSpan]

ProcessTypeOK ==
    /\ ui \in States /\ snapshot \in States
    /\ loaded \in BOOLEAN /\ pending \in BOOLEAN /\ editor \in BOOLEAN
    /\ held \in [active : BOOLEAN, lo : 0..Frames, hi : 0..Frames,
                 by : 0..MaxPress]     \* the press that stored the flag
    /\ ui_pc \in {"idle", "first", "second", "third", "load", "fold"}
    /\ gesture \in [n : 0..MaxPress, span : SliceSpans \cup {NoSpan},
                    down : BOOLEAN]
    /\ host \in [playing : BOOLEAN, run : 0..MaxRun]
    /\ pc \in {"host", "gate", "start", "end", "engine"}
    /\ block \in [state : States, loaded : BOOLEAN, by : 0..MaxPress,
                  lo : 0..Frames]
    /\ cursor \in [trim : Places, slice : Places]
    /\ was \in [trim : BOOLEAN, slice : BOOLEAN]
    /\ heard \in [by : {"nothing", "engine", "trim", "slice"},
                  after : {"nothing", "engine", "trim", "slice"},
                  first : Places, frames : SUBSET (0..Frames),
                  blended : SUBSET (0..Frames),
                  span : MaybeSpans, asked : SliceSpans \cup {NoSpan}]

ProcessInit ==
    /\ ui = [audition |-> FALSE, trim |-> Whole]
    /\ snapshot = ui
    /\ loaded = FALSE /\ pending = FALSE /\ editor = FALSE
    /\ held = [active |-> FALSE, lo |-> 0, hi |-> 0, by |-> 0]
    /\ ui_pc = "idle" /\ gesture = [n |-> 0, span |-> NoSpan, down |-> FALSE]
    /\ host = [playing |-> FALSE, run |-> 0]
    /\ pc = "host"
    /\ block = NoBlock
    /\ cursor = [trim |-> OnFrame(0), slice |-> OnFrame(0)]
    /\ was = [trim |-> FALSE, slice |-> FALSE]
    /\ heard = Silence

-----------------------------------------------------------------------------
(* The UI thread.                                                          *)

Publish(s) == ui' = s /\ snapshot' = s

UIOnly == UNCHANGED <<host, audioVars>>

\* A view that is closed under a held button never sees it come up.
OpenOrClose ==
    /\ ui_pc = "idle"
    /\ editor' = ~editor
    /\ gesture' = [gesture EXCEPT !.down = FALSE]
    /\ UIOnly /\ UNCHANGED <<ui, snapshot, loaded, pending, held, ui_pc>>

\* The state a project brings need not come with its sample.
SetState ==
    /\ ui_pc = "idle"
    /\ \E s \in States : s # ui /\ Publish(s)
    /\ UIOnly /\ UNCHANGED <<loaded, pending, held, ui_pc, gesture, editor>>

\* requestSampleLoad: the slot first, then the state with the whole trim.
RequestSampleLoad ==
    /\ editor /\ ui_pc = "idle"
    /\ loaded' = TRUE
    /\ ui_pc' = "load"
    /\ UIOnly /\ UNCHANGED <<ui, snapshot, pending, held, gesture, editor>>

PublishLoaded ==
    /\ ui_pc = "load"
    /\ Publish([ui EXCEPT !.trim = Whole])
    /\ ui_pc' = "idle"
    /\ UIOnly /\ UNCHANGED <<loaded, pending, held, gesture, editor>>

SetAuditionEnabled ==
    /\ editor /\ ui_pc = "idle" /\ loaded
    /\ Publish([ui EXCEPT !.audition = ~@])
    /\ UIOnly /\ UNCHANGED <<loaded, pending, held, ui_pc, gesture, editor>>

SetTrimFrames ==
    /\ editor /\ ui_pc = "idle" /\ loaded
    /\ \E t \in Trims \cup {Whole} : t # ui.trim /\ Publish([ui EXCEPT !.trim = t])
    /\ UIOnly /\ UNCHANGED <<loaded, pending, held, ui_pc, gesture, editor>>

\* The right button goes down on a slice: startSliceAudition.
Press ==
    /\ editor /\ ui_pc = "idle" /\ loaded
    /\ ~gesture.down /\ gesture.n < MaxPress
    /\ \E s \in SliceSpans :
          gesture' = [n |-> gesture.n + 1, span |-> s, down |-> TRUE]
    /\ ui_pc' = "first"
    /\ UIOnly /\ UNCHANGED <<ui, snapshot, loaded, pending, held, editor>>

\* Bounds first, flag last.
StoreOrderFlagFirst == [first |-> "flag", second |-> "lo", third |-> "hi"]
StoreOrder == [first |-> "lo", second |-> "hi", third |-> "flag"]

Store(what) ==
    CASE what = "lo" -> [held EXCEPT !.lo = gesture.span.lo]
      [] what = "hi" -> [held EXCEPT !.hi = gesture.span.hi]
      [] what = "flag" -> [held EXCEPT !.active = TRUE, !.by = gesture.n]

StartSliceAudition ==
    /\ ui_pc \in DOMAIN StoreOrder
    /\ held' = Store(StoreOrder[ui_pc])
    /\ ui_pc' = [first |-> "second", second |-> "third", third |-> "idle"][ui_pc]
    /\ UIOnly /\ UNCHANGED <<ui, snapshot, loaded, pending, gesture, editor>>

\* The button comes up, or the gesture is cancelled: stopSliceAudition.
StopSliceAudition ==
    /\ ui_pc = "idle" /\ gesture.down
    /\ held' = [held EXCEPT !.active = FALSE]
    /\ gesture' = [gesture EXCEPT !.down = FALSE]
    /\ UIOnly /\ UNCHANGED <<ui, snapshot, loaded, pending, ui_pc, editor>>

\* pollAuditionAutoStop, on a tick of the idle timer: the flag is taken
\* first, and the audio thread may run before the state is published.
FoldsWhilePlaying == ui.audition /\ host.playing
Folds == ui.audition

PollAuditionAutoStop ==
    /\ editor /\ ui_pc = "idle" /\ pending
    /\ pending' = FALSE
    /\ ui_pc' = IF Folds THEN "fold" ELSE "idle"
    /\ UIOnly /\ UNCHANGED <<ui, snapshot, loaded, held, gesture, editor>>

Fold ==
    /\ ui_pc = "fold"
    /\ Publish([ui EXCEPT !.audition = FALSE])
    /\ ui_pc' = "idle"
    /\ UIOnly /\ UNCHANGED <<loaded, pending, held, gesture, editor>>

-----------------------------------------------------------------------------
(* The audio thread: one block.                                            *)

AudioOnly == UNCHANGED uiVars

\* The place that is read with the cursor at p, and the cursor's way
\* through a block.
ReadAtUpperOnly(p, span) == IF p.frame >= span.hi THEN OnFrame(span.lo) ELSE p
ReadAt(p, span) == IF p.frame < span.lo \/ p.frame >= span.hi THEN OnFrame(span.lo) ELSE p

Advanced(p, rate) ==
    LET parts == p.part + rate.part
        whole == p.frame + rate.frame
    IN  IF parts < Unit THEN [frame |-> whole, part |-> parts]
                        ELSE [frame |-> whole + 1, part |-> parts - Unit]

Walk(p, span, rate) ==
    LET at[i \in 0..BlockSize] ==
            IF i = 0 THEN p ELSE Advanced(ReadAt(at[i - 1], span), rate)
    IN  at

PlacesRead(p, span, rate) ==
    {ReadAt(Walk(p, span, rate)[i], span) : i \in 0..(BlockSize - 1)}

\* The frames that are heard: those the places lie in, and the next ones
\* that are blended in where a place lies between two.
Clamped(frame) == IF frame < Frames THEN frame ELSE Frames - 1
FramesRead(places) == {Clamped(q.frame) : q \in places}
FramesBlended(places) ==
    {Clamped(q.frame + 1) : q \in {r \in places : r.part # 0}}

Report(by, first, places, span, asked) ==
    heard' = [by |-> by, after |-> heard.by, first |-> first,
              frames |-> FramesRead(places), blended |-> FramesBlended(places),
              span |-> span, asked |-> asked]

Return == pc' = "host" /\ block' = NoBlock

\* The host starts, stops or continues, and calls process.
Process ==
    /\ pc = "host"
    /\ \E p \in BOOLEAN :
          LET starts == p /\ ~host.playing IN
          /\ starts => host.run < MaxRun
          /\ host' = [playing |-> p,
                      run |-> IF starts THEN host.run + 1 ELSE host.run]
    /\ block' = [NoBlock EXCEPT !.state = snapshot]
    /\ pc' = "gate"
    /\ heard' = [Silence EXCEPT !.by = heard.by]
    /\ AudioOnly /\ UNCHANGED <<pending, cursor, was>>

\* The sample slot, and the flag of the slice audition.
Gate ==
    /\ pc = "gate"
    /\ LET slice == held.active /\ loaded
       IN  /\ was' = [was EXCEPT !.slice = slice]
           /\ cursor' = IF slice /\ ~was.slice
                        THEN [cursor EXCEPT !.slice = OnFrame(held.lo)] ELSE cursor
           /\ pc' = IF slice THEN "start" ELSE "engine"
    /\ block' = [block EXCEPT !.loaded = loaded, !.by = held.by]
    /\ AudioOnly /\ UNCHANGED <<pending, host, heard>>

\* renderSliceAudition: one bound is loaded, then the other.
LoadStart ==
    /\ pc = "start"
    /\ block' = [block EXCEPT !.lo = held.lo]
    /\ pc' = "end"
    /\ AudioOnly /\ UNCHANGED <<pending, host, cursor, was, heard>>

RenderSliceAudition ==
    /\ pc = "end"
    /\ LET span == [lo |-> block.lo, hi |-> held.hi]
           empty == span.hi <= span.lo
           asked == IF block.by = gesture.n THEN gesture.span ELSE NoSpan
       IN  IF empty
           THEN /\ Report("slice", OnFrame(0), {}, span, asked)
                /\ UNCHANGED cursor
           ELSE \E rate \in Rates :
                /\ Report("slice", ReadAt(cursor.slice, span),
                          PlacesRead(cursor.slice, span, rate), span, asked)
                /\ cursor' = [cursor EXCEPT
                                 !.slice = Walk(@, span, rate)[BlockSize]]
    /\ Return
    /\ AudioOnly /\ UNCHANGED <<pending, host, was>>

Auditions == block.state.audition /\ ~host.playing

\* The audition is on and the transport stopped: the scheduler is not called.
Reseeded == IF was.trim THEN cursor.trim ELSE OnFrame(block.state.trim.lo)

RenderAudition ==
    /\ pc = "engine" /\ Auditions
    /\ IF block.loaded
       THEN LET span == block.state.trim IN
            \E rate \in Rates :
            /\ Report("trim", ReadAt(Reseeded, span),
                      PlacesRead(Reseeded, span, rate), span, NoSpan)
            /\ cursor' = [cursor EXCEPT !.trim = Walk(Reseeded, span, rate)[BlockSize]]
            /\ was' = [was EXCEPT !.trim = TRUE]
       ELSE /\ Report("nothing", OnFrame(0), {}, NoSpan, NoSpan)
            /\ UNCHANGED <<cursor, was>>
    /\ Return
    /\ AudioOnly /\ UNCHANGED <<pending, host>>

\* The engine takes the block, and an audition that is still on is flagged.
EngineEdge == [was EXCEPT !.trim = FALSE]

RunScheduler ==
    /\ pc = "engine" /\ ~Auditions
    /\ was' = EngineEdge
    /\ pending' = (pending \/ block.state.audition)
    /\ Report("engine", OnFrame(0), {}, NoSpan, NoSpan)
    /\ Return
    /\ AudioOnly /\ UNCHANGED <<host, cursor>>

-----------------------------------------------------------------------------
UI == \/ OpenOrClose \/ SetState \/ RequestSampleLoad \/ PublishLoaded
      \/ SetAuditionEnabled \/ SetTrimFrames \/ Press \/ StartSliceAudition \/ StopSliceAudition
      \/ PollAuditionAutoStop \/ Fold

Audio == \/ Process \/ Gate \/ LoadStart \/ RenderSliceAudition
         \/ RenderAudition \/ RunScheduler

ProcessNext == UI \/ Audio

\* A handler that has begun ends, and the idle timer of an open editor ticks
\* if the event loop comes back to it again and again, whatever the user does
\* in between.  Nobody is obliged to press anything, nor the host to play.
Fairness ==
    /\ SF_processVars(PollAuditionAutoStop)
    /\ WF_processVars(Fold)
    /\ WF_processVars(PublishLoaded)
    /\ WF_processVars(StartSliceAudition)

ProcessSpec == ProcessInit /\ [][ProcessNext]_processVars /\ Fairness

-----------------------------------------------------------------------------
\* Whatever the trim or the pressed slice did since the cursor was last
\* advanced, the places that are heard lie in the span the block works with:
\* the wrap at the top of renderAudition's and renderSliceAudition's loops.
\* Where a place lies between two frames the second one is blended in, so
\* that the frame at the span's end, if the sample has one there, is the
\* only frame outside the span that is ever heard.
HeardInsideSpan ==
    /\ heard.frames \subseteq heard.span.lo..(heard.span.hi - 1)
    /\ heard.blended \subseteq heard.span.lo..heard.span.hi

\* A block that saw the flag of a press, with no newer press begun before it
\* was rendered, plays exactly that press's slice, from its head unless the
\* block before played a slice too: the bounds are visible with the flag.
PressHeardWhole ==
    (heard.by = "slice" /\ heard.asked # NoSpan) =>
        /\ heard.span = heard.asked
        /\ heard.after # "slice" => heard.first = OnFrame(heard.span.lo)

\* What makes PressHeardWhole inductive.  The bounds are those of the press
\* whose flag is stored, as long as that press is the newest; while a press
\* is being stored the flag is still an older one's, and each bound counts
\* from its own store on; a block that saw the newest flag has that press's
\* start, and its cursor is there unless the block before played a slice.
StoredInOrder ==
    /\ held.by <= gesture.n
    /\ held.by = gesture.n => held.lo = gesture.span.lo /\ held.hi = gesture.span.hi
    /\ ui_pc \in {"first", "second", "third"} => held.by < gesture.n
    /\ ui_pc \in {"second", "third"} => held.lo = gesture.span.lo
    /\ ui_pc = "third" => held.hi = gesture.span.hi

SeenInOrder ==
    /\ pc \in {"start", "end"} => block.by <= held.by
    /\ pc = "end" /\ block.by = gesture.n => block.lo = gesture.span.lo
    /\ pc \in {"host", "gate"} => (was.slice <=> heard.by = "slice")
    /\ pc \in {"start", "end"} => was.slice
    /\ pc = "engine" => ~was.slice
    /\ pc \in {"start", "end"} /\ block.by = gesture.n /\ heard.by # "slice" =>
            cursor.slice = OnFrame(gesture.span.lo)

PressInv == StoredInOrder /\ SeenInOrder /\ PressHeardWhole

\* An audition over which the transport was started is switched off in the
\* state as well, as long as the editor stays open.
AutoStopFolded ==
    (pending /\ ui.audition /\ editor) ~> (~ui.audition \/ ~editor)

=============================================================================
