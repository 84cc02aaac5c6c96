---------------------------- MODULE PickRenderer ----------------------------
(***************************************************************************)
(* The one monophonic voice: "the pick in progress" as a record, and the   *)
(* operations of PickRenderer on it as operators.  What is kept is what    *)
(* the schedulers can tell apart: whether a pick is active, which slice    *)
(* and style it plays, how long it has run, and the four ways in which it  *)
(* ends (end of its schedule, its declared length, the tape-stop duration, *)
(* a completed gate release).  What it sounds like is left out.            *)
(*                                                                         *)
(* The read head moves one frame per sample (unit playback rate), so the   *)
(* distance it has covered is the time since the pick started.             *)
(***************************************************************************)
EXTENDS Host

CONSTANTS
    SliceLen,     \* [slice -> its length in ticks]
    GrainSpeed,   \* StyleParameters::grainSpeed: length factor of Stretch
    ScratchCycle, \* tempo::scratchCycleLengthHostSamples, in ticks
    FadeOut       \* BlockContext::fadeOutSamplesRequested, in ticks

SliceIds == DOMAIN SliceLen

ASSUME RendererAssumption ==
    /\ SliceLen \in [SliceIds -> Nat \ {0}]
    /\ GrainSpeed \in Nat \ {0}
    /\ ScratchCycle \in Nat \ {0}
    /\ FadeOut \in Nat

(* The styles that end alike are one: "straight" is Forward, the filter    *)
(* sweeps, Bitcrush and Flanger.                                           *)
PlaybackStyles == {"straight", "pingPong", "scratch", "tapeStop", "stretch"}

(* No slice was ever played. *)
NoSlice == "noSlice"

Voices ==
    [ active    : BOOLEAN,
      slice     : SliceIds \cup {NoSlice}, \* PickParams::slice*Frame
      head      : SliceIds \cup {NoSlice}, \* the slice the read head entered
      style     : PlaybackStyles,
      span      : Nat,      \* schedulingEndFrame - sliceStartFrame
      since     : Nat,      \* samplesSincePick
      len       : Int,      \* pickLengthHostSamples
      stop      : Int,      \* tapeStopDurationHostSamples
      gated     : BOOLEAN,  \* useDurationGate
      releasing : BOOLEAN,  \* gateReleaseActive
      age       : Nat ]     \* gateReleaseElapsedSamples

IdleVoice ==
    [ active |-> FALSE, slice |-> NoSlice, head |-> NoSlice,
      style |-> "straight", span |-> 0, since |-> 0, len |-> 0, stop |-> 0,
      gated |-> FALSE, releasing |-> FALSE, age |-> 0 ]

(***************************************************************************)
(* preparePick: one full pass of a slice in a style (a round trip for      *)
(* Ping-Pong, one Rate cycle for Scratch, the stretched length for         *)
(* Stretch).  It is both the schedule's extent and the natural duration.   *)
(***************************************************************************)
PassLength(style, slice) ==
    IF style = "scratch" THEN ScratchCycle
    ELSE SliceLen[slice] * (IF style = "pingPong" THEN 2
                            ELSE IF style = "stretch" THEN GrainSpeed ELSE 1)

FoldingStyle(style) == style \in {"pingPong", "stretch", "scratch"}

(* commitPick and startPick *)
StartPick(slice, style, len, stop, gated) ==
    [ active |-> TRUE, slice |-> slice, head |-> slice, style |-> style,
      span |-> PassLength(style, slice), since |-> 0, len |-> len,
      stop |-> stop, gated |-> gated, releasing |-> FALSE, age |-> 0 ]

ClearPick(v) == [v EXCEPT !.active = FALSE, !.releasing = FALSE]

BeginGateRelease(v) == [v EXCEPT !.releasing = TRUE, !.age = 0]

(* The same pick again from the head of a slice, with new durations; the   *)
(* pick becomes active whether or not it was.                              *)
Retrigger(v, slice, len, stop) ==
    [v EXCEPT !.head = slice, !.since = 0, !.len = len, !.stop = stop,
              !.active = TRUE]

(* The pick ran its course (also: there is none). *)
Finished(v) ==
    \/ ~v.active
    \/ /\ v.style = "tapeStop"
       /\ v.since >= v.stop
    \/ /\ v.style # "tapeStop"
       /\ v.style = "stretch" \/ v.gated
       /\ v.since >= v.len
    \/ /\ v.style \notin {"tapeStop", "stretch"}
       /\ ~v.gated
       /\ v.since >= v.span - PpqPerSample

(* The gate release completes with the sample being rendered. *)
ReleaseCompletes(v) == v.releasing /\ v.age + PpqPerSample >= FadeOut

(* A finished pick renders silence and does not move. *)
RenderSample(v) ==
    IF Finished(v) THEN v
    ELSE [v EXCEPT
            !.since     = @ + PpqPerSample,
            !.age       = IF v.releasing THEN @ + PpqPerSample ELSE @,
            !.active    = ~ReleaseCompletes(v),
            !.releasing = @ /\ ~ReleaseCompletes(v)]
=============================================================================
