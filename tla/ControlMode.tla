----------------------------- MODULE ControlMode -----------------------------
(***************************************************************************)
(* Trigger mode Control (VoiceScheduler::runControl, controlNoteOn,        *)
(* controlNoteOff).  A note plays a slice with the style the last          *)
(* keyswitch selected; in gate mode the release of its key fades it out.   *)
(* The MIDI events of a block are all routed before its first sample.      *)
(*                                                                         *)
(* Notes are numbered from the base note: note k plays slice k; a          *)
(* keyswitch is named by its style.  The mode never looks at the           *)
(* transport, so the host's is left stopped.                               *)
(***************************************************************************)
EXTENDS PickRenderer, SequencesExt

CONSTANTS
    Notes,        \* the notes at or above the base note
    Styles,       \* the styles that have a keyswitch
    SliceLists,   \* the trimmed slice lists a block may be given
    MaxEvents     \* bound: a block brings at most so many events

ASSUME ControlAssumption ==
    /\ Notes \subseteq Nat \ {0} /\ Notes # {}
    /\ Styles \subseteq PlaybackStyles /\ "straight" \in Styles
    /\ SliceLists \subseteq Seq(SliceIds)
    /\ MaxEvents \in Nat

NoNote == 0            \* controlSoundingNote_ = -1
NoStyle == "noStyle"   \* nothing was selected since the mode was left

VARIABLES
    armed,   \* armedMode_ = ArmedMode::control
    slices,  \* the block's slice list
    gate,    \* control.gateMode of the block's state
    seed,    \* control.activeStyle of the block's state
    ctl,     \* the scheduler's Control runtime and its voice
    held,    \* the keys that are down at the host
    user     \* history: what the player did; nothing reads it

vars == <<hostVars, armed, slices, gate, seed, ctl, held, user>>

Runtimes ==
    [ pending  : BOOLEAN,               \* controlNoteOnPending_
      note     : Notes \cup {NoNote},   \* controlPendingNoteNumber_
      style    : Styles,                \* controlPendingStyleOrdinal_
      active   : Styles,                \* controlActiveStyleOrdinal_
      sounding : Notes \cup {NoNote},   \* controlSoundingNote_
      voice    : Voices ]

Histories ==
    [ chosen : Styles \cup {NoStyle},   \* the last keyswitch, or the seed
      wanted : Styles \cup {NoStyle},   \* the style of the newest note
      newest : Notes \cup {NoNote},     \* the newest note with a slice
      fresh  : BOOLEAN,                 \* it came in this block
      lapsed : BOOLEAN,                 \* its key went up unheeded
      mute   : SUBSET Notes ]           \* their last press found no slice

TypeOK ==
    /\ HostTypeOK
    /\ armed \in BOOLEAN
    /\ slices \in SliceLists
    /\ gate \in BOOLEAN
    /\ seed \in Styles
    /\ ctl \in Runtimes
    /\ held \subseteq Notes
    /\ user \in Histories /\ user.chosen # NoStyle

Init ==
    /\ HostInit
    /\ armed = FALSE
    /\ slices \in SliceLists
    /\ gate \in BOOLEAN
    /\ seed \in Styles
    /\ ctl = [ pending |-> FALSE, note |-> NoNote, style |-> "straight",
               active |-> "straight", sounding |-> NoNote,
               voice |-> IdleVoice ]
    /\ held = {}
    /\ user = [ chosen |-> seed, wanted |-> seed, newest |-> NoNote,
                fresh |-> FALSE, lapsed |-> FALSE, mute |-> {} ]

-----------------------------------------------------------------------------
(* The events of a block. *)
Event == ({"on", "off"} \X Notes) \cup ({"keyswitch"} \X Styles)

Batches == BoundedSeq(Event, MaxEvents)

HeldAfter(keys, e) ==
    CASE e[1] = "on"        -> keys \cup {e[2]}
      [] e[1] = "off"       -> keys \ {e[2]}
      [] e[1] = "keyswitch" -> keys

(* A key goes down only when it is up, and up only when it is down. *)
Fits(keys, e) == /\ e[1] = "on" => e[2] \notin keys
                 /\ e[1] = "off" => e[2] \in keys

-----------------------------------------------------------------------------
HasSlice(note) == note \in DOMAIN slices'

NoteOn(c, note) ==
    IF HasSlice(note)
    THEN [c EXCEPT !.pending = TRUE, !.note = note, !.style = c.active]
    ELSE c

(* A slip: any key that goes up releases the pick. *)
NoteOffOfAnyKey(c, note) ==
    IF gate' /\ c.voice.active
    THEN [c EXCEPT !.voice = BeginGateRelease(@)]
    ELSE c

(* A slip: a key is heard going up only while it has a slice. *)
NoteOffInRange(c, note) ==
    IF gate' /\ HasSlice(note) /\ note = c.sounding /\ c.voice.active
    THEN [c EXCEPT !.voice = BeginGateRelease(@)]
    ELSE c

NoteOff(c, note) ==
    IF gate' /\ note = c.sounding /\ c.voice.active
    THEN [c EXCEPT !.voice = BeginGateRelease(@)]
    ELSE c

(* A slip: a keyswitch also restyles the note that is still pending. *)
KeyswitchRestyling(c, style) == [c EXCEPT !.active = style, !.style = style]

Keyswitch(c, style) == [c EXCEPT !.active = style]

(* routeMidiNote for trigger mode Control *)
Routed(c, e) ==
    CASE e[1] = "on"        -> NoteOn(c, e[2])
      [] e[1] = "off"       -> NoteOff(c, e[2])
      [] e[1] = "keyswitch" -> Keyswitch(c, e[2])

(* What the player did by the same event.  A release goes unheeded while   *)
(* gate mode is off, and in the block of its press, where the pick has yet *)
(* to start.                                                               *)
Asked(u, e) ==
    CASE e[1] = "on" /\ HasSlice(e[2]) ->
            [u EXCEPT !.newest = e[2], !.wanted = u.chosen,
                      !.fresh = TRUE, !.lapsed = FALSE, !.mute = @ \ {e[2]}]
      [] e[1] = "on" /\ ~HasSlice(e[2]) -> [u EXCEPT !.mute = @ \cup {e[2]}]
      [] e[1] = "off" ->
            [u EXCEPT !.lapsed = @ \/ (e[2] = u.newest /\ (u.fresh \/ ~gate'))]
      [] e[1] = "keyswitch" -> [u EXCEPT !.chosen = e[2]]

(***************************************************************************)
(* The loop over the events of a block: the runtime, the keys and the      *)
(* history after each of them.                                             *)
(***************************************************************************)
Start(u) == [ctl |-> ctl, held |-> held, user |-> u]

OneEvent(s, e) ==
    [ctl |-> Routed(s.ctl, e), held |-> HeldAfter(s.held, e), user |-> Asked(s.user, e)]

Events(u, batch) ==
    LET after[i \in 0..Len(batch)] ==
            IF i = 0 THEN Start(u) ELSE OneEvent(after[i - 1], batch[i])
    IN  after

Playable(batch, after) == \A i \in DOMAIN batch : Fits(after[i - 1].held, batch[i])

(* Just entered the mode: silent, and the keyswitch style is re-seeded. *)
Armed(c) == [c EXCEPT !.voice = ClearPick(@), !.sounding = NoNote,
                      !.active = seed']

(* Outside the mode nothing counts as chosen until the block has entered. *)
Entering(u) == [u EXCEPT !.fresh = FALSE, !.chosen = IF armed THEN @ ELSE NoStyle]

BeginBlock ==
    /\ slices' \in SliceLists \ {<<>>}
    /\ gate' \in BOOLEAN /\ seed' \in Styles
    /\ \E size \in BlockSizes : HostBlock(FALSE, size, TRUE)
    /\ \E batch \in Batches :
        LET after == Events(Entering(user), batch)
            end   == after[Len(batch)]
        IN  /\ Playable(batch, after)
            /\ ctl' = IF armed THEN end.ctl ELSE Armed(end.ctl)
            /\ held' = end.held
            /\ user' = IF armed THEN end.user ELSE [end.user EXCEPT !.chosen = seed']
    /\ armed' = TRUE

(* No slices: the events are routed, then everything stops. *)
BypassBlock ==
    /\ slices' \in SliceLists \cap {<<>>}
    /\ gate' \in BOOLEAN /\ seed' \in Styles
    /\ \E size \in BlockSizes : HostBlock(FALSE, size, FALSE)
    /\ \E batch \in Batches :
        LET after == Events(Entering(user), batch)
            end   == after[Len(batch)]
        IN  /\ Playable(batch, after)
            /\ ctl' = [end.ctl EXCEPT !.voice = ClearPick(@)]
            /\ held' = end.held
    /\ armed' = FALSE
    /\ UNCHANGED user

Fresh(slice, style) ==
    StartPick(slice, style, PassLength(style, slice), SliceLen[slice],
              FoldingStyle(style))

(* The pending note starts; a pick that ran its course is cleared. *)
Triggered(c) ==
    IF c.pending /\ c.note \in DOMAIN slices
    THEN [c EXCEPT !.sounding = c.note, !.voice = Fresh(slices[c.note], c.style)]
    ELSE IF ~c.pending /\ Finished(c.voice)
         THEN [c EXCEPT !.voice = ClearPick(@)]
    ELSE c

Sample ==
    /\ HostSample
    /\ ctl' = [Triggered(ctl) EXCEPT !.pending = FALSE, !.voice = RenderSample(@)]
    /\ UNCHANGED <<armed, slices, gate, seed, held, user>>

Next == BeginBlock \/ BypassBlock \/ Sample
Spec == Init /\ [][Next]_vars

-----------------------------------------------------------------------------
(* In gate mode a pick lives on only while its key is down or its release  *)
(* fade runs ("Gate mode adds a release fade that force-stops the pick     *)
(* when complete", Scheduler.h:57-58), whatever keys and lists come and go.*)
(* The one way out: its key went up before the pick had started, or while  *)
(* gate mode was off.  A note that waits takes the voice over before       *)
(* another sample is heard.                                                *)
GateHolds ==
    gate /\ armed /\ ~ctl.pending /\ ctl.voice.active /\ ~ctl.voice.releasing =>
        ctl.sounding \in held \/ user.lapsed

(* A release fade never starts over while it is heard: the gain would jump *)
(* (Scheduler.cpp:1195-1204, PickRenderer.h:140-144).  The one way there:  *)
(* the key that fades is pressed again when it has no slice any more, which*)
(* starts nothing, and its second release finds its note still sounding.   *)
FadeNeverRestarts ==
    [][ctl.voice.releasing /\ ctl'.voice.releasing /\ ~ctl'.pending =>
         ctl'.voice.age >= ctl.voice.age \/ ctl.sounding \in user'.mute]_vars

(* "Note baseNote+k plays slice k with the last keyswitch-selected style"  *)
(* (Scheduler.h:54-55), entering the mode being a selection of the style   *)
(* of the state.  A note that arrives in the very block that enters the    *)
(* mode, with no keyswitch before it, has nothing selected to go by.       *)
StyleAsSelected ==
    [][left' < left /\ ctl.pending /\ ctl'.sounding = user.newest =>
         user.wanted \in {NoStyle, ctl'.voice.style}]_vars
=============================================================================
