-------------------------- MODULE ControlMode_proofs --------------------------
(***************************************************************************)
(* What is proved of trigger mode Control, for every set of notes, styles  *)
(* and slice lists, every sample length and block size and any number of   *)
(* events per block: its types; that a note plays in the style that was    *)
(* selected when it arrived; that in gate mode a pick lives on only while  *)
(* its key is down, unless that key went up unheeded; and that a release   *)
(* fade never starts over while it is heard, unless its key was pressed    *)
(* again without a slice.                                                  *)
(*                                                                         *)
(* The events of a block are a recursive function of their number.  What   *)
(* one event keeps is a lemma each for the style (Follows), the gate       *)
(* (Gated) and the fade (Fading); induction over the events (UpTo) carries *)
(* it through the block, and the inductive invariants CInv, GateInv and    *)
(* FadeInv from block to block.                                            *)
(***************************************************************************)
EXTENDS ControlMode, PickRenderer_proofs, WellFoundedInduction

(* Every set of natural numbers that is not empty has a least element.     *)
LEMMA LeastElement ==
    ASSUME NEW S \in SUBSET Nat, S # {}
    PROVE  \E n \in S : \A m \in S : n <= m
  <1>1. PICK n \in S : \A m \in S : ~(<<m, n>> \in OpToRel(<, Nat))
    BY NatLessThanWellFounded, WFMin
  <1>2. \A m \in S : ~(m < n)
    BY <1>1 DEF OpToRel
  <1>. QED  BY <1>2

(* Induction up to a bound, over the set of the numbers for which the      *)
(* claim holds.                                                            *)
LEMMA UpTo ==
    ASSUME NEW n \in Nat, NEW G, 0 \in G,
           \A i \in 0..n : i # n /\ i \in G => i + 1 \in G
    PROVE  \A i \in 0..n : i \in G
  <1>. DEFINE Bad == {i \in 0..n : i \notin G}
  <1>. SUFFICES ASSUME Bad # {} PROVE FALSE
    OBVIOUS
  <1>1. Bad \in SUBSET Nat
    OBVIOUS
  <1>2. PICK m \in Bad : \A i \in Bad : m <= i
    <2>. HIDE DEF Bad
    <2>. QED  BY <1>1, LeastElement
  <1>3. m \in 0..n /\ m \notin G /\ m # 0
    BY <1>2
  <1>4. (m - 1) \in 0..n /\ m - 1 # n /\ m - 1 \notin Bad
    BY <1>2, <1>3
  <1>. QED  BY <1>3, <1>4

(* The events of a block are numbered from one. *)
LEMMA BatchFacts ==
    ASSUME NEW batch \in Batches
    PROVE  /\ Len(batch) \in Nat /\ DOMAIN batch = 1..Len(batch)
           /\ \A i \in 1..Len(batch) : batch[i] \in Event
  <1>1. PICK n \in 0..MaxEvents : batch \in [1..n -> Event]
    BY DEF Batches, BoundedSeq, SeqOf
  <1>2. n \in Nat /\ batch \in Seq(Event)
    BY <1>1, ControlAssumption
  <1>. QED  BY <1>1, <1>2

(* The recursion over the events of a block has a solution.                *)
LEMMA EventsDefined ==
    ASSUME NEW u, NEW batch \in Batches
    PROVE  Events(u, batch) =
             [i \in 0..Len(batch) |->
                IF i = 0 THEN Start(u) ELSE OneEvent(Events(u, batch)[i - 1], batch[i])]
  <1>. DEFINE Solves(g, n) ==
                g = [i \in 0..n |->
                      IF i = 0 THEN Start(u) ELSE OneEvent(g[i - 1], batch[i])]
              Solved == {n \in Nat : \E g : Solves(g, n)}
              size == Len(batch)
  <1>0. size \in Nat
    BY BatchFacts
  <1>1. 0 \in Solved
    <2>1. Solves([i \in 0..0 |-> Start(u)], 0)
      OBVIOUS
    <2>. HIDE DEF Solves
    <2>. QED  BY <2>1
  <1>2. ASSUME NEW n \in 0..size, n # size, n \in Solved
        PROVE  n + 1 \in Solved
    <2>1. PICK g : Solves(g, n)
      BY <1>2
    <2>. DEFINE h == [i \in 0..(n + 1) |-> IF i <= n THEN g[i]
                                           ELSE OneEvent(g[n], batch[n + 1])]
    <2>2. ASSUME NEW i \in 0..(n + 1)
          PROVE  h[i] = IF i = 0 THEN Start(u) ELSE OneEvent(h[i - 1], batch[i])
      <3>1. CASE i = n + 1
        <4>1. ~(i <= n) /\ i # 0 /\ i - 1 = n /\ n \in 0..(n + 1)
          BY <3>1
        <4>2. h[i] = OneEvent(g[n], batch[i]) /\ h[n] = g[n]
          BY <3>1, <4>1
        <4>. QED  BY <4>1, <4>2
      <3>2. CASE i # n + 1
        <4>1. i \in 0..n /\ h[i] = g[i]
          BY <3>2
        <4>2. g[i] = IF i = 0 THEN Start(u) ELSE OneEvent(g[i - 1], batch[i])
          BY <2>1, <4>1
        <4>3. i # 0 => h[i - 1] = g[i - 1]
          BY <4>1
        <4>. QED  BY <4>1, <4>2, <4>3
      <3>. QED  BY <3>1, <3>2
    <2>3. Solves(h, n + 1)
      BY <2>2
    <2>. HIDE DEF Solves, h
    <2>. QED  BY <2>3, <1>0
  <1>3. size \in Solved
    <2>. HIDE DEF Solved, size
    <2>. QED  BY <1>0, <1>1, <1>2, UpTo
  <1>4. Events(u, batch) = CHOOSE g : Solves(g, size)
    BY DEF Events
  <1>5. Solves(Events(u, batch), size)
    <2>. HIDE DEF Solves
    <2>. QED  BY <1>3, <1>4
  <1>. QED  BY <1>5

(* The state after each event is the one before it, one event on.          *)
LEMMA EventsStep ==
    ASSUME NEW u, NEW batch \in Batches
    PROVE  LET after == Events(u, batch) IN
           /\ after[0] = Start(u)
           /\ \A i \in 0..Len(batch) : i # Len(batch) =>
                after[i + 1] = OneEvent(after[i], batch[i + 1])
  <1>. DEFINE after == Events(u, batch)
              n == Len(batch)
  <1>1. after = [i \in 0..n |-> IF i = 0 THEN Start(u) ELSE OneEvent(after[i - 1], batch[i])]
    BY EventsDefined
  <1>2. n \in Nat
    BY BatchFacts
  <1>. HIDE DEF after, n
  <1>3. after[0] = Start(u)
    BY <1>1, <1>2
  <1>4. ASSUME NEW i \in 0..n, i # n
        PROVE  after[i + 1] = OneEvent(after[i], batch[i + 1])
    <2>1. i + 1 \in 0..n /\ i + 1 # 0 /\ (i + 1) - 1 = i
      BY <1>2, <1>4
    <2>. QED  BY <1>1, <2>1
  <1>. QED  BY <1>3, <1>4 DEF after, n

-----------------------------------------------------------------------------
(* What the loop over the events passes on. *)
LoopStates == [ctl : Runtimes, held : SUBSET Notes, user : Histories]

(* An event is a press, a release or a keyswitch. *)
LEMMA EventCases ==
    ASSUME NEW e \in Event
    PROVE  \/ \E k \in Notes : e = <<"on", k>>
           \/ \E k \in Notes : e = <<"off", k>>
           \/ \E st \in Styles : e = <<"keyswitch", st>>
  BY DEF Event

(* A press waits to be played if its note has a slice; the pick that       *)
(* sounds is left alone.                                                   *)
LEMMA PressType ==
    ASSUME NEW s \in LoopStates, NEW k \in Notes
    PROVE  LET t == OneEvent(s, <<"on", k>>) IN
           /\ t \in LoopStates /\ t.held = s.held \cup {k}
           /\ t.ctl.voice = s.ctl.voice /\ t.ctl.sounding = s.ctl.sounding
           /\ t.ctl.active = s.ctl.active /\ t.user.chosen = s.user.chosen
           /\ HasSlice(k) => /\ t.ctl.pending /\ t.ctl.note = k
                             /\ t.ctl.style = s.ctl.active
                             /\ t.user.newest = k /\ t.user.wanted = s.user.chosen
                             /\ t.user.fresh
           /\ ~HasSlice(k) => /\ t.ctl = s.ctl
                              /\ t.user = [s.user EXCEPT !.mute = @ \cup {k}]
  <1>. DEFINE e == <<"on", k>>
  <1>1. e[1] = "on" /\ e[2] = k
    OBVIOUS
  <1>. DEFINE asked == [s.user EXCEPT !.newest = k, !.wanted = s.user.chosen,
                                      !.fresh = TRUE, !.lapsed = FALSE, !.mute = @ \ {k}]
              muted == [s.user EXCEPT !.mute = @ \cup {k}]
  <1>2. /\ Routed(s.ctl, e) = NoteOn(s.ctl, k) /\ HeldAfter(s.held, e) = s.held \cup {k}
        /\ Asked(s.user, e) = IF HasSlice(k) THEN asked ELSE muted
    BY <1>1 DEF Routed, HeldAfter, Asked
  <1>3. OneEvent(s, e) = [ctl |-> NoteOn(s.ctl, k), held |-> s.held \cup {k},
                          user |-> IF HasSlice(k) THEN asked ELSE muted]
    BY <1>2, Zenon DEF OneEvent
  <1>. DEFINE t == OneEvent(s, e)
  <1>. HIDE DEF asked, muted
  <1>4. CASE HasSlice(k)
    <2>1. t = [ctl |-> [s.ctl EXCEPT !.pending = TRUE, !.note = k, !.style = s.ctl.active],
               held |-> s.held \cup {k},
               user |-> asked]
      BY <1>3, <1>4, Zenon DEF NoteOn
    <2>. HIDE DEF t
    <2>2. /\ t \in LoopStates /\ t.held = s.held \cup {k}
          /\ t.ctl.voice = s.ctl.voice /\ t.ctl.sounding = s.ctl.sounding
          /\ t.ctl.active = s.ctl.active /\ t.user.chosen = s.user.chosen
          /\ t.ctl.pending /\ t.ctl.note = k /\ t.ctl.style = s.ctl.active
          /\ t.user.newest = k /\ t.user.wanted = s.user.chosen /\ t.user.fresh
      BY <2>1 DEF LoopStates, Runtimes, Histories, asked
    <2>. QED  BY <2>2, <1>4 DEF t
  <1>5. CASE ~HasSlice(k)
    <2>1. t = [ctl |-> s.ctl, held |-> s.held \cup {k}, user |-> muted]
      BY <1>3, <1>5, Zenon DEF NoteOn
    <2>2. muted \in Histories /\ muted.chosen = s.user.chosen
      BY DEF LoopStates, Histories, muted
    <2>. HIDE DEF t
    <2>3. /\ t \in LoopStates /\ t.held = s.held \cup {k}
          /\ t.ctl = s.ctl /\ t.user = muted /\ t.user.chosen = s.user.chosen
      BY <2>1, <2>2 DEF LoopStates
    <2>. QED  BY <2>3, <1>5 DEF t, muted
  <1>. QED  BY <1>4, <1>5

(* A release begins the fade of the note that sounds, in gate mode; of the *)
(* newest note it may go unheeded.                                         *)
LEMMA ReleaseType ==
    ASSUME NEW s \in LoopStates, NEW k \in Notes
    PROVE  LET t == OneEvent(s, <<"off", k>>) IN
           /\ t \in LoopStates /\ t.held = s.held \ {k}
           /\ t.user = [s.user EXCEPT !.lapsed = @ \/ (k = s.user.newest
                                                       /\ (s.user.fresh \/ ~gate'))]
           /\ t.ctl.pending = s.ctl.pending /\ t.ctl.note = s.ctl.note
           /\ t.ctl.style = s.ctl.style
           /\ t.ctl.sounding = s.ctl.sounding /\ t.ctl.active = s.ctl.active
           /\ IF gate' /\ k = s.ctl.sounding /\ s.ctl.voice.active
              THEN t.ctl.voice = BeginGateRelease(s.ctl.voice)
              ELSE t.ctl.voice = s.ctl.voice
  <1>. DEFINE e == <<"off", k>>
              asked == [s.user EXCEPT !.lapsed = @ \/ (k = s.user.newest
                                                       /\ (s.user.fresh \/ ~gate'))]
  <1>1. e[1] = "off" /\ e[2] = k
    OBVIOUS
  <1>2. /\ Routed(s.ctl, e) = NoteOff(s.ctl, k) /\ HeldAfter(s.held, e) = s.held \ {k}
        /\ Asked(s.user, e) = asked
    BY <1>1 DEF Routed, HeldAfter, Asked
  <1>3. OneEvent(s, e) = [ctl |-> NoteOff(s.ctl, k), held |-> s.held \ {k}, user |-> asked]
    BY <1>2, Zenon DEF OneEvent
  <1>4. s.ctl.voice \in Voices /\ BeginGateRelease(s.ctl.voice) \in Voices
    BY DEF LoopStates, Runtimes, BeginGateRelease, Voices
  <1>5. asked \in Histories
    BY DEF LoopStates, Histories
  <1>. HIDE DEF e, asked
  <1>6. LET t == OneEvent(s, e) IN
           /\ t \in LoopStates /\ t.held = s.held \ {k} /\ t.user = asked
           /\ t.ctl.pending = s.ctl.pending /\ t.ctl.note = s.ctl.note
           /\ t.ctl.style = s.ctl.style
           /\ t.ctl.sounding = s.ctl.sounding /\ t.ctl.active = s.ctl.active
           /\ IF gate' /\ k = s.ctl.sounding /\ s.ctl.voice.active
              THEN t.ctl.voice = BeginGateRelease(s.ctl.voice)
              ELSE t.ctl.voice = s.ctl.voice
    BY <1>3, <1>4, <1>5 DEF NoteOff, LoopStates, Runtimes
  <1>. QED  BY <1>6 DEF e, asked

(* A keyswitch selects a style and touches nothing else. *)
LEMMA KeyswitchType ==
    ASSUME NEW s \in LoopStates, NEW st \in Styles
    PROVE  LET t == OneEvent(s, <<"keyswitch", st>>) IN
           /\ t \in LoopStates /\ t.held = s.held
           /\ t.ctl.pending = s.ctl.pending /\ t.ctl.note = s.ctl.note
           /\ t.ctl.style = s.ctl.style
           /\ t.ctl.sounding = s.ctl.sounding /\ t.ctl.voice = s.ctl.voice
           /\ t.ctl.active = st /\ t.user.chosen = st
           /\ t.user = [s.user EXCEPT !.chosen = st]
           /\ t.user.newest = s.user.newest /\ t.user.wanted = s.user.wanted
  <1>. DEFINE e == <<"keyswitch", st>>
  <1>1. e[1] = "keyswitch" /\ e[2] = st
    OBVIOUS
  <1>2. /\ Routed(s.ctl, e) = Keyswitch(s.ctl, st) /\ HeldAfter(s.held, e) = s.held
        /\ Asked(s.user, e) = [s.user EXCEPT !.chosen = st]
    BY <1>1 DEF Routed, HeldAfter, Asked
  <1>3. OneEvent(s, e) = [ctl |-> Keyswitch(s.ctl, st), held |-> s.held,
                          user |-> [s.user EXCEPT !.chosen = st]]
    BY <1>2, Zenon DEF OneEvent
  <1>. HIDE DEF e
  <1>. QED  BY <1>3 DEF Keyswitch, LoopStates, Runtimes, Histories, e

-----------------------------------------------------------------------------
(* What the events keep of the style: the selected one is the one the      *)
(* player chose, and the note that waits is the newest, in the style it    *)
(* was asked for with.                                                     *)
Follows(s) ==
    /\ s.user.chosen \in {NoStyle, s.ctl.active}
    /\ armed => s.user.chosen = s.ctl.active
    /\ s.ctl.pending => /\ s.ctl.note \in DOMAIN slices'
                        /\ s.ctl.note = s.user.newest
                        /\ s.user.wanted \in {NoStyle, s.ctl.style}

(* One event keeps it... *)
LEMMA EventFollows ==
    ASSUME NEW s \in LoopStates, NEW e \in Event, Follows(s)
    PROVE  OneEvent(s, e) \in LoopStates /\ Follows(OneEvent(s, e))
  <1>1. CASE \E k \in Notes : e = <<"on", k>>
    <2>1. PICK k \in Notes : e = <<"on", k>>
      BY <1>1
    <2>. DEFINE t == OneEvent(s, e)
    <2>2. /\ t \in LoopStates
          /\ t.ctl.active = s.ctl.active /\ t.user.chosen = s.user.chosen
          /\ HasSlice(k) => /\ t.ctl.pending /\ t.ctl.note = k
                            /\ t.ctl.style = s.ctl.active
                            /\ t.user.newest = k /\ t.user.wanted = s.user.chosen
          /\ ~HasSlice(k) => t.ctl = s.ctl /\ t.user = [s.user EXCEPT !.mute = @ \cup {k}]
      BY <2>1, PressType
    <2>. HIDE DEF t
    <2>3. t \in LoopStates /\ Follows(t)
      BY <2>2 DEF Follows, HasSlice, LoopStates, Histories
    <2>. QED  BY <2>3 DEF t
  <1>2. CASE \E k \in Notes : e = <<"off", k>>
    <2>1. PICK k \in Notes : e = <<"off", k>>
      BY <1>2
    <2>. DEFINE t == OneEvent(s, e)
    <2>2. /\ t \in LoopStates
          /\ t.user = [s.user EXCEPT !.lapsed = @ \/ (k = s.user.newest
                                                      /\ (s.user.fresh \/ ~gate'))]
          /\ t.ctl.pending = s.ctl.pending /\ t.ctl.note = s.ctl.note
          /\ t.ctl.style = s.ctl.style /\ t.ctl.active = s.ctl.active
      BY <2>1, ReleaseType
    <2>. HIDE DEF t
    <2>3. t.user.chosen = s.user.chosen /\ t.user.newest = s.user.newest
          /\ t.user.wanted = s.user.wanted
      BY <2>2 DEF LoopStates, Histories
    <2>4. t \in LoopStates /\ Follows(t)
      BY <2>2, <2>3 DEF Follows
    <2>. QED  BY <2>4 DEF t
  <1>3. CASE \E st \in Styles : e = <<"keyswitch", st>>
    <2>1. PICK st \in Styles : e = <<"keyswitch", st>>
      BY <1>3
    <2>. DEFINE t == OneEvent(s, e)
    <2>2. /\ t \in LoopStates
          /\ t.ctl.pending = s.ctl.pending /\ t.ctl.note = s.ctl.note
          /\ t.ctl.style = s.ctl.style /\ t.ctl.active = st /\ t.user.chosen = st
          /\ t.user.newest = s.user.newest /\ t.user.wanted = s.user.wanted
      BY <2>1, KeyswitchType
    <2>. HIDE DEF t
    <2>3. t \in LoopStates /\ Follows(t)
      BY <2>2 DEF Follows
    <2>. QED  BY <2>3 DEF t
  <1>. QED  BY <1>1, <1>2, <1>3, EventCases

(* ...and so do all the events of a block. *)
LEMMA EventsFollow ==
    ASSUME NEW u \in Histories, NEW batch \in Batches,
           Start(u) \in LoopStates, Follows(Start(u)),
           NEW i \in 0..Len(batch)
    PROVE  Events(u, batch)[i] \in LoopStates /\ Follows(Events(u, batch)[i])
  <1>. DEFINE after == Events(u, batch)
              n == Len(batch)
              G == {j \in 0..n : after[j] \in LoopStates /\ Follows(after[j])}
  <1>1. n \in Nat
    BY BatchFacts
  <1>2. after[0] = Start(u) /\ \A j \in 0..n : j # n =>
                                 after[j + 1] = OneEvent(after[j], batch[j + 1])
    BY EventsStep
  <1>3. \A j \in 1..n : batch[j] \in Event
    BY BatchFacts
  <1>. HIDE DEF after, n
  <1>4. 0 \in G
    BY <1>1, <1>2
  <1>5. ASSUME NEW j \in 0..n, j # n, j \in G PROVE j + 1 \in G
    <2>1. j + 1 \in 1..n /\ j + 1 \in 0..n
      BY <1>1, <1>5
    <2>2. after[j] \in LoopStates /\ Follows(after[j])
      BY <1>5
    <2>3. after[j + 1] = OneEvent(after[j], batch[j + 1]) /\ batch[j + 1] \in Event
      BY <1>2, <1>3, <1>5, <2>1
    <2>4. after[j + 1] \in LoopStates /\ Follows(after[j + 1])
      BY <2>2, <2>3, EventFollows
    <2>. QED  BY <2>1, <2>4
  <1>6. \A j \in 0..n : j \in G
    <2>. HIDE DEF G
    <2>. QED  BY <1>1, <1>4, <1>5, UpTo
  <1>. QED  BY <1>6 DEF after, n
-----------------------------------------------------------------------------
(* The inductive invariant of the types and of the style. *)
CInv ==
    /\ TypeOK
    /\ armed => user.chosen = ctl.active
    /\ ctl.pending => /\ left > 0
                      /\ ctl.note \in DOMAIN slices
                      /\ ctl.note = user.newest
                      /\ user.wanted \in {NoStyle, ctl.style}

(* No style is called "nothing was selected". *)
LEMMA StylesNamed == NoStyle \notin Styles
  BY ControlAssumption DEF PlaybackStyles, NoStyle

(* Before its events are routed a block finds nothing pending. *)
LEMMA LoopStarts ==
    ASSUME CInv, left = 0
    PROVE  LET u == Entering(user) IN
           /\ u \in Histories /\ Start(u) \in LoopStates /\ Follows(Start(u))
           /\ ~Start(u).ctl.pending
           /\ ~u.fresh /\ u.newest = user.newest /\ u.lapsed = user.lapsed
           /\ u.mute = user.mute
  <1>. DEFINE u == Entering(user)
  <1>1. /\ u \in Histories /\ u.chosen \in {NoStyle, ctl.active}
        /\ armed => u.chosen = ctl.active
        /\ ~u.fresh /\ u.newest = user.newest /\ u.lapsed = user.lapsed
        /\ u.mute = user.mute
    BY DEF Entering, CInv, TypeOK, Histories
  <1>2. ctl \in Runtimes /\ held \in SUBSET Notes /\ ~ctl.pending
    BY DEF CInv, TypeOK, HostTypeOK
  <1>3. Start(u) = [ctl |-> ctl, held |-> held, user |-> u]
    BY DEF Start
  <1>. HIDE DEF u
  <1>4. /\ u \in Histories /\ Start(u) \in LoopStates /\ Follows(Start(u))
        /\ ~Start(u).ctl.pending
    BY <1>1, <1>2, <1>3 DEF LoopStates, Follows
  <1>. QED  BY <1>1, <1>4 DEF u

(* A block: what its events leave. *)
LEMMA BlockCases ==
    ASSUME CInv, BeginBlock \/ BypassBlock
    PROVE  /\ left = 0
           /\ \E batch \in Batches :
              LET after == Events(Entering(user), batch)
                  s     == after[Len(batch)]
              IN  /\ Playable(batch, after) /\ s \in LoopStates /\ Follows(s)
                  /\ held' = s.held
                  /\ BeginBlock => /\ ctl' = IF armed THEN s.ctl ELSE Armed(s.ctl)
                                   /\ user' = IF armed THEN s.user
                                              ELSE [s.user EXCEPT !.chosen = seed']
                  /\ BypassBlock => /\ ctl' = [s.ctl EXCEPT !.voice = ClearPick(@)]
                                    /\ ~s.ctl.pending
  <1>1. left = 0
    BY DEF BeginBlock, BypassBlock, HostBlock
  <1>2. PICK batch \in Batches :
          LET after == Events(Entering(user), batch)
              s     == after[Len(batch)]
          IN  /\ Playable(batch, after)
              /\ held' = s.held
              /\ BeginBlock => /\ ctl' = IF armed THEN s.ctl ELSE Armed(s.ctl)
                               /\ user' = IF armed THEN s.user
                                          ELSE [s.user EXCEPT !.chosen = seed']
              /\ BypassBlock => ctl' = [s.ctl EXCEPT !.voice = ClearPick(@)]
    <2>1. BeginBlock => ~BypassBlock
      BY DEF BeginBlock, BypassBlock
    <2>2. CASE BeginBlock
      BY <2>1, <2>2, Zenon DEF BeginBlock
    <2>3. CASE BypassBlock
      BY <2>1, <2>3, Zenon DEF BypassBlock
    <2>. QED  BY <2>2, <2>3
  <1>. DEFINE s == Events(Entering(user), batch)[Len(batch)]
  <1>3. Len(batch) \in 0..Len(batch)
    BY BatchFacts
  <1>4. s \in LoopStates /\ Follows(s)
    BY <1>1, <1>3, LoopStarts, EventsFollow
  <1>5. BypassBlock => slices' = <<>>
    BY DEF BypassBlock
  <1>6. BypassBlock => ~s.ctl.pending
    <2>. HIDE DEF s
    <2>. QED  BY <1>4, <1>5 DEF Follows
  <1>. QED  BY <1>1, <1>2, <1>4, <1>6, Zenon

(* Before a sample is rendered the note that waits starts, or the pick     *)
(* goes on or is cleared.                                                  *)
LEMMA TriggeredType ==
    ASSUME CInv
    PROVE  LET c == Triggered(ctl) IN
           /\ c \in Runtimes /\ c.note = ctl.note /\ c.active = ctl.active
           /\ ctl.pending => /\ c.sounding = ctl.note /\ c.voice.active
                             /\ ~c.voice.releasing /\ c.voice.style = ctl.style
           /\ ~ctl.pending => /\ c.sounding = ctl.sounding
                              /\ c.voice \in {ctl.voice, ClearPick(ctl.voice)}
  <1>1. ctl \in Runtimes /\ ctl.voice \in Voices /\ slices \in Seq(SliceIds)
    BY ControlAssumption DEF CInv, TypeOK, Runtimes
  <1>2. CASE ctl.pending
    <2>1. ctl.note \in DOMAIN slices /\ ctl.style \in PlaybackStyles
      BY <1>2, <1>1, ControlAssumption DEF CInv, Runtimes
    <2>. DEFINE slice == slices[ctl.note]
                v == Fresh(slice, ctl.style)
    <2>2. slice \in SliceIds
      BY <1>1, <2>1, ElementOfSeq
    <2>3. PassLength(ctl.style, slice) \in Int /\ SliceLen[slice] \in Int
          /\ FoldingStyle(ctl.style) \in BOOLEAN
      <3>. HIDE DEF slice
      <3>. QED  BY <2>1, <2>2, PassLengthType, RendererAssumption DEF FoldingStyle
    <2>4. v \in Voices /\ v.active /\ ~v.releasing /\ v.style = ctl.style
      <3>. HIDE DEF slice
      <3>1. Fresh(slice, ctl.style) \in Voices
        BY <2>1, <2>2, <2>3, StartPickType DEF Fresh
      <3>. QED  BY <3>1 DEF Fresh, StartPick
    <2>5. Triggered(ctl) = [ctl EXCEPT !.sounding = ctl.note, !.voice = v]
      BY <1>2, <2>1, Zenon DEF Triggered
    <2>. HIDE DEF v
    <2>. QED  BY <1>1, <1>2, <2>4, <2>5 DEF Runtimes
  <1>3. CASE ~ctl.pending
    <2>1. Triggered(ctl) \in {ctl, [ctl EXCEPT !.voice = ClearPick(@)]}
      BY <1>3 DEF Triggered
    <2>2. ClearPick(ctl.voice) \in Voices
      BY <1>1, ClearPickType
    <2>. QED  BY <1>1, <1>3, <2>1, <2>2 DEF Runtimes
  <1>. QED  BY <1>2, <1>3

(* A sample: what it leaves. *)
LEMMA SampleCases ==
    ASSUME CInv, Sample
    PROVE  LET c == Triggered(ctl) IN
           /\ ctl' \in Runtimes /\ ~ctl'.pending
           /\ ctl'.sounding = c.sounding /\ ctl'.active = ctl.active
           /\ ctl'.voice = RenderSample(c.voice)
           /\ UNCHANGED <<armed, slices, gate, seed, held, user>>
           /\ left > 0
  <1>. DEFINE c == Triggered(ctl)
  <1>1. c \in Runtimes /\ c.active = ctl.active
    BY TriggeredType
  <1>2. ctl' = [c EXCEPT !.pending = FALSE, !.voice = RenderSample(@)]
    BY DEF Sample
  <1>3. RenderSample(c.voice) \in Voices
    <2>. HIDE DEF c
    <2>. QED  BY <1>1, RenderSampleType DEF Runtimes
  <1>4. UNCHANGED <<armed, slices, gate, seed, held, user>> /\ left > 0
    BY DEF Sample, HostSample
  <1>. HIDE DEF c
  <1>5. /\ ctl' \in Runtimes /\ ~ctl'.pending
        /\ ctl'.sounding = c.sounding /\ ctl'.active = ctl.active
        /\ ctl'.voice = RenderSample(c.voice)
    BY <1>1, <1>2, <1>3 DEF Runtimes
  <1>. QED  BY <1>4, <1>5 DEF c

-----------------------------------------------------------------------------
(* The invariant holds at the start and is kept by every step.             *)
LEMMA StartsClean == Init => CInv
  <1>. SUFFICES ASSUME Init PROVE CInv
    OBVIOUS
  <1>1. HostTypeOK
    BY HostAssumption DEF Init, HostInit, HostTypeOK
  <1>2. IdleVoice \in Voices
    BY DEF IdleVoice, Voices, PlaybackStyles
  <1>3. ctl \in Runtimes /\ ~ctl.pending
    BY <1>2, ControlAssumption DEF Init, Runtimes
  <1>4. user \in Histories /\ user.chosen # NoStyle
    BY StylesNamed DEF Init, Histories
  <1>. QED  BY <1>1, <1>3, <1>4 DEF Init, CInv, TypeOK

(* A block establishes it from what its events keep, a sample plays the    *)
(* note that waited.                                                       *)
LEMMA StepsClean == CInv /\ [Next]_vars => CInv'
  <1>. SUFFICES ASSUME CInv, [Next]_vars PROVE CInv'
    OBVIOUS
  <1>1. CASE BeginBlock
    <2>0. HostTypeOK'
      BY <1>1, HostMoves DEF BeginBlock, CInv, TypeOK
    <2>1. PICK batch \in Batches :
            LET s == Events(Entering(user), batch)[Len(batch)] IN
            /\ s \in LoopStates /\ Follows(s) /\ held' = s.held
            /\ ctl' = IF armed THEN s.ctl ELSE Armed(s.ctl)
            /\ user' = IF armed THEN s.user ELSE [s.user EXCEPT !.chosen = seed']
      BY <1>1, BlockCases
    <2>. DEFINE s == Events(Entering(user), batch)[Len(batch)]
    <2>2. /\ s \in LoopStates /\ Follows(s) /\ held' = s.held
          /\ ctl' = IF armed THEN s.ctl ELSE Armed(s.ctl)
          /\ user' = IF armed THEN s.user ELSE [s.user EXCEPT !.chosen = seed']
      BY <2>1
    <2>. HIDE DEF s
    <2>3. /\ armed' = TRUE /\ slices' \in SliceLists /\ seed' \in Styles /\ gate' \in BOOLEAN
          /\ left' > 0
      BY <1>1, HostAssumption DEF BeginBlock, HostBlock
    <2>4. /\ ctl' \in Runtimes /\ ctl'.pending = s.ctl.pending /\ ctl'.note = s.ctl.note
          /\ ctl'.style = s.ctl.style
          /\ ctl'.active = IF armed THEN s.ctl.active ELSE seed'
      <3>1. s.ctl \in Runtimes /\ ClearPick(s.ctl.voice) \in Voices
        BY <2>2, ClearPickType DEF LoopStates, Runtimes
      <3>. QED  BY <2>2, <2>3, <3>1 DEF Armed, Runtimes
    <2>5. /\ user' \in Histories /\ user'.newest = s.user.newest
          /\ user'.wanted = s.user.wanted
          /\ user'.chosen = IF armed THEN s.user.chosen ELSE seed'
      BY <2>2, <2>3 DEF LoopStates, Histories
    <2>6. s.ctl.active \in Styles
      BY <2>2 DEF LoopStates, Runtimes
    <2>7. user'.chosen = ctl'.active /\ user'.chosen # NoStyle
      BY <2>2, <2>3, <2>4, <2>5, <2>6, StylesNamed DEF Follows
    <2>8. ctl'.pending => /\ ctl'.note \in DOMAIN slices'
                          /\ ctl'.note = user'.newest
                          /\ user'.wanted \in {NoStyle, ctl'.style}
      BY <2>2, <2>4, <2>5 DEF Follows
    <2>9. held' \subseteq Notes
      BY <2>2 DEF LoopStates
    <2>. QED  BY <2>0, <2>3, <2>4, <2>5, <2>7, <2>8, <2>9 DEF CInv, TypeOK
  <1>2. CASE BypassBlock
    <2>0. HostTypeOK'
      BY <1>2, HostMoves DEF BypassBlock, CInv, TypeOK
    <2>1. PICK batch \in Batches :
            LET s == Events(Entering(user), batch)[Len(batch)] IN
            /\ s \in LoopStates /\ held' = s.held
            /\ ctl' = [s.ctl EXCEPT !.voice = ClearPick(@)] /\ ~s.ctl.pending
      BY <1>2, BlockCases
    <2>. DEFINE s == Events(Entering(user), batch)[Len(batch)]
    <2>2. /\ s \in LoopStates /\ held' = s.held
          /\ ctl' = [s.ctl EXCEPT !.voice = ClearPick(@)] /\ ~s.ctl.pending
      BY <2>1
    <2>. HIDE DEF s
    <2>3. ctl' \in Runtimes /\ ~ctl'.pending
      <3>1. s.ctl \in Runtimes /\ ClearPick(s.ctl.voice) \in Voices
        BY <2>2, ClearPickType DEF LoopStates, Runtimes
      <3>. QED  BY <2>2, <3>1 DEF Runtimes
    <2>4. held' \subseteq Notes
      BY <2>2 DEF LoopStates
    <2>5. /\ armed' = FALSE /\ slices' \in SliceLists /\ seed' \in Styles
          /\ gate' \in BOOLEAN /\ user' = user
      BY <1>2 DEF BypassBlock
    <2>. QED  BY <2>0, <2>3, <2>4, <2>5 DEF CInv, TypeOK
  <1>3. CASE Sample
    <2>0. HostTypeOK'
      BY <1>3, HostMoves DEF Sample, CInv, TypeOK
    <2>1. /\ ctl' \in Runtimes /\ ~ctl'.pending /\ ctl'.active = ctl.active
          /\ UNCHANGED <<armed, slices, gate, seed, held, user>>
      BY <1>3, SampleCases
    <2>. QED  BY <2>0, <2>1 DEF CInv, TypeOK
  <1>4. CASE UNCHANGED vars
    BY <1>4 DEF vars, hostVars, CInv, TypeOK, HostTypeOK
  <1>. QED  BY <1>1, <1>2, <1>3, <1>4 DEF Next

(* A note that waits for its sample is the newest one, in the style it was *)
(* asked for with, and its slice exists (Scheduler.cpp:1170-1193).         *)
THEOREM ControlInvariant == Spec => []CInv
  BY StartsClean, StepsClean, PTL DEF Spec

(* The types of every variable are as declared: every pick plays a slice   *)
(* of the block's list in a style that has a keyswitch                     *)
(* (Scheduler.cpp:1206-1272).                                              *)
THEOREM ControlTypes == Spec => []TypeOK
  <1>1. CInv => TypeOK
    BY DEF CInv
  <1>. QED  BY <1>1, ControlInvariant, PTL

(* The newest note is played in the style that was selected when it        *)
(* arrived (Scheduler.h:54-55).                                            *)
THEOREM SelectedStyle == Spec => StyleAsSelected
  <1>1. CInv /\ [Next]_vars =>
          [left' < left /\ ctl.pending /\ ctl'.sounding = user.newest =>
             user.wanted \in {NoStyle, ctl'.voice.style}]_vars
    <2>. SUFFICES ASSUME CInv, Next, left' < left, ctl.pending
                  PROVE  user.wanted \in {NoStyle, ctl'.voice.style}
      OBVIOUS
    <2>1. left \in Nat
      BY DEF CInv, TypeOK, HostTypeOK
    <2>2. ~BeginBlock /\ ~BypassBlock
      <3>1. BeginBlock \/ BypassBlock => left = 0
        BY DEF BeginBlock, BypassBlock, HostBlock
      <3>2. left # 0
        BY DEF CInv
      <3>. QED  BY <3>1, <3>2
    <2>3. Sample
      BY <2>2 DEF Next
    <2>4. ctl'.voice = RenderSample(Triggered(ctl).voice)
      BY <2>3, SampleCases
    <2>5. Triggered(ctl).voice \in Voices /\ Triggered(ctl).voice.style = ctl.style
      BY TriggeredType DEF Runtimes
    <2>6. ctl'.voice.style = ctl.style
      BY <2>4, <2>5, RenderKeepsPick
    <2>. QED  BY <2>6 DEF CInv
  <1>. QED  BY <1>1, ControlInvariant, PTL DEF Spec, StyleAsSelected
-----------------------------------------------------------------------------
(* What the events keep of the gate: the key of a note that waits is down  *)
(* or went up unheeded, and so is that of the pick that sounds, which is   *)
(* the newest note if none waits.                                          *)
Gated(s) ==
    /\ s.ctl.pending => /\ s.user.fresh
                        /\ s.ctl.note \in s.held \/ s.user.lapsed
    /\ armed /\ ~s.ctl.pending /\ s.ctl.voice.active =>
         /\ s.ctl.sounding = s.user.newest
         /\ s.ctl.voice.releasing \/ s.ctl.sounding \in s.held \/ s.user.lapsed

(* One event keeps it: the key that goes up begins the fade of its pick,   *)
(* or it goes up unheeded.                                                 *)
LEMMA EventGated ==
    ASSUME NEW s \in LoopStates, NEW e \in Event, Follows(s), Gated(s)
    PROVE  Gated(OneEvent(s, e))
  <1>. DEFINE t == OneEvent(s, e)
  <1>0. s.ctl \in Runtimes /\ s.user \in Histories /\ s.ctl.voice \in Voices
    BY DEF LoopStates, Runtimes
  <1>1. CASE \E k \in Notes : e = <<"on", k>>
    <2>1. PICK k \in Notes : e = <<"on", k>>
      BY <1>1
    <2>2. /\ t.held = s.held \cup {k}
          /\ HasSlice(k) => t.ctl.pending /\ t.ctl.note = k /\ t.user.fresh
          /\ ~HasSlice(k) => t.ctl = s.ctl /\ t.user = [s.user EXCEPT !.mute = @ \cup {k}]
      BY <2>1, PressType
    <2>. HIDE DEF t
    <2>3. HasSlice(k) => Gated(t)
      BY <2>2 DEF Gated
    <2>4. ASSUME ~HasSlice(k) PROVE Gated(t)
      <3>1. /\ t.user.fresh = s.user.fresh /\ t.user.lapsed = s.user.lapsed
            /\ t.user.newest = s.user.newest
        BY <1>0, <2>2, <2>4 DEF Histories
      <3>. QED  BY <2>2, <2>4, <3>1 DEF Gated
    <2>. QED  BY <2>3, <2>4 DEF t
  <1>2. CASE \E k \in Notes : e = <<"off", k>>
    <2>1. PICK k \in Notes : e = <<"off", k>>
      BY <1>2
    <2>2. /\ t.held = s.held \ {k}
          /\ t.user = [s.user EXCEPT !.lapsed = @ \/ (k = s.user.newest
                                                      /\ (s.user.fresh \/ ~gate'))]
          /\ t.ctl.pending = s.ctl.pending /\ t.ctl.note = s.ctl.note
          /\ t.ctl.sounding = s.ctl.sounding
          /\ IF gate' /\ k = s.ctl.sounding /\ s.ctl.voice.active
             THEN t.ctl.voice = BeginGateRelease(s.ctl.voice)
             ELSE t.ctl.voice = s.ctl.voice
      BY <2>1, ReleaseType
    <2>3. BeginGateRelease(s.ctl.voice).releasing
      BY <1>0 DEF BeginGateRelease, Voices
    <2>. HIDE DEF t
    <2>4. /\ t.user.fresh = s.user.fresh /\ t.user.newest = s.user.newest
          /\ t.user.lapsed = (s.user.lapsed \/ (k = s.user.newest
                                                /\ (s.user.fresh \/ ~gate')))
      BY <1>0, <2>2 DEF Histories
    <2>5. t.ctl.pending => t.user.fresh /\ (t.ctl.note \in t.held \/ t.user.lapsed)
      BY <2>2, <2>4 DEF Gated, Follows
    <2>6. ASSUME armed, ~t.ctl.pending, t.ctl.voice.active
          PROVE  /\ t.ctl.sounding = t.user.newest
                 /\ t.ctl.voice.releasing \/ t.ctl.sounding \in t.held \/ t.user.lapsed
      <3>1. CASE gate' /\ k = s.ctl.sounding /\ s.ctl.voice.active
        BY <2>2, <2>3, <2>4, <2>6, <3>1 DEF Gated
      <3>2. CASE ~(gate' /\ k = s.ctl.sounding /\ s.ctl.voice.active)
        <4>1. t.ctl.voice = s.ctl.voice
          BY <2>2, <3>2
        <4>. QED  BY <2>2, <2>4, <2>6, <3>2, <4>1 DEF Gated
      <3>. QED  BY <3>1, <3>2
    <2>7. Gated(t)
      BY <2>5, <2>6 DEF Gated
    <2>. QED  BY <2>7 DEF t
  <1>3. CASE \E st \in Styles : e = <<"keyswitch", st>>
    <2>1. PICK st \in Styles : e = <<"keyswitch", st>>
      BY <1>3
    <2>2. /\ t.held = s.held
          /\ t.ctl.pending = s.ctl.pending /\ t.ctl.note = s.ctl.note
          /\ t.ctl.sounding = s.ctl.sounding /\ t.ctl.voice = s.ctl.voice
          /\ t.user = [s.user EXCEPT !.chosen = st]
      BY <2>1, KeyswitchType
    <2>. HIDE DEF t
    <2>3. /\ t.user.fresh = s.user.fresh /\ t.user.lapsed = s.user.lapsed
          /\ t.user.newest = s.user.newest
      BY <1>0, <2>2 DEF Histories
    <2>4. Gated(t)
      BY <2>2, <2>3 DEF Gated
    <2>. QED  BY <2>4 DEF t
  <1>. QED  BY <1>1, <1>2, <1>3, EventCases

(* The inductive invariant of the gate: the pick that sounds is the newest *)
(* note, and it fades, or its key is down, or its key went up unheeded.    *)
GateInv ==
    /\ CInv
    /\ ctl.pending => ctl.note \in held \/ user.lapsed
    /\ armed /\ ~ctl.pending /\ ctl.voice.active =>
         /\ ctl.sounding = user.newest
         /\ ctl.voice.releasing \/ ctl.sounding \in held \/ user.lapsed

(* All the events of a block keep it. *)
LEMMA EventsGated ==
    ASSUME GateInv, left = 0, NEW batch \in Batches
    PROVE  Gated(Events(Entering(user), batch)[Len(batch)])
  <1>. DEFINE u == Entering(user)
              after == Events(u, batch)
              n == Len(batch)
              G == {j \in 0..n : Gated(after[j])}
  <1>1. n \in Nat /\ \A j \in 1..n : batch[j] \in Event
    BY BatchFacts
  <1>2. after[0] = Start(u) /\ \A j \in 0..n : j # n =>
                                 after[j + 1] = OneEvent(after[j], batch[j + 1])
    BY EventsStep
  <1>3. \A j \in 0..n : after[j] \in LoopStates /\ Follows(after[j])
    BY LoopStarts, EventsFollow DEF GateInv
  <1>4. /\ Start(u) = [ctl |-> ctl, held |-> held, user |-> u] /\ ~Start(u).ctl.pending
        /\ u.newest = user.newest /\ u.lapsed = user.lapsed
    BY LoopStarts DEF Start, GateInv
  <1>. HIDE DEF after, n, u
  <1>5. 0 \in G
    <2>1. Gated(Start(u))
      BY <1>4 DEF Gated, GateInv
    <2>. QED  BY <1>1, <1>2, <2>1
  <1>6. ASSUME NEW j \in 0..n, j # n, j \in G PROVE j + 1 \in G
    <2>1. j + 1 \in 0..n /\ j + 1 \in 1..n
      BY <1>1, <1>6
    <2>2. Gated(after[j]) /\ after[j] \in LoopStates /\ Follows(after[j])
      BY <1>3, <1>6
    <2>3. Gated(OneEvent(after[j], batch[j + 1]))
      BY <1>1, <2>1, <2>2, EventGated
    <2>. QED  BY <1>2, <1>6, <2>1, <2>3
  <1>7. \A j \in 0..n : j \in G
    <2>. HIDE DEF G
    <2>. QED  BY <1>1, <1>5, <1>6, UpTo
  <1>. QED  BY <1>1, <1>7 DEF after, n, u

(* A sample neither starts a fade nor takes one back. *)
LEMMA RenderFade ==
    ASSUME NEW v \in Voices
    PROVE  LET w == RenderSample(v) IN
           /\ w.active => v.active
           /\ w.active /\ ~w.releasing => v.active /\ ~v.releasing
           /\ w.releasing => v.releasing /\ w.age >= v.age
  <1>. DEFINE w == RenderSample(v)
              done == ReleaseCompletes(v)
  <1>0. /\ PpqPerSample \in Nat /\ v.age \in Nat /\ v.releasing \in BOOLEAN
        /\ done \in BOOLEAN /\ (done => v.releasing)
    BY HostAssumption DEF Voices, ReleaseCompletes
  <1>1. CASE Finished(v)
    BY <1>0, <1>1 DEF RenderSample
  <1>2. CASE ~Finished(v)
    <2>1. w = [v EXCEPT !.since = @ + PpqPerSample,
                        !.age = IF v.releasing THEN @ + PpqPerSample ELSE @,
                        !.active = ~done, !.releasing = @ /\ ~done]
      BY <1>2, Zenon DEF RenderSample
    <2>2. v.active
      BY <1>2 DEF Finished
    <2>. HIDE DEF w, done
    <2>3. /\ w.active = ~done /\ w.releasing = (v.releasing /\ ~done)
          /\ w.age = IF v.releasing THEN v.age + PpqPerSample ELSE v.age
      BY <2>1 DEF Voices
    <2>4. /\ w.active => v.active
          /\ w.active /\ ~w.releasing => v.active /\ ~v.releasing
          /\ w.releasing => v.releasing /\ w.age >= v.age
      BY <1>0, <2>2, <2>3
    <2>. QED  BY <2>4 DEF w
  <1>. QED  BY <1>1, <1>2

(* In gate mode a pick lives on only while its key is down or its release  *)
(* fade runs, unless its key went up before the pick had started or while  *)
(* gate mode was off (Scheduler.cpp:1195-1204, Scheduler.h:57-58).         *)
THEOREM GateKept == Spec => []GateHolds
  <1>1. Init => GateInv
    BY StartsClean DEF Init, GateInv
  <1>2. GateInv /\ [Next]_vars => GateInv'
    <2>. SUFFICES ASSUME GateInv, [Next]_vars PROVE GateInv'
      OBVIOUS
    <2>0. CInv /\ CInv'
      BY StepsClean DEF GateInv
    <2>1. CASE BeginBlock
      <3>1. left = 0
        BY <2>1 DEF BeginBlock, HostBlock
      <3>2. PICK batch \in Batches :
              LET s == Events(Entering(user), batch)[Len(batch)] IN
              /\ s \in LoopStates /\ held' = s.held
              /\ ctl' = IF armed THEN s.ctl ELSE Armed(s.ctl)
              /\ user' = IF armed THEN s.user ELSE [s.user EXCEPT !.chosen = seed']
        BY <2>0, <2>1, BlockCases
      <3>. DEFINE s == Events(Entering(user), batch)[Len(batch)]
      <3>3. Gated(s)
        BY <3>1, EventsGated
      <3>4. /\ s \in LoopStates /\ held' = s.held
            /\ ctl' = IF armed THEN s.ctl ELSE Armed(s.ctl)
            /\ user' = IF armed THEN s.user ELSE [s.user EXCEPT !.chosen = seed']
        BY <3>2
      <3>. HIDE DEF s
      <3>5. s.ctl \in Runtimes /\ s.ctl.voice \in Voices /\ s.user \in Histories
        BY <3>4 DEF LoopStates, Runtimes
      <3>6. CASE armed
        BY <2>0, <3>3, <3>4, <3>6 DEF Gated, GateInv
      <3>7. CASE ~armed
        <4>1. ctl'.pending = s.ctl.pending /\ ctl'.note = s.ctl.note /\ ~ctl'.voice.active
          BY <3>4, <3>5, <3>7 DEF Armed, ClearPick, Runtimes, Voices
        <4>2. user'.lapsed = s.user.lapsed
          BY <3>4, <3>5, <3>7 DEF Histories
        <4>. QED  BY <2>0, <3>3, <3>4, <4>1, <4>2 DEF Gated, GateInv
      <3>. QED  BY <3>6, <3>7
    <2>2. CASE BypassBlock
      <3>1. PICK batch \in Batches :
              LET s == Events(Entering(user), batch)[Len(batch)] IN
              /\ s \in LoopStates /\ ctl' = [s.ctl EXCEPT !.voice = ClearPick(@)]
              /\ ~s.ctl.pending
        BY <2>0, <2>2, BlockCases
      <3>. DEFINE s == Events(Entering(user), batch)[Len(batch)]
      <3>2. /\ s \in LoopStates /\ ctl' = [s.ctl EXCEPT !.voice = ClearPick(@)]
            /\ ~s.ctl.pending
        BY <3>1
      <3>. HIDE DEF s
      <3>3. ~ctl'.pending /\ ~ctl'.voice.active
        BY <3>2 DEF LoopStates, Runtimes, Voices, ClearPick
      <3>. QED  BY <2>0, <3>3 DEF GateInv
    <2>3. CASE Sample
      <3>. DEFINE c == Triggered(ctl)
      <3>1. /\ ~ctl'.pending /\ ctl'.sounding = c.sounding
            /\ ctl'.voice = RenderSample(c.voice)
            /\ UNCHANGED <<armed, gate, held, user>>
        BY <2>0, <2>3, SampleCases
      <3>2. /\ c \in Runtimes
            /\ ctl.pending => c.sounding = ctl.note
            /\ ~ctl.pending => /\ c.sounding = ctl.sounding
                               /\ c.voice \in {ctl.voice, ClearPick(ctl.voice)}
        BY <2>0, TriggeredType
      <3>. HIDE DEF c
      <3>3. c.voice \in Voices /\ ctl.voice \in Voices
        BY <2>0, <3>2 DEF CInv, TypeOK, Runtimes
      <3>4. /\ ctl'.voice.active => c.voice.active
            /\ ctl'.voice.active /\ ~ctl'.voice.releasing => ~c.voice.releasing
        BY <3>1, <3>3, RenderFade
      <3>5. ~ctl.pending /\ c.voice.active => c.voice = ctl.voice
        BY <3>2, <3>3 DEF ClearPick, Voices
      <3>6. ctl.pending => ctl.note = user.newest
        BY <2>0 DEF CInv
      <3>. QED  BY <2>0, <3>1, <3>2, <3>4, <3>5, <3>6 DEF GateInv
    <2>4. CASE UNCHANGED vars
      BY <2>0, <2>4 DEF vars, GateInv
    <2>. QED  BY <2>1, <2>2, <2>3, <2>4 DEF Next
  <1>3. GateInv => GateHolds
    BY DEF GateInv, GateHolds
  <1>. QED  BY <1>1, <1>2, <1>3, PTL DEF Spec
-----------------------------------------------------------------------------
(* What the events keep of a fade: its key is up, or another note waits,   *)
(* or the key was pressed again without a slice; and short of the last two *)
(* a fade that ran at the start of the block runs on untouched, because    *)
(* the second release it would take to disturb it needs a press before it. *)
Fading(s) ==
    /\ s.ctl.sounding = ctl.sounding
    /\ s.ctl.voice.releasing =>
         s.ctl.sounding \notin s.held \/ s.ctl.pending \/ s.ctl.sounding \in s.user.mute
    /\ ctl.voice.releasing =>
         s.ctl.voice = ctl.voice \/ s.ctl.pending \/ ctl.sounding \in s.user.mute

(* One event keeps it. *)
LEMMA EventFading ==
    ASSUME NEW s \in LoopStates, NEW e \in Event, Fits(s.held, e), Fading(s)
    PROVE  Fading(OneEvent(s, e))
  <1>. DEFINE t == OneEvent(s, e)
  <1>0. s.user \in Histories
    BY DEF LoopStates
  <1>1. CASE \E k \in Notes : e = <<"on", k>>
    <2>1. PICK k \in Notes : e = <<"on", k>>
      BY <1>1
    <2>2. /\ t.held = s.held \cup {k}
          /\ t.ctl.voice = s.ctl.voice /\ t.ctl.sounding = s.ctl.sounding
          /\ HasSlice(k) => t.ctl.pending
          /\ ~HasSlice(k) => t.ctl = s.ctl /\ t.user = [s.user EXCEPT !.mute = @ \cup {k}]
      BY <2>1, PressType
    <2>. HIDE DEF t
    <2>3. HasSlice(k) => Fading(t)
      BY <2>2 DEF Fading
    <2>4. ASSUME ~HasSlice(k) PROVE Fading(t)
      <3>1. t.user.mute = s.user.mute \cup {k}
        BY <1>0, <2>2, <2>4 DEF Histories
      <3>. QED  BY <2>2, <2>4, <3>1 DEF Fading
    <2>. QED  BY <2>3, <2>4 DEF t
  <1>2. CASE \E k \in Notes : e = <<"off", k>>
    <2>1. PICK k \in Notes : e = <<"off", k>>
      BY <1>2
    <2>2. /\ t.held = s.held \ {k}
          /\ t.user = [s.user EXCEPT !.lapsed = @ \/ (k = s.user.newest
                                                      /\ (s.user.fresh \/ ~gate'))]
          /\ t.ctl.pending = s.ctl.pending /\ t.ctl.sounding = s.ctl.sounding
          /\ k # s.ctl.sounding => t.ctl.voice = s.ctl.voice
      BY <2>1, ReleaseType
    <2>3. t.user.mute = s.user.mute
      BY <1>0, <2>2 DEF Histories
    <2>4. k \in s.held
      <3>1. e[1] = "off" /\ e[2] = k
        BY <2>1
      <3>. QED  BY <3>1 DEF Fits
    <2>. HIDE DEF t
    <2>5. k = s.ctl.sounding => Fading(t)
      BY <2>2, <2>3, <2>4 DEF Fading
    <2>6. k # s.ctl.sounding => Fading(t)
      BY <2>2, <2>3 DEF Fading
    <2>. QED  BY <2>5, <2>6 DEF t
  <1>3. CASE \E st \in Styles : e = <<"keyswitch", st>>
    <2>1. PICK st \in Styles : e = <<"keyswitch", st>>
      BY <1>3
    <2>2. /\ t.held = s.held /\ t.ctl.pending = s.ctl.pending
          /\ t.ctl.sounding = s.ctl.sounding /\ t.ctl.voice = s.ctl.voice
          /\ t.user = [s.user EXCEPT !.chosen = st]
      BY <2>1, KeyswitchType
    <2>. HIDE DEF t
    <2>3. t.user.mute = s.user.mute
      BY <1>0, <2>2 DEF Histories
    <2>4. Fading(t)
      BY <2>2, <2>3 DEF Fading
    <2>. QED  BY <2>4 DEF t
  <1>. QED  BY <1>1, <1>2, <1>3, EventCases

(* The inductive invariant of the fade. *)
FadeInv ==
    /\ CInv
    /\ ctl.voice.releasing =>
         ctl.sounding \notin held \/ ctl.pending \/ ctl.sounding \in user.mute

(* All the events of a block keep it. *)
LEMMA EventsFading ==
    ASSUME FadeInv, left = 0, NEW batch \in Batches,
           Playable(batch, Events(Entering(user), batch))
    PROVE  Fading(Events(Entering(user), batch)[Len(batch)])
  <1>. DEFINE u == Entering(user)
              after == Events(u, batch)
              n == Len(batch)
              G == {j \in 0..n : Fading(after[j])}
  <1>1. n \in Nat /\ DOMAIN batch = 1..n /\ \A j \in 1..n : batch[j] \in Event
    BY BatchFacts
  <1>2. after[0] = Start(u) /\ \A j \in 0..n : j # n =>
                                 after[j + 1] = OneEvent(after[j], batch[j + 1])
    BY EventsStep
  <1>3. \A j \in 0..n : after[j] \in LoopStates
    BY LoopStarts, EventsFollow DEF FadeInv
  <1>4. /\ Start(u) = [ctl |-> ctl, held |-> held, user |-> u] /\ ~Start(u).ctl.pending
        /\ u.mute = user.mute
    BY LoopStarts DEF Start, FadeInv
  <1>5. \A j \in DOMAIN batch : Fits(after[j - 1].held, batch[j])
    BY DEF Playable
  <1>. HIDE DEF after, n, u
  <1>6. 0 \in G
    <2>1. Fading(Start(u))
      BY <1>4 DEF Fading, FadeInv
    <2>. QED  BY <1>1, <1>2, <2>1
  <1>7. ASSUME NEW j \in 0..n, j # n, j \in G PROVE j + 1 \in G
    <2>1. j + 1 \in 0..n /\ j + 1 \in 1..n /\ (j + 1) - 1 = j
      BY <1>1, <1>7
    <2>2. Fading(after[j]) /\ after[j] \in LoopStates
      BY <1>3, <1>7
    <2>3. Fits(after[j].held, batch[j + 1]) /\ batch[j + 1] \in Event
      BY <1>1, <1>5, <2>1
    <2>4. Fading(OneEvent(after[j], batch[j + 1]))
      BY <2>2, <2>3, EventFading
    <2>. QED  BY <1>2, <1>7, <2>1, <2>4
  <1>8. \A j \in 0..n : j \in G
    <2>. HIDE DEF G
    <2>. QED  BY <1>1, <1>6, <1>7, UpTo
  <1>. QED  BY <1>1, <1>8 DEF after, n, u

(* A fade's age does not drop. *)
AgeKept ==
    ctl.voice.releasing /\ ctl'.voice.releasing /\ ~ctl'.pending =>
        ctl'.voice.age >= ctl.voice.age \/ ctl.sounding \in user'.mute

(* Every step keeps the invariant, and the age of a fade does not drop. *)
LEMMA FadeStep ==
    ASSUME FadeInv, [Next]_vars
    PROVE  FadeInv' /\ AgeKept
  <1>0. CInv /\ CInv' /\ ctl.voice \in Voices /\ ctl.voice.age \in Nat
    BY StepsClean DEF FadeInv, CInv, TypeOK, Runtimes, Voices
  <1>1. CASE BeginBlock
    <2>1. left = 0
      BY <1>1 DEF BeginBlock, HostBlock
    <2>2. PICK batch \in Batches :
            LET after == Events(Entering(user), batch)
                s == after[Len(batch)] IN
            /\ Playable(batch, after) /\ s \in LoopStates /\ held' = s.held
            /\ ctl' = IF armed THEN s.ctl ELSE Armed(s.ctl)
            /\ user' = IF armed THEN s.user ELSE [s.user EXCEPT !.chosen = seed']
      BY <1>0, <1>1, BlockCases
    <2>. DEFINE s == Events(Entering(user), batch)[Len(batch)]
    <2>3. Fading(s)
      BY <2>1, <2>2, EventsFading
    <2>4. /\ s \in LoopStates /\ held' = s.held
          /\ ctl' = IF armed THEN s.ctl ELSE Armed(s.ctl)
          /\ user' = IF armed THEN s.user ELSE [s.user EXCEPT !.chosen = seed']
      BY <2>2
    <2>. HIDE DEF s
    <2>5. s.ctl \in Runtimes /\ s.ctl.voice \in Voices
      BY <2>4 DEF LoopStates, Runtimes
    <2>6. CASE armed
      BY <1>0, <2>3, <2>4, <2>6 DEF Fading, FadeInv, AgeKept
    <2>7. CASE ~armed
      <3>1. ~ctl'.voice.releasing
        BY <2>4, <2>5, <2>7 DEF Armed, ClearPick, Runtimes, Voices
      <3>. QED  BY <1>0, <3>1 DEF FadeInv, AgeKept
    <2>. QED  BY <2>6, <2>7
  <1>2. CASE BypassBlock
    <2>1. PICK batch \in Batches :
            LET s == Events(Entering(user), batch)[Len(batch)] IN
            /\ s \in LoopStates /\ ctl' = [s.ctl EXCEPT !.voice = ClearPick(@)]
      BY <1>0, <1>2, BlockCases
    <2>. DEFINE s == Events(Entering(user), batch)[Len(batch)]
    <2>2. s \in LoopStates /\ ctl' = [s.ctl EXCEPT !.voice = ClearPick(@)]
      BY <2>1
    <2>. HIDE DEF s
    <2>3. ~ctl'.voice.releasing
      BY <2>2 DEF LoopStates, Runtimes, Voices, ClearPick
    <2>. QED  BY <1>0, <2>3 DEF FadeInv, AgeKept
  <1>3. CASE Sample
    <2>. DEFINE c == Triggered(ctl)
    <2>1. /\ ~ctl'.pending /\ ctl'.sounding = c.sounding
          /\ ctl'.voice = RenderSample(c.voice) /\ held' = held /\ user' = user
      BY <1>0, <1>3, SampleCases
    <2>2. /\ c \in Runtimes
          /\ ctl.pending => ~c.voice.releasing
          /\ ~ctl.pending => /\ c.sounding = ctl.sounding
                             /\ c.voice \in {ctl.voice, ClearPick(ctl.voice)}
      BY <1>0, TriggeredType
    <2>. HIDE DEF c
    <2>3. c.voice \in Voices
      BY <2>2 DEF Runtimes
    <2>4. ctl'.voice.releasing => c.voice.releasing /\ ctl'.voice.age >= c.voice.age
      BY <2>1, <2>3, RenderFade
    <2>5. c.voice.releasing => ~ctl.pending /\ c.voice = ctl.voice
      BY <1>0, <2>2 DEF ClearPick, Voices
    <2>. QED  BY <1>0, <2>1, <2>2, <2>4, <2>5 DEF FadeInv, AgeKept
  <1>4. CASE UNCHANGED vars
    BY <1>0, <1>4 DEF vars, FadeInv, AgeKept
  <1>. QED  BY <1>1, <1>2, <1>3, <1>4 DEF Next

(* A release fade never starts over while it is heard, unless its key was  *)
(* pressed again without a slice (Scheduler.cpp:1195-1204,                 *)
(* PickRenderer.h:140-144).                                                *)
THEOREM FadesOnce == Spec => FadeNeverRestarts
  <1>1. Init => FadeInv
    BY StartsClean DEF Init, FadeInv, IdleVoice
  <1>2. FadeInv /\ [Next]_vars => FadeInv'
    BY FadeStep
  <1>3. FadeInv /\ [Next]_vars =>
          [ctl.voice.releasing /\ ctl'.voice.releasing /\ ~ctl'.pending =>
             ctl'.voice.age >= ctl.voice.age \/ ctl.sounding \in user'.mute]_vars
    BY FadeStep DEF AgeKept
  <1>. QED  BY <1>1, <1>2, <1>3, PTL DEF Spec, FadeNeverRestarts
=============================================================================
