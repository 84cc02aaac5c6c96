------------------------- MODULE PickRenderer_proofs -------------------------
(***************************************************************************)
(* Lemmas about the host's timeline and the voice, for the proofs of the   *)
(* trigger modes.                                                          *)
(***************************************************************************)
EXTENDS PickRenderer, TLAPS

(* The boundary after a position is ahead of it by at most one grid step.  *)
LEMMA NextBoundaryAhead ==
    ASSUME NEW p \in Int, NEW g \in Nat \ {0}
    PROVE  /\ NextBoundary(p, g) \in Int
           /\ p < NextBoundary(p, g)
           /\ NextBoundary(p, g) <= p + g
  <1>1. p % g \in 0 .. (g - 1)
    OBVIOUS
  <1>. QED  BY <1>1 DEF NextBoundary

(* It is a grid point, and the next one after every position in between.   *)
LEMMA NextBoundaryOnGrid ==
    ASSUME NEW p \in Int, NEW g \in Nat \ {0}
    PROVE  NextBoundary(p, g) % g = 0
  <1>1. p = g * (p \div g) + (p % g) /\ p \div g \in Int
    OBVIOUS
  <1>2. PICK q \in Int : NextBoundary(p, g) = g * q
    <2>1. NextBoundary(p, g) = g * ((p \div g) + 1)
      BY <1>1 DEF NextBoundary
    <2>2. (p \div g) + 1 \in Int
      BY <1>1
    <2>. WITNESS (p \div g) + 1 \in Int
    <2>. QED  BY <2>1
  <1>3. (g * q) % g = 0
    OBVIOUS
  <1>. QED  BY <1>2, <1>3

LEMMA NextBoundaryUnique ==
    ASSUME NEW p \in Int, NEW g \in Nat \ {0}, NEW e \in Int,
           e % g = 0, e - g <= p, p < e
    PROVE  NextBoundary(p, g) = e
  <1>1. PICK a \in Int : e = g * a
    <2>1. e = g * (e \div g) + (e % g) /\ e \div g \in Int
      OBVIOUS
    <2>. QED  BY <2>1
  <1>2. PICK b \in Int, r \in 0 .. (g - 1) : p = g * b + r /\ r = p % g
    <2>1. p = g * (p \div g) + (p % g) /\ p \div g \in Int /\ p % g \in 0 .. (g - 1)
      OBVIOUS
    <2>. QED  BY <2>1
  <1>3. g * b < g * a /\ g * (a - 1) < g * (b + 1)
    BY <1>1, <1>2
  <1>4. b < a /\ a - 1 < b + 1
    BY <1>3
  <1>5. a = b + 1
    BY <1>4
  <1>. QED  BY <1>1, <1>2, <1>5 DEF NextBoundary

(* Quotient and remainder are what they are. *)
LEMMA DivisionUnique ==
    ASSUME NEW g \in Nat \ {0}, NEW k \in Int, NEW r \in 0 .. (g - 1)
    PROVE  (g * k + r) \div g = k /\ (g * k + r) % g = r
  <1>. DEFINE a == g * k + r
              q == a \div g
              m == a % g
  <1>1. a \in Int /\ q \in Int /\ m \in 0 .. (g - 1) /\ a = g * q + m
    OBVIOUS
  <1>2. g * q + m = g * k + r
    BY <1>1
  <1>3. g * (q - k) = r - m
    <2>. HIDE DEF q, m
    <2>. QED  BY <1>1, <1>2
  <1>4. q - k = 0
    <2>. HIDE DEF q, m
    <2>1. PICK d \in Int : d = q - k
      BY <1>1
    <2>2. g * d < g /\ g * d > -g
      BY <1>1, <1>3, <2>1
    <2>3. d < 1 /\ d > -1
      BY <2>2
    <2>. QED  BY <2>1, <2>3
  <1>. QED
    <2>. HIDE DEF q, m
    <2>1. q = k /\ m = r
      BY <1>1, <1>2, <1>4
    <2>. QED  BY <2>1 DEF q, m

LEMMA Multiple ==
    ASSUME NEW e \in Int, NEW g \in Nat \ {0}, e % g = 0
    PROVE  \E k \in Int : e = g * k
  <1>1. e = g * (e \div g) + (e % g) /\ e \div g \in Int
    OBVIOUS
  <1>2. e = g * (e \div g)
    <2>. DEFINE q == e \div g
                m == e % g
    <2>1. e = g * q + m /\ m = 0 /\ q \in Int
      BY <1>1
    <2>. HIDE DEF q, m
    <2>2. g * q \in Int
      BY <2>1
    <2>3. e = g * q
      BY <2>1, <2>2
    <2>. QED  BY <2>3 DEF q
  <1>. QED  BY <1>1, <1>2

(* A position less than a sample past a grid point. *)
LEMMA JustPast ==
    ASSUME NEW at \in Int, NEW e \in Int, NEW g \in Nat \ {0}, NEW d \in Nat \ {0},
           e % g = 0, e <= at, at < e + d
    PROVE  at % g < d
  <1>1. PICK k \in Int : e = g * k
    BY Multiple
  <1>2. CASE g <= d
    <2>1. at % g \in 0 .. (g - 1)
      OBVIOUS
    <2>. QED  BY <1>2, <2>1
  <1>3. CASE d < g
    <2>1. PICK r \in 0 .. (g - 1) : r = at - e /\ r < d
      BY <1>3
    <2>2. at = g * k + r
      BY <1>1, <2>1
    <2>. QED  BY <2>1, <2>2, DivisionUnique
  <1>. QED  BY <1>2, <1>3

(* One full pass of a slice has a length.                                  *)
LEMMA PassLengthType ==
    ASSUME NEW slice \in SliceIds, NEW style \in PlaybackStyles
    PROVE  PassLength(style, slice) \in Nat
  <1>. DEFINE factor == IF style = "pingPong" THEN 2
                        ELSE IF style = "stretch" THEN GrainSpeed ELSE 1
  <1>1. SliceLen[slice] \in Nat /\ ScratchCycle \in Nat
    BY RendererAssumption DEF SliceIds
  <1>2. factor \in Nat
    BY RendererAssumption
  <1>3. SliceLen[slice] * factor \in Nat
    <2>. HIDE DEF factor
    <2>. QED  BY <1>1, <1>2
  <1>. QED  BY <1>1, <1>3 DEF PassLength

(* Starting a pick of an existing slice makes a voice.                     *)
LEMMA StartPickType ==
    ASSUME NEW slice \in SliceIds, NEW style \in PlaybackStyles,
           NEW len \in Int, NEW stop \in Int, NEW gated \in BOOLEAN
    PROVE  StartPick(slice, style, len, stop, gated) \in Voices
  BY PassLengthType DEF StartPick, Voices

(* A cleared pick, and a rendered sample, leave a voice.                   *)
LEMMA ClearPickType ==
    ASSUME NEW v \in Voices
    PROVE  ClearPick(v) \in Voices
  BY DEF ClearPick, Voices

LEMMA RenderSampleType ==
    ASSUME NEW v \in Voices
    PROVE  RenderSample(v) \in Voices
  <1>1. PpqPerSample \in Nat
    BY HostAssumption
  <1>2. ReleaseCompletes(v) \in BOOLEAN
    BY DEF ReleaseCompletes, Voices
  <1>3. v.since + PpqPerSample \in Nat /\ v.age + PpqPerSample \in Nat
    BY <1>1 DEF Voices
  <1>4. CASE Finished(v)
    BY <1>4 DEF RenderSample
  <1>5. CASE ~Finished(v)
    <2>. DEFINE since == v.since + PpqPerSample
                age == IF v.releasing THEN v.age + PpqPerSample ELSE v.age
                active == ~ReleaseCompletes(v)
                releasing == v.releasing /\ ~ReleaseCompletes(v)
    <2>1. /\ since \in Nat /\ age \in Nat
          /\ active \in BOOLEAN /\ releasing \in BOOLEAN
      BY <1>2, <1>3 DEF Voices
    <2>2. RenderSample(v) = [v EXCEPT !.since = since, !.age = age,
                                      !.active = active, !.releasing = releasing]
      BY <1>5 DEF RenderSample
    <2>. HIDE DEF since, age, active, releasing
    <2>. QED  BY <2>1, <2>2 DEF Voices
  <1>. QED  BY <1>4, <1>5

(* Rendering keeps what a pick plays and never makes it sound again.       *)
LEMMA RenderKeepsPick ==
    ASSUME NEW v \in Voices
    PROVE  LET w == RenderSample(v) IN
           /\ w.slice = v.slice /\ w.head = v.head /\ w.style = v.style
           /\ w.len = v.len /\ w.since <= v.since + PpqPerSample
           /\ w.active => v.active
           /\ ~Finished(w) => ~Finished(v) /\ w.since = v.since + PpqPerSample
  <1>0. PpqPerSample \in Nat
    BY HostAssumption
  <1>1. CASE Finished(v)
    BY <1>0, <1>1 DEF RenderSample, Voices
  <1>2. CASE ~Finished(v)
    <2>1. v.active
      BY <1>2 DEF Finished
    <2>. QED  BY <1>0, <1>2, <2>1 DEF RenderSample, Voices
  <1>. QED  BY <1>1, <1>2

-----------------------------------------------------------------------------
(* What the host's three moves do to the types of the timeline.            *)
LEMMA HostMoves ==
    ASSUME HostTypeOK,
           \/ HostSample
           \/ \E play \in BOOLEAN, size \in BlockSizes, runs \in BOOLEAN :
                    HostBlock(play, size, runs)
    PROVE  HostTypeOK'
  <1>1. PpqPerSample \in Nat /\ BlockSizes \subseteq Nat /\ Entries \subseteq Int
    BY HostAssumption
  <1>2. CASE HostSample
    BY <1>1, <1>2 DEF HostSample, HostTypeOK
  <1>3. CASE \E play \in BOOLEAN, size \in BlockSizes, runs \in BOOLEAN :
                HostBlock(play, size, runs)
    <2>1. PICK play \in BOOLEAN, size \in BlockSizes, runs \in BOOLEAN :
                HostBlock(play, size, runs)
      BY <1>3
    <2>2. playing' \in BOOLEAN /\ left' \in Nat
      BY <1>1, <2>1 DEF HostBlock
    <2>3. PICK start \in {ppq} \cup Entries :
            ppq' = IF play /\ ~runs THEN start + size * PpqPerSample ELSE start
      BY <2>1 DEF HostBlock
    <2>4. start \in Int /\ size * PpqPerSample \in Nat
      BY <1>1 DEF HostTypeOK
    <2>. QED  BY <2>2, <2>3, <2>4 DEF HostTypeOK
  <1>. QED  BY <1>2, <1>3

(* An element of a sequence. *)
LEMMA ElementOfSeq ==
    ASSUME NEW S, NEW s \in Seq(S), NEW i \in DOMAIN s
    PROVE  s[i] \in S /\ i \in Nat \ {0}
  OBVIOUS
=============================================================================
