------------------------------ MODULE BlockProofs ------------------------------
(***************************************************************************)
(* What a block does.  First OverlapAdd, for every window, every hop that  *)
(* divides it, every number of channels and every way to cut the stream    *)
(* into blocks: the buffers never run dry and never overflow, a sample     *)
(* leaves whole exactly one window after it came, and a press of the       *)
(* trigger is acted on in every channel, in time.  Then LfoSync, for every *)
(* period, grid and route in meters of up to four beats.                   *)
(***************************************************************************)
EXTENDS OverlapAdd, LfoSync, SequenceTheorems, WellFoundedInduction, TLAPS

\* What a bite of the input is taken from and put into.
Loop ==
  /\ stepSize \in StepSizes
  /\ frames \in Nat /\ cursor \in Nat /\ piece \in Nat /\ left \in Nat
  /\ channel \in Channel
  /\ DOMAIN buffers = Channel

IInv == Loop /\ NeverStarves

(* A bite is never larger than what is ready: the branch that pads with    *)
(* silence is never taken, and what a channel holds and what it has ready  *)
(* keep adding up to a window.                                             *)
LEMMA BiteKeepsBalance ==
  ASSUME Loop, NEW b, b.held \in 0 .. FFTSize, b.ready = FFTSize - b.held,
         DOMAIN b.out = 1 .. outputBufferSize, NEW first
  PROVE  LET size == Least(FFTSize - b.held, left)
             filled == AddNewData(b, first, size)
             rendered == IF FrameIsDue(filled) THEN Frame(filled) ELSE filled
             amount == Least(size, rendered.ready)
             after == Extract(rendered, amount)
         IN /\ size \in Nat /\ size <= left /\ amount = size
            /\ after.held \in 0 .. FFTSize
            /\ after.ready = FFTSize - after.held
            /\ DOMAIN after.out = 1 .. outputBufferSize
<1> DEFINE size == Least(FFTSize - b.held, left)
           filled == AddNewData(b, first, size)
           rendered == IF FrameIsDue(filled) THEN Frame(filled) ELSE filled
           amount == Least(size, rendered.ready)
           after == Extract(rendered, amount)
<1>1. FFTSize \in Nat /\ stepSize \in 1 .. FFTSize
  BY FFTSizeAssumption, StepAssumption DEF Loop
<1>2. size \in Nat /\ size <= left /\ size <= b.ready /\ b.held + size <= FFTSize
  BY <1>1 DEF Loop, Least
<1>3. /\ filled.held = b.held + size
      /\ filled.ready = b.ready
      /\ DOMAIN filled.out = 1 .. outputBufferSize
  BY DEF AddNewData
<1> HIDE DEF size, filled
<1>4. /\ rendered.held \in 0 .. FFTSize
      /\ rendered.ready \in Nat /\ size <= rendered.ready
      /\ rendered.ready - size = FFTSize - rendered.held
      /\ DOMAIN rendered.out = 1 .. outputBufferSize
  <2>1. CASE FrameIsDue(filled)
    <3>1. /\ rendered.held = FFTSize - stepSize
          /\ rendered.ready = b.ready + stepSize
          /\ DOMAIN rendered.out = 1 .. outputBufferSize
      BY <2>1, <1>3 DEF Frame, FrameIsDue
    <3>2. b.held + size = FFTSize
      BY <2>1, <1>3 DEF FrameIsDue
    <3>3. (b.ready + stepSize) - size = FFTSize - (FFTSize - stepSize)
      BY <3>2, <1>1, <1>2
    <3>4. FFTSize - stepSize \in 0 .. FFTSize
      BY <1>1
    <3>5. b.ready + stepSize \in Nat /\ size <= b.ready + stepSize
      BY <1>1, <1>2
    <3> HIDE DEF rendered
    <3>6. rendered.held \in 0 .. FFTSize
      BY <3>1, <3>4, Zenon
    <3>7. rendered.ready \in Nat /\ size <= rendered.ready
      BY <3>1, <3>5, Zenon
    <3>8. rendered.ready - size = FFTSize - rendered.held
      BY <3>1, <3>3, Zenon
    <3> QED BY <3>1, <3>6, <3>7, <3>8, Zenon
  <2>2. CASE ~FrameIsDue(filled)
    BY <2>2, <1>1, <1>2, <1>3
  <2> HIDE DEF rendered
  <2> QED BY <2>1, <2>2
<1> HIDE DEF rendered
<1>5. amount = size
  BY <1>2, <1>4 DEF Least
<1>6. /\ after.held = rendered.held
      /\ after.ready = rendered.ready - amount
      /\ DOMAIN after.out = 1 .. outputBufferSize
  BY <1>4 DEF Extract
<1> QED BY <1>1, <1>2, <1>4, <1>5, <1>6 DEF size, filled, rendered

LEMMA ResetBalanced ==
  ASSUME NEW step \in StepSizes
  PROVE  LET b == ResetBuffers(step)
         IN /\ b.held \in 0 .. FFTSize
            /\ b.ready = FFTSize - b.held
            /\ DOMAIN b.out = 1 .. 2 * FFTSize - step
<1>1. FFTSize \in Nat /\ step \in 1 .. FFTSize
  BY FFTSizeAssumption, StepAssumption
<1> QED BY <1>1 DEF ResetBuffers

LEMMA InitBalanced == Init => IInv
<1> SUFFICES ASSUME Init PROVE IInv
  OBVIOUS
<1>1. Loop
  BY ChannelAssumption DEF Init, Loop, Channel
<1>2. NeverStarves
  BY ResetBalanced DEF Init, NeverStarves, outputBufferSize
<1> QED BY <1>1, <1>2 DEF IInv

LEMMA NextBalanced == IInv /\ [Next]_vars => IInv'
<1> SUFFICES ASSUME IInv, [Next]_vars PROVE IInv'
  OBVIOUS
<1> USE DEF IInv
<1>1. FFTSize \in Nat /\ stepSize \in 1 .. FFTSize
  BY FFTSizeAssumption, StepAssumption DEF Loop
<1>2. CASE \E n \in 1 .. BlockSize : \E presses \in {{}} \cup {{t} : t \in 0 .. n} :
             Process(n, presses)
  <2>1. Loop'
    BY <1>2, BlockAssumption DEF Process, Loop, call
  <2>2. NeverStarves'
    BY <1>2 DEF Process, NeverStarves, outputBufferSize
  <2> QED BY <2>1, <2>2
<1>3. CASE StartPiece
  <2>1. Loop'
    BY <1>1, <1>3, ChannelAssumption DEF StartPiece, Loop, streams, Least, Channel
  <2>2. NeverStarves'
    BY <1>3 DEF StartPiece, NeverStarves, streams, outputBufferSize
  <2> QED BY <2>1, <2>2
<1>4. CASE Iterate
  <2> DEFINE b == buffers[channel]
             size == Least(FFTSize - b.held, left)
             first == played + cursor + (piece - left)
             filled == AddNewData(b, first, size)
             rendered == IF FrameIsDue(filled) THEN Frame(filled) ELSE filled
             amount == Least(size, rendered.ready)
             after == Extract(rendered, amount)
  <2>1. /\ b.held \in 0 .. FFTSize
        /\ b.ready = FFTSize - b.held
        /\ DOMAIN b.out = 1 .. outputBufferSize
    BY DEF NeverStarves, Loop
  <2>2. /\ size \in Nat /\ size <= left
        /\ after.held \in 0 .. FFTSize
        /\ after.ready = FFTSize - after.held
        /\ DOMAIN after.out = 1 .. outputBufferSize
    <3> HIDE DEF b, first
    <3> QED BY <2>1, BiteKeepsBalance
  <2>3. /\ buffers' = [buffers EXCEPT ![channel] = after]
        /\ stepSize' = stepSize /\ frames' = frames
        /\ \/ left' = left - size /\ UNCHANGED <<piece, channel, cursor>> /\ left > size
           \/ /\ left' = piece /\ channel' = channel + 1 /\ channel < NumberOfChannels
              /\ UNCHANGED <<piece, cursor>>
           \/ piece' = 0 /\ left' = 0 /\ channel' = 1 /\ cursor' = cursor + piece
    BY <1>4 DEF Iterate
  <2> HIDE DEF b, size, after
  <2>4. Loop'
    BY <2>2, <2>3, ChannelAssumption DEF Loop, Channel
  <2>5. NeverStarves'
    BY <2>2, <2>3 DEF NeverStarves, Loop, outputBufferSize
  <2> QED BY <2>4, <2>5
<1>5. CASE EndBlock
  <2>1. Loop'
    BY <1>5 DEF EndBlock, Loop, streams, call
  <2>2. NeverStarves'
    BY <1>5 DEF EndBlock, NeverStarves, streams, outputBufferSize
  <2> QED BY <2>1, <2>2
<1>6. CASE \E step \in StepSizes : Reset(step)
  <2> PICK step \in StepSizes : Reset(step)
    BY <1>6
  <2>1. Loop'
    BY DEF Reset, Loop, call
  <2>2. NeverStarves'
    BY ResetBalanced DEF Reset, NeverStarves, outputBufferSize
  <2> QED BY <2>1, <2>2
<1>7. CASE UNCHANGED vars
  BY <1>7 DEF vars, streams, host, call, Loop, NeverStarves, outputBufferSize
<1> QED BY <1>2, <1>3, <1>4, <1>5, <1>6, <1>7 DEF Next, Render

(* Whatever the sizes of the window, the hop and the host's blocks, what a *)
(* channel is asked for is ready when it is asked: the padding branch of   *)
(* processSingleChannel() is unreachable, and its buffers hold all they    *)
(* are given (latency.md, 3).                                              *)
THEOREM NeverStarving == Spec => []NeverStarves
<1>1. IInv => NeverStarves
  BY DEF IInv
<1> QED BY <1>1, InitBalanced, NextBalanced, PTL DEF Spec

----------------------------------------------------------------------------
(* What the buffers hold.  A channel has taken this much of the stream.    *)
Taken(c) == played + cursor + (IF piece = 0 \/ c > channel THEN 0
                               ELSE IF c < channel THEN piece ELSE piece - left)

Silence == {scaled} \cup {n \in Int : n < 0}
Repeated(sample, times) == [k \in 1 .. times |-> sample]

\* A slot that every frame over it has been added to; and one that is still
\* d - 1 slots from where the next frame is added.
Whole(slot, sample) ==
  IF sample >= 0 THEN slot = Repeated(sample, FFTSize \div stepSize) \o <<scaled, sample>>
                 ELSE slot \in Seq(Silence)
Partial(slot, sample, d) ==
  IF d > FFTSize - stepSize THEN slot = <<>>
  ELSE IF sample >= 0 THEN slot = Repeated(sample, (FFTSize - d) \div stepSize)
                      ELSE slot \in Seq(Silence)

\* The input ends with the sample before the next; the output begins a window
\* before it.
HoldsInput(b, taken) == \A i \in 1 .. b.held : b.main[i] = taken - b.held + i - 1
HoldsOutput(b, taken, ready) ==
  \A i \in 1 .. outputBufferSize :
    IF i <= ready THEN Whole(b.out[i], taken - FFTSize + i - 1)
                  ELSE Partial(b.out[i], taken - FFTSize + i - 1, i - ready)

\* How far the block has got, and where its events still are.
Course ==
  /\ played \in Nat
  /\ cursor <= frames
  /\ piece > 0 => /\ left \in 1 .. piece
                  /\ piece <= stepSize
                  /\ cursor + piece <= frames
  /\ \E t \in 0 .. frames : events \subseteq {t}
  /\ \A t \in events : IF piece = 0 THEN cursor < t + stepSize ELSE cursor < t

Contents ==
  \A c \in Channel : /\ HoldsInput(buffers[c], Taken(c))
                     /\ HoldsOutput(buffers[c], Taken(c), buffers[c].ready)
Sent ==
  frames > 0 => DOMAIN output = Channel /\ \A c \in Channel :
    /\ output[c] \in Seq(Seq(Int \cup {scaled}))
    /\ Len(output[c]) = Taken(c) - played
    /\ \A i \in 1 .. Len(output[c]) : Whole(output[c][i], played - FFTSize + i - 1)

\* Every channel began the piece holding h samples, and a piece gives every
\* channel one frame or none.
Gives(h, x) == h + x > FFTSize \/ (h + x = FFTSize /\ stepSize < FFTSize)
After(h, x) == IF Gives(h, x) THEN h + x - stepSize ELSE h + x
Waits(h) == h <= FFTSize /\ (stepSize < FFTSize => h < FFTSize)

Abreast(h) ==
  /\ FFTSize - stepSize <= h /\ Waits(h)
  /\ IF piece = 0 THEN \A c \in Channel : buffers[c].held = h
     ELSE \A c \in Channel :
            /\ c > channel => buffers[c].held = h
            /\ c < channel => buffers[c].held = After(h, piece)
            /\ c = channel =>
                 \/ buffers[c].held = h + (piece - left) /\ Waits(buffers[c].held)
                 \/ /\ buffers[c].held = h + (piece - left) - stepSize
                    /\ FFTSize <= h + (piece - left)

\* A channel has had its frame of the piece under way.
Framed(h, c) ==
  \/ c < channel /\ Gives(h, piece)
  \/ c = channel /\ buffers[c].held # h + (piece - left)

Waiting == owed # {} => armed
Pressed(h) ==
  IF piece > 0 /\ preProcessed
    THEN /\ \E c \in Channel : Framed(h, c)
         /\ ~armed
         /\ \A c \in owed : freeze /\ ~Framed(h, c)
    ELSE /\ Waiting
         /\ piece > 0 => \A c \in Channel : ~Framed(h, c)

\* The newest sample of the next frame of a channel.
Newest(c) == Taken(c) + (FFTSize - buffers[c].held) - 1
InTime(at) == /\ at <= pressedAt + 2 * (stepSize - 1)
              /\ stepSize < FFTSize => pressedAt <= at
OnTime ==
  /\ {preProcessed, armed, freeze} \subseteq BOOLEAN
  /\ pressedAt \in Int
  /\ owed \subseteq Channel
  /\ answeredAt \in [Channel -> Int]
  /\ \A c \in Channel : InTime(IF c \in owed THEN Newest(c) ELSE answeredAt[c])

Trigger == \E h \in 0 .. FFTSize : Abreast(h) /\ Pressed(h)
FlowInv == Course /\ Contents /\ Sent /\ Trigger /\ OnTime

----------------------------------------------------------------------------
(* Whole laps.  A frame covers FFTSize \div stepSize hops, and each of its *)
(* hops has one lap less behind it than the one before.                    *)
LEMMA DivisionUnique ==
  ASSUME NEW s \in Nat \ {0}, NEW q \in Int, NEW r \in 0 .. s - 1
  PROVE  (s * q + r) \div s = q
OBVIOUS

LEMMA DivisionStep ==
  ASSUME NEW s \in Nat \ {0}, NEW a \in Nat
  PROVE  (a + s) \div s = (a \div s) + 1
<1>1. /\ a \div s \in Int /\ a % s \in 0 .. s - 1
      /\ a = s * (a \div s) + (a % s)
  OBVIOUS
<1>2. PICK q \in Int, r \in 0 .. s - 1 : a = s * q + r
  BY <1>1
<1>3. a + s = s * (q + 1) + r
  BY <1>2
<1>4. (s * (q + 1) + r) \div s = q + 1
  BY <1>2, DivisionUnique
<1> QED BY <1>2, <1>3, <1>4, DivisionUnique

LEMMA WholeMultiple ==
  ASSUME NEW f \in Nat, NEW s \in Nat \ {0}, f % s = 0
  PROVE  \E q \in Int : f = s * q
OBVIOUS

LEMMA LastLap ==
  ASSUME NEW f \in Nat, NEW s \in Nat \ {0}, f % s = 0, NEW a \in 1 .. s
  PROVE  ((f - a) \div s) + 1 = f \div s
<1>1. PICK q \in Int : f = s * q
  BY WholeMultiple
<1>2. f - a = s * (q - 1) + (s - a)
  BY <1>1
<1>3. (s * (q - 1) + (s - a)) \div s = q - 1
  BY <1>1, DivisionUnique
<1>4. (s * q + 0) \div s = q
  BY <1>1, DivisionUnique
<1> QED BY <1>1, <1>2, <1>3, <1>4

LEMMA RepeatedIsSeq ==
  ASSUME NEW S, NEW x \in S, NEW n \in Nat
  PROVE  Repeated(x, n) \in Seq(S)
BY DEF Repeated

LEMMA RepeatedOnce ==
  ASSUME NEW x, NEW n \in Nat
  PROVE  Repeated(x, n) \o <<x>> = Repeated(x, n + 1)
BY DEF Repeated

(* Adding a frame to a slot takes it one lap further; to a slot of its     *)
(* first hop, all the way.                                                 *)
LEMMA SlotGains ==
  ASSUME Loop, NEW slot, NEW x \in Int, NEW d \in 1 .. FFTSize, Partial(slot, x, d)
  PROVE  /\ d <= stepSize => Whole(slot \o <<x>> \o <<scaled, x>>, x)
         /\ d > stepSize => Partial(slot \o <<x>> \o <<>>, x, d - stepSize)
<1>1. /\ FFTSize \in Nat \ {0} /\ stepSize \in 1 .. FFTSize /\ FFTSize % stepSize = 0
  BY FFTSizeAssumption, StepAssumption DEF Loop
<1> DEFINE laps == (FFTSize - d) \div stepSize
<1>2. laps \in Nat
  <2>1. FFTSize - d \in Nat
    BY <1>1
  <2> QED BY <2>1, <1>1
<1>3. d > FFTSize - stepSize => laps = 0
  <2>1. d > FFTSize - stepSize => FFTSize - d \in 0 .. stepSize - 1 /\ FFTSize - d = stepSize * 0 + (FFTSize - d)
    BY <1>1
  <2> QED BY <2>1, <1>1, DivisionUnique
<1>4. x >= 0 => slot = Repeated(x, laps)
  <2>1. Repeated(x, 0) = <<>>
    BY DEF Repeated
  <2> HIDE DEF laps
  <2> QED BY <2>1, <1>1, <1>3 DEF Partial, laps
<1>5. x < 0 => slot \in Seq(Silence)
  <2>1. CASE d > FFTSize - stepSize
    <3>1. slot = <<>>
      BY <2>1 DEF Partial
    <3> QED BY <3>1
  <2>2. CASE ~(d > FFTSize - stepSize)
    <3>1. x < 0 => ~(x >= 0)
      OBVIOUS
    <3> QED BY <2>2, <3>1, Zenon DEF Partial
  <2> QED BY <2>1, <2>2
<1>6. CASE x < 0
  <2>1. x \in Silence /\ scaled \in Silence
    BY <1>6 DEF Silence
  <2>2. slot \o <<x>> \in Seq(Silence)
    BY <2>1, <1>5, <1>6
  <2>3. /\ slot \o <<x>> \o <<scaled, x>> \in Seq(Silence)
        /\ slot \o <<x>> \o <<>> \in Seq(Silence)
    BY <2>1, <2>2
  <2> QED BY <2>3, <1>6, <1>1 DEF Whole, Partial
<1>7. CASE x >= 0
  <2> DEFINE more == slot \o <<x>>
  <2>1. more = Repeated(x, laps + 1)
    <3> HIDE DEF laps
    <3> QED BY <1>2, <1>4, <1>7, RepeatedOnce
  <2>2. ASSUME d <= stepSize PROVE laps + 1 = FFTSize \div stepSize
    <3>1. d \in 1 .. stepSize
      BY <2>2, <1>1
    <3>2. FFTSize \in Nat /\ stepSize \in Nat \ {0} /\ FFTSize % stepSize = 0
      BY <1>1
    <3> QED BY <3>1, <3>2, LastLap
  <2>3. /\ laps + 1 = (FFTSize - (d - stepSize)) \div stepSize
        /\ ~(d - stepSize > FFTSize - stepSize)
    <3>1. FFTSize - d \in Nat /\ FFTSize - (d - stepSize) = (FFTSize - d) + stepSize
      BY <1>1
    <3>2. ((FFTSize - d) + stepSize) \div stepSize = laps + 1
      <4>1. FFTSize - d \in Nat /\ stepSize \in Nat \ {0}
        BY <3>1, <1>1
      <4> QED BY <4>1, DivisionStep
    <3>3. ~(d - stepSize > FFTSize - stepSize)
      BY <1>1
    <3> QED BY <3>1, <3>2, <3>3
  <2>4. more \o <<>> = more
    <3>1. more \in Seq(Int)
      <4> HIDE DEF laps, more
      <4>1. laps + 1 \in Nat
        BY <1>2
      <4> QED BY <4>1, <2>1, RepeatedIsSeq
    <3> HIDE DEF more
    <3> QED BY <3>1
  <2> HIDE DEF more, laps
  <2>5. d <= stepSize => Whole(more \o <<scaled, x>>, x)
    BY <1>7, <2>1, <2>2 DEF Whole
  <2>6. d > stepSize => Partial(more \o <<>>, x, d - stepSize)
    BY <1>7, <2>1, <2>3, <2>4 DEF Partial
  <2> QED BY <2>5, <2>6 DEF more
<1> QED BY <1>6, <1>7

LEMMA WholeIsSeq ==
  ASSUME Loop, NEW slot, NEW x \in Int, Whole(slot, x)
  PROVE  slot \in Seq(Int \cup {scaled})
<1>1. CASE x >= 0
  <2>1. FFTSize \div stepSize \in Nat
    BY FFTSizeAssumption, StepAssumption DEF Loop
  <2>2. Repeated(x, FFTSize \div stepSize) \in Seq(Int \cup {scaled})
    BY <2>1, RepeatedIsSeq
  <2>3. <<scaled, x>> \in Seq(Int \cup {scaled})
    OBVIOUS
  <2> QED BY <1>1, <2>2, <2>3 DEF Whole
<1>2. CASE ~(x >= 0)
  <2>1. slot \in Seq(Silence)
    BY <1>2 DEF Whole
  <2>2. Silence \subseteq Int \cup {scaled}
    BY DEF Silence
  <2> QED BY <2>1, <2>2, SeqMonotonic
<1> QED BY <1>1, <1>2

(* Input that a bite brings joins on to what is held.                      *)
LEMMA FillsInput ==
  ASSUME NEW b, NEW taken \in Int, NEW size \in Nat,
         b.held \in Nat, b.held + size <= FFTSize, HoldsInput(b, taken)
  PROVE  LET filled == AddNewData(b, taken, size)
         IN /\ filled.held = b.held + size /\ filled.ready = b.ready /\ filled.out = b.out
            /\ HoldsInput(filled, taken + size)
<1> DEFINE filled == AddNewData(b, taken, size)
<1>1. filled.held = b.held + size /\ filled.ready = b.ready /\ filled.out = b.out
  BY DEF AddNewData
<1>2. ASSUME NEW i \in 1 .. b.held + size
      PROVE  filled.main[i] = (taken + size) - (b.held + size) + i - 1
  <2>1. /\ i \in 1 .. FFTSize /\ taken \in Int
        /\ i \in b.held + 1 .. b.held + size \/ i \in 1 .. b.held
        /\ FFTSize \in Nat
    BY FFTSizeAssumption
  <2>2. filled.main[i] = IF i \in b.held + 1 .. b.held + size
                           THEN taken + (i - b.held - 1) ELSE b.main[i]
    BY <2>1 DEF AddNewData
  <2>3. i \in 1 .. b.held => b.main[i] = taken - b.held + i - 1
    BY DEF HoldsInput
  <2> HIDE DEF filled
  <2> QED BY <2>1, <2>2, <2>3
<1> HIDE DEF filled
<1> QED BY <1>1, <1>2 DEF HoldsInput, filled

(* A frame added over the output goes where the samples it is of will be   *)
(* heard, and completes the first hop of what it covers.                   *)
LEMMA FrameLapsOutput ==
  ASSUME Loop, NEW b, NEW taken \in Int, NEW ready \in 0 .. FFTSize - stepSize,
         b.held = FFTSize, b.ready = ready, DOMAIN b.out = 1 .. outputBufferSize,
         HoldsInput(b, taken + ready), HoldsOutput(b, taken, ready)
  PROVE  /\ HoldsInput(Frame(b), taken + ready)
         /\ HoldsOutput(Frame(b), taken, ready + stepSize)
<1>1. /\ FFTSize \in Nat \ {0} /\ stepSize \in 1 .. FFTSize
  BY FFTSizeAssumption, StepAssumption DEF Loop
<1>2. \A i \in 1 .. FFTSize : b.main[i] = taken + ready - FFTSize + i - 1
  BY <1>1 DEF HoldsInput
<1>3. HoldsInput(Frame(b), taken + ready)
  <2>1. Frame(b).held = FFTSize - stepSize
    BY DEF Frame
  <2>2. ASSUME NEW i \in 1 .. FFTSize - stepSize
        PROVE  Frame(b).main[i] = taken + ready - (FFTSize - stepSize) + i - 1
    <3>1. Frame(b).main[i] = b.main[i + stepSize]
      BY <1>1 DEF Frame
    <3>2. i + stepSize \in 1 .. FFTSize
      BY <1>1
    <3>3. b.main[i + stepSize] = taken + ready - FFTSize + (i + stepSize) - 1
      BY <1>2, <3>2
    <3> QED BY <3>1, <3>3, <1>1
  <2>3. \A i \in 1 .. FFTSize - stepSize :
          Frame(b).main[i] = (taken + ready) - (FFTSize - stepSize) + i - 1
    BY <2>2, <1>1
  <2> QED BY <2>1, <2>3 DEF HoldsInput
<1>4. ASSUME NEW i \in 1 .. outputBufferSize
      PROVE  IF i <= ready + stepSize
               THEN Whole(Frame(b).out[i], taken - FFTSize + i - 1)
               ELSE Partial(Frame(b).out[i], taken - FFTSize + i - 1, i - (ready + stepSize))
  <2> DEFINE x == taken - FFTSize + i - 1
             at == i - ready
             slot == b.out[i]
  <2>1. i \in Int /\ x \in Int /\ at \in Int
    BY <1>1 DEF outputBufferSize
  <2>2. Frame(b).out[i] = slot \o (IF at \in 1 .. FFTSize THEN <<b.main[at]>> ELSE <<>>)
                               \o (IF at \in 1 .. stepSize THEN <<scaled, b.main[at]>> ELSE <<>>)
    BY DEF Frame
  <2>3. IF i <= ready THEN Whole(slot, x) ELSE Partial(slot, x, at)
    BY DEF HoldsOutput
  <2>4. at \in 1 .. FFTSize => b.main[at] = x
    BY <1>1, <1>2, <2>1
  <2>5. i - (ready + stepSize) = at - stepSize
    BY <1>1, <2>1
  <2>6. CASE i <= ready
    <3>1. /\ at \notin 1 .. FFTSize /\ at \notin 1 .. stepSize
          /\ i <= ready + stepSize
      BY <2>6, <2>1, <1>1
    <3>2. slot \in Seq(Int \cup {scaled})
      BY <2>6, <2>1, <2>3, WholeIsSeq
    <3>3. slot \o <<>> \o <<>> = slot
      <4> HIDE DEF slot
      <4> QED BY <3>2
    <3> HIDE DEF at, x, slot
    <3>4. Frame(b).out[i] = slot
      BY <2>2, <3>1, <3>3, Zenon
    <3>5. Whole(slot, x)
      BY <2>3, <2>6
    <3> QED BY <3>1, <3>4, <3>5 DEF x
  <2>7. CASE at \in 1 .. FFTSize
    <3>1. ~(i <= ready)
      BY <2>7, <2>1, <1>1
    <3>2. Partial(slot, x, at)
      BY <2>3, <3>1
    <3> HIDE DEF x, slot
    <3>3. CASE at <= stepSize
      <4>1. at \in 1 .. stepSize /\ i <= ready + stepSize
        BY <3>3, <2>1, <2>7, <1>1
      <4>2. Frame(b).out[i] = slot \o <<x>> \o <<scaled, x>>
        BY <2>2, <2>4, <2>7, <4>1
      <4>3. Whole(slot \o <<x>> \o <<scaled, x>>, x)
        <5> HIDE DEF at
        <5> QED BY <2>1, <2>7, <3>2, <3>3, SlotGains
      <4> QED BY <4>1, <4>2, <4>3 DEF x
    <3>4. CASE ~(at <= stepSize)
      <4>1. at \notin 1 .. stepSize /\ ~(i <= ready + stepSize) /\ at > stepSize
        BY <3>4, <2>1, <2>7, <1>1
      <4>2. Frame(b).out[i] = slot \o <<x>> \o <<>>
        BY <2>2, <2>4, <2>7, <4>1
      <4>3. Partial(slot \o <<x>> \o <<>>, x, at - stepSize)
        <5> HIDE DEF at
        <5> QED BY <2>1, <2>7, <3>2, <4>1, SlotGains
      <4> HIDE DEF at
      <4> QED BY <4>1, <4>2, <4>3, <2>5 DEF x
    <3> QED BY <3>3, <3>4
  <2>8. CASE at > FFTSize
    <3>1. /\ at \notin 1 .. FFTSize /\ at \notin 1 .. stepSize
          /\ ~(i <= ready + stepSize) /\ ~(i <= ready)
          /\ at > FFTSize - stepSize /\ at - stepSize > FFTSize - stepSize
      BY <2>8, <2>1, <1>1
    <3>2. slot = <<>>
      BY <2>3, <3>1 DEF Partial
    <3>3. slot \o <<>> \o <<>> = <<>>
      BY <3>2
    <3>4. Frame(b).out[i] = <<>>
      BY <2>2, <3>1, <3>3
    <3>5. Partial(Frame(b).out[i], x, at - stepSize)
      BY <3>1, <3>4 DEF Partial
    <3> QED BY <3>1, <3>5, <2>5
  <2> QED BY <2>1, <2>6, <2>7, <2>8, <1>1
<1> QED BY <1>3, <1>4 DEF HoldsOutput, outputBufferSize, Frame

(* What leaves is the ready end of the output; the rest moves up behind it *)
(* and is cleared after.                                                   *)
LEMMA ExtractKeepsOutput ==
  ASSUME Loop, NEW b, NEW taken \in Int, NEW size \in Nat, NEW ready \in 0 .. FFTSize,
         size <= ready, b.ready = ready, DOMAIN b.out = 1 .. outputBufferSize,
         HoldsOutput(b, taken, ready)
  PROVE  LET after == Extract(b, size)
         IN /\ after.held = b.held /\ after.main = b.main
            /\ HoldsOutput(after, taken + size, ready - size)
<1>1. /\ FFTSize \in Nat \ {0} /\ stepSize \in 1 .. FFTSize
  BY FFTSizeAssumption, StepAssumption DEF Loop
<1> DEFINE after == Extract(b, size)
           valid == ready + (FFTSize - stepSize) - size
<1>2. after.held = b.held /\ after.main = b.main
  BY DEF Extract
<1>3. ASSUME NEW i \in 1 .. outputBufferSize
      PROVE  IF i <= ready - size
               THEN Whole(after.out[i], (taken + size) - FFTSize + i - 1)
               ELSE Partial(after.out[i], (taken + size) - FFTSize + i - 1, i - (ready - size))
  <2>1. after.out[i] = IF i <= valid THEN b.out[i + size]
                       ELSE IF i <= valid + size THEN <<>> ELSE b.out[i]
    BY DEF Extract
  <2>2. i \in Int /\ 1 <= i /\ valid \in Int
    BY <1>1 DEF outputBufferSize
  <2>3. CASE i <= valid
    <3>1. i + size \in 1 .. outputBufferSize
      BY <2>2, <2>3, <1>1 DEF outputBufferSize
    <3>2. IF i + size <= ready
            THEN Whole(b.out[i + size], taken - FFTSize + (i + size) - 1)
            ELSE Partial(b.out[i + size], taken - FFTSize + (i + size) - 1, (i + size) - ready)
      BY <3>1 DEF HoldsOutput
    <3>3. /\ taken - FFTSize + (i + size) - 1 = (taken + size) - FFTSize + i - 1
          /\ (i + size) - ready = i - (ready - size)
          /\ i + size <= ready <=> i <= ready - size
      BY <2>2, <1>1
    <3> HIDE DEF valid, after
    <3> QED BY <2>1, <2>3, <3>2, <3>3
  <2>4. CASE ~(i <= valid)
    <3>1. /\ ~(i <= ready - size) /\ i - (ready - size) > FFTSize - stepSize
      BY <2>2, <2>4, <1>1
    <3>2. after.out[i] = <<>>
      <4>1. CASE i <= valid + size
        BY <2>1, <2>4, <4>1
      <4>2. CASE ~(i <= valid + size)
        <5>1. ~(i <= ready) /\ i - ready > FFTSize - stepSize
          BY <2>2, <4>2, <1>1
        <5>2. b.out[i] = <<>>
          BY <5>1 DEF HoldsOutput, Partial
        <5> HIDE DEF after, valid
        <5> QED BY <2>1, <2>4, <4>2, <5>2
      <4> QED BY <4>1, <4>2
    <3> QED BY <3>1, <3>2 DEF Partial
  <2> QED BY <2>3, <2>4
<1>4. HoldsOutput(after, taken + size, ready - size)
  <2> HIDE DEF after
  <2> QED BY <1>3 DEF HoldsOutput
<1> QED BY <1>2, <1>4

(* One turn of the loop, on what the buffers hold.                         *)
LEMMA BiteKeepsContents ==
  ASSUME Loop, NEW b, b.held \in 0 .. FFTSize, b.ready = FFTSize - b.held,
         DOMAIN b.out = 1 .. outputBufferSize, NEW taken \in Int,
         HoldsInput(b, taken), HoldsOutput(b, taken, b.ready)
  PROVE  LET size == Least(FFTSize - b.held, left)
             filled == AddNewData(b, taken, size)
             due == FrameIsDue(filled)
             rendered == IF due THEN Frame(filled) ELSE filled
             after == Extract(rendered, size)
         IN /\ due <=> b.held + size = FFTSize /\ stepSize <= b.held
            /\ due => filled.main[FFTSize] = taken + size - 1
            /\ after.held = IF due THEN FFTSize - stepSize ELSE b.held + size
            /\ HoldsInput(after, taken + size)
            /\ HoldsOutput(after, taken + size, FFTSize - after.held)
            /\ \A i \in 1 .. size : Whole(rendered.out[i], taken - FFTSize + i - 1)
<1> DEFINE size == Least(FFTSize - b.held, left)
           filled == AddNewData(b, taken, size)
           due == FrameIsDue(filled)
           rendered == IF due THEN Frame(filled) ELSE filled
           after == Extract(rendered, size)
<1>1. /\ FFTSize \in Nat \ {0} /\ stepSize \in 1 .. FFTSize
  BY FFTSizeAssumption, StepAssumption DEF Loop
<1>2. size \in Nat /\ size <= FFTSize - b.held /\ b.held + size <= FFTSize
  BY <1>1 DEF Loop, Least
<1> HIDE DEF size
<1>3. /\ filled.held = b.held + size /\ filled.ready = b.ready /\ filled.out = b.out
      /\ HoldsInput(filled, taken + size)
  BY <1>2, FillsInput
<1> HIDE DEF filled
<1>4. due <=> b.held + size = FFTSize /\ stepSize <= b.held
  BY <1>1, <1>2, <1>3 DEF FrameIsDue, outputBufferSize
<1>5. ASSUME due PROVE filled.main[FFTSize] = taken + size - 1
  <2>1. filled.held = FFTSize
    BY <1>3, <1>4, <1>5
  <2>2. FFTSize \in 1 .. FFTSize
    BY <1>1
  <2>3. filled.main[FFTSize] = (taken + size) - FFTSize + FFTSize - 1
    BY <1>3, <2>1, <2>2 DEF HoldsInput
  <2> QED BY <2>3, <1>1, <1>2
<1>6. /\ HoldsInput(rendered, taken + size)
      /\ HoldsOutput(rendered, taken, rendered.ready)
      /\ rendered.ready \in 0 .. FFTSize /\ size <= rendered.ready
      /\ rendered.ready - size = FFTSize - rendered.held
      /\ rendered.held = IF due THEN FFTSize - stepSize ELSE b.held + size
      /\ DOMAIN rendered.out = 1 .. outputBufferSize
  <2>1. HoldsOutput(filled, taken, b.ready)
    BY <1>3 DEF HoldsOutput
  <2>2. CASE due
    <3>1. /\ size \in 0 .. FFTSize - stepSize /\ b.ready = size
          /\ filled.held = FFTSize /\ filled.ready = size
          /\ DOMAIN filled.out = 1 .. outputBufferSize
      BY <2>2, <1>1, <1>2, <1>3, <1>4
    <3>2. /\ HoldsInput(Frame(filled), taken + size)
          /\ HoldsOutput(Frame(filled), taken, size + stepSize)
      BY <3>1, <2>1, <1>3, FrameLapsOutput
    <3>3. /\ Frame(filled).ready = size + stepSize
          /\ Frame(filled).held = FFTSize - stepSize
          /\ DOMAIN Frame(filled).out = 1 .. outputBufferSize
      BY <3>1 DEF Frame
    <3>4. rendered = Frame(filled)
      BY <2>2
    <3>5. /\ size + stepSize \in 0 .. FFTSize /\ size <= size + stepSize
          /\ (size + stepSize) - size = FFTSize - (FFTSize - stepSize)
      BY <3>1, <1>1, <1>2
    <3> HIDE DEF rendered, due
    <3> QED BY <2>2, <3>2, <3>3, <3>4, <3>5
  <2>3. CASE ~due
    <3>1. rendered = filled
      BY <2>3
    <3>2. /\ b.ready \in 0 .. FFTSize /\ size <= b.ready
          /\ b.ready - size = FFTSize - (b.held + size)
      BY <1>1, <1>2
    <3> HIDE DEF rendered, due
    <3> QED BY <2>1, <2>3, <3>1, <3>2, <1>3
  <2> QED BY <2>2, <2>3
<1> HIDE DEF rendered, due
<1>7. /\ after.held = rendered.held /\ after.main = rendered.main
      /\ HoldsOutput(after, taken + size, rendered.ready - size)
  BY <1>2, <1>6, ExtractKeepsOutput
<1>8. ASSUME NEW i \in 1 .. size
      PROVE  Whole(rendered.out[i], taken - FFTSize + i - 1)
  <2>1. i <= rendered.ready /\ i \in 1 .. outputBufferSize
    BY <1>1, <1>2, <1>6 DEF outputBufferSize
  <2> QED BY <2>1, <1>6 DEF HoldsOutput
<1> HIDE DEF after
<1>9. /\ HoldsInput(after, taken + size)
      /\ HoldsOutput(after, taken + size, FFTSize - after.held)
  BY <1>6, <1>7 DEF HoldsInput
<1> QED BY <1>4, <1>5, <1>6, <1>7, <1>8, <1>9 DEF size, filled, due, rendered, after

LEMMA ResetHoldsSilence ==
  ASSUME NEW step \in StepSizes
  PROVE  LET b == ResetBuffers(step)
         IN /\ b.held = FFTSize - step /\ b.ready = step
            /\ \A i \in 1 .. FFTSize - step : b.main[i] = 0 - (FFTSize - step) + i - 1
            /\ \A i \in 1 .. 2 * FFTSize - step :
                 /\ b.out[i] = <<>>
                 /\ i <= step => ~(0 - FFTSize + i - 1 >= 0)
                 /\ 0 - FFTSize + i - 1 >= 0 => i - step > FFTSize - step
<1> DEFINE b == ResetBuffers(step)
<1>1. FFTSize \in Nat \ {0} /\ step \in 1 .. FFTSize
  BY FFTSizeAssumption, StepAssumption
<1>2. b.held = FFTSize - step /\ b.ready = step
  BY DEF ResetBuffers
<1>3. \A i \in 1 .. FFTSize - step : b.main[i] = 0 - (FFTSize - step) + i - 1
  BY <1>1 DEF ResetBuffers
<1>4. \A i \in 1 .. 2 * FFTSize - step :
        /\ b.out[i] = <<>>
        /\ i <= step => ~(0 - FFTSize + i - 1 >= 0)
        /\ 0 - FFTSize + i - 1 >= 0 => i - step > FFTSize - step
  BY <1>1 DEF ResetBuffers
<1> QED BY <1>2, <1>3, <1>4

----------------------------------------------------------------------------
(* The invariants, action by action.  How far the block has got.           *)
LEMMA Sizes ==
  Loop => /\ FFTSize \in Nat \ {0} /\ stepSize \in 1 .. FFTSize
          /\ outputBufferSize = 2 * FFTSize - stepSize
          /\ NumberOfChannels \in Nat \ {0} /\ Channel = 1 .. NumberOfChannels
BY FFTSizeAssumption, StepAssumption, ChannelAssumption
   DEF Loop, outputBufferSize, Channel

\* What is known of a turn of the loop, its bite and its frame.
BiteSize == Least(FFTSize - buffers[channel].held, left)
Filled == AddNewData(buffers[channel], Taken(channel), BiteSize)
Rendered == IF FrameIsDue(Filled) THEN Frame(Filled) ELSE Filled
Bitten == Extract(Rendered, BiteSize)

LEMMA IterateBites ==
  ASSUME IInv, Course, Iterate
  PROVE  /\ piece > 0 /\ BiteSize \in 0 .. left /\ BiteSize <= Rendered.ready
         /\ buffers' = [buffers EXCEPT ![channel] = Bitten]
         /\ output' = [output EXCEPT ![channel] =
                         @ \o <<>> \o [i \in 1 .. BiteSize |-> Rendered.out[i]]]
         /\ IF FrameIsDue(Filled) THEN RunModules(Filled.main[FFTSize])
                                  ELSE UNCHANGED <<preProcessed, trigger>>
         /\ \/ /\ left > BiteSize
               /\ left' = left - BiteSize /\ UNCHANGED <<piece, channel, cursor>>
            \/ /\ left = BiteSize /\ channel < NumberOfChannels
               /\ left' = piece /\ channel' = channel + 1 /\ UNCHANGED <<piece, cursor>>
            \/ /\ left = BiteSize /\ channel = NumberOfChannels
               /\ piece' = 0 /\ left' = 0 /\ channel' = 1 /\ cursor' = cursor + piece
         /\ UNCHANGED <<stepSize, played, frames, events>>
<1> DEFINE b == buffers[channel]
           size == Least(FFTSize - b.held, left)
           first == played + cursor + (piece - left)
           filled == AddNewData(b, first, size)
           rendered == IF FrameIsDue(filled) THEN Frame(filled) ELSE filled
           amount == Least(size, rendered.ready)
<1>1. piece > 0 /\ piece \in Nat /\ left \in Nat /\ channel \in Channel
  BY DEF Iterate, IInv, Loop
<1>2. /\ b.held \in 0 .. FFTSize
      /\ b.ready = FFTSize - b.held
      /\ DOMAIN b.out = 1 .. outputBufferSize
  BY <1>1 DEF NeverStarves, IInv
<1>3. /\ size \in Nat /\ size <= left /\ amount = size
  <2> HIDE DEF b, first
  <2> QED BY <1>2, BiteKeepsBalance DEF IInv
<1>4. first = Taken(channel)
  <2>1. ~(piece = 0 \/ channel > channel) /\ ~(channel < channel)
    BY <1>1, Sizes DEF IInv
  <2> QED BY <2>1 DEF Taken
<1>5. size = BiteSize /\ filled = Filled /\ rendered = Rendered
  BY <1>4 DEF BiteSize, Filled, Rendered
<1>6. /\ buffers' = [buffers EXCEPT ![channel] = Extract(rendered, amount)]
      /\ output' = [output EXCEPT ![channel] = @ \o [i \in 1 .. size - amount |-> <<>>]
                                                 \o [i \in 1 .. amount |-> rendered.out[i]]]
      /\ IF FrameIsDue(filled) THEN RunModules(filled.main[FFTSize])
                               ELSE UNCHANGED <<preProcessed, trigger>>
      /\ IF left > size
           THEN left' = left - size /\ UNCHANGED <<piece, channel, cursor>>
         ELSE IF channel < NumberOfChannels
           THEN left' = piece /\ channel' = channel + 1 /\ UNCHANGED <<piece, cursor>>
         ELSE piece' = 0 /\ left' = 0 /\ channel' = 1 /\ cursor' = cursor + piece
      /\ UNCHANGED <<stepSize, played, frames, events>>
  BY DEF Iterate
<1>7. size <= rendered.ready
  <2>1. rendered.ready >= size \/ amount = rendered.ready
    BY DEF Least
  <2> HIDE DEF b, first, filled, rendered
  <2> QED BY <1>3 DEF Least
<1>8. [i \in 1 .. size - amount |-> <<>>] = <<>>
  <2> HIDE DEF size, amount
  <2> QED BY <1>3
<1> HIDE DEF size, amount, filled, rendered, first, b
<1>9. BiteSize = amount /\ BiteSize \in 0 .. left /\ BiteSize <= Rendered.ready
  BY <1>1, <1>3, <1>5, <1>7
<1>10. \/ left > BiteSize
       \/ left = BiteSize /\ channel < NumberOfChannels
       \/ left = BiteSize /\ channel = NumberOfChannels
  BY <1>1, <1>9, Sizes DEF IInv
<1>11. /\ buffers' = [buffers EXCEPT ![channel] = Bitten]
       /\ output' = [output EXCEPT ![channel] =
                        @ \o <<>> \o [i \in 1 .. BiteSize |-> Rendered.out[i]]]
  BY <1>5, <1>6, <1>8, <1>9 DEF Bitten
<1>12. left > BiteSize => /\ left' = left - BiteSize
                           /\ UNCHANGED <<piece, channel, cursor>>
  BY <1>5, <1>6
<1>13. left = BiteSize /\ channel < NumberOfChannels =>
         left' = piece /\ channel' = channel + 1 /\ UNCHANGED <<piece, cursor>>
  BY <1>1, <1>5, <1>6
<1>14. left = BiteSize /\ channel = NumberOfChannels =>
         piece' = 0 /\ left' = 0 /\ channel' = 1 /\ cursor' = cursor + piece
  BY <1>1, <1>5, <1>6, Sizes DEF IInv
<1>15. /\ IF FrameIsDue(Filled) THEN RunModules(Filled.main[FFTSize])
                                ELSE UNCHANGED <<preProcessed, trigger>>
       /\ UNCHANGED <<stepSize, played, frames, events>>
  BY <1>5, <1>6
<1> QED BY <1>1, <1>9, <1>10, <1>11, <1>12, <1>13, <1>14, <1>15

LEMMA CourseKept ==
  ASSUME IInv, Course, [Next]_vars
  PROVE  Course'
<1>1. Loop
  BY DEF IInv
<1>2. CASE \E n \in 1 .. BlockSize : \E presses \in {{}} \cup {{t} : t \in 0 .. n} :
             Process(n, presses)
  <2> PICK n \in 1 .. BlockSize : \E presses \in {{}} \cup {{t} : t \in 0 .. n} :
              Process(n, presses)
    BY <1>2
  <2>1. PICK presses \in {{}} \cup {{t} : t \in 0 .. n} : Process(n, presses)
    OBVIOUS
  <2>2. /\ n \in Nat \ {0} /\ frames = 0 /\ frames' = n /\ cursor' = 0 /\ events' = presses
        /\ stepSize' = stepSize /\ played' = played /\ piece' = piece /\ left' = left
    BY <2>1, BlockAssumption DEF Process, call
  <2>3. PICK t \in 0 .. n : presses \subseteq {t}
    BY <2>1, <2>2
  <2>4. piece = 0
    BY <1>1, <2>2 DEF Course, Loop
  <2>5. \A u \in events' : cursor' < u + stepSize'
    BY <2>2, <2>3, <1>1, Sizes
  <2>6. \E u \in 0 .. frames' : events' \subseteq {u}
    BY <2>2, <2>3
  <2> QED BY <2>2, <2>4, <2>5, <2>6 DEF Course
<1>3. CASE StartPiece
  <2>1. /\ cursor < frames /\ piece = 0 /\ events' = events \ DueAt(cursor)
        /\ piece' = Least(stepSize, frames - cursor) /\ left' = piece'
        /\ UNCHANGED <<stepSize, played, frames, cursor>>
    BY <1>3 DEF StartPiece, ApplyEventsDueAt, streams
  <2>2. piece' \in 1 .. stepSize /\ cursor + piece' <= frames
    BY <2>1, <1>1, Sizes DEF Loop, Least
  <2>3. PICK t \in 0 .. frames : events \subseteq {t}
    BY DEF Course
  <2>4. \A u \in events' : cursor < u
    BY <2>1, <2>3, <1>1 DEF DueAt, Loop
  <2>5. events' \subseteq {t}
    BY <2>1, <2>3
  <2> QED BY <2>1, <2>2, <2>3, <2>4, <2>5, <1>1 DEF Course, Loop
<1>4. CASE Iterate
  <2>1. PICK t \in 0 .. frames : events \subseteq {t}
    BY DEF Course
  <2>6. piece > 0 /\ BiteSize \in 0 .. left /\ UNCHANGED <<stepSize, played, frames, events>>
    BY <1>4, IterateBites
  <2>7. piece \in Nat /\ piece # 0
    BY <2>6, <1>1 DEF Loop
  <2>2. /\ left \in 1 .. piece /\ piece \in Nat /\ piece <= stepSize /\ cursor + piece <= frames
        /\ cursor \in Nat /\ frames \in Nat /\ stepSize \in Nat /\ BiteSize \in 0 .. left
        /\ \A u \in events : cursor < u
        /\ UNCHANGED <<stepSize, played, frames, events>>
    BY <1>1, <2>6, <2>7, Sizes DEF Course, Loop
  <2>3. CASE left > BiteSize /\ left' = left - BiteSize /\ UNCHANGED <<piece, channel, cursor>>
    <3>1. left' \in 1 .. piece
      BY <2>2, <2>3
    <3> QED BY <2>1, <2>2, <2>3, <3>1 DEF Course
  <2>4. CASE left' = piece /\ UNCHANGED <<piece, cursor>>
    BY <2>1, <2>2, <2>4 DEF Course
  <2>5. CASE piece' = 0 /\ cursor' = cursor + piece
    <3>1. cursor' \in Nat /\ cursor' <= frames
      BY <2>2, <2>5
    <3>2. \A u \in events : cursor + piece < u + stepSize
      BY <2>1, <2>2
    <3> QED BY <2>1, <2>2, <2>5, <3>1, <3>2 DEF Course
  <2> QED BY <2>3, <2>4, <2>5, <1>4, IterateBites
<1>5. CASE EndBlock
  <2>1. /\ frames > 0 /\ cursor = frames /\ events' = events \ DueAt(frames)
        /\ played' = played + frames /\ frames' = 0 /\ cursor' = 0
        /\ UNCHANGED <<piece, left>>
    BY <1>5 DEF EndBlock, ApplyEventsDueAt, call
  <2>2. piece = 0
    BY <2>1, <1>1 DEF Course, Loop
  <2>3. events' = {}
    <3> PICK t \in 0 .. frames : events \subseteq {t}
      BY DEF Course
    <3>1. \A u \in events : u <= frames
      BY <1>1 DEF Loop
    <3> QED BY <2>1, <3>1 DEF DueAt
  <2>4. played' \in Nat /\ 0 \in 0 .. frames' /\ cursor' <= frames'
    BY <2>1, <1>1 DEF Course, Loop
  <2>5. \E t \in 0 .. frames' : events' \subseteq {t}
    BY <2>3, <2>4
  <2> QED BY <2>1, <2>2, <2>3, <2>4, <2>5 DEF Course
<1>6. CASE \E step \in StepSizes : Reset(step)
  <2>1. /\ frames = 0 /\ played' = 0
        /\ UNCHANGED <<frames, cursor, events, piece, left>>
    BY <1>6 DEF Reset, call
  <2>2. piece = 0 /\ \A t \in events : t = 0
    BY <2>1, <1>1 DEF Course, Loop
  <2>3. stepSize' \in 1 .. FFTSize /\ cursor = 0
    BY <1>6, <2>1, <1>1, StepAssumption DEF Reset, Course, Loop
  <2>4. \A t \in events' : cursor' < t + stepSize'
    BY <2>1, <2>2, <2>3, FFTSizeAssumption
  <2>5. \E t \in 0 .. frames' : events' \subseteq {t}
    BY <2>1 DEF Course
  <2>6. played' \in Nat /\ cursor' <= frames' /\ piece' = 0 /\ ~(piece' > 0)
    BY <2>1, <2>2, <2>3
  <2> QED BY <2>4, <2>5, <2>6 DEF Course
<1>7. CASE UNCHANGED vars
  BY <1>7 DEF vars, streams, host, call, Course
<1> QED BY <1>2, <1>3, <1>4, <1>5, <1>6, <1>7 DEF Next, Render

\* Nothing but a turn of the loop takes from the stream.
LEMMA TakenKept ==
  ASSUME IInv, Course,
         \/ \E n \in 1 .. BlockSize :
              \E presses \in {{}} \cup {{t} : t \in 0 .. n} : Process(n, presses)
         \/ StartPiece
         \/ EndBlock
  PROVE  /\ \A c \in Channel : Taken(c)' = Taken(c)
         /\ UNCHANGED <<stepSize, buffers>>
<1>1. /\ Loop /\ played \in Nat /\ frames \in Nat /\ cursor \in Nat /\ piece \in Nat
      /\ cursor <= frames
      /\ piece > 0 => cursor + piece <= frames
  BY DEF IInv, Loop, Course
<1>2. CASE \E n \in 1 .. BlockSize :
             \E presses \in {{}} \cup {{t} : t \in 0 .. n} : Process(n, presses)
  <2>1. /\ frames = 0 /\ cursor' = 0
        /\ UNCHANGED <<played, piece, left, channel, stepSize, buffers>>
    BY <1>2 DEF Process, call
  <2>2. cursor = 0 /\ piece = 0
    BY <2>1, <1>1
  <2> QED BY <2>1, <2>2 DEF Taken
<1>3. CASE StartPiece
  <2>1. /\ piece = 0 /\ left' = piece' /\ channel' = 1 /\ cursor < frames
        /\ piece' = Least(stepSize, frames - cursor)
        /\ UNCHANGED <<played, cursor, stepSize, buffers>>
    BY <1>3 DEF StartPiece, streams
  <2>2. piece' \in Nat /\ played + cursor \in Nat /\ piece' # 0
    BY <2>1, <1>1, Sizes DEF Least
  <2>3. \A c \in Channel : ~(c < 1)
    BY <1>1, Sizes
  <2> QED BY <2>1, <2>2, <2>3 DEF Taken
<1>4. CASE EndBlock
  <2>1. /\ frames > 0 /\ cursor = frames /\ played' = played + frames /\ cursor' = 0
        /\ UNCHANGED <<piece, left, channel, stepSize, buffers>>
    BY <1>4 DEF EndBlock, call, streams
  <2>2. piece = 0
    BY <2>1, <1>1
  <2> QED BY <2>1, <2>2, <1>1 DEF Taken
<1> QED BY <1>2, <1>3, <1>4

LEMMA TakenByReset ==
  ASSUME IInv, Course, NEW step \in StepSizes, Reset(step)
  PROVE  \A c \in Channel : Taken(c)' = 0
<1>1. /\ frames = 0 /\ played' = 0 /\ UNCHANGED <<cursor, piece>>
  BY DEF Reset, call
<1>2. cursor = 0 /\ piece = 0
  <2>1. cursor \in Nat /\ piece \in Nat
    BY DEF IInv, Loop
  <2>2. cursor <= frames /\ (piece > 0 => cursor + piece <= frames)
    BY DEF Course
  <2> QED BY <1>1, <2>1, <2>2
<1> QED BY <1>1, <1>2 DEF Taken

\* And that takes its bite, in its own channel.
LEMMA TakenByIterate ==
  ASSUME IInv, Course, Iterate
  PROVE  /\ \A c \in Channel : /\ Taken(c) \in Nat
                               /\ Taken(c)' = IF c = channel THEN Taken(c) + BiteSize ELSE Taken(c)
         /\ Taken(channel) - played = cursor + (piece - left)
<1>1. /\ Loop /\ played \in Nat /\ cursor \in Nat /\ piece \in Nat /\ piece # 0
      /\ left \in 1 .. piece /\ BiteSize \in 0 .. left /\ channel \in Channel
      /\ played' = played
  <2>1. piece > 0 /\ BiteSize \in 0 .. left /\ played' = played
    BY IterateBites
  <2>2. left \in 1 .. piece /\ played \in Nat
    BY <2>1 DEF Course
  <2> QED BY <2>1, <2>2 DEF IInv, Loop
<1>2. /\ Taken(channel) = played + cursor + (piece - left)
      /\ \A c \in Channel : c < channel => Taken(c) = played + cursor + piece
      /\ \A c \in Channel : c > channel => Taken(c) = played + cursor
  BY <1>1, Sizes DEF Taken
<1>3. ASSUME NEW c \in Channel
      PROVE  Taken(c)' = IF c = channel THEN Taken(c) + BiteSize ELSE Taken(c)
  <2>1. c \in Int /\ channel \in Int /\ NumberOfChannels \in Nat
        /\ 1 <= c /\ c <= NumberOfChannels
    BY <1>1, Sizes
  <2>2. CASE left' = left - BiteSize /\ UNCHANGED <<piece, channel, cursor>>
    <3>1. Taken(c)' = played + cursor + (IF piece = 0 \/ c > channel THEN 0
                               ELSE IF c < channel THEN piece ELSE piece - (left - BiteSize))
      BY <1>1, <2>2 DEF Taken
    <3> QED BY <3>1, <1>1, <1>2, <2>1
  <2>3. CASE left = BiteSize /\ left' = piece /\ channel' = channel + 1 /\ UNCHANGED <<piece, cursor>>
    <3>1. Taken(c)' = played + cursor + (IF piece = 0 \/ c > channel + 1 THEN 0
                               ELSE IF c < channel + 1 THEN piece ELSE piece - piece)
      BY <1>1, <2>3 DEF Taken
    <3> QED BY <3>1, <1>1, <1>2, <2>1, <2>3
  <2>4. CASE left = BiteSize /\ channel = NumberOfChannels /\ piece' = 0 /\ cursor' = cursor + piece
    <3>1. Taken(c)' = played + (cursor + piece)
      BY <1>1, <2>4 DEF Taken
    <3> QED BY <3>1, <1>1, <1>2, <2>1, <2>4
  <2> QED BY <2>2, <2>3, <2>4, IterateBites
<1>4. \A c \in Channel : Taken(c) \in Nat
  BY <1>1, <1>2, Sizes
<1>5. Taken(channel) - played = cursor + (piece - left)
  BY <1>1, <1>2
<1> QED BY <1>3, <1>4, <1>5

LEMMA ContentsKept ==
  ASSUME IInv, Course, Contents, [Next]_vars
  PROVE  Contents'
<1>1. Loop /\ DOMAIN buffers = Channel
  BY DEF IInv, Loop
<1>2. ASSUME UNCHANGED <<stepSize, buffers>>, \A c \in Channel : Taken(c)' = Taken(c)
      PROVE  Contents'
  BY <1>2 DEF Contents, HoldsInput, HoldsOutput, Whole, Partial, outputBufferSize
<1>3. CASE Iterate
  <2> DEFINE b == buffers[channel]
             taken == Taken(channel)
  <2>1. channel \in Channel /\ taken \in Nat
    BY <1>1, <1>3, TakenByIterate DEF Loop
  <2>2. /\ b.held \in 0 .. FFTSize /\ b.ready = FFTSize - b.held
        /\ DOMAIN b.out = 1 .. outputBufferSize
        /\ HoldsInput(b, taken) /\ HoldsOutput(b, taken, b.ready)
    BY <2>1 DEF IInv, NeverStarves, Contents
  <2>3. /\ HoldsInput(Bitten, taken + BiteSize)
        /\ HoldsOutput(Bitten, taken + BiteSize, FFTSize - Bitten.held)
    <3> HIDE DEF b, taken
    <3>1. taken \in Int
      BY <2>1
    <3> QED BY <2>2, <3>1, <1>1, BiteKeepsContents
            DEF Bitten, Rendered, Filled, BiteSize, b, taken
  <2>4. buffers' = [buffers EXCEPT ![channel] = Bitten] /\ stepSize' = stepSize
    BY <1>3, IterateBites
  <2>5. buffers'[channel] = Bitten /\ Bitten.ready = FFTSize - Bitten.held
    <3>1. NeverStarves'
      BY <1>3, NextBalanced DEF IInv, Next, Render
    <3>2. buffers'[channel] = Bitten
      BY <2>1, <2>4, <1>1
    <3> QED BY <3>1, <3>2, <2>1 DEF NeverStarves
  <2>6. ASSUME NEW c \in Channel
        PROVE  HoldsInput(buffers[c], Taken(c))' /\ HoldsOutput(buffers[c], Taken(c), buffers[c].ready)'
    <3>1. CASE c = channel
      <4>1. Taken(c)' = taken + BiteSize
        BY <1>3, <2>1, <3>1, TakenByIterate
      <4> QED BY <2>3, <2>4, <2>5, <3>1, <4>1
              DEF HoldsInput, HoldsOutput, Whole, Partial, outputBufferSize
    <3>2. CASE c # channel
      <4>1. Taken(c)' = Taken(c) /\ buffers'[c] = buffers[c]
        BY <1>1, <1>3, <2>4, <3>2, TakenByIterate
      <4>2. HoldsInput(buffers[c], Taken(c)) /\ HoldsOutput(buffers[c], Taken(c), buffers[c].ready)
        BY DEF Contents
      <4> QED BY <2>4, <4>1, <4>2
              DEF HoldsInput, HoldsOutput, Whole, Partial, outputBufferSize
    <3> QED BY <3>1, <3>2
  <2> QED BY <2>6 DEF Contents
<1>4. CASE \E step \in StepSizes : Reset(step)
  <2> PICK step \in StepSizes : Reset(step)
    BY <1>4
  <2>1. /\ \A c \in Channel : Taken(c)' = 0
        /\ stepSize' = step /\ buffers' = [c \in Channel |-> ResetBuffers(step)]
    BY TakenByReset DEF Reset
  <2>2. ResetBuffers(step).ready = step /\ <<>> \in Seq(Silence)
    BY ResetHoldsSilence
  <2>3. HoldsInput(ResetBuffers(step), 0)
    BY ResetHoldsSilence DEF HoldsInput
  <2>4. HoldsOutput(ResetBuffers(step), 0, step)'
    BY <2>1, <2>2, ResetHoldsSilence DEF HoldsOutput, Whole, Partial, outputBufferSize
  <2>5. /\ Contents' <=> \A c \in Channel : /\ HoldsInput(buffers[c], Taken(c))'
                                           /\ HoldsOutput(buffers[c], Taken(c), buffers[c].ready)'
        /\ \A c \in Channel : buffers'[c] = ResetBuffers(step)
    BY <2>1 DEF Contents
  <2>6. ASSUME NEW c \in Channel
        PROVE  HoldsInput(buffers[c], Taken(c))' /\ HoldsOutput(buffers[c], Taken(c), buffers[c].ready)'
    <3>1. buffers'[c] = ResetBuffers(step) /\ Taken(c)' = 0
      BY <2>1, <2>5
    <3>2. HoldsInput(buffers[c], Taken(c))'
      BY <2>3, <3>1 DEF HoldsInput
    <3>3. HoldsOutput(buffers[c], Taken(c), buffers[c].ready)'
      BY <2>2, <2>4, <3>1 DEF HoldsOutput
    <3> QED BY <3>2, <3>3
  <2> QED BY <2>5, <2>6
<1>5. CASE UNCHANGED vars
  BY <1>2, <1>5 DEF vars, streams, host, call, Taken
<1> QED BY <1>2, <1>3, <1>4, <1>5, TakenKept DEF Next, Render

LEMMA Joined ==
  ASSUME NEW S, NEW s \in Seq(S), NEW n \in Nat, NEW f, \A i \in 1 .. n : f[i] \in S
  PROVE  LET t == s \o <<>> \o [i \in 1 .. n |-> f[i]]
         IN /\ t \in Seq(S) /\ Len(t) = Len(s) + n
            /\ \A i \in 1 .. Len(s) : t[i] = s[i]
            /\ \A i \in 1 .. n : t[Len(s) + i] = f[i]
<1> DEFINE u == [i \in 1 .. n |-> f[i]]
<1>1. u \in Seq(S) /\ Len(u) = n /\ \A i \in 1 .. n : u[i] = f[i]
  OBVIOUS
<1>2. s \o <<>> = s
  OBVIOUS
<1> HIDE DEF u
<1>3. /\ s \o u \in Seq(S) /\ Len(s \o u) = Len(s) + n
      /\ \A i \in 1 .. Len(s) + Len(u) : (s \o u)[i] = IF i <= Len(s) THEN s[i] ELSE u[i - Len(s)]
  BY <1>1, ConcatProperties
<1>4. \A i \in 1 .. n : (s \o u)[Len(s) + i] = f[i]
  <2> TAKE i \in 1 .. n
  <2>1. /\ Len(s) + i \in 1 .. Len(s) + Len(u) /\ ~(Len(s) + i <= Len(s))
        /\ (Len(s) + i) - Len(s) = i
    BY <1>1
  <2> QED BY <2>1, <1>1, <1>3
<1>5. \A i \in 1 .. Len(s) : (s \o u)[i] = s[i]
  BY <1>1, <1>3
<1> QED BY <1>2, <1>3, <1>4, <1>5 DEF u

LEMMA SentKept ==
  ASSUME IInv, Course, Contents, Sent, [Next]_vars
  PROVE  Sent'
<1>1. Loop
  BY DEF IInv
<1>2. CASE \E n \in 1 .. BlockSize : \E presses \in {{}} \cup {{t} : t \in 0 .. n} :
             Process(n, presses)
  <2>1. /\ frames = 0 /\ output' = [c \in Channel |-> <<>>] /\ cursor' = 0
        /\ UNCHANGED <<played, piece, left, channel>>
    BY <1>2 DEF Process, call
  <2>2. piece = 0 /\ played \in Nat
    BY <2>1, <1>1 DEF Course, Loop
  <2>3. \A c \in Channel : Taken(c)' = played
    BY <2>1, <2>2 DEF Taken
  <2>4. <<>> \in Seq(Seq(Int \cup {scaled})) /\ Len(<<>>) = 0
    OBVIOUS
  <2> QED BY <2>1, <2>2, <2>3, <2>4 DEF Sent
<1>3. CASE StartPiece
  <2>1. UNCHANGED <<stepSize, played, frames, output>> /\ \A c \in Channel : Taken(c)' = Taken(c)
    BY <1>3, TakenKept DEF StartPiece, streams
  <2> QED BY <2>1 DEF Sent, Whole
<1>4. CASE Iterate
  <2> SUFFICES ASSUME frames > 0, NEW c \in Channel
               PROVE  /\ DOMAIN output' = Channel
                      /\ output'[c] \in Seq(Seq(Int \cup {scaled}))
                      /\ Len(output'[c]) = Taken(c)' - played
                      /\ \A i \in 1 .. Len(output'[c]) : Whole(output'[c][i], played - FFTSize + i - 1)
    <3>1. UNCHANGED <<stepSize, played, frames>> /\ Channel # {}
      BY <1>1, <1>4, IterateBites, Sizes
    <3> QED BY <3>1 DEF Sent, Whole
  <2>1. /\ channel \in Channel /\ BiteSize \in Nat /\ played \in Nat /\ Taken(channel) \in Nat
        /\ output' = [output EXCEPT ![channel] =
                        @ \o <<>> \o [i \in 1 .. BiteSize |-> Rendered.out[i]]]
        /\ Taken(c)' = IF c = channel THEN Taken(c) + BiteSize ELSE Taken(c)
    <3>1. BiteSize \in 0 .. left /\ left \in Nat /\ channel \in Channel /\ played \in Nat
      BY <1>1, <1>4, IterateBites DEF Loop, Course
    <3> QED BY <3>1, <1>4, IterateBites, TakenByIterate
  <2>2. /\ DOMAIN output = Channel
        /\ output[c] \in Seq(Seq(Int \cup {scaled}))
        /\ Len(output[c]) = Taken(c) - played
        /\ \A i \in 1 .. Len(output[c]) : Whole(output[c][i], played - FFTSize + i - 1)
    BY DEF Sent
  <2>3. CASE c # channel
    BY <2>1, <2>2, <2>3
  <2>4. CASE c = channel
    <3> DEFINE b == buffers[channel]
               taken == Taken(channel)
    <3>1. /\ b.held \in 0 .. FFTSize /\ b.ready = FFTSize - b.held
          /\ DOMAIN b.out = 1 .. outputBufferSize
          /\ HoldsInput(b, taken) /\ HoldsOutput(b, taken, b.ready)
      BY <2>1 DEF IInv, NeverStarves, Contents
    <3>2. \A i \in 1 .. BiteSize : Whole(Rendered.out[i], taken - FFTSize + i - 1)
      <4> HIDE DEF b, taken
      <4>1. taken \in Int
        BY <2>1 DEF taken
      <4> QED BY <3>1, <4>1, <1>1, BiteKeepsContents
              DEF Bitten, Rendered, Filled, BiteSize, b, taken
    <3>3. \A i \in 1 .. BiteSize : taken - FFTSize + i - 1 \in Int
      BY <2>1, <1>1, Sizes
    <3>4. \A i \in 1 .. BiteSize : Rendered.out[i] \in Seq(Int \cup {scaled})
      BY <3>2, <3>3, <1>1, WholeIsSeq
    <3> DEFINE f == Rendered.out
               sent == output[c] \o <<>> \o [i \in 1 .. BiteSize |-> f[i]]
    <3>5. output'[c] = sent
      BY <2>1, <2>2, <2>4
    <3>6. /\ sent \in Seq(Seq(Int \cup {scaled})) /\ Len(sent) = Len(output[c]) + BiteSize
          /\ \A i \in 1 .. Len(output[c]) : sent[i] = output[c][i]
          /\ \A i \in 1 .. BiteSize : sent[Len(output[c]) + i] = f[i]
      <4>1. \A i \in 1 .. BiteSize : f[i] \in Seq(Int \cup {scaled})
        BY <3>4
      <4>2. BiteSize \in Nat /\ output[c] \in Seq(Seq(Int \cup {scaled}))
        BY <2>1, <2>2
      <4> HIDE DEF f
      <4> QED BY <4>1, <4>2, Joined
    <3> HIDE DEF sent
    <3>10. /\ Len(output[c]) \in Nat /\ BiteSize \in Nat /\ played \in Nat /\ taken \in Nat
           /\ Len(output[c]) = taken - played /\ FFTSize \in Nat
           /\ Taken(c)' = taken + BiteSize
      <4>1. Len(output[c]) \in Nat
        BY <2>2
      <4> QED BY <4>1, <2>1, <2>2, <2>4, <1>1, Sizes
    <3>7. ASSUME NEW i \in 1 .. Len(sent)
          PROVE  Whole(sent[i], played - FFTSize + i - 1)
      <4>1. CASE i <= Len(output[c])
        <5>1. i \in 1 .. Len(output[c])
          BY <4>1
        <5> QED BY <5>1, <2>2, <3>6
      <4>2. CASE ~(i <= Len(output[c]))
        <5> DEFINE j == i - Len(output[c])
        <5>1. /\ j \in 1 .. BiteSize /\ i = Len(output[c]) + j
              /\ taken - FFTSize + j - 1 = played - FFTSize + i - 1
          <6>1. i \in 1 .. Len(output[c]) + BiteSize
            BY <3>6
          <6> HIDE DEF taken
          <6> QED BY <6>1, <4>2, <3>10
        <5> HIDE DEF j, f, taken
        <5> QED BY <5>1, <3>2, <3>6 DEF f
      <4> QED BY <4>1, <4>2
    <3>8. Len(sent) = Taken(c)' - played
      <4> HIDE DEF taken
      <4> QED BY <3>6, <3>10
    <3>9. DOMAIN output' = Channel
      BY <2>1, <2>2
    <3> QED BY <3>5, <3>6, <3>7, <3>8, <3>9
  <2> QED BY <2>3, <2>4
<1>5. CASE EndBlock
  BY <1>5 DEF EndBlock, Sent
<1>6. CASE \E step \in StepSizes : Reset(step)
  BY <1>6 DEF Reset, Sent
<1>7. CASE UNCHANGED vars
  BY <1>7 DEF vars, streams, host, call, Sent, Taken, Whole
<1> QED BY <1>2, <1>3, <1>4, <1>5, <1>6, <1>7 DEF Next, Render

LEMMA StreamStarts == Init => Course /\ Contents /\ Sent
<1> SUFFICES ASSUME Init PROVE Course /\ Contents /\ Sent
  OBVIOUS
<1>1. Loop /\ stepSize \in StepSizes
  BY InitBalanced DEF IInv, Loop
<1>2. Course
  BY DEF Init, Course
<1>3. Sent
  BY DEF Init, Sent
<1>4. Contents
  <2>1. <<>> \in Seq(Silence)
    OBVIOUS
  <2>2. HoldsInput(ResetBuffers(stepSize), 0)
    BY <1>1, ResetHoldsSilence DEF HoldsInput
  <2>3. HoldsOutput(ResetBuffers(stepSize), 0, stepSize)
    BY <1>1, <2>1, ResetHoldsSilence DEF HoldsOutput, Whole, Partial, outputBufferSize
  <2>4. ResetBuffers(stepSize).ready = stepSize
    BY <1>1, ResetHoldsSilence
  <2>5. \A c \in Channel : Taken(c) = 0 /\ buffers[c] = ResetBuffers(stepSize)
    BY DEF Init, Taken
  <2> QED BY <2>2, <2>3, <2>4, <2>5 DEF Contents
<1> QED BY <1>2, <1>3, <1>4

LEMMA SentIsDelayed == IInv /\ Course /\ Sent => DelayedByOneWindow
<1> SUFFICES ASSUME IInv, Course, Sent, frames > 0, NEW c \in Channel,
                    NEW i \in 1 .. Len(output[c])
             PROVE  LET heard == played + i - 1 - FFTSize
                        slot == output[c][i]
                    IN IF heard >= 0
                         THEN slot = Repeated(heard, FFTSize \div stepSize) \o <<scaled, heard>>
                         ELSE \A k \in 1 .. Len(slot) : slot[k] = scaled \/ slot[k] < 0
  BY DEF DelayedByOneWindow, Repeated
<1> DEFINE heard == played + i - 1 - FFTSize
           slot == output[c][i]
<1>1. Whole(slot, played - FFTSize + i - 1)
  BY DEF Sent
<1>2. played - FFTSize + i - 1 = heard
  <2>1. output[c] \in Seq(Seq(Int \cup {scaled}))
    BY DEF Sent
  <2>2. i \in Int
    BY <2>1
  <2> QED BY <2>2, Sizes DEF IInv, Course
<1> HIDE DEF heard, slot
<1>3. Whole(slot, heard)
  BY <1>1, <1>2
<1>4. CASE heard >= 0
  BY <1>3, <1>4 DEF Whole, heard, slot
<1>5. CASE ~(heard >= 0)
  <2>1. slot \in Seq(Silence)
    BY <1>3, <1>5 DEF Whole
  <2>2. \A k \in 1 .. Len(slot) : slot[k] \in Silence
    BY <2>1
  <2>3. \A k \in 1 .. Len(slot) : slot[k] = scaled \/ slot[k] < 0
    BY <2>2 DEF Silence
  <2> QED BY <1>5, <2>3 DEF heard, slot
<1> QED BY <1>4, <1>5

----------------------------------------------------------------------------
(* The trigger.  A piece is no longer than a hop, so it gives a channel    *)
(* one frame or none, by what every channel began it holding.              *)
LEMMA HopsDivide ==
  Loop /\ stepSize < FFTSize => 2 * stepSize <= FFTSize
<1> SUFFICES ASSUME Loop, stepSize < FFTSize PROVE 2 * stepSize <= FFTSize
  OBVIOUS
<1>1. FFTSize \in Nat \ {0} /\ stepSize \in 1 .. FFTSize /\ FFTSize % stepSize = 0
  BY FFTSizeAssumption, StepAssumption DEF Loop
<1>2. PICK q \in Int : FFTSize = stepSize * q
  <2>1. FFTSize \in Nat /\ stepSize \in Nat \ {0} /\ FFTSize % stepSize = 0
    BY <1>1
  <2> QED BY <2>1, WholeMultiple
<1>3. q # 0 /\ q # 1 /\ ~(q < 0)
  BY <1>1, <1>2
<1> QED BY <1>1, <1>2, <1>3

\* A turn of the loop, seen from how the channels march.
LEMMA IterateMarches ==
  ASSUME IInv, Course, Contents, Iterate, NEW h \in 0 .. FFTSize, Abreast(h)
  PROVE  LET due == FrameIsDue(Filled)
             framed == Framed(h, channel)
         IN /\ due => ~framed
            /\ left = BiteSize => /\ Gives(h, piece) <=> due \/ framed
                                  /\ Bitten.held = After(h, piece)
            /\ IF due \/ framed
                 THEN /\ Bitten.held = h + (piece - (left - BiteSize)) - stepSize
                      /\ FFTSize <= h + (piece - (left - BiteSize))
                 ELSE /\ Bitten.held = h + (piece - (left - BiteSize))
                      /\ Waits(Bitten.held)
            /\ due \/ framed <=> Bitten.held # h + (piece - (left - BiteSize))
            /\ due => /\ Filled.main[FFTSize] = Newest(channel)
                      /\ buffers[channel].held + BiteSize = FFTSize
            /\ ~due => Bitten.held = buffers[channel].held + BiteSize
<1> DEFINE b == buffers[channel]
           taken == Taken(channel)
           due == FrameIsDue(Filled)
<1>1. /\ Loop /\ FFTSize \in Nat \ {0} /\ stepSize \in 1 .. FFTSize
      /\ channel \in Channel /\ channel \in Int
  BY Sizes DEF IInv, Loop
<1>2. piece > 0 /\ BiteSize \in 0 .. left
  BY IterateBites
<1>3. piece \in 1 .. stepSize /\ left \in 1 .. piece
  BY <1>1, <1>2 DEF Course, Loop
<1>4. /\ b.held \in 0 .. FFTSize /\ b.ready = FFTSize - b.held
      /\ DOMAIN b.out = 1 .. outputBufferSize
      /\ HoldsInput(b, taken) /\ HoldsOutput(b, taken, b.ready)
  BY <1>1 DEF IInv, NeverStarves, Contents
<1>5. taken \in Int
  BY <1>1, TakenByIterate
<1>6. /\ due <=> b.held + BiteSize = FFTSize /\ stepSize <= b.held
      /\ due => Filled.main[FFTSize] = taken + BiteSize - 1
      /\ Bitten.held = IF due THEN FFTSize - stepSize ELSE b.held + BiteSize
  <2> HIDE DEF b, taken
  <2> QED BY <1>1, <1>4, <1>5, BiteKeepsContents
          DEF Bitten, Rendered, Filled, BiteSize, b, taken, due
<1>7. BiteSize = IF FFTSize - b.held <= left THEN FFTSize - b.held ELSE left
  BY DEF BiteSize, Least
<1>8. /\ FFTSize - stepSize <= h /\ (stepSize < FFTSize => h < FFTSize)
      /\ \/ b.held = h + (piece - left) /\ (stepSize < FFTSize => b.held < FFTSize)
         \/ b.held = h + (piece - left) - stepSize /\ FFTSize <= h + (piece - left)
  BY <1>1, <1>3 DEF Abreast, Waits
<1>9. Framed(h, channel) <=> b.held # h + (piece - left)
  BY <1>1 DEF Framed
<1> DEFINE isDue == b.held + BiteSize = FFTSize /\ stepSize <= b.held
           after == IF isDue THEN FFTSize - stepSize ELSE b.held + BiteSize
           framed == b.held # h + (piece - left)
           gives == h + piece > FFTSize \/ (h + piece = FFTSize /\ stepSize < FFTSize)
<1>10. /\ isDue => ~framed
       /\ left = BiteSize => /\ gives <=> isDue \/ framed
                             /\ after = IF gives THEN h + piece - stepSize ELSE h + piece
       /\ IF isDue \/ framed
            THEN after = h + (piece - (left - BiteSize)) - stepSize /\ FFTSize <= h + (piece - (left - BiteSize))
            ELSE /\ after = h + (piece - (left - BiteSize)) /\ after <= FFTSize
                 /\ stepSize < FFTSize => after < FFTSize
       /\ isDue \/ framed <=> after # h + (piece - (left - BiteSize))
  <2>1. stepSize < FFTSize => 2 * stepSize <= FFTSize
    BY <1>1, HopsDivide
  <2>2. BiteSize \in Nat
    BY <1>2, <1>3
  <2> DEFINE held == b.held
  <2> HIDE DEF b
  <2>3. held \in 0 .. FFTSize
    BY <1>4
  <2>4. BiteSize = IF FFTSize - held <= left THEN FFTSize - held ELSE left
    BY <1>7
  <2>5. /\ FFTSize - stepSize <= h /\ (stepSize < FFTSize => h < FFTSize)
        /\ \/ held = h + (piece - left) /\ (stepSize < FFTSize => held < FFTSize)
           \/ held = h + (piece - left) - stepSize /\ FFTSize <= h + (piece - left)
    BY <1>8
  <2>6. FFTSize \in Nat \ {0} /\ stepSize \in 1 .. FFTSize
    BY <1>1
  <2> HIDE DEF held
  <2>7. (isDue <=> held + BiteSize = FFTSize /\ stepSize <= held) /\ (framed <=> held # h + (piece - left))
        /\ after = IF isDue THEN FFTSize - stepSize ELSE held + BiteSize
    BY DEF held
  <2> HIDE DEF isDue, framed, after
  <2> QED BY <2>1, <2>2, <2>3, <2>4, <2>5, <2>6, <2>7, <1>3
<1>11. isDue <=> due
  BY <1>6
<1>12. after = Bitten.held
  BY <1>6
<1>13. due => Filled.main[FFTSize] = Newest(channel)
  <2>1. due => taken + BiteSize - 1 = taken + (FFTSize - b.held) - 1
    BY <1>1, <1>2, <1>3, <1>4, <1>5, <1>6
  <2> QED BY <1>6, <2>1 DEF Newest
<1>14. gives <=> Gives(h, piece)
  BY DEF Gives
<1> HIDE DEF due, isDue, after, gives, framed
<1> QED BY <1>6, <1>9, <1>10, <1>11, <1>12, <1>13, <1>14 DEF After, Waits, due, framed

Due == FrameIsDue(Filled)
FramedThen(h, c) == Framed(h, c) \/ (c = channel /\ Due)

\* What a frame does to the trigger, and who has had one then.
LEMMA FrameReads ==
  ASSUME IInv, Course, Contents, OnTime, Iterate, NEW h \in 0 .. FFTSize, Abreast(h), Pressed(h)
  PROVE  /\ preProcessed' => /\ \E c \in Channel : FramedThen(h, c)
                             /\ ~armed'
                             /\ \A c \in owed' : freeze' /\ ~FramedThen(h, c)
         /\ ~preProcessed' => (owed' # {} => armed') /\ \A c \in Channel : ~FramedThen(h, c)
         /\ owed' = (IF Due THEN owed \ {channel} ELSE owed) /\ pressedAt' = pressedAt
         /\ {preProcessed', armed', freeze'} \subseteq BOOLEAN
         /\ answeredAt' = IF Due /\ channel \in owed
                            THEN [answeredAt EXCEPT ![channel] = Newest(channel)]
                            ELSE answeredAt
<1>1. piece > 0 /\ channel \in Channel
  BY IterateBites DEF IInv, Loop
<1>2. /\ preProcessed => /\ \E c \in Channel : Framed(h, c)
                         /\ ~armed
                         /\ \A c \in owed : freeze /\ ~Framed(h, c)
      /\ ~preProcessed => (owed # {} => armed) /\ \A c \in Channel : ~Framed(h, c)
      /\ owed \subseteq Channel /\ {preProcessed, armed, freeze} \subseteq BOOLEAN
  BY <1>1 DEF Pressed, Waiting, OnTime
<1>3. CASE ~Due
  <2>1. UNCHANGED <<preProcessed, armed, freeze, owed, pressedAt, answeredAt>>
    BY <1>3, IterateBites DEF trigger, Due
  <2> QED BY <1>1, <1>2, <1>3, <2>1 DEF FramedThen
<1>4. CASE Due
  <2>1. RunModules(Filled.main[FFTSize])
    BY <1>4, IterateBites DEF Due
  <2>2. Filled.main[FFTSize] = Newest(channel)
    BY <1>4, IterateMarches DEF Due
  <2> DEFINE acts == IF ~preProcessed THEN armed ELSE freeze
  <2>3. /\ preProcessed' = TRUE
        /\ freeze' = acts
        /\ armed' = IF ~preProcessed THEN FALSE ELSE armed
        /\ owed' = IF acts THEN owed \ {channel} ELSE owed
        /\ answeredAt' = IF acts /\ channel \in owed
                           THEN [answeredAt EXCEPT ![channel] = Newest(channel)] ELSE answeredAt
        /\ pressedAt' = pressedAt
    BY <2>1, <2>2 DEF RunModules, ReadsParameters
  <2>4. owed # {} => acts
    BY <1>2
  <2>5. acts \in BOOLEAN /\ armed' = FALSE
    BY <1>2, <2>3
  <2> HIDE DEF acts
  <2>6. owed' = owed \ {channel}
    BY <2>3, <2>4
  <2>7. \A c \in owed' : freeze' /\ ~FramedThen(h, c)
    BY <1>2, <2>3, <2>4, <2>6 DEF FramedThen
  <2>8. \E c \in Channel : FramedThen(h, c)
    BY <1>1, <1>4 DEF FramedThen
  <2>9. answeredAt' = IF Due /\ channel \in owed
                        THEN [answeredAt EXCEPT ![channel] = Newest(channel)] ELSE answeredAt
    BY <1>4, <2>3, <2>4
  <2>10. owed' = IF Due THEN owed \ {channel} ELSE owed
    BY <1>4, <2>6
  <2>11. {preProcessed', armed', freeze'} \subseteq BOOLEAN
    BY <2>3, <2>5
  <2>12. preProcessed' /\ ~armed'
    BY <2>3, <2>5
  <2> QED BY <2>3, <2>7, <2>8, <2>9, <2>10, <2>11, <2>12, Zenon
<1> QED BY <1>3, <1>4

LEMMA IterateKeepsTrigger ==
  ASSUME IInv, Course, Contents, OnTime, Trigger, Iterate
  PROVE  Trigger' /\ OnTime'
<1>1. PICK h \in 0 .. FFTSize : Abreast(h) /\ Pressed(h)
  BY DEF Trigger
<1>2. /\ Loop /\ FFTSize \in Nat \ {0} /\ stepSize \in 1 .. FFTSize
      /\ channel \in Channel /\ Channel = 1 .. NumberOfChannels /\ NumberOfChannels \in Nat
      /\ DOMAIN buffers = Channel
  BY Sizes DEF IInv, Loop
<1>3. /\ piece > 0 /\ BiteSize \in 0 .. left
      /\ buffers' = [buffers EXCEPT ![channel] = Bitten]
      /\ UNCHANGED <<stepSize, played, frames, events>>
  BY IterateBites
<1>4. piece \in 1 .. stepSize /\ left \in 1 .. piece
  BY <1>2, <1>3 DEF Course, Loop
<1>5. /\ Due => ~Framed(h, channel)
      /\ left = BiteSize => /\ Gives(h, piece) <=> Due \/ Framed(h, channel)
                            /\ Bitten.held = After(h, piece)
      /\ IF Due \/ Framed(h, channel)
           THEN /\ Bitten.held = h + (piece - (left - BiteSize)) - stepSize
                /\ FFTSize <= h + (piece - (left - BiteSize))
           ELSE /\ Bitten.held = h + (piece - (left - BiteSize))
                /\ Waits(Bitten.held)
      /\ Due \/ Framed(h, channel) <=> Bitten.held # h + (piece - (left - BiteSize))
      /\ Due => buffers[channel].held + BiteSize = FFTSize
      /\ ~Due => Bitten.held = buffers[channel].held + BiteSize
  BY <1>1, IterateMarches DEF Due
<1>6. /\ preProcessed' => /\ \E c \in Channel : FramedThen(h, c)
                          /\ ~armed'
                          /\ \A c \in owed' : freeze' /\ ~FramedThen(h, c)
      /\ ~preProcessed' => (owed' # {} => armed') /\ \A c \in Channel : ~FramedThen(h, c)
      /\ owed' = (IF Due THEN owed \ {channel} ELSE owed) /\ pressedAt' = pressedAt
      /\ {preProcessed', armed', freeze'} \subseteq BOOLEAN
      /\ answeredAt' = IF Due /\ channel \in owed
                         THEN [answeredAt EXCEPT ![channel] = Newest(channel)]
                         ELSE answeredAt
  BY <1>1, FrameReads
<1>7. /\ FFTSize - stepSize <= h /\ Waits(h)
      /\ \A c \in Channel : c > channel => buffers[c].held = h
      /\ \A c \in Channel : c < channel => buffers[c].held = After(h, piece)
  BY <1>1, <1>4 DEF Abreast
<1>8. /\ buffers'[channel] = Bitten
      /\ \A c \in Channel : c # channel => buffers'[c] = buffers[c]
  BY <1>2, <1>3
<1>9. OnTime'
  <2> SUFFICES ASSUME NEW c \in Channel
               PROVE  InTime(IF c \in owed THEN Newest(c) ELSE answeredAt[c])'
    <3>1. /\ pressedAt' \in Int /\ owed' \subseteq Channel
          /\ {preProcessed', armed', freeze'} \subseteq BOOLEAN
      BY <1>6 DEF OnTime
    <3>2. answeredAt' \in [Channel -> Int]
      <4>1. Newest(channel) \in Int
        <5>1. Taken(channel) \in Nat
          BY <1>2, TakenByIterate
        <5>2. buffers[channel].held \in 0 .. FFTSize
          BY <1>2 DEF IInv, NeverStarves
        <5> QED BY <5>1, <5>2, <1>2 DEF Newest
      <4> QED BY <4>1, <1>6 DEF OnTime
    <3> QED BY <3>1, <3>2 DEF OnTime
  <2>1. InTime(IF c \in owed THEN Newest(c) ELSE answeredAt[c])
    BY DEF OnTime
  <2>2. c \in owed' => c \in owed /\ Newest(c)' = Newest(c)
    <3>1. ASSUME c # channel \/ ~Due PROVE Newest(c)' = Newest(c)
      <4>1. CASE c # channel
        BY <4>1, <1>3, <1>8, TakenByIterate DEF Newest
      <4>2. CASE c = channel /\ ~Due
        <5>1. Taken(c)' = Taken(c) + BiteSize /\ Taken(c) \in Nat
          BY <4>2, TakenByIterate
        <5>2. buffers[c].held \in 0 .. FFTSize /\ BiteSize \in Nat
          BY <1>3, <1>4 DEF IInv, NeverStarves
        <5>3. buffers'[c].held = buffers[c].held + BiteSize
          BY <4>2, <1>5, <1>8
        <5> QED BY <5>1, <5>2, <5>3, <1>2 DEF Newest
      <4> QED BY <3>1, <4>1, <4>2
    <3> QED BY <3>1, <1>6
  <2>3. c \notin owed' => \/ c \notin owed /\ answeredAt'[c] = answeredAt[c]
                          \/ c \in owed /\ answeredAt'[c] = Newest(c)
    <3>1. c \in owed /\ c \notin owed' => c = channel /\ Due
      BY <1>6
    <3>2. c \notin owed => answeredAt'[c] = answeredAt[c]
      BY <1>6 DEF OnTime
    <3>3. c = channel /\ Due /\ c \in owed => answeredAt'[c] = Newest(c)
      BY <1>6 DEF OnTime
    <3> QED BY <3>1, <3>2, <3>3
  <2>4. (IF c \in owed THEN Newest(c) ELSE answeredAt[c])'
          = IF c \in owed THEN Newest(c) ELSE answeredAt[c]
    BY <2>2, <2>3
  <2> QED BY <2>1, <2>4, <1>3, <1>6 DEF InTime
<1>10. Trigger'
  <2>1. CASE left > BiteSize /\ left' = left - BiteSize /\ UNCHANGED <<piece, channel, cursor>>
    <3>1. Abreast(h)'
      BY <2>1, <1>2, <1>3, <1>4, <1>5, <1>7, <1>8 DEF Abreast, Waits, After, Gives
    <3>2. \A c \in Channel : Framed(h, c)' <=> FramedThen(h, c)
      BY <2>1, <1>2, <1>3, <1>5, <1>8 DEF Framed, FramedThen, Gives
    <3>3. piece' > 0 /\ owed' \subseteq Channel
      BY <2>1, <1>3, <1>6 DEF OnTime
    <3>4. Pressed(h)'
      BY <1>6, <3>2, <3>3 DEF Pressed, Waiting
    <3> QED BY <3>1, <3>4 DEF Trigger
  <2>2. CASE /\ left = BiteSize /\ channel < NumberOfChannels
             /\ left' = piece /\ channel' = channel + 1 /\ UNCHANGED <<piece, cursor>>
    <3>1. Abreast(h)'
      <4>1. h + (piece - piece) = h
        BY <1>4, <1>2
      <4>2. ASSUME NEW c \in Channel
            PROVE  /\ c > channel + 1 => buffers'[c].held = h
                   /\ c < channel + 1 => buffers'[c].held = After(h, piece)
                   /\ c = channel + 1 => buffers'[c].held = h
        BY <2>2, <1>2, <1>5, <1>7, <1>8
      <4> QED BY <2>2, <4>1, <4>2, <1>3, <1>4, <1>7 DEF Abreast, Waits, After, Gives
    <3>2. \A c \in Channel : Framed(h, c)' <=> FramedThen(h, c)
      <4> TAKE c \in Channel
      <4>1. Framed(h, c)' <=> c < channel + 1 /\ Gives(h, piece)
        <5>1. c = channel + 1 => buffers'[c].held = h + (piece - piece)
          <6>1. h + (piece - piece) = h
            BY <1>2, <1>4
          <6>2. c = channel + 1 => c > channel /\ c # channel
            BY <1>2
          <6> QED BY <6>1, <6>2, <1>7, <1>8
        <5> QED BY <2>2, <5>1, <1>3 DEF Framed, Gives
      <4>2. FramedThen(h, c) <=> (c < channel \/ c = channel) /\ Gives(h, piece)
        BY <2>2, <1>2, <1>5 DEF FramedThen, Framed
      <4> QED BY <4>1, <4>2, <1>2
    <3>3. piece' > 0 /\ owed' \subseteq Channel
      BY <2>2, <1>3, <1>6 DEF OnTime
    <3>4. Pressed(h)'
      BY <1>6, <3>2, <3>3 DEF Pressed, Waiting
    <3> QED BY <3>1, <3>4 DEF Trigger
  <2>3. CASE /\ left = BiteSize /\ channel = NumberOfChannels
             /\ piece' = 0 /\ left' = 0 /\ channel' = 1 /\ cursor' = cursor + piece
    <3>7. After(h, piece) \in 0 .. FFTSize
      BY <1>2, <1>4, <1>7 DEF After, Gives, Waits
    <3> PICK g \in 0 .. FFTSize : g = After(h, piece)
      BY <3>7
    <3>1. /\ g \in 0 .. FFTSize /\ FFTSize - stepSize <= g /\ Waits(g)
      BY <1>2, <1>4, <1>7 DEF After, Gives, Waits
    <3>2. \A c \in Channel : buffers'[c].held = g
      BY <2>3, <1>2, <1>5, <1>7, <1>8
    <3>3. \A c \in Channel : FramedThen(h, c) <=> Gives(h, piece)
      BY <2>3, <1>2, <1>5 DEF FramedThen, Framed
    <3>4. owed' # {} => armed'
      <4>1. owed' \subseteq Channel
        BY <1>6 DEF OnTime
      <4> QED BY <4>1, <3>3, <1>6
    <3>5. Abreast(g)'
      BY <2>3, <3>1, <3>2, <1>3 DEF Abreast, Waits
    <3>6. Pressed(g)'
      BY <2>3, <3>4 DEF Pressed, Waiting
    <3> QED BY <3>1, <3>5, <3>6 DEF Trigger
  <2> QED BY <2>1, <2>2, <2>3, IterateBites
<1> QED BY <1>9, <1>10

\* An event that is due arms the trigger, no later than a hop after its time.
LEMMA EventsArmInTime ==
  ASSUME IInv, Course, OnTime, Trigger, piece = 0, ApplyEventsDueAt(cursor),
         UNCHANGED <<stepSize, buffers>>, \A c \in Channel : Taken(c)' = Taken(c),
         preProcessed' \in BOOLEAN
  PROVE  Waiting' /\ OnTime'
<1>1. /\ Loop /\ FFTSize \in Nat \ {0} /\ stepSize \in 1 .. FFTSize
      /\ cursor \in Nat /\ played \in Nat /\ frames \in Nat
  BY Sizes DEF IInv, Loop, Course
<1>2. PICK h \in 0 .. FFTSize :
        /\ FFTSize - stepSize <= h /\ Waits(h)
        /\ \A c \in Channel : buffers[c].held = h
        /\ Waiting
  BY DEF Trigger, Abreast, Pressed
<1>3. freeze' = freeze /\ answeredAt' = answeredAt
  BY DEF ApplyEventsDueAt
<1>4. CASE DueAt(cursor) = {}
  <2>1. UNCHANGED <<armed, owed, pressedAt>>
    BY <1>4 DEF ApplyEventsDueAt
  <2>2. \A c \in Channel : Newest(c)' = Newest(c)
    BY DEF Newest
  <2> QED BY <1>2, <1>3, <2>1, <2>2 DEF Waiting, OnTime, InTime
<1>5. CASE DueAt(cursor) # {}
  <2>1. PICK t \in 0 .. frames : events \subseteq {t}
    BY DEF Course
  <2>2. DueAt(cursor) = {t} /\ t \in events /\ t <= cursor /\ t \in Nat
    <3>1. PICK u \in DueAt(cursor) : TRUE
      BY <1>5
    <3>2. u = t /\ \A v \in DueAt(cursor) : v = t
      BY <2>1 DEF DueAt
    <3>3. t \in DueAt(cursor)
      BY <3>1, <3>2
    <3>4. t \in events /\ t <= cursor
      BY <3>3 DEF DueAt
    <3>5. DueAt(cursor) = {t}
      BY <3>2, <3>3
    <3> QED BY <3>4, <3>5, <1>1
  <2>3. (CHOOSE e \in DueAt(cursor) : \A u \in DueAt(cursor) : u <= e) = t
    BY <2>2
  <2>4. armed' = TRUE /\ owed' = Channel /\ pressedAt' = played + t
    BY <1>5, <2>3 DEF ApplyEventsDueAt
  <2>5. cursor < t + stepSize
    BY <2>2 DEF Course
  <2>6. ASSUME NEW c \in Channel
        PROVE  InTime(IF c \in owed THEN Newest(c) ELSE answeredAt[c])'
    <3>1. Newest(c)' = (played + cursor) + (FFTSize - h) - 1
      <4>1. Taken(c) = played + cursor
        BY <1>1 DEF Taken
      <4>2. buffers'[c].held = h /\ Taken(c)' = Taken(c)
        BY <1>2
      <4> QED BY <4>1, <4>2 DEF Newest
    <3>2. /\ (played + cursor) + (FFTSize - h) - 1 <= (played + t) + 2 * (stepSize - 1)
          /\ stepSize < FFTSize => played + t <= (played + cursor) + (FFTSize - h) - 1
      BY <1>1, <1>2, <2>2, <2>5 DEF Waits
    <3> QED BY <2>4, <3>1, <3>2 DEF InTime
  <2>7. played + t \in Int
    BY <1>1, <2>2
  <2>8. {preProcessed, armed, freeze}' \subseteq BOOLEAN
    BY <1>3, <2>4 DEF OnTime
  <2> QED BY <1>3, <2>4, <2>6, <2>7, <2>8 DEF Waiting, OnTime
<1> QED BY <1>4, <1>5

LEMMA TriggerKept ==
  ASSUME IInv, Course, Contents, Trigger, OnTime, [Next]_vars
  PROVE  Trigger' /\ OnTime'
<1>1. /\ Loop /\ FFTSize \in Nat \ {0} /\ stepSize \in 1 .. FFTSize
  BY Sizes DEF IInv
<1>2. PICK h \in 0 .. FFTSize : Abreast(h) /\ Pressed(h)
  BY DEF Trigger
<1>3. ASSUME UNCHANGED <<stepSize, buffers, piece, left, channel, preProcessed, trigger>>,
             \A c \in Channel : Taken(c)' = Taken(c)
      PROVE  Trigger' /\ OnTime'
  <2>1. Abreast(h)'
    BY <1>2, <1>3 DEF Abreast, Waits, After, Gives
  <2>2. Pressed(h)'
    BY <1>2, <1>3 DEF Pressed, Waiting, Framed, Gives, trigger
  <2>3. \A c \in Channel : Newest(c)' = Newest(c)
    BY <1>3 DEF Newest
  <2>4. OnTime'
    BY <1>3, <2>3 DEF OnTime, InTime, trigger
  <2> QED BY <2>1, <2>2, <2>4 DEF Trigger
<1>4. CASE \E n \in 1 .. BlockSize : \E presses \in {{}} \cup {{t} : t \in 0 .. n} :
             Process(n, presses)
  <2>1. UNCHANGED <<stepSize, buffers, piece, left, channel, preProcessed, trigger>>
    BY <1>4 DEF Process, call
  <2> QED BY <1>3, <1>4, <2>1, TakenKept
<1>5. CASE StartPiece
  <2>1. /\ cursor < frames /\ piece = 0 /\ ApplyEventsDueAt(cursor)
        /\ left' = piece' /\ channel' = 1 /\ preProcessed' = FALSE
        /\ piece' = Least(stepSize, frames - cursor)
        /\ UNCHANGED <<stepSize, buffers>>
    BY <1>5 DEF StartPiece, streams
  <2>2. Waiting' /\ OnTime'
    BY <1>5, <2>1, TakenKept, EventsArmInTime
  <2>3. piece' \in Nat \ {0}
    BY <2>1, <1>1, Sizes DEF Least, Loop
  <2>4. /\ FFTSize - stepSize <= h /\ Waits(h)
        /\ \A c \in Channel : buffers[c].held = h
    BY <1>2, <2>1 DEF Abreast
  <2>5. h + (piece' - left') = h /\ \A c \in Channel : ~(c < 1)
    BY <1>1, <2>1, <2>3, Sizes
  <2>6. Abreast(h)'
    BY <2>1, <2>3, <2>4, <2>5 DEF Abreast, Waits
  <2>7. \A c \in Channel : ~Framed(h, c)'
    BY <2>1, <2>4, <2>5 DEF Framed
  <2>8. Pressed(h)'
    BY <2>1, <2>2, <2>7 DEF Pressed
  <2> QED BY <2>2, <2>6, <2>8 DEF Trigger
<1>6. CASE Iterate
  BY <1>6, IterateKeepsTrigger
<1>7. CASE EndBlock
  <2>1. /\ frames > 0 /\ cursor = frames /\ ApplyEventsDueAt(frames)
        /\ UNCHANGED <<stepSize, buffers, piece, left, channel, preProcessed>>
    BY <1>7 DEF EndBlock, streams, call
  <2>2. piece = 0
    <3>1. piece > 0 => cursor + piece <= frames
      BY DEF Course
    <3> QED BY <1>1, <2>1, <3>1 DEF Loop
  <2>3. Waiting' /\ OnTime'
    <3>1. preProcessed' \in BOOLEAN
      BY <2>1 DEF OnTime
    <3> QED BY <1>7, <2>1, <2>2, <3>1, TakenKept, EventsArmInTime
  <2>4. Abreast(h)'
    BY <1>2, <2>1 DEF Abreast, Waits, After, Gives
  <2>5. Pressed(h)'
    BY <2>1, <2>2, <2>3 DEF Pressed
  <2> QED BY <2>3, <2>4, <2>5 DEF Trigger
<1>8. CASE \E step \in StepSizes : Reset(step)
  <2> PICK step \in StepSizes : Reset(step)
    BY <1>8
  <2>1. /\ frames = 0 /\ stepSize' = step /\ pressedAt' = 0
        /\ buffers' = [c \in Channel |-> ResetBuffers(step)]
        /\ answeredAt' = [c \in Channel |-> 0]
        /\ owed' = IF armed THEN Channel ELSE {}
        /\ UNCHANGED <<piece, left, channel, preProcessed, armed, freeze>>
    BY DEF Reset, call
  <2>2. piece = 0
    <3>1. /\ cursor <= frames
          /\ piece > 0 => cursor + piece <= frames
      BY DEF Course
    <3> QED BY <1>1, <2>1, <3>1 DEF Loop
  <2>3. step \in 1 .. FFTSize /\ \A c \in Channel : buffers'[c].held = FFTSize - step
    BY <2>1, StepAssumption, ResetHoldsSilence
  <2>4. owed' # {} => armed'
    BY <2>1
  <2>5. PICK g \in 0 .. FFTSize : g = FFTSize - step
    BY <2>3, <1>1
  <2>6. Abreast(g)' /\ Pressed(g)'
    BY <2>1, <2>2, <2>3, <2>4, <2>5, <1>1 DEF Abreast, Waits, Pressed, Waiting
  <2>7. \A c \in Channel : Newest(c)' = step - 1
    <3>1. 0 + (FFTSize - (FFTSize - step)) - 1 = step - 1
      BY <1>1, <2>3
    <3> QED BY <2>3, <3>1, TakenByReset DEF Newest
  <2>8. OnTime'
    <3>1. step - 1 <= 0 + 2 * (step - 1) /\ 0 <= 0 + 2 * (step - 1) /\ 0 <= step - 1
      BY <2>3
    <3>2. answeredAt' \in [Channel -> Int] /\ pressedAt' \in Int /\ owed' \subseteq Channel
      BY <2>1
    <3>3. {preProcessed, armed, freeze}' \subseteq BOOLEAN
      BY <2>1 DEF OnTime
    <3>4. \A c \in Channel : InTime(IF c \in owed THEN Newest(c) ELSE answeredAt[c])'
      BY <2>1, <2>7, <3>1 DEF InTime
    <3> QED BY <3>2, <3>3, <3>4 DEF OnTime
  <2> QED BY <2>6, <2>8 DEF Trigger
<1>9. CASE UNCHANGED vars
  <2>1. UNCHANGED <<stepSize, buffers, piece, left, channel, preProcessed, trigger>>
    BY <1>9 DEF vars, streams, call
  <2>2. \A c \in Channel : Taken(c)' = Taken(c)
    BY <1>9 DEF vars, host, call, Taken
  <2> QED BY <1>3, <2>1, <2>2
<1> QED BY <1>4, <1>5, <1>6, <1>7, <1>8, <1>9 DEF Next, Render

LEMMA TriggerStarts == Init => Trigger /\ OnTime
<1> SUFFICES ASSUME Init PROVE Trigger /\ OnTime
  OBVIOUS
<1>1. /\ stepSize \in StepSizes /\ FFTSize \in Nat \ {0} /\ stepSize \in 1 .. FFTSize
      /\ buffers = [c \in Channel |-> ResetBuffers(stepSize)]
      /\ played = 0 /\ cursor = 0 /\ piece = 0
      /\ preProcessed = FALSE /\ armed = FALSE /\ freeze = FALSE
      /\ owed = {} /\ pressedAt = 0 /\ answeredAt = [c \in Channel |-> 0]
  BY FFTSizeAssumption, StepAssumption DEF Init
<1>2. \A c \in Channel : buffers[c].held = FFTSize - stepSize
  BY <1>1, ResetHoldsSilence
<1>3. FFTSize - stepSize \in 0 .. FFTSize /\ Waits(FFTSize - stepSize)
  BY <1>1 DEF Waits
<1>4. Trigger
  BY <1>1, <1>2, <1>3 DEF Trigger, Abreast, Pressed, Waiting
<1>5. 0 <= 0 + 2 * (stepSize - 1)
  BY <1>1
<1>6. OnTime
  <2>1. \A c \in Channel : InTime(IF c \in owed THEN Newest(c) ELSE answeredAt[c])
    BY <1>1, <1>5 DEF InTime
  <2>2. answeredAt \in [Channel -> Int]
    BY <1>1
  <2>3. {preProcessed, armed, freeze} \subseteq BOOLEAN
    BY <1>1
  <2> QED BY <1>1, <2>1, <2>2, <2>3 DEF OnTime
<1> QED BY <1>4, <1>6

----------------------------------------------------------------------------
LEMMA FlowStarts == Init => FlowInv
BY StreamStarts, TriggerStarts DEF FlowInv

LEMMA FlowKept == IInv /\ FlowInv /\ [Next]_vars => FlowInv'
BY CourseKept, ContentsKept, SentKept, TriggerKept DEF FlowInv

LEMMA Flowing == Spec => [](IInv /\ FlowInv)
BY InitBalanced, NextBalanced, FlowStarts, FlowKept, PTL DEF Spec

(* A sample leaves exactly one window after it came, whole, however the    *)
(* host cuts its blocks (latency.md, 3; processSingleChannel()).           *)
THEOREM WindowLater == Spec => []DelayedByOneWindow
<1>1. IInv /\ FlowInv => DelayedByOneWindow
  BY SentIsDelayed DEF FlowInv
<1> QED BY <1>1, Flowing, PTL

(* No block is too short for a press, and no channel reads it alone        *)
(* (preProcessForFirstFrame()).                                            *)
THEOREM TriggerReaching == Spec => []TriggerReachesEveryChannel
<1>1. IInv /\ FlowInv => TriggerReachesEveryChannel
  BY DEF FlowInv, Trigger, Pressed, Waiting, TriggerReachesEveryChannel, IInv, Loop
<1> QED BY <1>1, Flowing, PTL

(* A press sounds within two hops of the sample the host gave it, and not  *)
(* before it where frames overlap (runEngine(), applyEventsDueAt()).       *)
THEOREM ActingWhereTimed == Spec => []ActsWhereTimed
<1>1. IInv /\ FlowInv => ActsWhereTimed
  BY DEF FlowInv, OnTime, InTime, ActsWhereTimed
<1> QED BY <1>1, Flowing, PTL

-----------------------------------------------------------------------------
(* Periods.  A snap answers with a note of its grid, whatever it is given. *)

Eighths(n) ==
  {1, 2, 4, 8} \cup {shortestBeat * d : d \in {d \in 1 .. n : n % d = 0}}
    \cup {shortestBeat * Clamp(p, n, longestBars * n) : p \in {1, 2, 4, 8, 16, 32, 64, 128, 256}}
Note(e, grid, n) ==
  (e * Bar * ToNote(grid)[2]) \div (shortestBeat * n * ToNote(grid)[1])

LEMMA NotesAre ==
  ASSUME NEW grid, NEW n
  PROVE  GridPoints(grid, n) = {Note(e, grid, n) : e \in Eighths(n)}
BY DEF GridPoints, Note, Eighths

LEMMA RoundedIs ==
  ASSUME NEW num \in Nat, NEW den \in Nat \ {0}
  PROVE  Rounded(num, den) \in Nat
<1>1. num \div den \in Nat
  OBVIOUS
<1> QED BY <1>1 DEF Rounded

LEMMA PowerIs ==
  ASSUME NEW v \in 1 .. 255
  PROVE  PowerOfTwo(v) \in {1, 2, 4, 8, 16, 32, 64, 128, 256}
<1> DEFINE down == CHOOSE p \in {1, 2, 4, 8, 16, 32, 64, 128} : p <= v /\ v < 2 * p
<1>1. \E p \in {1, 2, 4, 8, 16, 32, 64, 128} : p <= v /\ v < 2 * p
  OBVIOUS
<1>2. down \in {1, 2, 4, 8, 16, 32, 64, 128} /\ down <= v /\ v < 2 * down
  BY <1>1
<1>3. PowerOfTwo(v) \in {down, 2 * down}
  BY DEF PowerOfTwo
<1> HIDE DEF down
<1> QED BY <1>2, <1>3

LEMMA SmallPower ==
  ASSUME NEW v \in 1 .. 8
  PROVE  PowerOfTwo(v) \in {1, 2, 4, 8}
<1> DEFINE down == CHOOSE p \in {1, 2, 4, 8, 16, 32, 64, 128} : p <= v /\ v < 2 * p
<1>1. \E p \in {1, 2, 4, 8, 16, 32, 64, 128} : p <= v /\ v < 2 * p
  OBVIOUS
<1>2. down \in {1, 2, 4, 8, 16, 32, 64, 128} /\ down <= v /\ v < 2 * down
  BY <1>1
<1>3. PowerOfTwo(v) = IF down > 1 /\ v >= down + down \div 2 THEN 2 * down ELSE down
  BY DEF PowerOfTwo
<1> HIDE DEF down
<1>4. down \in {1, 2, 4, 8}
  BY <1>2
<1>5. down = 8 => v < 12
  OBVIOUS
<1>6. 8 \div 2 = 4
  OBVIOUS
<1> QED BY <1>2, <1>3, <1>4, <1>5, <1>6

Below == {ss \in Nat \X Nat : ss[1] < ss[2]}
LEMMA LeastOf ==
  ASSUME NEW S \in SUBSET Nat, S # {}
  PROVE  \E x \in S : \A y \in S : x <= y
<1>1. IsWellFoundedOn(Below, Nat)
  BY NatLessThanWellFounded DEF OpToRel, Below
<1>2. PICK x \in S : \A y \in S : ~ (<<y, x>> \in Below)
  BY <1>1, WFMin
<1>3. ASSUME NEW y \in S PROVE x <= y
  <2>1. x \in Nat /\ y \in Nat /\ ~ (y < x)
    BY <1>2 DEF Below
  <2> QED BY <2>1
<1> QED BY <1>3

LEMMA GreatestOf ==
  ASSUME NEW k \in Nat, NEW S \in SUBSET (0 .. k), S # {}
  PROVE  \E x \in S : \A y \in S : y <= x
<1> DEFINE T == {k - y : y \in S}
<1>1. \A y \in S : y \in 0 .. k /\ k - y \in Nat
  OBVIOUS
<1>2. T \in SUBSET Nat /\ T # {}
  BY <1>1
<1>3. PICK t \in T : \A u \in T : t <= u
  BY <1>2, LeastOf
<1>4. PICK x \in S : t = k - x
  OBVIOUS
<1>5. ASSUME NEW y \in S PROVE y <= x
  <2>1. k - y \in T
    OBVIOUS
  <2>2. k - x <= k - y
    BY <1>3, <1>4, <2>1
  <2> QED BY <1>1, <2>2
<1> QED BY <1>5

LEMMA DivisorIs ==
  ASSUME NEW n \in 1 .. 255, NEW beats \in 1 .. n
  PROVE  ClosestDivisor(beats, n) \in {d \in 1 .. n : n % d = 0}
<1> DEFINE up == CHOOSE d \in beats .. n : n % d = 0 /\ \A e \in beats .. d - 1 : n % e # 0
           down == CHOOSE d \in 1 .. beats : n % d = 0 /\ \A e \in d + 1 .. beats : n % e # 0
           Over == {d \in beats .. n : n % d = 0}
           Under == {d \in 1 .. beats : n % d = 0}
<1>1. n \in Over /\ 1 \in Under
  OBVIOUS
<1>2. \E d \in beats .. n : n % d = 0 /\ \A e \in beats .. d - 1 : n % e # 0
  <2>1. PICK d \in Over : \A e \in Over : d <= e
    <3> Over \in SUBSET Nat /\ Over # {}
      BY <1>1
    <3> QED BY LeastOf
  <2>2. d \in beats .. n /\ n % d = 0
    OBVIOUS
  <2>3. ASSUME NEW e \in beats .. d - 1 PROVE n % e # 0
    <3>1. e \in beats .. n /\ ~ (d <= e)
      BY <2>2
    <3> QED BY <2>1, <3>1
  <2> QED BY <2>2, <2>3
<1>3. \E d \in 1 .. beats : n % d = 0 /\ \A e \in d + 1 .. beats : n % e # 0
  <2>1. PICK d \in Under : \A e \in Under : e <= d
    <3>1. Under \in SUBSET (0 .. beats)
      OBVIOUS
    <3>2. Under # {} /\ beats \in Nat
      BY <1>1
    <3> HIDE DEF Under
    <3> QED BY <3>1, <3>2, GreatestOf
  <2>2. d \in 1 .. beats /\ n % d = 0
    OBVIOUS
  <2>3. ASSUME NEW e \in d + 1 .. beats PROVE n % e # 0
    <3>1. e \in 1 .. beats /\ ~ (e <= d)
      BY <2>2
    <3> QED BY <2>1, <3>1
  <2> QED BY <2>2, <2>3
<1>4. up \in beats .. n /\ n % up = 0
  BY <1>2
<1>5. down \in 1 .. beats /\ n % down = 0
  BY <1>3
<1>6. ClosestDivisor(beats, n) \in {up, down}
  BY DEF ClosestDivisor
<1> HIDE DEF up, down
<1> QED BY <1>4, <1>5, <1>6

LEMMA ClampWithin ==
  ASSUME NEW v \in Int, NEW low \in Int, NEW high \in Int, low <= high
  PROVE  Clamp(v, low, high) \in low .. high
BY DEF Clamp, Smaller, Larger

(* A snap's answer is a note of the meter.                                 *)
LEMMA SnapIsNote ==
  ASSUME NEW num \in Nat, NEW den \in Nat \ {0}, NEW n \in 1 .. 255
  PROVE  SnappedEighths(num, den, n) \in Eighths(n)
<1> DEFINE beats == Rounded(num * n, den) % 256
<1>1. num * n \in Nat
  OBVIOUS
<1>2. Rounded(num * n, den) \in Nat
  BY <1>1, RoundedIs
<1>3. beats \in 0 .. 255
  BY <1>2
<1>4. CASE beats > n
  <2>1. PowerOfTwo(beats) \in {1, 2, 4, 8, 16, 32, 64, 128, 256}
    BY <1>3, <1>4, PowerIs
  <2>2. SnappedEighths(num, den, n) = shortestBeat * Clamp(PowerOfTwo(beats), n, longestBars * n)
    BY <1>4 DEF SnappedEighths
  <2> QED BY <2>1, <2>2 DEF Eighths
<1>5. CASE beats \in 1 .. n
  <2>1. ClosestDivisor(beats, n) \in {d \in 1 .. n : n % d = 0}
    BY <1>5, DivisorIs
  <2>2. SnappedEighths(num, den, n) = shortestBeat * ClosestDivisor(beats, n)
    <3>1. ~ (beats > n) /\ beats > 0
      BY <1>5
    <3> QED BY <3>1 DEF SnappedEighths
  <2> QED BY <2>1, <2>2 DEF Eighths
<1>6. CASE beats = 0
  <2> DEFINE within == Clamp(num * n * shortestBeat, den, shortestBeat * den)
  <2>1. within \in den .. 8 * den
    <3>1. num * n * shortestBeat \in Int
      BY <1>1 DEF shortestBeat
    <3> QED BY <3>1, ClampWithin DEF shortestBeat
  <2>2. Rounded(within, den) \in 1 .. 8
    <3> HIDE DEF within
    <3> DEFINE q == within \div den   r == within % den
    <3>1. q \in Int /\ r \in 0 .. den - 1 /\ within = den * q + r
      BY <2>1
    <3>2. Rounded(within, den) = IF 2 * r > den \/ (2 * r = den /\ q % 2 = 1) THEN q + 1 ELSE q
      BY DEF Rounded
    <3> HIDE DEF q, r
    <3>3. q >= 1
      <4>1. SUFFICES ASSUME q <= 0 PROVE FALSE
        BY <3>1
      <4>2. den * q <= 0
        BY <3>1, <4>1
      <4> QED BY <3>1, <4>2, <2>1
    <3>4. q <= 8
      <4>1. SUFFICES ASSUME q >= 9 PROVE FALSE
        BY <3>1
      <4>2. den * q >= den * 9
        BY <3>1, <4>1
      <4> QED BY <3>1, <4>2, <2>1
    <3>5. q = 8 => r = 0
      BY <3>1, <2>1
    <3> QED BY <3>1, <3>2, <3>3, <3>4, <3>5
  <2>3. PowerOfTwo(Rounded(within, den)) \in {1, 2, 4, 8}
    BY <2>2, SmallPower
  <2>4. SnappedEighths(num, den, n) = PowerOfTwo(Rounded(within, den))
    BY <1>6 DEF SnappedEighths
  <2> QED BY <2>3, <2>4 DEF Eighths
<1> QED BY <1>3, <1>4, <1>5, <1>6

-----------------------------------------------------------------------------
(* Onto one grid, and onto the nearest of several.                         *)

LEMMA NoteIs ==
  ASSUME NEW grid \in Grids
  PROVE  ToNote(grid) \in {<<1, 1>>, <<3, 2>>, <<2, 3>>}
BY DEF ToNote, Grids

LEMMA SnapOntoIs ==
  ASSUME NEW p \in Nat, NEW grid \in Grids, NEW n \in 1 .. 255
  PROVE  SnapOnto(p, grid, n) \in Nat \cap GridPoints(grid, n)
<1> DEFINE to == ToNote(grid)
           e == SnappedEighths(p * to[1], Bar * to[2], n)
<1>1. to[1] \in Nat \ {0} /\ to[2] \in Nat \ {0}
  BY NoteIs
<1>2. p * to[1] \in Nat /\ Bar * to[2] \in Nat \ {0}
  BY <1>1, BarAssumption
<1>3. e \in Eighths(n)
  BY <1>2, SnapIsNote
<1>4. SnapOnto(p, grid, n) = Note(e, grid, n)
  BY DEF SnapOnto, Note
<1>5. e \in Nat
  <2>1. \A c \in {1, 2, 4, 8, 16, 32, 64, 128, 256} : Clamp(c, n, longestBars * n) \in Nat
    <3> TAKE c \in {1, 2, 4, 8, 16, 32, 64, 128, 256}
    <3>1. Clamp(c, n, longestBars * n) \in n .. longestBars * n
      BY ClampWithin DEF longestBars
    <3> QED BY <3>1 DEF longestBars
  <2> HIDE DEF e
  <2> QED BY <1>3, <2>1 DEF Eighths, shortestBeat
<1>6. Note(e, grid, n) \in Nat
  <2> HIDE DEF e, to
  <2>1. e * Bar \in Nat /\ shortestBeat * n \in Nat \ {0}
    BY <1>5, BarAssumption DEF shortestBeat
  <2>2. e * Bar * to[2] \in Nat /\ shortestBeat * n * to[1] \in Nat \ {0}
    BY <1>1, <2>1
  <2> QED BY <2>2 DEF Note, to
<1> QED BY <1>3, <1>4, <1>6, NotesAre

Nearest(p, sync, n, grid) ==
  /\ grid \in sync
  /\ \A other \in sync : Distance(SnapOnto(p, grid, n), p) <= Distance(SnapOnto(p, other, n), p)

LEMMA WonIs ==
  ASSUME NEW p \in Nat, NEW sync \in SUBSET Grids, sync # Free, NEW n \in 1 .. 255
  PROVE  LET snapped == snapSyncedPeriod(p, sync, n)
         IN /\ Nearest(p, sync, n, snapped.grid)
            /\ snapped = [period |-> SnapOnto(p, snapped.grid, n), grid |-> snapped.grid]
            /\ Quarter \in sync /\ Nearest(p, sync, n, Quarter) => snapped.grid = Quarter
<1> DEFINE At(grid) == Distance(SnapOnto(p, grid, n), p)
           Before(grid) == CASE grid = Quarter -> {} [] grid = Triplet -> {Quarter}
                             [] grid = Dotted -> {Quarter, Triplet}
           Won(grid) == /\ \A other \in sync : At(grid) <= At(other)
                        /\ \A other \in sync \cap Before(grid) : At(grid) < At(other)
           won == CHOOSE grid \in sync : Won(grid)
<1>1. \A grid \in sync : At(grid) \in Nat
  <2> SUFFICES ASSUME NEW grid \in sync PROVE At(grid) \in Nat
    OBVIOUS
  <2>1. SnapOnto(p, grid, n) \in Nat
    BY SnapOntoIs
  <2> QED BY <2>1 DEF Distance
<1>2. PICK near \in sync : \A other \in sync : At(near) <= At(other)
  <2> DEFINE S == {At(grid) : grid \in sync}
  <2> HIDE DEF At
  <2>1. S \in SUBSET Nat /\ S # {}
    BY <1>1 DEF Free
  <2>2. PICK d \in S : \A other \in S : d <= other
    BY <2>1, LeastOf
  <2> QED BY <2>2
<1>3. \E grid \in sync : Won(grid)
  <2> HIDE DEF At
  <2> DEFINE TakesIt(grid) == grid \in sync /\ At(grid) = At(near)
  <2>1. CASE TakesIt(Quarter)
    <3>1. Before(Quarter) = {}
      BY DEF Triplet, Quarter, Dotted
    <3> QED BY <1>2, <2>1, <3>1
  <2>2. CASE ~TakesIt(Quarter) /\ TakesIt(Triplet)
    <3>1. Before(Triplet) = {Quarter}
      BY DEF Triplet, Quarter, Dotted
    <3> QED BY <1>1, <1>2, <2>2, <3>1
  <2>3. CASE ~TakesIt(Quarter) /\ ~TakesIt(Triplet) /\ TakesIt(Dotted)
    <3>1. Before(Dotted) = {Quarter, Triplet}
      BY DEF Triplet, Quarter, Dotted
    <3> QED BY <1>1, <1>2, <2>3, <3>1
  <2> QED BY <2>1, <2>2, <2>3, <1>2 DEF Grids
<1>4. won \in sync /\ Won(won)
  <2> HIDE DEF Won
  <2> QED BY <1>3
<1>5. snapSyncedPeriod(p, sync, n) = [period |-> SnapOnto(p, won, n), grid |-> won]
  BY DEF snapSyncedPeriod
<1>6. ASSUME Quarter \in sync, Nearest(p, sync, n, Quarter) PROVE won = Quarter
  <2> HIDE DEF won
  <2>1. won # Quarter => Quarter \in Before(won)
    BY <1>4 DEF Grids, Quarter, Triplet, Dotted
  <2>2. At(Quarter) <= At(won)
    BY <1>4, <1>6 DEF Nearest
  <2>3. won # Quarter => At(won) < At(Quarter)
    BY <1>4, <1>6, <2>1
  <2> QED BY <1>1, <1>4, <1>6, <2>2, <2>3
<1> HIDE DEF won
<1> QED BY <1>4, <1>5, <1>6 DEF Nearest

-----------------------------------------------------------------------------
(* A snap leaves a note of up to a bar where it is, in every meter; in a   *)
(* meter of up to four beats it leaves the longer ones too, and each of    *)
(* them is in the range.                                                   *)

\* The notes by how many there are to the beat, or how many beats they last.
Lasting(n) == {d \in 1 .. n : n % d = 0}
                \cup {Clamp(p, n, longestBars * n) : p \in {1, 2, 4, 8, 16, 32, 64, 128, 256}}

LEMMA LastingIs ==
  ASSUME NEW n \in 1 .. reference
  PROVE  Lasting(n) = CASE n = 1 -> {1, 2, 4, 8, 16}
                        [] n = 2 -> {1, 2, 4, 8, 16, 32}
                        [] n = 3 -> {1, 3, 4, 8, 16, 32, 48}
                        [] n = 4 -> {1, 2, 4, 8, 16, 32, 64}
<1> DEFINE parts == {d \in 1 .. n : n % d = 0}
           runs == {Clamp(p, n, longestBars * n) : p \in {1, 2, 4, 8, 16, 32, 64, 128, 256}}
<1>1. CASE n = 1
  <2>1. parts = {1}
    BY <1>1
  <2>2. runs = {1, 2, 4, 8, 16}
    BY <1>1 DEF Clamp, Smaller, Larger, longestBars
  <2>3. Lasting(n) = parts \cup runs
    BY DEF Lasting
  <2> HIDE DEF parts, runs
  <2> QED BY <1>1, <2>1, <2>2, <2>3
<1>2. CASE n = 2
  <2>1. parts = {1, 2}
    BY <1>2
  <2>2. runs = {2, 4, 8, 16, 32}
    BY <1>2 DEF Clamp, Smaller, Larger, longestBars
  <2>3. Lasting(n) = parts \cup runs
    BY DEF Lasting
  <2> HIDE DEF parts, runs
  <2> QED BY <1>2, <2>1, <2>2, <2>3
<1>3. CASE n = 3
  <2>1. parts = {1, 3}
    BY <1>3
  <2>2. runs = {3, 4, 8, 16, 32, 48}
    BY <1>3 DEF Clamp, Smaller, Larger, longestBars
  <2>3. Lasting(n) = parts \cup runs
    BY DEF Lasting
  <2> HIDE DEF parts, runs
  <2> QED BY <1>3, <2>1, <2>2, <2>3
<1>4. CASE n = 4
  <2>1. parts = {1, 2, 4}
    BY <1>4
  <2>2. runs = {4, 8, 16, 32, 64}
    BY <1>4 DEF Clamp, Smaller, Larger, longestBars
  <2>3. Lasting(n) = parts \cup runs
    BY DEF Lasting
  <2> HIDE DEF parts, runs
  <2> QED BY <1>4, <2>1, <2>2, <2>3
<1> n \in {1, 2, 3, 4}
  BY DEF reference
<1> QED BY <1>1, <1>2, <1>3, <1>4

LEMMA EighthsAre ==
  ASSUME NEW n
  PROVE  Eighths(n) = {1, 2, 4, 8} \cup {8 * c : c \in Lasting(n)}
<1> DEFINE parts == {d \in 1 .. n : n % d = 0}
           P == {1, 2, 4, 8, 16, 32, 64, 128, 256}
           run(p) == Clamp(p, n, longestBars * n)
<1>1. Eighths(n) = {1, 2, 4, 8} \cup {8 * d : d \in parts} \cup {8 * run(p) : p \in P}
  BY DEF Eighths, shortestBeat
<1>2. Lasting(n) = parts \cup {run(p) : p \in P}
  BY DEF Lasting
<1> HIDE DEF parts, P, run
<1> QED BY <1>1, <1>2

\* A note is so many eighths of a beat, each a whole number of parts.
Unit(grid, n) == Note(1, grid, n)

LEMMA UnitIs ==
  ASSUME NEW grid \in Grids, NEW n \in 1 .. 255, n \in Meters \cup {reference}
  PROVE  /\ Unit(grid, n) \in Nat \ {0}
         /\ 8 * n * (Unit(grid, n) * ToNote(grid)[1]) = Bar * ToNote(grid)[2]
         /\ \A e \in Nat : Note(e, grid, n) = e * Unit(grid, n)
<1> DEFINE to == ToNote(grid)
           whole == Bar * to[2]
           parts == shortestBeat * n * to[1]
<1>1. parts \in Nat \ {0} /\ whole \in Nat \ {0}
  <2>1. to[1] \in {1, 2, 3} /\ to[2] \in {1, 2, 3}
    BY NoteIs
  <2> QED BY <2>1, BarAssumption DEF shortestBeat, reference
<1>2. PICK u \in Nat \ {0} : whole = parts * u
  <2>1. /\ Bar \in Nat \ {0}
        /\ Bar % (24 * n) = 0 /\ (3 * Bar) % (16 * n) = 0
    BY BarAssumption
  <2>2. PICK q \in Int : Bar = 24 * n * q
    <3>1. 24 * n \in Nat \ {0} /\ Bar \in Nat /\ Bar % (24 * n) = 0
      BY <2>1 DEF reference
    <3> QED BY <3>1, WholeMultiple
  <2>3. PICK r \in Int : 3 * Bar = 16 * n * r
    <3>1. 16 * n \in Nat \ {0} /\ 3 * Bar \in Nat /\ (3 * Bar) % (16 * n) = 0
      BY <2>1 DEF reference
    <3> QED BY <3>1, WholeMultiple
  <2>4. CASE to = <<1, 1>>
    <3>1. whole = 24 * n * q /\ parts = 8 * n
      BY <2>2, <2>4 DEF shortestBeat
    <3>2. 3 * q \in Nat \ {0} /\ whole = parts * (3 * q)
      BY <2>1, <2>2, <3>1 DEF reference
    <3> QED BY <3>2
  <2>5. CASE to = <<3, 2>>
    <3>1. whole = 2 * (24 * n * q) /\ parts = 24 * n
      BY <2>1, <2>2, <2>5 DEF shortestBeat
    <3>2. 2 * q \in Nat \ {0} /\ whole = parts * (2 * q)
      BY <2>1, <2>2, <3>1 DEF reference
    <3> QED BY <3>2
  <2>6. CASE to = <<2, 3>>
    <3>1. whole = 16 * n * r /\ parts = 16 * n
      BY <2>1, <2>3, <2>6 DEF shortestBeat
    <3>2. r \in Nat \ {0} /\ whole = parts * r
      BY <2>1, <2>3, <3>1 DEF reference
    <3> QED BY <3>2
  <2> QED BY <2>4, <2>5, <2>6, NoteIs
<1>3. ASSUME NEW e \in Nat PROVE Note(e, grid, n) = e * u
  <2>1. e * whole = parts * (e * u)
    BY <1>1, <1>2
  <2>2. e * Bar * to[2] = e * whole
    <3> to[2] \in Nat /\ Bar \in Nat
      BY NoteIs, BarAssumption
    <3> QED OBVIOUS
  <2>3. (parts * (e * u)) \div parts = e * u
    <3>1. e * u \in Int
      OBVIOUS
    <3> HIDE DEF parts
    <3> QED BY <1>1, <3>1
  <2> HIDE DEF whole
  <2> QED BY <2>1, <2>2, <2>3 DEF Note
<1>4. Unit(grid, n) = u
  BY <1>3 DEF Unit
<1>5. 8 * n * (u * to[1]) = parts * u
  <2> to[1] \in Nat /\ n \in Nat
    BY NoteIs DEF reference
  <2> QED BY DEF shortestBeat
<1> QED BY <1>2, <1>3, <1>4, <1>5

LEMMA RemainderUnique ==
  ASSUME NEW s \in Nat \ {0}, NEW q \in Int, NEW r \in 0 .. s - 1
  PROVE  (s * q + r) % s = r
OBVIOUS

LEMMA RatioRounded ==
  ASSUME NEW a \in Nat, NEW d \in Nat \ {0}, NEW v \in Nat \ {0}
  PROVE  Rounded(a * v, d * v) = Rounded(a, d)
<1> DEFINE q == a \div d   r == a % d
<1>1. q \in Int /\ r \in 0 .. d - 1 /\ a = d * q + r
  OBVIOUS
<1>2. Rounded(a, d) = IF 2 * r > d \/ (2 * r = d /\ q % 2 = 1) THEN q + 1 ELSE q
  BY DEF Rounded
<1> HIDE DEF q, r
<1>3. d * v \in Nat \ {0} /\ r * v \in 0 .. d * v - 1 /\ a * v = (d * v) * q + r * v
  BY <1>1
<1>4. (a * v) \div (d * v) = q /\ (a * v) % (d * v) = r * v
  <2> DEFINE s == d * v   t == r * v
  <2>1. s \in Nat \ {0} /\ t \in 0 .. s - 1 /\ a * v = s * q + t
    BY <1>3
  <2> HIDE DEF s, t
  <2>2. (s * q + t) \div s = q /\ (s * q + t) % s = t
    BY <1>1, <2>1, DivisionUnique, RemainderUnique
  <2> QED BY <2>1, <2>2 DEF s, t
<1>5. /\ 2 * (r * v) > d * v <=> 2 * r > d
      /\ 2 * (r * v) = d * v <=> 2 * r = d
  <2>1. 2 * (r * v) = (2 * r) * v /\ 2 * r \in Nat
    BY <1>1
  <2>2. ASSUME NEW x \in Nat, NEW y \in Nat PROVE (x * v > y * v <=> x > y) /\ (x * v = y * v <=> x = y)
    <3>1. x > y => x * v > y * v
      OBVIOUS
    <3>2. y > x => y * v > x * v
      OBVIOUS
    <3>3. x * v \in Nat /\ y * v \in Nat
      OBVIOUS
    <3> QED BY <3>1, <3>2, <3>3
  <2> HIDE DEF r
  <2> QED BY <2>1, <2>2
<1> QED BY <1>2, <1>4, <1>5 DEF Rounded

LEMMA PowerKept ==
  ASSUME NEW c \in {1, 2, 4, 8, 16, 32, 48, 64}
  PROVE  PowerOfTwo(c) = IF c = 48 THEN 64 ELSE c
<1> DEFINE down == CHOOSE p \in {1, 2, 4, 8, 16, 32, 64, 128} : p <= c /\ c < 2 * p
<1>1. \E p \in {1, 2, 4, 8, 16, 32, 64, 128} : p <= c /\ c < 2 * p
  OBVIOUS
<1>2. down \in {1, 2, 4, 8, 16, 32, 64, 128} /\ down <= c /\ c < 2 * down
  BY <1>1
<1>3. PowerOfTwo(c) = IF down > 1 /\ c >= down + down \div 2 THEN 2 * down ELSE down
  BY DEF PowerOfTwo
<1> HIDE DEF down
<1>4. down = IF c = 48 THEN 32 ELSE c
  BY <1>2
<1> QED BY <1>3, <1>4

LEMMA DivisorKept ==
  ASSUME NEW n \in 1 .. 255, NEW c \in 1 .. n, n % c = 0
  PROVE  ClosestDivisor(c, n) = c
<1> DEFINE up == CHOOSE d \in c .. n : n % d = 0 /\ \A e \in c .. d - 1 : n % e # 0
           down == CHOOSE d \in 1 .. c : n % d = 0 /\ \A e \in d + 1 .. c : n % e # 0
<1>1. up \in c .. n /\ \A e \in c .. up - 1 : n % e # 0
  <2> c \in c .. n /\ n % c = 0 /\ \A e \in c .. c - 1 : n % e # 0
    OBVIOUS
  <2> QED OBVIOUS
<1>2. down \in 1 .. c /\ \A e \in down + 1 .. c : n % e # 0
  <2> c \in 1 .. c /\ n % c = 0 /\ \A e \in c + 1 .. c : n % e # 0
    OBVIOUS
  <2> QED OBVIOUS
<1>3. ClosestDivisor(c, n) \in {up, down}
  BY DEF ClosestDivisor
<1> HIDE DEF up, down
<1>4. up = c
  <2>1. SUFFICES ASSUME up > c PROVE FALSE
    BY <1>1
  <2>2. c \in c .. up - 1
    BY <1>1, <2>1
  <2> QED BY <1>1, <2>2
<1>5. down = c
  <2>1. SUFFICES ASSUME down < c PROVE FALSE
    BY <1>2
  <2>2. c \in down + 1 .. c
    BY <1>2, <2>1
  <2> QED BY <1>2, <2>2
<1> QED BY <1>3, <1>4, <1>5

LEMMA EighthsAreCounted ==
  ASSUME NEW n \in 1 .. 255, NEW e \in Eighths(n)
  PROVE  /\ e \in Nat \ {0}
         /\ e \in {1, 2, 4} \/ \E c \in Nat \ {0} : c \in Lasting(n) /\ e = 8 * c
<1>1. \A c \in Lasting(n) : c \in Nat \ {0}
  <2>1. \A p \in {1, 2, 4, 8, 16, 32, 64, 128, 256} : Clamp(p, n, longestBars * n) \in Nat \ {0}
    BY DEF Clamp, Smaller, Larger, longestBars
  <2>2. {d \in 1 .. n : n % d = 0} \subseteq Nat \ {0}
    OBVIOUS
  <2> QED BY <2>1, <2>2 DEF Lasting
<1>2. 1 \in Lasting(n)
  <2>1. 1 \in 1 .. n /\ n % 1 = 0
    OBVIOUS
  <2> QED BY <2>1 DEF Lasting
<1>3. e \in {1, 2, 4} \/ \E c \in Lasting(n) : e = 8 * c
  BY <1>2, EighthsAre
<1> QED BY <1>1, <1>3

LEMMA EighthsKept ==
  ASSUME NEW n \in 1 .. 255, NEW e \in Eighths(n), e <= 8 * n \/ n <= reference, NEW w \in Nat \ {0}
  PROVE  SnappedEighths(e * w, 8 * n * w, n) = e
<1> DEFINE beats == Rounded(e * w * n, 8 * n * w) % 256
           v == n * w
<1>1. e \in {1, 2, 4} \/ \E c \in Nat \ {0} : c \in Lasting(n) /\ e = 8 * c
  BY EighthsAreCounted
<1>2. v \in Nat \ {0} /\ e \in Nat
  BY EighthsAreCounted
<1>3. e * w * n = e * v /\ 8 * n * w = 8 * v
  BY <1>2
<1>4. beats = Rounded(e, 8) % 256
  BY <1>2, <1>3, RatioRounded
<1>5. CASE e \in {1, 2, 4}
  <2>1. beats = 0
    BY <1>4, <1>5 DEF Rounded
  <2>2. Clamp(e * w * n * shortestBeat, 8 * n * w, shortestBeat * (8 * n * w)) = e * (8 * v)
    <3>1. 8 * v \in Nat \ {0} /\ e * v * 8 = e * (8 * v)
      BY <1>2
    <3> HIDE DEF v
    <3> QED BY <1>3, <1>5, <3>1 DEF Clamp, Smaller, Larger, shortestBeat
  <2>3. Rounded(e * (8 * v), 8 * n * w) = e
    <3>1. 8 * v \in Nat \ {0} /\ 8 * n * w = 1 * (8 * v)
      BY <1>2, <1>3
    <3>2. Rounded(e * (8 * v), 1 * (8 * v)) = Rounded(e, 1)
      BY <1>2, <3>1, RatioRounded
    <3>3. Rounded(e, 1) = e
      BY <1>5 DEF Rounded
    <3> QED BY <3>1, <3>2, <3>3
  <2>4. PowerOfTwo(e) = e
    BY <1>5, PowerKept
  <2>5. ~ (beats > n) /\ ~ (beats > 0)
    BY <2>1
  <2> HIDE DEF v
  <2> QED BY <2>2, <2>3, <2>4, <2>5 DEF SnappedEighths
<1>6. ASSUME NEW c \in Nat \ {0}, c \in Lasting(n), e = 8 * c
      PROVE  SnappedEighths(e * w, 8 * n * w, n) = e
  <2>1. c <= n \/ n \in {1, 2, 3, 4}
    BY <1>6 DEF reference
  <2>2. c <= n => n % c = 0
    <3>1. SUFFICES ASSUME NEW p \in {1, 2, 4, 8, 16, 32, 64, 128, 256}, c = Clamp(p, n, longestBars * n), c <= n
                   PROVE n % c = 0
      BY <1>6 DEF Lasting
    <3>2. c = n
      BY <3>1 DEF Clamp, Smaller, Larger, longestBars
    <3> QED BY <3>2
  <2>3. c > n => c \in {1, 2, 4, 8, 16, 32, 48, 64} /\ Clamp(PowerOfTwo(c), n, longestBars * n) = c
    <3>1. SUFFICES ASSUME n \in {1, 2, 3, 4}, c > n
                   PROVE  c \in {1, 2, 4, 8, 16, 32, 48, 64} /\ Clamp(PowerOfTwo(c), n, longestBars * n) = c
      BY <2>1
    <3> n \in 1 .. reference
      BY <3>1 DEF reference
    <3> QED BY <1>6, <3>1, LastingIs, PowerKept DEF Clamp, Smaller, Larger, longestBars
  <2>4. beats = c
    <3>1. c \in 1 .. 255
      BY <2>1, <2>3
    <3>2. Rounded(8 * c, 8) = c
      BY <3>1 DEF Rounded
    <3> QED BY <1>4, <1>6, <3>1, <3>2
  <2>5. CASE c > n
    BY <1>6, <2>3, <2>4, <2>5 DEF SnappedEighths, shortestBeat
  <2>6. CASE c <= n
    <3>1. ClosestDivisor(c, n) = c /\ ~ (beats > n) /\ beats > 0
      BY <2>2, <2>4, <2>6, DivisorKept
    <3> QED BY <1>6, <2>4, <3>1 DEF SnappedEighths, shortestBeat
  <2> QED BY <2>5, <2>6
<1> QED BY <1>1, <1>5, <1>6

LEMMA RangeIs ==
  \E k \in Nat \ {0} : /\ Bar = 96 * k
                       /\ currentPeriodScaleMinimum = 2 * k
                       /\ currentPeriodScaleMaximum = 24 * Bar
<1>1. Bar \in Nat /\ 96 \in Nat \ {0} /\ Bar % 96 = 0 /\ Bar > 0
  BY BarAssumption
<1>2. PICK k \in Int : Bar = 96 * k
  BY <1>1, WholeMultiple
<1>3. k \in Nat \ {0}
  BY <1>1, <1>2
<1>4. currentPeriodScaleMinimum = 2 * k /\ currentPeriodScaleMaximum = 24 * Bar
  BY <1>2, <1>3
  DEF currentPeriodScaleMinimum, currentPeriodScaleMaximum, shortestBeat, reference, longestBars
<1> QED BY <1>2, <1>3, <1>4

LEMMA DefaultIs == Default \in Periods
BY RangeIs DEF Periods, Default

\* A note, by the eighths of a beat it lasts and the parts they are of.
Lasts(p, grid, n, e, u) ==
  /\ p = Note(e, grid, n) /\ e \in Nat \ {0} /\ p = e * u /\ p \in Nat
  /\ 8 * n * (u * ToNote(grid)[1]) = Bar * ToNote(grid)[2]
  /\ p * ToNote(grid)[1] = e * (u * ToNote(grid)[1])
  /\ UpToABar(p, grid) <=> e <= 8 * n

LEMMA NoteLasts ==
  ASSUME NEW n \in 1 .. 255, n \in Meters \cup {reference}, NEW grid \in Grids,
         NEW p \in GridPoints(grid, n)
  PROVE  \E e \in Eighths(n), u \in Nat \ {0} : Lasts(p, grid, n, e, u)
<1> DEFINE to == ToNote(grid)
           u == Unit(grid, n)
           w == u * to[1]
<1>1. PICK e \in Eighths(n) : p = Note(e, grid, n)
  BY NotesAre
<1>2. e \in Nat \ {0}
  BY EighthsAreCounted
<1>3. u \in Nat \ {0} /\ 8 * n * w = Bar * to[2] /\ p = e * u
  BY <1>1, <1>2, UnitIs
<1>4. to[1] \in Nat \ {0} /\ to[2] \in Nat \ {0}
  BY NoteIs
<1>5. w \in Nat \ {0} /\ p * to[1] = e * w /\ p \in Nat
  BY <1>2, <1>3, <1>4
<1>6. e * w <= (8 * n) * w <=> e <= 8 * n
  <2> HIDE DEF w
  <2>1. \A x \in Nat, y \in Nat : x < y => x * w < y * w
    BY <1>5
  <2>2. 8 * n \in Nat /\ e * w \in Nat /\ (8 * n) * w \in Nat
    BY <1>2, <1>5
  <2>3. /\ e < 8 * n => e * w < (8 * n) * w
        /\ 8 * n < e => (8 * n) * w < e * w
        /\ e = 8 * n => e * w = (8 * n) * w
    BY <1>2, <2>1, <2>2
  <2> QED BY <1>2, <2>2, <2>3
<1>7. UpToABar(p, grid) <=> e <= 8 * n
  <2> HIDE DEF w
  <2> QED BY <1>3, <1>5, <1>6 DEF UpToABar
<1>8. Lasts(p, grid, n, e, u)
  <2> HIDE DEF u
  <2> QED BY <1>1, <1>2, <1>3, <1>5, <1>7 DEF Lasts
<1> HIDE DEF u
<1> QED BY <1>3, <1>8

LEMMA NoteKept ==
  ASSUME NEW n \in 1 .. 255, n \in Meters \cup {reference}, NEW grid \in Grids,
         NEW p \in GridPoints(grid, n), UpToABar(p, grid) \/ n <= reference
  PROVE  SnapOnto(p, grid, n) = p /\ p \in Nat
<1> DEFINE to == ToNote(grid)
<1>p. PICK e \in Eighths(n), u \in Nat \ {0} : Lasts(p, grid, n, e, u)
  BY NoteLasts
<1>1. /\ p = Note(e, grid, n) /\ e \in Nat \ {0} /\ p = e * u /\ p \in Nat
      /\ 8 * n * (u * to[1]) = Bar * to[2]
      /\ p * to[1] = e * (u * to[1])
      /\ UpToABar(p, grid) <=> e <= 8 * n
  BY <1>p DEF Lasts
<1>2. u * to[1] \in Nat \ {0}
  BY NoteIs
<1>3. SnappedEighths(p * to[1], Bar * to[2], n) = e
  <2> DEFINE w == u * to[1]
  <2> HIDE DEF w, to
  <2>1. SnappedEighths(e * w, 8 * n * w, n) = e
    BY <1>1, <1>2, EighthsKept DEF w
  <2> QED BY <1>1, <2>1 DEF w
<1> QED BY <1>1, <1>3 DEF SnapOnto, Note

(* A note stays where it is, on whatever other grids it might have gone.   *)
LEMMA NoteStays ==
  ASSUME NEW n \in 1 .. 255, n \in Meters \cup {reference},
         NEW sync \in SUBSET Grids, NEW grid \in sync, NEW p \in GridPoints(grid, n),
         UpToABar(p, grid) \/ n <= reference
  PROVE  LET snapped == snapSyncedPeriod(p, sync, n)
         IN snapped.period = p /\ (grid = Quarter => snapped.grid = Quarter)
<1>1. SnapOnto(p, grid, n) = p /\ p \in Nat
  BY NoteKept
<1> DEFINE won == snapSyncedPeriod(p, sync, n).grid
<1>2. /\ Nearest(p, sync, n, won)
      /\ snapSyncedPeriod(p, sync, n) = [period |-> SnapOnto(p, won, n), grid |-> won]
      /\ Quarter \in sync /\ Nearest(p, sync, n, Quarter) => won = Quarter
  BY <1>1, WonIs DEF Free
<1> HIDE DEF won
<1>3. Distance(SnapOnto(p, grid, n), p) = 0
  BY <1>1 DEF Distance
<1>4. \A other \in sync : SnapOnto(p, other, n) \in Nat /\ Distance(SnapOnto(p, other, n), p) \in Nat
  <2> SUFFICES ASSUME NEW other \in sync PROVE SnapOnto(p, other, n) \in Nat
    BY <1>1 DEF Distance
  <2> QED BY <1>1, SnapOntoIs
<1>5. Distance(SnapOnto(p, won, n), p) <= 0 /\ won \in sync
  BY <1>2, <1>3 DEF Nearest
<1>6. SnapOnto(p, won, n) = p
  BY <1>1, <1>4, <1>5 DEF Distance
<1>7. Nearest(p, sync, n, grid)
  BY <1>3, <1>4 DEF Nearest
<1> QED BY <1>2, <1>6, <1>7

\* What the notes of a meter of up to four beats are: all of them in the range.
LEMMA NotesInRange ==
  ASSUME NEW n \in 1 .. reference, n \in Meters \cup {reference}, NEW grid \in Grids
  PROVE  GridPoints(grid, n) \subseteq Periods
<1> SUFFICES ASSUME NEW p \in GridPoints(grid, n) PROVE p \in Periods
  OBVIOUS
<1> DEFINE to == ToNote(grid)
<1>0. n \in 1 .. 255
  BY DEF reference
<1>p. PICK e \in Eighths(n), u \in Nat \ {0} : Lasts(p, grid, n, e, u)
  BY <1>0, NoteLasts
<1>1. /\ p = Note(e, grid, n) /\ e \in Nat \ {0} /\ p = e * u /\ p \in Nat
      /\ 8 * n * (u * to[1]) = Bar * to[2]
      /\ p * to[1] = e * (u * to[1])
      /\ UpToABar(p, grid) <=> e <= 8 * n
  BY <1>p DEF Lasts
<1>2. e \in 1 .. 128 * n
  <2>1. \A c \in Lasting(n) : c \in 1 .. 16 * n
    <3> n \in {1, 2, 3, 4}
      BY DEF reference
    <3> QED BY LastingIs
  <2>2. n \in Nat \ {0}
    BY DEF reference
  <2> QED BY <2>1, <2>2, EighthsAre
<1>3. PICK k \in Nat \ {0} : /\ Bar = 96 * k
                              /\ currentPeriodScaleMinimum = 2 * k
                              /\ currentPeriodScaleMaximum = 24 * Bar
  BY RangeIs
<1>4. n \in {1, 2, 3, 4}
  BY DEF reference
<1>5. u >= 2 * k /\ 128 * n * u <= 24 * Bar
  <2>1. CASE to = <<1, 1>>
    BY <1>1, <1>3, <1>4, <2>1
  <2>2. CASE to = <<3, 2>>
    BY <1>1, <1>3, <1>4, <2>2
  <2>3. CASE to = <<2, 3>>
    BY <1>1, <1>3, <1>4, <2>3
  <2> QED BY <2>1, <2>2, <2>3, NoteIs
<1>6. e * u >= u /\ e * u <= 128 * n * u
  <2>1. 128 * n \in Nat /\ e \in Nat /\ e >= 1 /\ e <= 128 * n
    BY <1>2, <1>4
  <2>2. \A x \in Nat, y \in Nat : x <= y => x * u <= y * u
    BY <1>1
  <2> QED BY <1>1, <2>1, <2>2
<1> QED BY <1>1, <1>3, <1>4, <1>5, <1>6 DEF Periods

(* A snap answers with a period, on its grid if there is one.              *)
Placed(p, sync, n) == sync # Free => \E grid \in sync : p \in GridPoints(grid, n)
States == Meters \cup {reference}
Lengths == Periods \cup Notes

LEMMA LengthsAre ==
  /\ Lengths \subseteq Nat
  /\ States \subseteq 1 .. 255
<1>1. States \subseteq 1 .. 255
  BY MetersAssumption DEF States, reference
<1>2. ASSUME NEW p \in Notes PROVE p \in Nat
  <2>1. PICK grid \in Grids, n \in States : p \in GridPoints(grid, n)
    BY DEF Notes, States
  <2> QED BY <1>1, <2>1, NoteLasts DEF States, Lasts
<1>3. Periods \subseteq Nat
  BY RangeIs DEF Periods
<1> QED BY <1>1, <1>2, <1>3 DEF Lengths

LEMMA SnapPlaces ==
  ASSUME NEW n \in States, NEW sync \in SUBSET Grids, NEW p \in Nat
  PROVE  LET snapped == snapPeriodScale(p, sync, n)
         IN snapped \in Lengths /\ Placed(snapped, sync, n)
<1>1. CASE sync = Free
  <2>1. /\ currentPeriodScaleMinimum \in Nat /\ currentPeriodScaleMaximum \in Nat
        /\ currentPeriodScaleMinimum <= currentPeriodScaleMaximum
    BY RangeIs
  <2>2. clampFreePeriod(p) \in Periods
    <3>1. p \in Int
      OBVIOUS
    <3>2. Clamp(p, currentPeriodScaleMinimum, currentPeriodScaleMaximum) \in Periods
      BY <2>1, <3>1 DEF Periods, Clamp, Smaller, Larger
    <3> QED BY <3>2 DEF clampFreePeriod
  <2> QED BY <1>1, <2>2 DEF snapPeriodScale, Placed, Lengths
<1>2. CASE sync # Free
  <2> DEFINE won == snapSyncedPeriod(p, sync, n).grid
  <2>1. n \in 1 .. 255
    BY LengthsAre
  <2>2. won \in sync /\ snapSyncedPeriod(p, sync, n) = [period |-> SnapOnto(p, won, n), grid |-> won]
    <3> HIDE DEF won
    <3>1. Nearest(p, sync, n, won)
          /\ snapSyncedPeriod(p, sync, n) = [period |-> SnapOnto(p, won, n), grid |-> won]
      BY <1>2, <2>1, WonIs DEF won
    <3> QED BY <3>1 DEF Nearest
  <2> HIDE DEF won
  <2>3. SnapOnto(p, won, n) \in GridPoints(won, n)
    BY <2>1, <2>2, SnapOntoIs
  <2>4. SnapOnto(p, won, n) \in Lengths
    BY <2>2, <2>3 DEF Lengths, Notes, States
  <2> QED BY <1>2, <2>2, <2>3, <2>4 DEF snapPeriodScale, Placed
<1> QED BY <1>1, <1>2

-----------------------------------------------------------------------------
(* Writes, in either copy, and runs of them.                               *)

\* The default is what a file that names no period leaves.
Held(lfo, n) == Placed(lfo.period, lfo.sync, n) \/ lfo.period = Default
Echoes == [what : {"sync"}, to : SUBSET Grids] \cup [what : {"period"}, to : Lengths]
Chains == {c \in [what : {"chain"}, to : [lfo : LFO, meter : States]] : Held(c.to.lfo, c.to.meter)}
Commands == Echoes \cup Chains \cup [what : {"republish"}]

\* What a message leaves, in a meter.
Put(lfo, write, n) ==
  CASE write.what = "chain"  -> write.to.lfo
    [] write.what = "period" -> [lfo EXCEPT !.period = snapPeriodScale(write.to, lfo.sync, n)]
    [] write.what = "sync"   ->
         [sync |-> write.to, period |-> IF write.to = Free THEN lfo.period
                                        ELSE snapPeriodScale(lfo.period, write.to, n)]

LEMMA WriteIs ==
  ASSUME NEW lfo, NEW write, write.what \in {"sync", "period"}
  PROVE  setAutomatedLFOParameter(lfo, write) = Put(lfo, write, meter)
<1>1. CASE write.what = "sync"
  BY <1>1 DEF setAutomatedLFOParameter, Put
<1>2. CASE write.what = "period"
  BY <1>2 DEF setAutomatedLFOParameter, Put
<1> QED BY <1>1, <1>2

LEMMA PutIs ==
  ASSUME NEW n \in States, NEW lfo \in LFO, NEW write \in Echoes \cup Chains
  PROVE  /\ Put(lfo, write, n) \in LFO
         /\ write \in Echoes => Held(Put(lfo, write, n), n)
         /\ write.what = "sync" => Put(lfo, write, n).sync = write.to
         /\ write.what = "period" =>
              Put(lfo, write, n) = [sync |-> lfo.sync, period |-> snapPeriodScale(write.to, lfo.sync, n)]
<1>2. lfo.sync \in SUBSET Grids /\ lfo.period \in Lengths /\ lfo = [sync |-> lfo.sync, period |-> lfo.period]
  BY DEF LFO, Lengths
<1>3. Lengths \subseteq Nat
  BY LengthsAre
<1>4. CASE write \in Chains
  <2>1. Put(lfo, write, n) = write.to.lfo /\ write.what = "chain"
    BY <1>4 DEF Chains, Put
  <2>2. ~ (write \in Echoes)
    BY <2>1 DEF Echoes
  <2> QED BY <1>4, <2>1, <2>2 DEF Chains
<1>5. CASE write \in Echoes /\ write.what = "period"
  <2>1. write.to \in Lengths
    BY <1>5 DEF Echoes
  <2>2. Put(lfo, write, n) = [sync |-> lfo.sync, period |-> snapPeriodScale(write.to, lfo.sync, n)]
    BY <1>2, <1>5 DEF Put
  <2>3. /\ snapPeriodScale(write.to, lfo.sync, n) \in Lengths
        /\ Placed(snapPeriodScale(write.to, lfo.sync, n), lfo.sync, n)
    BY <1>2, <1>3, <2>1, SnapPlaces
  <2> QED BY <1>2, <1>5, <2>2, <2>3 DEF LFO, Lengths, Held
<1>6. CASE write \in Echoes /\ write.what = "sync"
  <2>1. write.to \in SUBSET Grids
    BY <1>6 DEF Echoes
  <2>2. Put(lfo, write, n) =
          [sync |-> write.to, period |-> IF write.to = Free THEN lfo.period
                                         ELSE snapPeriodScale(lfo.period, write.to, n)]
    BY <1>6 DEF Put
  <2>3. /\ snapPeriodScale(lfo.period, write.to, n) \in Lengths
        /\ Placed(snapPeriodScale(lfo.period, write.to, n), write.to, n)
    BY <1>2, <1>3, <2>1, SnapPlaces
  <2>4. Put(lfo, write, n) \in LFO
    BY <1>2, <2>1, <2>2, <2>3 DEF LFO, Lengths
  <2>5. Held(Put(lfo, write, n), n)
    BY <2>2, <2>3 DEF Held, Placed
  <2> QED BY <1>6, <2>2, <2>4, <2>5
<1> QED BY <1>4, <1>5, <1>6 DEF Echoes

\* A run of writes, and what is held after each.
Written(t, from, ring, n) ==
  /\ t \in [0 .. Len(ring) -> LFO] /\ t[0] = from
  /\ \A i \in 1 .. Len(ring) : t[i] = Put(t[i - 1], ring[i], n)

LEMMA WrittenOn ==
  ASSUME NEW n \in States, NEW ring \in Seq(Echoes \cup Chains), NEW from, NEW t,
         Written(t, from, ring, n), NEW write \in Echoes \cup Chains
  PROVE  LET last == Put(t[Len(ring)], write, n)
             longer == [i \in 0 .. Len(ring) + 1 |-> IF i <= Len(ring) THEN t[i] ELSE last]
         IN Written(longer, from, Append(ring, write), n)
<1> DEFINE last == Put(t[Len(ring)], write, n)
           longer == [i \in 0 .. Len(ring) + 1 |-> IF i <= Len(ring) THEN t[i] ELSE last]
           after == Append(ring, write)
<1>1. Len(ring) \in Nat /\ Len(after) = Len(ring) + 1
  BY LenProperties, AppendProperties
<1>2. t[Len(ring)] \in LFO
  BY <1>1 DEF Written
<1>3. last \in LFO
  BY <1>2, PutIs
<1>4. longer \in [0 .. Len(after) -> LFO] /\ longer[0] = from
  <2> HIDE DEF last
  <2> QED BY <1>1, <1>3 DEF Written
<1>5. ASSUME NEW i \in 1 .. Len(after) PROVE longer[i] = Put(longer[i - 1], after[i], n)
  <2>1. CASE i <= Len(ring)
    <3>1. after[i] = ring[i] /\ longer[i] = t[i] /\ longer[i - 1] = t[i - 1]
      BY <1>1, <2>1, AppendProperties
    <3> QED BY <1>1, <2>1, <3>1 DEF Written
  <2>2. CASE i = Len(ring) + 1
    <3>1. after[i] = write /\ longer[i] = last /\ longer[i - 1] = t[Len(ring)]
      BY <1>1, <2>2, AppendProperties
    <3> QED BY <3>1
  <2> QED BY <1>1, <2>1, <2>2
<1> QED BY <1>4, <1>5 DEF Written

LEMMA WrittenTail ==
  ASSUME NEW n, NEW S, NEW ring \in Seq(S), ring # <<>>, NEW from, NEW t, Written(t, from, ring, n)
  PROVE  LET rest == [i \in 0 .. Len(ring) - 1 |-> t[i + 1]]
         IN /\ Written(rest, Put(from, Head(ring), n), Tail(ring), n)
            /\ Len(Tail(ring)) = Len(ring) - 1 /\ rest[Len(ring) - 1] = t[Len(ring)]
<1> DEFINE rest == [i \in 0 .. Len(ring) - 1 |-> t[i + 1]]
<1>1. Len(ring) \in Nat \ {0} /\ Head(ring) = ring[1] /\ Len(Tail(ring)) = Len(ring) - 1
      /\ \A i \in 1 .. Len(ring) - 1 : Tail(ring)[i] = ring[i + 1]
  BY LenProperties, HeadTailProperties, EmptySeq
<1>2. rest \in [0 .. Len(Tail(ring)) -> LFO] /\ rest[Len(ring) - 1] = t[Len(ring)]
  BY <1>1 DEF Written
<1>3. rest[0] = Put(from, Head(ring), n)
  BY <1>1 DEF Written
<1>4. ASSUME NEW i \in 1 .. Len(Tail(ring)) PROVE rest[i] = Put(rest[i - 1], Tail(ring)[i], n)
  <2>1. i + 1 \in 1 .. Len(ring) /\ rest[i] = t[i + 1] /\ rest[i - 1] = t[i] /\ Tail(ring)[i] = ring[i + 1]
    BY <1>1
  <2>2. t[i + 1] = Put(t[(i + 1) - 1], ring[i + 1], n) /\ (i + 1) - 1 = i
    BY <2>1 DEF Written
  <2> QED BY <2>1, <2>2
<1> QED BY <1>1, <1>2, <1>3, <1>4 DEF Written

LEMMA WrittenNone ==
  ASSUME NEW n, NEW from \in LFO
  PROVE  \E t : Written(t, from, <<>>, n) /\ t[0] = from
<1> DEFINE t == [i \in 0 .. 0 |-> from]
<1> WITNESS t
<1> QED BY EmptySeq DEF Written

LEMMA Counted ==
  ASSUME NEW S, 0 \in S, \A k \in Nat : k \in S => k + 1 \in S
  PROVE  \A k \in Nat : k \in S
<1> DEFINE T == Nat \ S
<1>1. SUFFICES ASSUME T # {} PROVE FALSE
  OBVIOUS
<1>2. PICK k \in T : \A j \in T : k <= j
  <2> T \in SUBSET Nat
    OBVIOUS
  <2> HIDE DEF T
  <2> QED BY <1>1, LeastOf
<1>3. k # 0 /\ k - 1 \in Nat /\ k - 1 \notin T
  BY <1>2
<1>4. (k - 1) + 1 \in S
  BY <1>3
<1> QED BY <1>2, <1>4

\* From anywhere, in any meter, a run of writes leads somewhere.
LEMMA RunLeads ==
  ASSUME NEW n \in States, NEW ring \in Seq(Echoes \cup Chains), NEW from \in LFO
  PROVE  \E t : Written(t, from, ring, n)
<1> DEFINE Upto(k, t) == /\ t \in [0 .. k -> LFO] /\ t[0] = from
                         /\ \A i \in 1 .. k : t[i] = Put(t[i - 1], ring[i], n)
           S == {k \in Nat : k <= Len(ring) => \E t : Upto(k, t)}
<1>1. Len(ring) \in Nat /\ \A i \in 1 .. Len(ring) : ring[i] \in Echoes \cup Chains
  BY LenProperties, ElementOfSeq
<1>2. 0 \in S
  <2> DEFINE t == [i \in 0 .. 0 |-> from]
  <2>1. Upto(0, t)
    OBVIOUS
  <2> HIDE DEF Upto
  <2> QED BY <2>1
<1>3. ASSUME NEW k \in Nat, k \in S PROVE k + 1 \in S
  <2>1. SUFFICES ASSUME k + 1 <= Len(ring) PROVE \E t : Upto(k + 1, t)
    BY <1>3
  <2>2. PICK t : Upto(k, t)
    BY <1>1, <1>3, <2>1
  <2> DEFINE next == Put(t[k], ring[k + 1], n)
             longer == [i \in 0 .. k + 1 |-> IF i <= k THEN t[i] ELSE next]
  <2>3. next \in LFO
    <3>1. t[k] \in LFO
      BY <2>2
    <3>2. ring[k + 1] \in Echoes \cup Chains
      BY <1>1, <2>1
    <3> QED BY <3>1, <3>2, PutIs
  <2>4. longer \in [0 .. k + 1 -> LFO] /\ longer[0] = from
    <3> HIDE DEF next
    <3> QED BY <2>2, <2>3
  <2>5. ASSUME NEW i \in 1 .. k + 1 PROVE longer[i] = Put(longer[i - 1], ring[i], n)
    <3>1. CASE i <= k
      <4>1. longer[i] = t[i] /\ longer[i - 1] = t[i - 1]
        BY <3>1
      <4> QED BY <2>2, <3>1, <4>1
    <3>2. CASE i = k + 1
      BY <3>2
    <3> QED BY <3>1, <3>2
  <2>6. Upto(k + 1, longer)
    <3> HIDE DEF longer
    <3> QED BY <2>4, <2>5
  <2> HIDE DEF Upto
  <2> QED BY <2>6
<1>4. Len(ring) \in S
  <2> HIDE DEF S
  <2> QED BY <1>1, <1>2, <1>3, Counted
<1> QED BY <1>1, <1>4 DEF Written

\* Two that begin with one sync type go through the same sync types, and once
\* a period has been written they are the same.
HasPeriod(ring, k) == \E i \in 1 .. k : ring[i] \in Echoes /\ ring[i].what = "period"

LEMMA RunsMeet ==
  ASSUME NEW m \in States, NEW n \in States, NEW ring \in Seq(Echoes \cup Chains),
         NEW P \in LFO, NEW Q \in LFO, P.sync = Q.sync,
         NEW t, Written(t, P, ring, m), NEW s, Written(s, Q, ring, n)
  PROVE  /\ t[Len(ring)].sync = s[Len(ring)].sync
         /\ m = n /\ HasPeriod(ring, Len(ring)) => t[Len(ring)] = s[Len(ring)]
<1> DEFINE Alike(k) == t[k].sync = s[k].sync /\ (m = n /\ HasPeriod(ring, k) => t[k] = s[k])
           S == {k \in Nat : k <= Len(ring) => Alike(k)}
<1>1. Len(ring) \in Nat /\ \A i \in 1 .. Len(ring) : ring[i] \in Echoes \cup Chains
  BY LenProperties, ElementOfSeq
<1>2. 0 \in S
  <2>1. ~HasPeriod(ring, 0)
    BY DEF HasPeriod
  <2> QED BY <2>1 DEF Written
<1>3. ASSUME NEW k \in Nat, k \in S PROVE k + 1 \in S
  <2>1. SUFFICES ASSUME k + 1 <= Len(ring) PROVE Alike(k + 1)
    BY <1>3
  <2>2. Alike(k)
    BY <1>1, <1>3, <2>1
  <2> DEFINE write == ring[k + 1]
  <2>3. t[k] \in LFO /\ s[k] \in LFO /\ write \in Echoes \cup Chains
    BY <1>1, <2>1 DEF Written
  <2>4. t[k + 1] = Put(t[k], write, m) /\ s[k + 1] = Put(s[k], write, n)
    <3>1. k + 1 \in 1 .. Len(ring) /\ (k + 1) - 1 = k
      BY <1>1, <2>1
    <3> QED BY <3>1 DEF Written
  <2> HIDE DEF write
  <2>5. HasPeriod(ring, k + 1) <=> HasPeriod(ring, k) \/ (write \in Echoes /\ write.what = "period")
    BY DEF HasPeriod, write
  <2>6. CASE write \in Chains
    <3>1. Put(t[k], write, m) = write.to.lfo /\ Put(s[k], write, n) = write.to.lfo
      BY <2>6 DEF Put, Chains
    <3> QED BY <2>4, <3>1
  <2>7. CASE write \in Echoes /\ write.what = "sync"
    <3>1. t[k + 1].sync = s[k + 1].sync
      BY <2>3, <2>4, <2>7, PutIs
    <3>2. ASSUME m = n, HasPeriod(ring, k + 1) PROVE t[k + 1] = s[k + 1]
      <4>1. t[k] = s[k]
        BY <2>2, <2>5, <2>7, <3>2
      <4> QED BY <2>4, <3>2, <4>1
    <3> QED BY <3>1, <3>2
  <2>8. CASE write \in Echoes /\ write.what = "period"
    <3>1. /\ t[k + 1] = [sync |-> t[k].sync, period |-> snapPeriodScale(write.to, t[k].sync, m)]
          /\ s[k + 1] = [sync |-> s[k].sync, period |-> snapPeriodScale(write.to, s[k].sync, n)]
      BY <2>3, <2>4, <2>8, PutIs
    <3> QED BY <2>2, <3>1
  <2> QED BY <2>3, <2>6, <2>7, <2>8 DEF Echoes
<1>4. Len(ring) \in S
  <2> HIDE DEF S
  <2> QED BY <1>1, <1>2, <1>3, Counted
<1> QED BY <1>1, <1>4

\* A run of writes leads one copy to the sync type of the other, and where
\* both were given a period in this meter, to the other.
Leads(from, ring, to, n, both) ==
  \E t : /\ Written(t, from, ring, n) /\ t[Len(ring)].sync = to.sync
         /\ both => t[Len(ring)] = to

LEMMA NothingLeads ==
  ASSUME NEW n, NEW from \in LFO, NEW to, NEW both, from.sync = to.sync, both => from = to
  PROVE  Leads(from, <<>>, to, n, both)
<1>1. PICK t : Written(t, from, <<>>, n) /\ t[0] = from
  BY WrittenNone
<1> QED BY <1>1, EmptySeq DEF Leads

LEMMA LedByNothing ==
  ASSUME NEW n, NEW from, NEW to, NEW both, Leads(from, <<>>, to, n, both)
  PROVE  from.sync = to.sync /\ (both => from = to)
BY EmptySeq DEF Leads, Written

LEMMA LeadsOn ==
  ASSUME NEW n \in States, NEW ring \in Seq(Echoes \cup Chains),
         NEW from, NEW to \in LFO, NEW both \in BOOLEAN, Leads(from, ring, to, n, both),
         NEW write \in Echoes \cup Chains, NEW then \in BOOLEAN,
         then => both \/ write.what = "period" \/ write \in Chains
  PROVE  Leads(from, Append(ring, write), Put(to, write, n), n, then)
<1>1. PICK t : /\ Written(t, from, ring, n) /\ t[Len(ring)].sync = to.sync
               /\ both => t[Len(ring)] = to
  BY DEF Leads
<1> DEFINE last == Put(t[Len(ring)], write, n)
           longer == [i \in 0 .. Len(ring) + 1 |-> IF i <= Len(ring) THEN t[i] ELSE last]
           after == Append(ring, write)
<1>2. Len(ring) \in Nat /\ Len(after) = Len(ring) + 1
  BY LenProperties, AppendProperties
<1>3. Written(longer, from, after, n)
  BY <1>1, WrittenOn
<1>4. longer[Len(after)] = last
  BY <1>2
<1>5. t[Len(ring)] \in LFO
  BY <1>1, <1>2 DEF Written
<1>6. last.sync = Put(to, write, n).sync /\ (then => last = Put(to, write, n))
  <2> DEFINE x == t[Len(ring)]
  <2>0. x \in LFO /\ x.sync = to.sync /\ (both => x = to) /\ last = Put(x, write, n)
    BY <1>1, <1>5
  <2> HIDE DEF x, last
  <2>1. CASE write \in Chains
    BY <2>0, <2>1 DEF Put, Chains
  <2>2. CASE write \in Echoes /\ write.what = "period"
    <3>1. /\ last = [sync |-> x.sync, period |-> snapPeriodScale(write.to, x.sync, n)]
          /\ Put(to, write, n) = [sync |-> to.sync, period |-> snapPeriodScale(write.to, to.sync, n)]
      BY <2>0, <2>2, PutIs
    <3> QED BY <2>0, <3>1
  <2>3. CASE write \in Echoes /\ write.what = "sync"
    <3>1. last.sync = write.to /\ Put(to, write, n).sync = write.to
      BY <2>0, <2>3, PutIs
    <3>2. then => both
      BY <2>3 DEF Chains
    <3> QED BY <2>0, <3>1, <3>2
  <2> QED BY <2>1, <2>2, <2>3 DEF Echoes
<1> HIDE DEF longer, last, after
<1>7. Leads(from, after, Put(to, write, n), n, then)
  BY <1>3, <1>4, <1>6 DEF Leads
<1> QED BY <1>7 DEF after

LEMMA LeadsRest ==
  ASSUME NEW n, NEW S, NEW ring \in Seq(S), ring # <<>>, NEW from, NEW to, NEW both,
         Leads(from, ring, to, n, both)
  PROVE  Leads(Put(from, Head(ring), n), Tail(ring), to, n, both)
<1>1. PICK t : /\ Written(t, from, ring, n) /\ t[Len(ring)].sync = to.sync
               /\ both => t[Len(ring)] = to
  BY DEF Leads
<1> DEFINE rest == [i \in 0 .. Len(ring) - 1 |-> t[i + 1]]
<1>2. /\ Written(rest, Put(from, Head(ring), n), Tail(ring), n)
      /\ Len(Tail(ring)) = Len(ring) - 1 /\ rest[Len(ring) - 1] = t[Len(ring)]
  BY <1>1, WrittenTail
<1> HIDE DEF rest
<1> QED BY <1>1, <1>2 DEF Leads

LEMMA LeadsAgain ==
  ASSUME NEW m \in States, NEW n \in States, NEW ring \in Seq(Echoes \cup Chains),
         NEW from \in LFO, NEW again \in LFO, again.sync = from.sync,
         NEW to, NEW goal, goal.sync = to.sync, NEW both, NEW then,
         Leads(from, ring, to, m, both),
         then => m = n /\ both /\ goal = to /\ HasPeriod(ring, Len(ring))
  PROVE  Leads(again, ring, goal, n, then)
<1>1. PICK t : /\ Written(t, from, ring, m) /\ t[Len(ring)].sync = to.sync
               /\ both => t[Len(ring)] = to
  BY DEF Leads
<1>2. PICK s : Written(s, again, ring, n)
  BY RunLeads
<1>3. /\ t[Len(ring)].sync = s[Len(ring)].sync
      /\ m = n /\ HasPeriod(ring, Len(ring)) => t[Len(ring)] = s[Len(ring)]
  BY <1>1, <1>2, RunsMeet
<1> QED BY <1>1, <1>2, <1>3 DEF Leads

-----------------------------------------------------------------------------
(* What the two copies keep of each other.                                 *)

SyncTyped == SyncTypes /\ toUI \in Seq(Echoes) /\ toEngine \in Seq(Commands)

\* The engine's period stands where it was placed.
EngineHeld == Held(engine, placed)

\* What is under way goes one way at a time.
HostSide == Uncrossed(toEngine)
EditorSide == /\ toUI = <<>> /\ ~echoesLost
              /\ \A i \in DOMAIN toEngine : toEngine[i].what # "republish"
OneSide == HostSide \/ EditorSide

\* Echoes lead the main thread's copy to the engine's until one is lost, and
\* commands the engine's to the main thread's.
HostLeads == toEngine = <<>> /\ ~echoesLost => Leads(main, toUI, engine, meter, level)
EditorLeads == EditorSide => Leads(engine, toEngine, main, meter, level)

SyncInv == SyncTyped /\ EngineHeld /\ OneSide /\ HostLeads /\ EditorLeads

\* A file with no period in the range leaves the default.
LEMMA LoadHeld ==
  ASSUME meter \in States, NEW file, file.sync \in SUBSET Grids, file.period \in Nat
  PROVE  loadLFO(file) \in LFO /\ Held(loadLFO(file), meter)
<1> DEFINE asked == snapPeriodScale(file.period, file.sync, meter)
           loaded == IF file.period # Default /\ isValidValue(asked) THEN asked ELSE Default
<1>1. asked \in Lengths /\ Placed(asked, file.sync, meter)
  BY SnapPlaces
<1>2. loadLFO(file) = [sync |-> file.sync, period |-> loaded]
  BY DEF loadLFO
<1>3. Default \in Lengths
  BY DefaultIs DEF Lengths
<1> HIDE DEF asked
<1> QED BY <1>1, <1>2, <1>3 DEF LFO, Held, Lengths

LEMMA FilesLoadable ==
  ASSUME SyncTyped, NEW file \in Files \cup {main}
  PROVE  file.sync \in SUBSET Grids /\ file.period \in Nat
<1>1. CASE file \in Files
  BY <1>1, FilesAssumption
<1>2. CASE file = main
  BY <1>2, LengthsAre DEF SyncTyped, SyncTypes, LFO, Lengths
<1> QED BY <1>1, <1>2

LEMMA InitSyncInv ==
  ASSUME SyncInit
  PROVE  SyncInv
<1>1. meter = reference /\ placed = reference /\ engine = main
      /\ engine = [sync |-> {Quarter}, period |-> Default]
  BY DEF SyncInit
<1>2. {Quarter} \in SUBSET Grids
  BY DEF Grids
<1>3. engine \in LFO /\ main \in LFO /\ Held(engine, placed)
  BY <1>1, <1>2, DefaultIs DEF LFO, Held
<1>4. toUI = <<>> /\ toEngine = <<>> /\ ~echoesLost /\ level
  BY DEF SyncInit
<1>5. SyncTyped
  <2>1. Len(toUI) <= EchoCapacity /\ Len(toEngine) <= CommandCapacity
        /\ toUI \in Seq(Echoes) /\ toEngine \in Seq(Commands)
    BY <1>4, EmptySeq, CapacityAssumption
  <2>2. meter \in Meters \cup {reference} /\ placed \in Meters \cup {reference} /\ stated \in Meters \cup {0}
        /\ established \in BOOLEAN /\ echoesLost \in BOOLEAN /\ level \in BOOLEAN
    BY <1>1 DEF SyncInit
  <2> QED BY <1>3, <2>1, <2>2 DEF SyncTyped, SyncTypes
<1>6. Leads(main, toUI, engine, meter, level) /\ Leads(engine, toEngine, main, meter, level)
  BY <1>1, <1>3, <1>4, NothingLeads
<1>7. HostSide
  BY <1>4, EmptySeq DEF HostSide, Uncrossed
<1> QED BY <1>3, <1>5, <1>6, <1>7 DEF SyncInv, EngineHeld, OneSide, HostLeads, EditorLeads

\* Where nothing asks for a republish, what the engine waits for are writes.
LEMMA Directed ==
  ASSUME SyncTyped, EditorSide
  PROVE  toEngine \in Seq(Echoes \cup Chains)
<1>1. toEngine \in Seq(Commands) /\ Len(toEngine) \in Nat
      /\ \A i \in 1 .. Len(toEngine) : toEngine[i] \in Commands
  BY LenProperties, ElementOfSeq DEF SyncTyped
<1>2. \A i \in 1 .. Len(toEngine) : toEngine[i] \in Echoes \cup Chains
  <2> TAKE i \in 1 .. Len(toEngine)
  <2>1. toEngine[i].what # "republish" /\ toEngine[i] \in Commands
    BY <1>1, LenProperties DEF EditorSide
  <2> QED BY <2>1 DEF Commands
<1> QED BY <1>1, <1>2, SeqDef, LenProperties

LEMMA WritesAre ==
  ASSUME NEW write \in Writes
  PROVE  write \in Echoes /\ write.what \in {"sync", "period"}
BY ChoicesAssumption, AskedAssumption DEF Writes, Echoes, Lengths, Periods, isValidValue, Free, Grids

LEMMA MeterIs ==
  ASSUME SyncTyped
  PROVE  meter \in States /\ engine \in LFO /\ main \in LFO /\ level \in BOOLEAN /\ placed \in States
BY DEF SyncTyped, SyncTypes, States

LEMMA NoneSent ==
  ASSUME NEW ring \in Seq(Echoes), NEW messages
  PROVE  ring \o SubSeq(messages, 1, 0) = ring
<1>1. SubSeq(messages, 1, 0) = <<>>
  BY SubSeqEmpty
<1> QED BY <1>1, ConcatEmptySeq

LEMMA OneSent ==
  ASSUME NEW ring \in Seq(Echoes), NEW write \in Echoes
  PROVE  ring \o SubSeq(<<write>>, 1, 1) = Append(ring, write)
<1>1. <<write>> \in Seq(Echoes) /\ Len(<<write>>) = 1 /\ <<write>>[1] = write
  OBVIOUS
<1>2. SubSeq(<<write>>, 1, 1) = <<write>>
  BY <1>1, SubSeqFull
<1>3. ring \o <<write>> = Append(ring, write)
  BY <1>1, AppendIsConcat
<1> QED BY <1>2, <1>3

LEMMA HostWritesKeeps ==
  ASSUME SyncInv, NEW write \in Writes, HostWrites(write)
  PROVE  SyncInv'
<1> write \in Echoes /\ write.what \in {"sync", "period"}
  BY WritesAre
<1> meter \in States /\ engine \in LFO /\ main \in LFO /\ level \in BOOLEAN /\ SyncTyped
  BY MeterIs DEF SyncInv
<1>1. engine' = Put(engine, write, meter) /\ engine' \in LFO /\ Held(engine', meter)
  BY WriteIs, PutIs DEF HostWrites
<1>2. UNCHANGED <<main, toEngine, meter, established, stated>> /\ placed' = meter
      /\ level' = Agreeing(write, engine) /\ Uncrossed(toEngine)
  BY DEF HostWrites, timer
<1>3. level' \in BOOLEAN /\ (level' => level \/ write.what = "period")
  BY <1>2 DEF Agreeing
<1>4. toUI \in Seq(Echoes) /\ Len(toUI) \in Nat /\ Len(toUI) <= EchoCapacity /\ EchoCapacity \in Nat \ {0}
  BY LenProperties, CapacityAssumption DEF SyncTyped, SyncTypes
<1>5. \/ Len(toUI) < EchoCapacity /\ toUI' = Append(toUI, write) /\ echoesLost' = echoesLost
      \/ Len(toUI) = EchoCapacity /\ toUI' = toUI /\ echoesLost' = TRUE
  <2> DEFINE sent == Smaller(EchoCapacity - Len(toUI), Len(<<write>>))
             lost == sent < Len(<<write>>)
  <2>1. toUI' = toUI \o SubSeq(<<write>>, 1, sent) /\ echoesLost' = (echoesLost \/ lost)
    BY Zenon DEF HostWrites, Echo
  <2>2. echoesLost \in BOOLEAN
    BY DEF SyncTyped, SyncTypes
  <2>3. Len(<<write>>) = 1
    OBVIOUS
  <2>4. CASE Len(toUI) < EchoCapacity
    <3>1. sent = 1 /\ ~lost
      BY <1>4, <2>3, <2>4 DEF Smaller
    <3>2. toUI \o SubSeq(<<write>>, 1, 1) = Append(toUI, write)
      BY <1>4, OneSent
    <3> HIDE DEF sent, lost
    <3>3. echoesLost' = echoesLost
      BY <2>1, <2>2, <3>1, Zenon
    <3> QED BY <2>1, <2>4, <3>1, <3>2, <3>3
  <2>5. CASE Len(toUI) = EchoCapacity
    <3>1. sent = 0 /\ lost
      BY <1>4, <2>3, <2>5 DEF Smaller
    <3>2. toUI \o SubSeq(<<write>>, 1, 0) = toUI
      BY <1>4, NoneSent
    <3> HIDE DEF sent, lost
    <3>3. echoesLost' = TRUE
      BY <2>1, <3>1, Zenon
    <3> QED BY <2>1, <2>5, <3>1, <3>2, <3>3
  <2>6. Len(toUI) < EchoCapacity \/ Len(toUI) = EchoCapacity
    BY <1>4
  <2> HIDE DEF sent, lost
  <2> QED BY <2>4, <2>5, <2>6, Zenon
<1>6. toUI' \in Seq(Echoes) /\ Len(toUI') <= EchoCapacity /\ (toUI' = <<>> => echoesLost')
  BY <1>4, <1>5, AppendProperties, EmptySeq
<1>7. SyncTyped'
  BY <1>1, <1>2, <1>3, <1>5, <1>6 DEF SyncTyped, SyncTypes
<1>8. EngineHeld' /\ OneSide'
  BY <1>1, <1>2 DEF SyncInv, EngineHeld, OneSide, HostSide, Uncrossed
<1>9. HostLeads'
  <2>1. SUFFICES ASSUME toEngine = <<>>, ~echoesLost'
                 PROVE  Leads(main, toUI', engine', meter, level')
    BY <1>2 DEF HostLeads
  <2>2. toUI' = Append(toUI, write) /\ ~echoesLost
    BY <1>5, <2>1
  <2>3. Leads(main, toUI, engine, meter, level)
    BY <2>1, <2>2 DEF SyncInv, HostLeads
  <2>4. toUI \in Seq(Echoes \cup Chains)
    BY <1>4
  <2> QED BY <1>1, <1>3, <2>2, <2>3, <2>4, LeadsOn
<1>10. EditorLeads'
  BY <1>6 DEF EditorLeads, EditorSide
<1> QED BY <1>7, <1>8, <1>9, <1>10 DEF SyncInv

LEMMA QueuedFor ==
  ASSUME SyncInv, EditorSide, NEW command \in Commands, Len(toEngine) < CommandCapacity
  PROVE  LET queued == Append(toEngine, command)
         IN /\ queued \in Seq(Commands) /\ Len(queued) <= CommandCapacity
            /\ queued # <<>>
            /\ \/ ~ (\A i \in DOMAIN queued : queued[i].what = "republish")
               \/ command.what = "republish"
<1>1. toEngine \in Seq(Commands) /\ Len(toEngine) \in Nat /\ CommandCapacity \in Nat
  BY LenProperties, CapacityAssumption DEF SyncInv, SyncTyped
<1> DEFINE queued == Append(toEngine, command)
<1>2. queued \in Seq(Commands) /\ Len(queued) = Len(toEngine) + 1 /\ queued[Len(queued)] = command
  BY <1>1, AppendProperties
<1>3. Len(queued) \in DOMAIN queued /\ queued # <<>>
  BY <1>1, <1>2, LenProperties, EmptySeq
<1> HIDE DEF queued
<1>4. command.what # "republish" => ~ (\A i \in DOMAIN queued : queued[i].what = "republish")
  BY <1>2, <1>3
<1>5. Len(queued) <= CommandCapacity
  BY <1>1, <1>2
<1> QED BY <1>2, <1>3, <1>4, <1>5 DEF queued

\* The main thread's copy becomes what a command makes of it, and the command
\* is queued: a write of the editor's, or a preset.
LEMMA QueuedKeeps ==
  ASSUME SyncInv, EditorSide, NEW command \in Echoes \cup Chains,
         Len(toEngine) < CommandCapacity,
         main' = Put(main, command, meter),
         toEngine' = Append(toEngine, command),
         level' \in BOOLEAN, level' => level \/ command.what = "period" \/ command \in Chains,
         UNCHANGED <<engine, toUI, echoesLost, meter, established, stated, placed>>
  PROVE  SyncInv'
<1> meter \in States /\ engine \in LFO /\ main \in LFO /\ level \in BOOLEAN /\ SyncTyped
  BY MeterIs DEF SyncInv
<1>1. main' \in LFO
  BY PutIs
<1>2. command \in Commands /\ command.what # "republish"
  BY DEF Commands, Echoes, Chains
<1>3. toEngine' \in Seq(Commands) /\ Len(toEngine') <= CommandCapacity /\ toEngine' # <<>>
      /\ ~ (\A i \in DOMAIN toEngine' : toEngine'[i].what = "republish")
  BY <1>2, QueuedFor
<1>4. SyncTyped'
  BY <1>1, <1>3 DEF SyncTyped, SyncTypes
<1>5. EngineHeld' /\ HostLeads'
  BY <1>3 DEF SyncInv, EngineHeld, HostLeads
<1>6. EditorSide'
  <2>1. toEngine \in Seq(Commands) /\ Len(toEngine) \in Nat
    BY LenProperties DEF SyncTyped
  <2>2. DOMAIN toEngine' = 1 .. Len(toEngine) + 1 /\ DOMAIN toEngine = 1 .. Len(toEngine)
        /\ \A i \in 1 .. Len(toEngine) : toEngine'[i] = toEngine[i]
        /\ toEngine'[Len(toEngine) + 1] = command
    BY <1>2, <2>1, AppendProperties, LenProperties
  <2>3. ASSUME NEW i \in 1 .. Len(toEngine) + 1 PROVE toEngine'[i].what # "republish"
    <3>1. CASE i \in 1 .. Len(toEngine)
      BY <2>2, <3>1 DEF EditorSide
    <3>2. CASE i = Len(toEngine) + 1
      BY <1>2, <2>2, <3>2
    <3> QED BY <2>1, <3>1, <3>2
  <2> QED BY <2>2, <2>3 DEF EditorSide
<1>7. EditorLeads'
  <2>1. Leads(engine, toEngine, main, meter, level)
    BY DEF SyncInv, EditorLeads
  <2>2. toEngine \in Seq(Echoes \cup Chains)
    BY Directed
  <2>3. Leads(engine, toEngine', main', meter, level')
    BY <2>1, <2>2, LeadsOn
  <2> QED BY <2>3 DEF EditorLeads
<1> QED BY <1>4, <1>5, <1>6, <1>7 DEF SyncInv, OneSide

LEMMA EditorWritesKeeps ==
  ASSUME SyncInv, NEW write \in Writes, EditorWrites(write)
  PROVE  SyncInv'
<1> write \in Echoes /\ write.what \in {"sync", "period"}
  BY WritesAre
<1> meter \in States /\ engine \in LFO /\ main \in LFO /\ level \in BOOLEAN
  BY MeterIs DEF SyncInv
<1>1. main' = Put(main, write, meter)
  BY WriteIs DEF EditorWrites
<1>2. EditorSide /\ Len(toEngine) < CommandCapacity /\ toEngine' = Append(toEngine, write)
      /\ UNCHANGED <<engine, toUI, echoesLost, meter, established, stated, placed>>
      /\ level' = Agreeing(write, main)
  BY DEF EditorWrites, EditorSide, timer
<1>3. level' \in BOOLEAN /\ (level' => level \/ write.what = "period")
  BY <1>2 DEF Agreeing
<1> QED BY <1>1, <1>2, <1>3, QueuedKeeps

LEMMA LoadKeeps ==
  ASSUME SyncInv, NEW file \in Files \cup {main}, Load(file)
  PROVE  SyncInv'
<1> meter \in States /\ engine \in LFO /\ main \in LFO /\ SyncTyped
  BY MeterIs DEF SyncInv
<1> DEFINE command == [what |-> "chain", to |-> [lfo |-> main', meter |-> meter]]
<1>1. main' = loadLFO(file) /\ main' \in LFO /\ Held(main', meter)
  BY FilesLoadable, LoadHeld DEF Load
<1>2. EditorSide /\ Len(toEngine) < CommandCapacity /\ toEngine' = Append(toEngine, command)
      /\ UNCHANGED <<engine, toUI, echoesLost, meter, established, stated, placed>> /\ level' = TRUE
  BY DEF Load, EditorSide, timer
<1>3. command \in Chains /\ main' = Put(main, command, meter)
  BY <1>1 DEF Chains, Put
<1> QED BY <1>1, <1>2, <1>3, QueuedKeeps

LEMMA UpdatePeriodControlKeeps ==
  ASSUME SyncInv, updatePeriodControl
  PROVE  SyncInv'
<1> meter \in States /\ engine \in LFO /\ main \in LFO /\ level \in BOOLEAN /\ SyncTyped
  BY MeterIs DEF SyncInv
<1> DEFINE snapped == snapPeriodScale(main.period, main.sync, meter)
<1>1. /\ main' = [main EXCEPT !.period = snapped]
      /\ level' = (level /\ (Stands(main) \/ PeriodComing))
      /\ UNCHANGED <<engine, toUI, toEngine, echoesLost, meter, established, stated, placed>>
  BY DEF updatePeriodControl, rings, timer
<1>2. main.sync \in SUBSET Grids /\ main.period \in Nat /\ main = [sync |-> main.sync, period |-> main.period]
  BY LengthsAre DEF LFO, Lengths
<1>3. main' = [sync |-> main.sync, period |-> snapped]
  BY <1>1, <1>2
<1>4. main' \in LFO /\ main'.sync = main.sync
  <2>1. snapped \in Lengths
    BY <1>2, SnapPlaces
  <2> HIDE DEF snapped
  <2> QED BY <1>2, <1>3, <2>1 DEF LFO, Lengths
<1>5. Stands(main) => main' = main
  BY <1>2, <1>3 DEF Stands
<1>6. level' \in BOOLEAN /\ (level' => level /\ (main' = main \/ PeriodComing))
  BY <1>1, <1>5
<1> HIDE DEF snapped
<1>7. SyncTyped' /\ EngineHeld' /\ OneSide' /\ EditorSide' = EditorSide
  BY <1>1, <1>4, <1>6 DEF SyncInv, SyncTyped, SyncTypes, EngineHeld, OneSide, HostSide, EditorSide, Uncrossed
<1>8. HostLeads'
  <2>1. SUFFICES ASSUME toEngine = <<>>, ~echoesLost
                 PROVE  Leads(main', toUI, engine, meter, level')
    BY <1>1 DEF HostLeads
  <2>2. Leads(main, toUI, engine, meter, level) /\ toUI \in Seq(Echoes)
    BY <2>1 DEF SyncInv, HostLeads, SyncTyped
  <2>3. CASE level' /\ main' = main
    BY <1>6, <2>2, <2>3 DEF Leads
  <2>4. CASE ~ (level' /\ main' = main)
    <3>1. level' => HasPeriod(toUI, Len(toUI))
      <4>1. SUFFICES ASSUME PeriodComing PROVE HasPeriod(toUI, Len(toUI))
        BY <1>6, <2>4
      <4>2. \A i \in DOMAIN toEngine : FALSE
        BY <2>1, EmptySeq
      <4>3. PICK i \in DOMAIN toUI : toUI[i].what = "period"
        BY <2>1, <4>1, <4>2 DEF PeriodComing
      <4>4. i \in 1 .. Len(toUI) /\ toUI[i] \in Echoes
        BY <2>2, <4>3, LenProperties, ElementOfSeq
      <4> QED BY <4>3, <4>4 DEF HasPeriod
    <3>2. toUI \in Seq(Echoes \cup Chains)
      BY <2>2
    <3> QED BY <1>4, <1>6, <2>2, <3>1, <3>2, LeadsAgain
  <2> QED BY <2>3, <2>4
<1>9. EditorLeads'
  <2>1. SUFFICES ASSUME EditorSide PROVE Leads(engine, toEngine, main', meter, level')
    BY <1>1, <1>7 DEF EditorLeads
  <2>2. Leads(engine, toEngine, main, meter, level)
    BY <2>1 DEF SyncInv, EditorLeads
  <2>3. ~PeriodComing
    <3>1. \A i \in DOMAIN toUI : FALSE
      BY <2>1, EmptySeq DEF EditorSide
    <3> QED BY <2>1, <3>1 DEF EditorSide, PeriodComing
  <2> QED BY <1>4, <1>6, <2>2, <2>3 DEF Leads
<1> QED BY <1>7, <1>8, <1>9 DEF SyncInv

LEMMA DrainEchoesKeeps ==
  ASSUME SyncInv, drainEchoes
  PROVE  SyncInv'
<1> meter \in States /\ engine \in LFO /\ main \in LFO /\ level \in BOOLEAN /\ SyncTyped
  BY MeterIs DEF SyncInv
<1>1. /\ toUI # <<>> /\ main' = setAutomatedLFOParameter(main, Head(toUI)) /\ toUI' = Tail(toUI)
      /\ UNCHANGED <<engine, toEngine, echoesLost, meter, established, stated, placed, level>>
  BY DEF drainEchoes, timer
<1>2. toUI \in Seq(Echoes) /\ Len(toUI) \in Nat /\ Len(toUI) <= EchoCapacity /\ EchoCapacity \in Nat
  BY LenProperties, CapacityAssumption DEF SyncTyped, SyncTypes
<1>3. Head(toUI) \in Echoes /\ Tail(toUI) \in Seq(Echoes) /\ Len(Tail(toUI)) = Len(toUI) - 1
  BY <1>1, <1>2, HeadTailProperties
<1>4. main' = Put(main, Head(toUI), meter) /\ main' \in LFO
  <2>1. Head(toUI).what \in {"sync", "period"}
    BY <1>3 DEF Echoes
  <2> QED BY <1>1, <1>3, <2>1, WriteIs, PutIs
<1>5. SyncTyped'
  BY <1>1, <1>2, <1>3, <1>4 DEF SyncTyped, SyncTypes
<1>6. HostSide
  BY <1>1 DEF SyncInv, OneSide, EditorSide
<1>7. EngineHeld' /\ OneSide'
  BY <1>1, <1>6 DEF SyncInv, EngineHeld, OneSide, HostSide, Uncrossed
<1>8. HostLeads'
  <2>1. SUFFICES ASSUME toEngine = <<>>, ~echoesLost
                 PROVE  Leads(main', toUI', engine, meter, level)
    BY <1>1, <1>4 DEF HostLeads
  <2>2. Leads(main, toUI, engine, meter, level)
    BY <2>1 DEF SyncInv, HostLeads
  <2> QED BY <1>1, <1>2, <1>4, <2>2, LeadsRest
<1>9. EditorLeads'
  <2>1. SUFFICES ASSUME toUI' = <<>>, ~echoesLost, \A i \in DOMAIN toEngine : toEngine[i].what # "republish"
                 PROVE  Leads(engine, toEngine, main', meter, level)
    BY <1>1, <1>4 DEF EditorLeads, EditorSide
  <2>2. toEngine = <<>>
    <3>1. toEngine \in Seq(Commands)
      BY DEF SyncTyped
    <3>2. \A i \in DOMAIN toEngine : FALSE
      BY <1>6, <2>1 DEF HostSide, Uncrossed
    <3>3. Len(toEngine) \in Nat /\ DOMAIN toEngine = 1 .. Len(toEngine)
      BY <3>1, LenProperties
    <3>4. Len(toEngine) = 0
      <4>1. Len(toEngine) # 0 => 1 \in DOMAIN toEngine
        BY <3>3
      <4> QED BY <3>2, <4>1
    <3> QED BY <3>1, <3>4, EmptySeq
  <2>3. Leads(main', <<>>, engine, meter, level)
    BY <1>8, <1>1, <2>1, <2>2 DEF HostLeads
  <2>4. main'.sync = engine.sync /\ (level => main' = engine)
    BY <2>3, LedByNothing
  <2> QED BY <2>2, <2>4, NothingLeads
<1> QED BY <1>5, <1>7, <1>8, <1>9 DEF SyncInv

LEMMA AskForRepublishKeeps ==
  ASSUME SyncInv, AskForRepublish
  PROVE  SyncInv'
<1> meter \in States /\ engine \in LFO /\ main \in LFO /\ level \in BOOLEAN /\ SyncTyped
  BY MeterIs DEF SyncInv
<1> DEFINE request == [what |-> "republish"]
<1>1. /\ toUI = <<>> /\ echoesLost /\ Len(toEngine) < CommandCapacity /\ echoesLost' = FALSE
      /\ toEngine' = Append(toEngine, request)
      /\ UNCHANGED <<engine, main, toUI, meter, established, stated, placed, level>>
  BY DEF AskForRepublish, timer
<1>2. toEngine \in Seq(Commands) /\ Len(toEngine) \in Nat /\ CommandCapacity \in Nat
  BY LenProperties, CapacityAssumption DEF SyncTyped
<1>3. request \in Commands
  BY DEF Commands
<1>4. /\ toEngine' \in Seq(Commands) /\ Len(toEngine') = Len(toEngine) + 1
      /\ DOMAIN toEngine' = 1 .. Len(toEngine) + 1 /\ DOMAIN toEngine = 1 .. Len(toEngine)
      /\ \A i \in 1 .. Len(toEngine) : toEngine'[i] = toEngine[i]
      /\ toEngine'[Len(toEngine) + 1] = request
  BY <1>1, <1>2, <1>3, AppendProperties, LenProperties
<1>5. HostSide
  BY <1>1 DEF SyncInv, OneSide, EditorSide
<1>6. HostSide'
  <2>1. ASSUME NEW i \in 1 .. Len(toEngine) + 1 PROVE toEngine'[i].what = "republish"
    <3>1. CASE i \in 1 .. Len(toEngine)
      BY <1>4, <1>5, <3>1 DEF HostSide, Uncrossed
    <3>2. CASE i = Len(toEngine) + 1
      BY <1>4, <3>2
    <3> QED BY <1>2, <3>1, <3>2
  <2> QED BY <1>4, <2>1 DEF HostSide, Uncrossed
<1>7. SyncTyped'
  <2> HIDE DEF request
  <2>1. Len(toEngine') <= CommandCapacity
    BY <1>1, <1>2, <1>4
  <2>2. echoesLost' \in BOOLEAN
    BY <1>1, Zenon
  <2> QED BY <1>1, <1>4, <2>1, <2>2 DEF SyncTyped, SyncTypes
<1>8. toEngine' # <<>> /\ ~EditorSide'
  <2>1. Len(toEngine) + 1 \in DOMAIN toEngine' /\ toEngine'[Len(toEngine) + 1].what = "republish"
    BY <1>2, <1>4
  <2>2. toEngine' # <<>>
    BY <1>2, <1>4, EmptySeq
  <2> QED BY <2>1, <2>2 DEF EditorSide
<1> QED BY <1>1, <1>5, <1>6, <1>7, <1>8
    DEF SyncInv, EngineHeld, OneSide, HostLeads, EditorLeads

\* The meter another, or the timer told of the one there is.
LEMMA TimingKeeps ==
  ASSUME SyncInv, meter' \in States, stated' \in Meters \cup {0}, established' \in BOOLEAN,
         engine' \in LFO, engine'.sync = engine.sync, meter' = meter => engine' = engine,
         placed' \in States, Held(engine', placed'),
         level' = (level /\ meter' = meter),
         UNCHANGED <<main, toUI, toEngine, echoesLost>>
  PROVE  SyncInv'
<1> meter \in States /\ engine \in LFO /\ main \in LFO /\ level \in BOOLEAN /\ SyncTyped
  BY MeterIs DEF SyncInv
<1>1. level' \in BOOLEAN /\ (level' => level /\ meter' = meter /\ engine' = engine)
  OBVIOUS
<1>2. SyncTyped'
  BY <1>1 DEF SyncTyped, SyncTypes, States
<1>3. EngineHeld' /\ OneSide' /\ EditorSide' = EditorSide
  BY DEF SyncInv, EngineHeld, OneSide, HostSide, EditorSide, Uncrossed
<1>4. ASSUME NEW ring \in Seq(Echoes \cup Chains), NEW from \in LFO, NEW to,
             NEW again \in LFO, again.sync = from.sync, NEW goal, goal.sync = to.sync,
             level' => again = from /\ goal = to, Leads(from, ring, to, meter, level)
      PROVE  Leads(again, ring, goal, meter', level')
  <2>1. CASE level'
    BY <1>1, <1>4, <2>1 DEF Leads
  <2>2. CASE ~level'
    BY <1>4, <2>2, LeadsAgain
  <2> QED BY <2>1, <2>2
<1>5. HostLeads'
  <2>1. SUFFICES ASSUME toEngine = <<>>, ~echoesLost
                 PROVE  Leads(main, toUI, engine', meter', level')
    BY DEF HostLeads
  <2>2. Leads(main, toUI, engine, meter, level)
    BY <2>1 DEF SyncInv, HostLeads
  <2>3. toUI \in Seq(Echoes \cup Chains)
    BY DEF SyncTyped
  <2> QED BY <1>1, <1>4, <2>2, <2>3
<1>6. EditorLeads'
  <2>1. SUFFICES ASSUME EditorSide
                 PROVE  Leads(engine', toEngine, main, meter', level')
    BY <1>3 DEF EditorLeads
  <2>2. Leads(engine, toEngine, main, meter, level)
    BY <2>1 DEF SyncInv, EditorLeads
  <2>3. toEngine \in Seq(Echoes \cup Chains)
    BY <2>1, Directed
  <2> QED BY <1>1, <1>4, <2>2, <2>3
<1> QED BY <1>2, <1>3, <1>5, <1>6 DEF SyncInv

LEMMA UpdateTimingKeeps ==
  ASSUME SyncInv, NEW n \in Meters, updateLFOTiming(n)
  PROVE  SyncInv'
<1> meter \in States /\ engine \in LFO /\ main \in LFO /\ level \in BOOLEAN /\ placed \in States
  BY MeterIs DEF SyncInv
<1>1. n \in States /\ Held(engine, placed)
  BY DEF States, SyncInv, EngineHeld
<1>2. engine.sync \in SUBSET Grids /\ engine.period \in Nat
      /\ engine = [sync |-> engine.sync, period |-> engine.period]
  BY LengthsAre DEF LFO, Lengths
<1>3. /\ meter' = n /\ established' = TRUE /\ stated' = n /\ level' = (level /\ n = meter)
      /\ placed' = IF establishedChange(n) THEN n ELSE placed
      /\ UNCHANGED <<main, toUI, toEngine, echoesLost>>
  BY DEF updateLFOTiming, rings
<1>4. CASE establishedChange(n) /\ engine.sync # Free
  <2> DEFINE snapped == snapPeriodScale(engine.period, engine.sync, n)
  <2>1. engine' = [engine EXCEPT !.period = snapped]
    BY <1>4 DEF updateLFOTiming
  <2>2. engine' = [sync |-> engine.sync, period |-> snapped]
    BY <1>2, <2>1
  <2>3. snapped \in Lengths /\ Placed(snapped, engine.sync, n)
    BY <1>1, <1>2, SnapPlaces
  <2> HIDE DEF snapped
  <2>4. engine' \in LFO /\ engine'.sync = engine.sync /\ Held(engine', n)
    BY <1>2, <2>2, <2>3 DEF LFO, Held, Lengths
  <2>5. n # meter /\ placed' = n
    BY <1>3, <1>4 DEF establishedChange
  <2> QED BY <1>1, <1>3, <2>4, <2>5, TimingKeeps
<1>5. CASE ~ (establishedChange(n) /\ engine.sync # Free)
  <2>1. engine' = engine
    BY <1>5 DEF updateLFOTiming
  <2>2. placed' \in States /\ Held(engine, placed')
    BY <1>1, <1>3, <1>5 DEF Held, Placed
  <2> QED BY <1>1, <1>3, <2>1, <2>2, TimingKeeps
<1> QED BY <1>4, <1>5

LEMMA ResetTimerKeeps ==
  ASSUME SyncInv, ResetTimer
  PROVE  SyncInv'
<1> engine \in LFO /\ level \in BOOLEAN /\ placed \in States /\ SyncTyped
  BY MeterIs DEF SyncInv
<1>1. /\ meter' = reference
      /\ level' = (level /\ meter' = meter)
      /\ UNCHANGED <<engine, main, toUI, toEngine, echoesLost, established, stated, placed>>
  BY DEF ResetTimer, rings
<1>2. meter' \in States /\ Held(engine', placed')
  BY <1>1 DEF States, SyncInv, EngineHeld
<1>3. stated' \in Meters \cup {0} /\ established' \in BOOLEAN
  BY <1>1 DEF SyncTyped, SyncTypes
<1> QED BY <1>1, <1>2, <1>3, TimingKeeps

LEMMA TwoSent ==
  ASSUME NEW ring \in Seq(Echoes), NEW first \in Echoes, NEW second \in Echoes
  PROVE  ring \o SubSeq(<<first, second>>, 1, 2) = Append(Append(ring, first), second)
<1>1. <<first, second>> \in Seq(Echoes) /\ Len(<<first, second>>) = 2
  OBVIOUS
<1>2. SubSeq(<<first, second>>, 1, 2) = <<first, second>>
  BY <1>1, SubSeqFull
<1>3. ring \o <<first, second>> = Append(Append(ring, first), second)
  OBVIOUS
<1> QED BY <1>2, <1>3

\* The engine says what it holds, as far as there is room.
LEMMA RepublishKeeps ==
  ASSUME SyncInv, drainCommands, Head(toEngine).what = "republish"
  PROVE  SyncInv'
<1> meter \in States /\ engine \in LFO /\ main \in LFO /\ level \in BOOLEAN /\ SyncTyped
  BY MeterIs DEF SyncInv
<1> DEFINE first == [what |-> "sync", to |-> engine.sync]
           second == [what |-> "period", to |-> engine.period]
           sent == Smaller(EchoCapacity - Len(toUI), Len(Republished(engine)))
           lost == sent < Len(Republished(engine))
<1>1. /\ toEngine # <<>> /\ toEngine' = Tail(toEngine) /\ Echo(Republished(engine))
      /\ level' = (level /\ Stands(engine))
      /\ UNCHANGED <<engine, main, meter, established, stated, placed>>
  BY DEF drainCommands, timer
<1>2. toUI' = toUI \o SubSeq(Republished(engine), 1, sent) /\ echoesLost' = (echoesLost \/ lost)
  BY <1>1, Zenon DEF Echo
<1>3. Republished(engine) = <<first, second>> /\ first \in Echoes /\ second \in Echoes
      /\ Len(Republished(engine)) = 2
  BY DEF Republished, Echoes, LFO, Lengths
<1>4. /\ toUI \in Seq(Echoes) /\ Len(toUI) \in Nat /\ Len(toUI) <= EchoCapacity
      /\ EchoCapacity \in Nat \ {0} /\ echoesLost \in BOOLEAN
  BY LenProperties, CapacityAssumption DEF SyncTyped, SyncTypes
<1>5. /\ toEngine \in Seq(Commands) /\ Len(toEngine) \in Nat /\ Len(toEngine) <= CommandCapacity
      /\ CommandCapacity \in Nat /\ Tail(toEngine) \in Seq(Commands) /\ Len(Tail(toEngine)) = Len(toEngine) - 1
      /\ \A i \in 1 .. Len(toEngine) - 1 : Tail(toEngine)[i] = toEngine[i + 1]
  BY <1>1, LenProperties, HeadTailProperties, CapacityAssumption DEF SyncTyped, SyncTypes
<1>6. sent \in 0 .. 2 /\ sent <= EchoCapacity - Len(toUI) /\ (lost <=> sent # 2)
      /\ (sent = 0 => Len(toUI) = EchoCapacity)
  BY <1>3, <1>4 DEF Smaller
<1>7. toUI' \in Seq(Echoes) /\ Len(toUI') = Len(toUI) + sent
  <2> HIDE DEF sent, first, second
  <2>1. SubSeq(Republished(engine), 1, sent) \in Seq(Echoes)
        /\ Len(SubSeq(Republished(engine), 1, sent)) = sent
    <3>1. \A i \in 1 .. sent : Republished(engine)[i] \in Echoes
      BY <1>3, <1>6
    <3>2. Len(SubSeq(Republished(engine), 1, sent)) = (IF 1 <= sent THEN sent - 1 + 1 ELSE 0)
      BY <1>6, <3>1, SubSeqProperties
    <3>3. SubSeq(Republished(engine), 1, sent) \in Seq(Echoes)
      BY <1>6, <3>1, SubSeqProperties
    <3> QED BY <1>6, <3>2, <3>3
  <2> QED BY <1>2, <1>4, <2>1, ConcatProperties
<1>8. echoesLost' \in BOOLEAN /\ level' \in BOOLEAN
  <2>1. echoesLost' \in BOOLEAN
    BY <1>2, Zenon
  <2> QED BY <1>1, <2>1
<1>9. SyncTyped'
  BY <1>1, <1>4, <1>5, <1>6, <1>7, <1>8 DEF SyncTyped, SyncTypes
<1>10. HostSide
  <2>1. Head(toEngine) = toEngine[1] /\ 1 \in DOMAIN toEngine
    BY <1>1, <1>5, EmptySeq, LenProperties, HeadTailProperties
  <2>2. ~EditorSide
    BY <2>1 DEF EditorSide
  <2> QED BY <2>2 DEF SyncInv, OneSide
<1>11. HostSide'
  <2>1. DOMAIN Tail(toEngine) = 1 .. Len(toEngine) - 1 /\ DOMAIN toEngine = 1 .. Len(toEngine)
    BY <1>5, LenProperties
  <2> QED BY <1>1, <1>5, <1>10, <2>1 DEF HostSide, Uncrossed
<1>12. EngineHeld' /\ OneSide'
  BY <1>1, <1>11 DEF SyncInv, EngineHeld, OneSide
<1>13. toUI' # <<>> \/ echoesLost'
  <2>1. CASE sent = 0
    <3>1. Len(toUI') > 0
      BY <1>4, <1>6, <1>7, <2>1
    <3> QED BY <3>1, EmptySeq
  <2>2. CASE sent # 0
    <3>1. Len(toUI') > 0
      BY <1>4, <1>6, <1>7, <2>2
    <3> QED BY <3>1, EmptySeq
  <2> QED BY <2>1, <2>2
<1>14. EditorLeads'
  BY <1>13 DEF EditorLeads, EditorSide
<1>15. HostLeads'
  <2>1. SUFFICES ASSUME ~echoesLost'
                 PROVE  Leads(main, toUI', engine, meter, level')
    BY <1>1 DEF HostLeads
  <2>2. ~lost
    BY <1>2, <2>1, Zenon
  <2>3. sent = 2
    BY <1>6, <2>2
  <2> DEFINE one == Append(toUI, first)   two == Append(one, second)
  <2>4. toUI' = two
    <3> HIDE DEF sent, first, second
    <3> QED BY <1>2, <1>3, <1>4, <2>3, TwoSent
  <2>5. one \in Seq(Echoes) /\ two \in Seq(Echoes) /\ Len(one) = Len(toUI) + 1 /\ Len(two) = Len(toUI) + 2
        /\ two[Len(toUI) + 1] = first /\ two[Len(toUI) + 2] = second
    <3> HIDE DEF first, second
    <3>1. one \in Seq(Echoes) /\ Len(one) = Len(toUI) + 1 /\ one[Len(toUI) + 1] = first
      BY <1>3, <1>4, AppendProperties
    <3> HIDE DEF one
    <3> QED BY <1>3, <1>4, <3>1, AppendProperties
  <2>7. two \in Seq(Echoes \cup Chains)
    BY <2>5
  <2>8. PICK t : Written(t, main, two, meter)
    BY <2>7, RunLeads
  <2> DEFINE k == Len(toUI)
  <2> HIDE DEF two, first, second
  <2>9. /\ t[k] \in LFO /\ t[k + 1] \in LFO /\ t[k + 1] = Put(t[k], first, meter)
        /\ t[k + 2] = Put(t[k + 1], second, meter)
    <3>1. k + 1 \in 1 .. Len(two) /\ k + 2 \in 1 .. Len(two) /\ (k + 1) - 1 = k /\ (k + 2) - 1 = k + 1
          /\ k \in 0 .. Len(two) /\ k + 1 \in 0 .. Len(two)
      BY <1>4, <2>5
    <3> QED BY <2>5, <2>8, <3>1 DEF Written
  <2>10. t[k + 1].sync = engine.sync
    BY <1>3, <2>9, PutIs DEF first
  <2>11. t[k + 2] = [sync |-> engine.sync, period |-> snapPeriodScale(engine.period, engine.sync, meter)]
    BY <1>3, <2>9, <2>10, PutIs DEF second
  <2>12. level' => t[k + 2] = engine
    BY <1>1, <2>11 DEF Stands, LFO
  <2>13. Leads(main, two, engine, meter, level')
    BY <2>5, <2>8, <2>11, <2>12 DEF Leads
  <2> QED BY <2>4, <2>13
<1> QED BY <1>9, <1>12, <1>14, <1>15 DEF SyncInv

\* The engine becomes what its next command makes of it.
LEMMA CommandKeeps ==
  ASSUME SyncInv, drainCommands, Head(toEngine).what # "republish"
  PROVE  SyncInv'
<1> meter \in States /\ engine \in LFO /\ main \in LFO /\ level \in BOOLEAN /\ SyncTyped
  BY MeterIs DEF SyncInv
<1> DEFINE command == Head(toEngine)
<1>1. /\ toEngine # <<>> /\ toEngine' = Tail(toEngine)
      /\ UNCHANGED <<toUI, echoesLost, main, meter, established, stated, level>>
  BY DEF drainCommands, timer
<1>2. /\ toEngine \in Seq(Commands) /\ Len(toEngine) \in Nat /\ Len(toEngine) <= CommandCapacity
      /\ CommandCapacity \in Nat /\ Tail(toEngine) \in Seq(Commands) /\ Len(Tail(toEngine)) = Len(toEngine) - 1
      /\ \A i \in 1 .. Len(toEngine) - 1 : Tail(toEngine)[i] = toEngine[i + 1]
      /\ command = toEngine[1] /\ 1 \in DOMAIN toEngine
  BY <1>1, LenProperties, EmptySeq, HeadTailProperties, CapacityAssumption DEF SyncTyped, SyncTypes
<1>3. EditorSide
  <2>1. ~HostSide
    BY <1>2 DEF HostSide, Uncrossed
  <2> QED BY <2>1 DEF SyncInv, OneSide
<1>4. command \in Echoes \cup Chains
  <2>1. command \in Commands
    BY <1>2, ElementOfSeq, LenProperties
  <2> QED BY <2>1 DEF Commands
<1>5. engine' = Put(engine, command, meter) /\ placed' \in States /\ Held(engine', placed')
  <2>1. CASE command \in Chains
    <3>1. command.what = "chain" /\ engine' = command.to.lfo /\ placed' = command.to.meter
      BY <2>1 DEF drainCommands, Chains
    <3>2. Held(command.to.lfo, command.to.meter) /\ command.to.meter \in States
      BY <2>1 DEF Chains
    <3> QED BY <3>1, <3>2 DEF Put
  <2>2. CASE command \in Echoes
    <3>1. command.what \in {"sync", "period"} /\ engine' = setAutomatedLFOParameter(engine, command) /\ placed' = meter
      BY <2>2 DEF drainCommands, Echoes
    <3> QED BY <2>2, <3>1, WriteIs, PutIs
  <2> QED BY <1>4, <2>1, <2>2
<1>6. engine' \in LFO
  BY <1>4, <1>5, PutIs
<1>7. SyncTyped'
  BY <1>1, <1>2, <1>5, <1>6 DEF SyncTyped, SyncTypes, States
<1>8. EditorSide'
  <2>1. DOMAIN Tail(toEngine) = 1 .. Len(toEngine) - 1 /\ DOMAIN toEngine = 1 .. Len(toEngine)
    BY <1>2, LenProperties
  <2> QED BY <1>1, <1>2, <1>3, <2>1 DEF EditorSide
<1>9. Leads(engine, toEngine, main, meter, level)
  BY <1>3 DEF SyncInv, EditorLeads
<1>10. Leads(engine', toEngine', main, meter, level)
  BY <1>1, <1>2, <1>5, <1>9, LeadsRest
<1>11. EditorLeads' /\ EngineHeld' /\ OneSide'
  BY <1>1, <1>5, <1>8, <1>10 DEF EditorLeads, EngineHeld, OneSide
<1>12. ASSUME toEngine' = <<>> PROVE engine'.sync = main.sync /\ (level => engine' = main)
  BY <1>10, <1>12, LedByNothing
<1>13. HostLeads'
  <2>1. SUFFICES ASSUME toEngine' = <<>>
                 PROVE  Leads(main, <<>>, engine', meter, level)
    BY <1>1, <1>3 DEF HostLeads, EditorSide
  <2> QED BY <1>12, <2>1, NothingLeads
<1> QED BY <1>7, <1>11, <1>13 DEF SyncInv

LEMMA NextSyncInv ==
  ASSUME SyncInv, [SyncNext]_syncVars
  PROVE  SyncInv'
<1>1. ASSUME NEW write \in Writes, HostWrites(write) PROVE SyncInv'
  BY <1>1, HostWritesKeeps
<1>2. ASSUME NEW write \in Writes, EditorWrites(write) PROVE SyncInv'
  BY <1>2, EditorWritesKeeps
<1>3. CASE updatePeriodControl
  BY <1>3, UpdatePeriodControlKeeps
<1>4. CASE drainEchoes
  BY <1>4, DrainEchoesKeeps
<1>5. CASE AskForRepublish
  BY <1>5, AskForRepublishKeeps
<1>6. CASE drainCommands
  BY <1>6, RepublishKeeps, CommandKeeps
<1>7. ASSUME NEW file \in Files \cup {main}, Load(file) PROVE SyncInv'
  BY <1>7, LoadKeeps
<1>8. ASSUME NEW n \in Meters, updateLFOTiming(n) PROVE SyncInv'
  BY <1>8, UpdateTimingKeeps
<1>9. CASE ResetTimer
  BY <1>9, ResetTimerKeeps
<1>10. CASE UNCHANGED syncVars
  <2>1. UNCHANGED <<engine, main, toUI, toEngine, echoesLost, meter, established, stated, placed, level>>
    BY <1>10 DEF syncVars, rings, timer
  <2> QED BY <2>1 DEF SyncInv, SyncTyped, SyncTypes, EngineHeld, OneSide, HostSide, EditorSide,
                      Uncrossed, HostLeads, EditorLeads
<1> QED BY <1>1, <1>2, <1>3, <1>4, <1>5, <1>6, <1>7, <1>8, <1>9, <1>10 DEF SyncNext

LEMMA Syncing == SyncSpec => []SyncInv
<1>1. SyncInit => SyncInv
  BY InitSyncInv
<1>2. SyncInv /\ [SyncNext]_syncVars => SyncInv'
  BY NextSyncInv
<1> QED BY <1>1, <1>2, PTL DEF SyncSpec

(* In whatever meters the host states, whatever is written, loaded, lost   *)
(* and made up for, both copies hold a sync type and a period that is in   *)
(* the range or is a note of one of those meters.                          *)
THEOREM PeriodsTyped == SyncSpec => []SyncTypes
<1>1. SyncInv => SyncTypes
  BY DEF SyncInv, SyncTyped
<1> QED BY <1>1, Syncing, PTL

(* What the engine plays is a note of the meter it was last placed in, or  *)
(* the default of a file that named none, whatever meters the host states. *)
THEOREM EnginePlaysNotes == SyncSpec => []EngineOnGrid
<1>1. SyncInv => EngineOnGrid
  BY DEF SyncInv, EngineHeld, EngineOnGrid, Held, Placed
<1> QED BY <1>1, Syncing, PTL

(* And the copies, each snapping for itself, agree once the rings are      *)
(* empty, in every meter, for a period both were given in it and that no   *)
(* second snap has moved.                                                  *)
THEOREM CopiesMeet == SyncSpec => []CopiesAgree
<1>1. SyncInv => CopiesAgree
  <2> SUFFICES ASSUME SyncInv, level, toUI = <<>>, toEngine = <<>>, ~echoesLost PROVE engine = main
    BY DEF CopiesAgree
  <2>1. Leads(main, <<>>, engine, meter, level)
    BY DEF SyncInv, HostLeads
  <2>2. level => main = engine
    BY <2>1, LedByNothing
  <2> QED BY <2>2
<1> QED BY <1>1, Syncing, PTL

(* A note of the range saved and loaded again in its meter stays where it  *)
(* was: up to a bar in every meter, any in meters of up to four beats.     *)
THEOREM ReloadsInPlace == SyncSpec => ReloadMovesNothing
<1> DEFINE Noted == \E grid \in main.sync : /\ main.period \in GridPoints(grid, meter)
                                            /\ UpToABar(main.period, grid) \/ meter <= reference
<1>1. SyncInv /\ [SyncNext]_syncVars
        => [Load(main) /\ isValidValue(main.period) /\ Noted => main' = main]_syncVars
  <2> SUFFICES ASSUME SyncInv, Load(main), isValidValue(main.period), Noted PROVE main' = main
    OBVIOUS
  <2>1. meter \in States /\ main \in LFO
    BY MeterIs DEF SyncInv
  <2>2. main.sync \in SUBSET Grids /\ main = [sync |-> main.sync, period |-> main.period]
    BY <2>1 DEF LFO
  <2>3. meter \in 1 .. 255 /\ meter \in Meters \cup {reference}
    BY <2>1, LengthsAre DEF States
  <2>4. snapPeriodScale(main.period, main.sync, meter) = main.period
    <3>1. PICK grid \in main.sync : /\ main.period \in GridPoints(grid, meter)
                                    /\ UpToABar(main.period, grid) \/ meter <= reference
      OBVIOUS
    <3>2. main.sync # Free
      BY DEF Free
    <3> QED BY <2>2, <2>3, <3>1, <3>2, NoteStays DEF snapPeriodScale
  <2>5. loadLFO(main) = [sync |-> main.sync, period |-> main.period]
    BY <2>4 DEF loadLFO
  <2>6. main' = loadLFO(main)
    BY Zenon DEF Load
  <2> QED BY <2>2, <2>5, <2>6
<1> QED BY <1>1, Syncing, PTL DEF SyncSpec, ReloadMovesNothing

-----------------------------------------------------------------------------
(* What a period is printed as, read back.                                 *)

\* A note up to a bar is a whole part of it, and in four four a longer one so
\* many whole bars.
LEMMA WholeRounded ==
  ASSUME NEW k \in Nat, NEW e \in Nat \ {0}
  PROVE  Rounded(k * e, e) = k
<1>1. Rounded(k * e, 1 * e) = Rounded(k, 1)
  BY RatioRounded
<1>2. k \div 1 = k /\ k % 1 = 0
  OBVIOUS
<1>3. Rounded(k, 1) = k
  BY <1>2 DEF Rounded
<1>4. 1 * e = e
  OBVIOUS
<1> QED BY <1>1, <1>3, <1>4

LEMMA WholeNotes ==
  ASSUME NEW n \in 1 .. 255, NEW e \in Eighths(n), e <= 8 * n \/ n = reference
  PROVE  /\ e \in Nat \ {0}
         /\ e < 8 * n => Rounded(8 * n, e) \in Nat \ {0} /\ Rounded(8 * n, e) * e = 8 * n
         /\ ~(e < 8 * n) => Rounded(e, 8 * n) \in Nat \ {0} /\ Rounded(e, 8 * n) * (8 * n) = e
<1>1. e \in Nat \ {0} /\ (e \in {1, 2, 4} \/ \E c \in Nat \ {0} : c \in Lasting(n) /\ e = 8 * c)
  BY EighthsAreCounted
<1>2. ASSUME e <= 8 * n PROVE \E k \in Nat \ {0} : 8 * n = k * e
  <2>1. CASE e \in {1, 2, 4}
    <3>1. CASE e = 1
      <4> WITNESS 8 * n \in Nat \ {0}
      <4> QED BY <3>1
    <3>2. CASE e = 2
      <4> WITNESS 4 * n \in Nat \ {0}
      <4> QED BY <3>2
    <3>3. CASE e = 4
      <4> WITNESS 2 * n \in Nat \ {0}
      <4> QED BY <3>3
    <3> QED BY <2>1, <3>1, <3>2, <3>3
  <2>2. ASSUME NEW c \in Nat \ {0}, c \in Lasting(n), e = 8 * c PROVE \E k \in Nat \ {0} : 8 * n = k * e
    <3>1. c <= n
      BY <1>2, <2>2
    <3>2. n % c = 0
      <4>1. SUFFICES ASSUME NEW p \in {1, 2, 4, 8, 16, 32, 64, 128, 256}, c = Clamp(p, n, longestBars * n)
                     PROVE n % c = 0
        BY <2>2 DEF Lasting
      <4>2. c = n
        BY <3>1, <4>1 DEF Clamp, Smaller, Larger, longestBars
      <4> QED BY <4>2
    <3>3. PICK q \in Int : n = c * q
      BY <3>2, WholeMultiple
    <3>4. q \in Nat \ {0}
      <4>1. SUFFICES ASSUME q <= 0 PROVE FALSE
        OBVIOUS
      <4>2. c * q <= 0
        BY <4>1
      <4> QED BY <3>3, <4>2
    <3>5. 8 * n = q * e
      BY <2>2, <3>3, <3>4
    <3> QED BY <3>4, <3>5
  <2> QED BY <1>1, <2>1, <2>2
<1>3. ASSUME e < 8 * n PROVE Rounded(8 * n, e) \in Nat \ {0} /\ Rounded(8 * n, e) * e = 8 * n
  <2>1. PICK k \in Nat \ {0} : 8 * n = k * e
    BY <1>1, <1>2, <1>3
  <2>2. Rounded(8 * n, e) = k
    BY <1>1, <2>1, WholeRounded
  <2> QED BY <2>1, <2>2
<1>4. ASSUME ~(e < 8 * n) PROVE Rounded(e, 8 * n) \in Nat \ {0} /\ Rounded(e, 8 * n) * (8 * n) = e
  <2>1. CASE e <= 8 * n
    <3>1. e = 1 * (8 * n)
      BY <1>1, <1>4, <2>1
    <3>2. Rounded(e, 8 * n) = 1
      BY <3>1, WholeRounded
    <3> QED BY <3>1, <3>2
  <2>2. CASE n = 4
    <3> n \in 1 .. reference
      BY <2>2 DEF reference
    <3>1. e \in {32, 64, 128, 256, 512}
      BY <1>1, <1>4, <2>2, LastingIs
    <3> QED BY <2>2, <3>1 DEF Rounded
  <2> QED BY <2>1, <2>2 DEF reference
<1> QED BY <1>1, <1>3, <1>4

LEMMA LengthPrinted ==
  ASSUME NEW n \in 1 .. 255, n \in Meters \cup {reference}, NEW grid \in Grids,
         NEW p \in GridPoints(grid, n), UpToABar(p, grid) \/ n = reference
  PROVE  LET to == ToNote(grid)
             num == p * to[1]
             den == Bar * to[2]
             numerator == IF num < den THEN 1 ELSE Rounded(num, den)
             denominator == IF num < den THEN Rounded(den, num) ELSE 1
         IN (Bar * numerator * to[2]) \div (denominator * to[1]) = p
<1> DEFINE to == ToNote(grid)
           num == p * to[1]
           den == Bar * to[2]
<1>p. PICK e \in Eighths(n), u \in Nat \ {0} : Lasts(p, grid, n, e, u)
  BY NoteLasts
<1>1. /\ p = Note(e, grid, n) /\ e \in Nat \ {0} /\ p = e * u /\ p \in Nat
      /\ 8 * n * (u * to[1]) = Bar * to[2]
      /\ p * to[1] = e * (u * to[1])
      /\ UpToABar(p, grid) <=> e <= 8 * n
  BY <1>p DEF Lasts
<1> DEFINE w == u * to[1]
<1>2. to[1] \in {1, 2, 3} /\ to[2] \in {1, 2, 3}
  BY NoteIs
<1>3. e \in Nat
  BY <1>1
<1>4. u \in Nat \ {0} /\ 8 * n * w = den /\ p = e * u
  BY <1>1
<1>5. n \in Nat \ {0} /\ Bar \in Nat
  BY BarAssumption
<1>6. w \in Nat \ {0} /\ num = e * w /\ den = (8 * n) * w
  BY <1>1, <1>2, <1>4, <1>5
<1>7. num < den <=> e < 8 * n
  <2> HIDE DEF num, den, w
  <2>1. \A x \in Nat, y \in Nat : x < y => x * w < y * w
    BY <1>6
  <2>2. 8 * n \in Nat /\ e * w \in Nat /\ (8 * n) * w \in Nat
    BY <1>3, <1>5, <1>6
  <2>3. /\ e < 8 * n => e * w < (8 * n) * w
        /\ 8 * n < e => (8 * n) * w < e * w
        /\ e = 8 * n => e * w = (8 * n) * w
    BY <1>3, <2>1, <2>2
  <2> QED BY <1>3, <1>6, <2>2, <2>3
<1>8. e <= 8 * n \/ n = reference
  BY <1>1
<1>9. CASE num < den
  <2> DEFINE d == Rounded(8 * n, e)
  <2>1. e \in Nat \ {0} /\ d \in Nat \ {0} /\ d * e = 8 * n
    BY <1>7, <1>8, <1>9, WholeNotes
  <2>2. Rounded(den, num) = d
    <3>1. 8 * n \in Nat
      BY <1>5
    <3> HIDE DEF num, den, w
    <3> QED BY <1>6, <2>1, <3>1, RatioRounded
  <2> HIDE DEF d
  <2>3. Bar * 1 * to[2] = (d * to[1]) * p
    <3>1. Bar * 1 * to[2] = den
      BY <1>2, <1>5
    <3>2. den = (d * e) * (u * to[1])
      BY <1>6, <2>1
    <3>3. (d * e) * (u * to[1]) = (d * to[1]) * (e * u)
      BY <1>2, <1>4, <2>1
    <3> QED BY <1>4, <3>1, <3>2, <3>3
  <2>4. d * to[1] \in Nat \ {0} /\ p \in Int
    BY <1>2, <1>3, <1>4, <2>1
  <2>5. ((d * to[1]) * p) \div (d * to[1]) = p
    <3> DEFINE s == d * to[1]
    <3> HIDE DEF s
    <3>1. s \in Nat \ {0} /\ p \in Int
      BY <2>4 DEF s
    <3>2. (s * p) \div s = p
      BY <3>1
    <3> QED BY <3>2 DEF s
  <2>6. (IF num < den THEN 1 ELSE Rounded(num, den)) = 1
        /\ (IF num < den THEN Rounded(den, num) ELSE 1) = d
    <3> HIDE DEF num, den
    <3> QED BY <1>9, <2>2
  <2>7. (Bar * 1 * to[2]) \div (d * to[1]) = p
    BY <2>3, <2>5
  <2> QED BY <2>6, <2>7, Zenon
<1>10. CASE ~(num < den)
  <2> DEFINE k == Rounded(e, 8 * n)
  <2>1. k \in Nat \ {0} /\ k * (8 * n) = e
    BY <1>7, <1>8, <1>10, WholeNotes
  <2>2. Rounded(num, den) = k
    <3>1. 8 * n \in Nat \ {0}
      BY <1>5
    <3> HIDE DEF num, den, w
    <3> QED BY <1>3, <1>6, <3>1, RatioRounded
  <2> HIDE DEF k
  <2>3. Bar * k * to[2] = (1 * to[1]) * p
    <3>1. Bar * k * to[2] = k * den
      BY <1>2, <1>5, <2>1
    <3>2. k * den = (k * (8 * n)) * (u * to[1])
      BY <1>2, <1>4, <1>5, <1>6, <2>1
    <3>3. e * (u * to[1]) = (1 * to[1]) * (e * u)
      BY <1>2, <1>3, <1>4
    <3> QED BY <1>4, <2>1, <3>1, <3>2, <3>3
  <2>4. 1 * to[1] \in Nat \ {0} /\ p \in Int
    BY <1>2, <1>3, <1>4
  <2>5. ((1 * to[1]) * p) \div (1 * to[1]) = p
    <3> DEFINE s == 1 * to[1]
    <3> HIDE DEF s
    <3>1. s \in Nat \ {0} /\ p \in Int
      BY <2>4 DEF s
    <3>2. (s * p) \div s = p
      BY <3>1
    <3> QED BY <3>2 DEF s
  <2>6. (IF num < den THEN 1 ELSE Rounded(num, den)) = k
        /\ (IF num < den THEN Rounded(den, num) ELSE 1) = 1
    <3> HIDE DEF num, den
    <3> QED BY <1>10, <2>2
  <2>7. (Bar * k * to[2]) \div (1 * to[1]) = p
    BY <2>3, <2>5
  <2> QED BY <2>6, <2>7, Zenon
<1> QED BY <1>9, <1>10

(* A period of the range reads back as the note it is printed as, on the   *)
(* grid it was printed on: up to a bar in every meter, any in four four.   *)
THEOREM PrintedIsRead == SyncSpec => []PrintedReadsBack
<1>1. SyncInv => PrintedReadsBack
  <2> DEFINE n == meter
             snapped == snapSyncedPeriod(engine.period, engine.sync, n)
             p == snapped.period
             g == snapped.grid
             note == printSyncedPeriodScale(engine.period, engine.sync, n)
             length == (Bar * note.numerator * ToNote(note.grid)[2])
                         \div (note.denominator * ToNote(note.grid)[1])
             among == IF note.grid = Quarter THEN Grids ELSE {note.grid}
  <2> SUFFICES ASSUME SyncInv, engine.sync # Free, isValidValue(p),
                      UpToABar(p, note.grid) \/ n = reference
               PROVE  parsePeriodScale(note, n) = snapped
    BY DEF PrintedReadsBack
  <2>1. /\ engine.sync \in SUBSET Grids /\ engine.period \in Nat
        /\ n \in Meters \cup {reference} /\ n \in 1 .. 255
    <3>1. meter \in States /\ engine \in LFO
      BY MeterIs DEF SyncInv
    <3> QED BY <3>1, LengthsAre DEF LFO, Lengths, States
  <2>2. Nearest(engine.period, engine.sync, n, g)
        /\ snapped = [period |-> SnapOnto(engine.period, g, n), grid |-> g]
    BY <2>1, WonIs
  <2>3. g \in Grids
    <3> HIDE DEF g, n
    <3> QED BY <2>1, <2>2 DEF Nearest
  <2>4. snapped = [period |-> p, grid |-> g] /\ p = SnapOnto(engine.period, g, n)
    <3> HIDE DEF g, snapped
    <3> QED BY <2>2
  <2>5. p \in GridPoints(g, n)
    <3> HIDE DEF g, snapped, n
    <3> QED BY <2>1, <2>3, <2>4, SnapOntoIs
  <2>6. p \in Periods /\ p \in Nat
    <3> HIDE DEF p
    <3> QED BY RangeIs DEF Periods, isValidValue
  <2>7. note.grid = g
    BY DEF printSyncedPeriodScale
  <2>8. length = p
    <3> DEFINE to == ToNote(g)
               num == p * to[1]
               den == Bar * to[2]
    <3>1. note = [numerator   |-> IF num < den THEN 1 ELSE Rounded(num, den),
                  denominator |-> IF num < den THEN Rounded(den, num) ELSE 1,
                  grid        |-> g]
      BY DEF printSyncedPeriodScale
    <3>2. UpToABar(p, g) \/ n = reference
      BY <2>7
    <3> HIDE DEF p, g, n, note
    <3> QED BY <2>1, <2>3, <2>5, <3>1, <3>2, LengthPrinted
  <2>9. clampFreePeriod(p) = p
    <3> HIDE DEF p
    <3>1. currentPeriodScaleMinimum \in Int /\ currentPeriodScaleMaximum \in Int
          /\ currentPeriodScaleMinimum <= p /\ p <= currentPeriodScaleMaximum
      BY <2>6, RangeIs DEF Periods
    <3> QED BY <2>6, <3>1 DEF clampFreePeriod, Clamp, Smaller, Larger
  <2>10. parsePeriodScale(note, n) = snapSyncedPeriod(p, among, n)
    <3>1. parsePeriodScale(note, n) = snapSyncedPeriod(clampFreePeriod(length), among, n)
      BY DEF parsePeriodScale
    <3> HIDE DEF length, p, among, note, n
    <3> QED BY <2>8, <2>9, <3>1
  <2>11. g \in among /\ among \in SUBSET Grids /\ among # Free /\ (g # Quarter => among = {g})
    <3> HIDE DEF g, note
    <3> QED BY <2>3, <2>7 DEF Free
  <2> DEFINE read == snapSyncedPeriod(p, among, n)
  <2>12. read.period = p /\ (g = Quarter => read.grid = Quarter)
    <3>1. UpToABar(p, g) \/ n <= reference
      BY <2>7 DEF reference
    <3> HIDE DEF p, g, among, n
    <3> QED BY <2>1, <2>5, <2>11, <3>1, NoteStays
  <2>13. Nearest(p, among, n, read.grid) /\ read = [period |-> SnapOnto(p, read.grid, n), grid |-> read.grid]
    <3> HIDE DEF p, among, n
    <3> QED BY <2>1, <2>6, <2>11, WonIs
  <2>14. read.grid = g
    <3> HIDE DEF read, g, among, n, p
    <3> QED BY <2>11, <2>12, <2>13 DEF Nearest
  <2>15. read = [period |-> p, grid |-> g]
    <3> HIDE DEF read, g, p, n
    <3> QED BY <2>12, <2>13, <2>14
  <2> QED BY <2>4, <2>10, <2>15
<1> QED BY <1>1, Syncing, PTL

=============================================================================
