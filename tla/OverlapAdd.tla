------------------------------ MODULE OverlapAdd ------------------------------
(***************************************************************************)
(* One block of audio, from the host's process() down to the overlap-add   *)
(* of its frames (process() and runEngine() in spectrumWorxCLAP.cpp,       *)
(* processor.cpp, channelBuffers.cpp).  A block is cut into pieces of a    *)
(* hop, a piece is rendered channel by channel, and a channel consumes the *)
(* piece in bites that each fill its window and emit as much as they took. *)
(*                                                                         *)
(* A sample is its place in the stream, below zero for the silence a reset *)
(* primes the buffers with.  A slot of the output buffer is what has been  *)
(* added to it, in order: a chain that changes nothing adds to each slot   *)
(* the input sample the frame has there, then scales, then mixes dry in.   *)
(* The one module's parameter is a trigger, which a host presses.          *)
(***************************************************************************)
EXTENDS Integers, Sequences

CONSTANTS FFTSize,           \* the frame, and the window
          StepSizes,         \* the hops: FFTSize over the overlap factors
          NumberOfChannels,
          BlockSize,         \* the longest block
          Length,            \* bound: the samples between two resets
          scaled             \* in a slot: the gain was applied here

ASSUME FFTSizeAssumption == FFTSize \in Nat \ {0}
ASSUME StepAssumption == \A h \in StepSizes : h \in 1 .. FFTSize /\ FFTSize % h = 0
ASSUME ChannelAssumption == NumberOfChannels \in Nat \ {0}
ASSUME BlockAssumption == BlockSize \in Nat

VARIABLES stepSize,      \* engineSetup().stepSize()
          buffers,       \* channels_
          played,        \* the samples of the stream before this block
          frames,        \* frames_count of the block under way; 0 for none
          cursor,        \* how far into it the pieces have got
          events,        \* the times of its trigger presses still to apply
          piece, left,   \* the length of the piece under way, and what of it
                         \* the channel has yet to consume
          channel,       \* currentChannel_
          output,        \* what the block has emitted, by channel
          preProcessed,  \* preProcessedThisCall_
          armed,         \* the trigger parameter
          freeze,        \* what setup() last read from it
          owed,          \* the channels a press has not acted on
          pressedAt,     \* the last press, as a place in the stream
          answeredAt     \* the newest sample of the frame it acted on

streams == <<stepSize, buffers, output>>
host == <<played, frames, cursor, events>>
call == <<piece, left, channel, preProcessed>>
trigger == <<armed, freeze, owed, pressedAt, answeredAt>>
vars == <<streams, host, call, trigger>>

Channel == 1 .. NumberOfChannels
outputBufferSize == 2 * FFTSize - stepSize
Least(m, n) == IF m <= n THEN m ELSE n

----------------------------------------------------------------------------
(* ChannelBuffers: two arrays, how full the first is (inputOLAPosition_)   *)
(* and how much of the second is ready (outputOLAPosition_).               *)

\* Mutant: the output starts with nothing ready.
ResetUnprimed(step) ==
  [main  |-> [i \in 1 .. FFTSize |-> i - 1 - (FFTSize - step)], held |-> FFTSize - step,
   out   |-> [i \in 1 .. 2 * FFTSize - step |-> <<>>], ready |-> 0]
\* reset( windowSize - stepSize, stepSize ): silence on both sides.
ResetBuffers(step) ==
  [main  |-> [i \in 1 .. FFTSize |-> i - 1 - (FFTSize - step)], held |-> FFTSize - step,
   out   |-> [i \in 1 .. 2 * FFTSize - step |-> <<>>], ready |-> step]

AddNewData(b, first, size) ==
  [b EXCEPT !.held = @ + size,
            !.main = [i \in 1 .. FFTSize |->
                       IF i \in b.held + 1 .. b.held + size THEN first + (i - b.held - 1)
                       ELSE @[i]]]

\* Mutant: room for more than a whole window.
HasMoreRoom(b) == b.held = FFTSize /\ b.ready < outputBufferSize - FFTSize
\* A whole window of input, and room for one of output.
FrameIsDue(b) == b.held = FFTSize /\ b.ready <= outputBufferSize - FFTSize

\* putNewTimeDomainDataToOutput(), the gain and the dry signal over its first
\* hop, and moveForwardByHopSize().
Frame(b) ==
  [main  |-> [i \in 1 .. FFTSize |-> IF i <= FFTSize - stepSize THEN b.main[i + stepSize]
                                                                ELSE b.main[i]],
   held  |-> b.held - stepSize,
   ready |-> b.ready + stepSize,
   out   |-> [i \in DOMAIN b.out |->
               LET at == i - b.ready
               IN b.out[i] \o (IF at \in 1 .. FFTSize THEN <<b.main[at]>> ELSE <<>>)
                           \o (IF at \in 1 .. stepSize THEN <<scaled, b.main[at]>> ELSE <<>>)]]

\* Mutant: what is left of the last frames is moved, and not cleared behind.
ExtractUncleared(b, size) ==
  LET valid == b.ready + (FFTSize - stepSize) - size
  IN [b EXCEPT !.ready = @ - size,
               !.out = [i \in DOMAIN @ |-> IF i <= valid THEN @[i + size] ELSE @[i]]]
\* extractChunkOfReadyOutputData()
Extract(b, size) ==
  LET valid == b.ready + (FFTSize - stepSize) - size
  IN [b EXCEPT !.ready = @ - size,
               !.out = [i \in DOMAIN @ |-> IF i <= valid THEN @[i + size]
                                           ELSE IF i <= valid + size THEN <<>> ELSE @[i]]]

----------------------------------------------------------------------------
(* Events.  One that is due arms the trigger, which is never disarmed but  *)
(* by being read.                                                          *)

\* Mutant: an event waits for the piece after the one it is due at.
DueBefore(sample) == {t \in events : t < sample}
DueAt(sample) == {t \in events : t <= sample}

ApplyEventsDueAt(sample) ==
  LET due == DueAt(sample)
  IN /\ events' = events \ due
     /\ UNCHANGED <<freeze, answeredAt>>
     /\ IF due = {} THEN UNCHANGED <<armed, owed, pressedAt>>
        ELSE /\ armed' = TRUE /\ owed' = Channel
             /\ pressedAt' = played + (CHOOSE t \in due : \A u \in due : u <= t)

----------------------------------------------------------------------------
(* A block, and its pieces.                                                *)

Process(n, presses) ==
  /\ frames = 0 /\ played + n <= Length
  /\ frames' = n /\ cursor' = 0 /\ events' = presses
  /\ output' = [c \in Channel |-> <<>>]
  /\ UNCHANGED <<stepSize, buffers, played, call, trigger>>

StartPiece ==
  /\ cursor < frames /\ piece = 0
  /\ ApplyEventsDueAt(cursor)
  /\ piece' = Least(stepSize, frames - cursor) /\ left' = piece'
  /\ channel' = 1 /\ preProcessed' = FALSE
  /\ UNCHANGED <<streams, played, frames, cursor>>

\* Mutant: every frame reads the parameters.
ReadByEveryFrame == TRUE
\* preProcessForFirstFrame(): once a call, and the trigger with them.
ReadsParameters == ~preProcessed

\* A frame that reads a press acts on it, in its own channel.
RunModules(newest) ==
  LET acts == IF ReadsParameters THEN armed ELSE freeze
  IN /\ preProcessed' = TRUE
     /\ freeze' = acts
     /\ armed' = IF ReadsParameters THEN FALSE ELSE armed
     /\ owed' = IF acts THEN owed \ {channel} ELSE owed
     /\ answeredAt' = IF acts /\ channel \in owed
                        THEN [answeredAt EXCEPT ![channel] = newest] ELSE answeredAt
     /\ UNCHANGED pressedAt

\* processSingleChannel(), one turn of its loop.
Iterate ==
  /\ piece > 0
  /\ LET b == buffers[channel]
         size == Least(FFTSize - b.held, left)
         first == played + cursor + (piece - left)
         filled == AddNewData(b, first, size)
         rendered == IF FrameIsDue(filled) THEN Frame(filled) ELSE filled
         amount == Least(size, rendered.ready)
     IN /\ buffers' = [buffers EXCEPT ![channel] = Extract(rendered, amount)]
        /\ output' = [output EXCEPT ![channel] = @ \o [i \in 1 .. size - amount |-> <<>>]
                                                  \o [i \in 1 .. amount |-> rendered.out[i]]]
        /\ IF FrameIsDue(filled) THEN RunModules(filled.main[FFTSize])
                                 ELSE UNCHANGED <<preProcessed, trigger>>
        /\ IF left > size
             THEN left' = left - size /\ UNCHANGED <<piece, channel, cursor>>
           ELSE IF channel < NumberOfChannels
             THEN left' = piece /\ channel' = channel + 1 /\ UNCHANGED <<piece, cursor>>
           ELSE piece' = 0 /\ left' = 0 /\ channel' = 1 /\ cursor' = cursor + piece
  /\ UNCHANGED <<stepSize, played, frames, events>>

\* The events at its end belong to the boundary itself.
EndBlock ==
  /\ frames > 0 /\ cursor = frames
  /\ ApplyEventsDueAt(frames)
  /\ played' = played + frames /\ frames' = 0 /\ cursor' = 0
  /\ UNCHANGED <<streams, call>>

\* A host's reset(), or a restart that may have changed the overlap: the
\* stream begins again, and a press nothing has read yet is still there.
Reset(step) ==
  /\ frames = 0
  /\ stepSize' = step
  /\ buffers' = [c \in Channel |-> ResetBuffers(step)]
  /\ output' = [c \in Channel |-> <<>>]
  /\ played' = 0
  /\ pressedAt' = 0 /\ answeredAt' = [c \in Channel |-> 0]
  /\ owed' = IF armed THEN Channel ELSE {}
  /\ UNCHANGED <<frames, cursor, events, call, armed, freeze>>

Init ==
  /\ stepSize \in StepSizes
  /\ buffers = [c \in Channel |-> ResetBuffers(stepSize)]
  /\ output = [c \in Channel |-> <<>>]
  /\ played = 0 /\ frames = 0 /\ cursor = 0 /\ events = {}
  /\ piece = 0 /\ left = 0 /\ channel = 1 /\ preProcessed = FALSE
  /\ armed = FALSE /\ freeze = FALSE
  /\ owed = {} /\ pressedAt = 0 /\ answeredAt = [c \in Channel |-> 0]

Render == StartPiece \/ Iterate \/ EndBlock

Next ==
  \/ \E n \in 1 .. BlockSize : \E presses \in {{}} \cup {{t} : t \in 0 .. n} : Process(n, presses)
  \/ Render
  \/ \E step \in StepSizes : Reset(step)

Spec == Init /\ [][Next]_vars /\ WF_vars(Render)

----------------------------------------------------------------------------
(* Between two turns of the loop a channel can emit at once whatever it    *)
(* can be given, so no block is padded with silence and none overruns the  *)
(* output buffer (latency.md, 3).                                          *)
NeverStarves ==
  \A c \in Channel :
    /\ buffers[c].held \in 0 .. FFTSize
    /\ buffers[c].ready = FFTSize - buffers[c].held
    /\ DOMAIN buffers[c].out = 1 .. outputBufferSize

(* However the host cuts its blocks, a sample leaves exactly one window    *)
(* after it came: every frame that covers it added, then the gain, then    *)
(* the dry sample, once each and nothing else.                             *)
DelayedByOneWindow ==
  frames > 0 => \A c \in Channel : \A i \in 1 .. Len(output[c]) :
    LET heard == played + i - 1 - FFTSize
        slot == output[c][i]
    IN IF heard >= 0
         THEN slot = [k \in 1 .. FFTSize \div stepSize |-> heard] \o <<scaled, heard>>
         ELSE \A k \in 1 .. Len(slot) : slot[k] = scaled \/ slot[k] < 0

(* A press is acted on in every channel or is still there to be read: no   *)
(* block too short for a frame disarms it, and no channel reads it before  *)
(* another.                                                                *)
TriggerReachesEveryChannel == piece = 0 /\ owed # {} => armed

(* And acts where the host timed it: on the first frame a piece begun at   *)
(* its sample or later gives, which ends within two hops of it, and, where *)
(* frames overlap, not before it.                                          *)
ActsWhereTimed ==
  piece = 0 /\ owed = {} =>
    \A c \in Channel : /\ answeredAt[c] <= pressedAt + 2 * (stepSize - 1)
                       /\ stepSize < FFTSize => pressedAt <= answeredAt[c]

(* A block is rendered to its end.                                         *)
EveryBlockEnds == frames > 0 ~> frames = 0
=============================================================================
