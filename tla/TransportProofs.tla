-------------------------- MODULE TransportProofs ---------------------------
(***************************************************************************)
(* The way between the two threads.  ParameterEcho, for every set of       *)
(* parameters and values and every length of the rings: the two copies and *)
(* the repair of what was lost.  SpscQueue, for every capacity, every      *)
(* width of the counters and every set of messages: the ring invariant,    *)
(* the absence of a race on a slot, and the refinement of the bounded FIFO *)
(* that ParameterEcho's rings are.                                         *)
(***************************************************************************)
EXTENDS ParameterEcho, SpscQueue, SequenceTheorems, TLAPS

-----------------------------------------------------------------------------
(* LevelAfterDrain, of a ring and two values.                              *)

Level(ring, p, held, target) ==
  /\ (\A i \in 1 .. Len(ring) : ring[i].param # p) => held = target
  /\ \A i \in 1 .. Len(ring) :
       /\ ring[i].param = p
       /\ \A j \in 1 .. Len(ring) : ring[j].param = p => j <= i
       => ring[i].value = target

LEMMA LevelIs ==
  ASSUME NEW p
  PROVE  LevelAfterDrain(p) <=> Level(toUI, p, main[p], engine[p])
BY DEF LevelAfterDrain, EchoesOf, Level

(* An echo of p's own value levels p, whatever was in the ring.            *)
LEMMA LevelAppendOwn ==
  ASSUME NEW ring \in Seq(Echo), NEW p \in Param, NEW held, NEW target \in Value
  PROVE  Level(Append(ring, [param |-> p, value |-> target]), p, held, target)
<1> DEFINE e == [param |-> p, value |-> target]
           longer == Append(ring, e)
<1>1. e \in Echo /\ e.param = p /\ e.value = target
  BY DEF Echo
<1>2. Len(longer) = Len(ring) + 1 /\ longer[Len(ring) + 1] = e
  BY <1>1, AppendProperties
<1>3. Len(ring) \in Nat
  BY LenProperties
<1> HIDE DEF longer, e
<1> QED BY <1>1, <1>2, <1>3 DEF Level, longer, e

(* An echo of another parameter leaves p as level as it was.               *)
LEMMA LevelAppendOther ==
  ASSUME NEW ring \in Seq(Echo), NEW p, NEW e \in Echo, e.param # p,
         NEW held, NEW target, Level(ring, p, held, target)
  PROVE  Level(Append(ring, e), p, held, target)
<1> DEFINE longer == Append(ring, e)
<1>1. /\ Len(longer) = Len(ring) + 1 /\ longer[Len(ring) + 1] = e
      /\ \A i \in 1 .. Len(ring) : longer[i] = ring[i]
  BY AppendProperties
<1>2. Len(ring) \in Nat
  BY LenProperties
<1> HIDE DEF longer
<1>3. \A i \in 1 .. Len(longer) : longer[i].param = p =>
        i \in 1 .. Len(ring) /\ longer[i] = ring[i]
  BY <1>1, <1>2
<1>4. \A i \in 1 .. Len(ring) : i \in 1 .. Len(longer)
  BY <1>1, <1>2
<1> QED BY <1>1, <1>3, <1>4 DEF Level, longer

(* Taking the oldest echo and writing it leaves p as level as it was.      *)
LEMMA LevelTail ==
  ASSUME NEW ring \in Seq(Echo), ring # <<>>, NEW p, NEW held, NEW target,
         Level(ring, p, held, target)
  PROVE  Level(Tail(ring), p,
               IF Head(ring).param = p THEN Head(ring).value ELSE held, target)
<1> DEFINE rest == Tail(ring)
           left == IF Head(ring).param = p THEN Head(ring).value ELSE held
<1>1. /\ Len(ring) \in Nat /\ Len(ring) >= 1 /\ Len(rest) = Len(ring) - 1
      /\ Head(ring) = ring[1]
      /\ \A i \in 1 .. Len(rest) : rest[i] = ring[i + 1]
  BY HeadTailProperties, LenProperties, EmptySeq
<1> HIDE DEF rest
<1>2. \A i \in 2 .. Len(ring) : i - 1 \in 1 .. Len(rest) /\ ring[i] = rest[i - 1]
  BY <1>1
<1>3. ASSUME \A i \in 1 .. Len(rest) : rest[i].param # p
      PROVE  left = target
  <2>1. \A i \in 2 .. Len(ring) : ring[i].param # p
    BY <1>2, <1>3
  <2>2. CASE Head(ring).param = p
    <3>1. \A j \in 1 .. Len(ring) : ring[j].param = p => j <= 1
      BY <1>1, <2>1
    <3> QED BY <1>1, <2>2, <3>1 DEF Level
  <2>3. CASE Head(ring).param # p
    <3>1. \A i \in 1 .. Len(ring) : ring[i].param # p
      BY <1>1, <2>1, <2>3
    <3> QED BY <2>3, <3>1 DEF Level
  <2> QED BY <2>2, <2>3
<1>4. ASSUME NEW i \in 1 .. Len(rest), rest[i].param = p,
             \A j \in 1 .. Len(rest) : rest[j].param = p => j <= i
      PROVE  rest[i].value = target
  <2>1. i + 1 \in 1 .. Len(ring) /\ ring[i + 1] = rest[i]
    BY <1>1
  <2>2. \A j \in 1 .. Len(ring) : ring[j].param = p => j <= i + 1
    <3> SUFFICES ASSUME NEW j \in 1 .. Len(ring), ring[j].param = p
                 PROVE  j <= i + 1
      OBVIOUS
    <3>1. CASE j = 1
      BY <3>1, <1>1
    <3>2. CASE j \in 2 .. Len(ring)
      <4>1. rest[j - 1].param = p /\ j - 1 \in 1 .. Len(rest)
        BY <1>2, <3>2
      <4> QED BY <4>1, <1>4, <1>1
    <3> QED BY <3>1, <3>2, <1>1
  <2> QED BY <2>1, <2>2, <1>4 DEF Level
<1> QED BY <1>3, <1>4 DEF Level, rest

-----------------------------------------------------------------------------
(* The inductive invariant.                                                *)

(* Who may be where.                                                       *)
Threads ==
  /\ republishing => audio = "drain"
  /\ toEcho # {} => audio \in {"push", "lost", "ask"}
  /\ ~running /\ audio # "idle" => mainAt = "idle"
  /\ activating => ~running /\ mainAt \in {"drain", "lost?"}
  /\ mainAt = "request" => running

(* What a stopped engine leaves behind it.                                 *)
Stopped ==
  ~running =>
    /\ audio = "idle" /\ mainAt \in {"idle", "lost?"} => toUI = <<>>
    /\ audio = "idle" /\ mainAt = "idle" => ~echoesLost
    /\ audio # "drain" => ~RepublishQueued

(* An outstanding drain is a callback, or the one being answered, whose    *)
(* clear of the flag may still be on its way.                              *)
CallbackCovered ==
  /\ clearBuffered => StoreBuffer
  /\ pendingEchoDrain => callbackAsked \/ mainAt = "clear" \/ clearBuffered
  /\ EchoHasReader

LEMMA InitTypes == Init => TypeOK
<1> SUFFICES ASSUME Init PROVE TypeOK
  OBVIOUS
<1>1. main \in [Param -> Value] /\ engine \in [Param -> Value]
  BY ValueAssumption DEF Init
<1>2. /\ toEngine \in Seq(SetBaseParameter \cup {Republish})
      /\ toUI \in Seq(Echo) /\ Len(toUI) = 0 /\ Len(toEngine) = 0
  BY EmptySeq DEF Init
<1>3. Len(toEngine) <= CommandCapacity /\ Len(toUI) <= EchoCapacity
  BY <1>2, CommandCapacityAssumption, EchoCapacityAssumption
<1> QED BY <1>1, <1>2, <1>3 DEF Init, TypeOK

(* The elements of the two rings.                                          *)
LEMMA RingElements ==
  ASSUME TypeOK
  PROVE  /\ toUI # <<>> => /\ Head(toUI) \in Echo /\ Tail(toUI) \in Seq(Echo)
                          /\ Len(Tail(toUI)) = Len(toUI) - 1
                          /\ Head(toUI).param \in Param
                          /\ Head(toUI).value \in Value
         /\ toEngine # <<>> =>
              /\ Head(toEngine) \in SetBaseParameter \cup {Republish}
              /\ Tail(toEngine) \in Seq(SetBaseParameter \cup {Republish})
              /\ Len(Tail(toEngine)) = Len(toEngine) - 1
         /\ Len(toUI) \in Nat /\ Len(toEngine) \in Nat
<1>1. toUI # <<>> => Head(toUI) \in Echo /\ Tail(toUI) \in Seq(Echo)
                     /\ Len(Tail(toUI)) = Len(toUI) - 1
  BY HeadTailProperties DEF TypeOK
<1>2. \A e \in Echo : e.param \in Param /\ e.value \in Value
  BY DEF Echo
<1>3. toEngine # <<>> =>
        /\ Head(toEngine) \in SetBaseParameter \cup {Republish}
        /\ Tail(toEngine) \in Seq(SetBaseParameter \cup {Republish})
        /\ Len(Tail(toEngine)) = Len(toEngine) - 1
  BY HeadTailProperties DEF TypeOK
<1>4. Len(toUI) \in Nat /\ Len(toEngine) \in Nat
  BY LenProperties DEF TypeOK
<1> QED BY <1>1, <1>2, <1>3, <1>4

(* A command is an edit of one of the editor's parameters, or Republish.   *)
LEMMA CommandKinds ==
  /\ Republish.kind = "republish" /\ Republish \notin SetBaseParameter
  /\ \A c \in SetBaseParameter :
       c.kind = "set" /\ c.param \in EditorParams /\ c.value \in Value
  /\ \A p \in EditorParams, v \in Value :
       [kind |-> "set", param |-> p, value |-> v] \in SetBaseParameter
<1>1. Republish.kind = "republish"
  BY DEF Republish
<1>2. \A c \in SetBaseParameter :
        c.kind = "set" /\ c.param \in EditorParams /\ c.value \in Value
  BY DEF SetBaseParameter
<1>3. \A p \in EditorParams, v \in Value :
        [kind |-> "set", param |-> p, value |-> v] \in SetBaseParameter
  BY DEF SetBaseParameter
<1> QED BY <1>1, <1>2, <1>3

-----------------------------------------------------------------------------
(* Types.                                                                  *)

LEMMA NextTypes == TypeOK /\ [Next]_vars => TypeOK'
<1> SUFFICES ASSUME TypeOK, [Next]_vars PROVE TypeOK'
  OBVIOUS
<1> USE ParamAssumption DEF TypeOK
<1>1. CASE EnterEngine
  BY <1>1 DEF EnterEngine, mainVars
<1>2. CASE DrainCommand
  <2>1. toEngine' \in Seq(SetBaseParameter \cup {Republish})
        /\ Len(toEngine') <= CommandCapacity
    BY <1>2, RingElements, CommandCapacityAssumption DEF DrainCommand
  <2>2. engine' \in [Param -> Value] /\ republishing' \in BOOLEAN
    BY <1>2, RingElements, CommandKinds DEF DrainCommand
  <2> QED BY <1>2, <2>1, <2>2 DEF DrainCommand, mainVars
<1>3. CASE DrainCommandsDone
  BY <1>3 DEF DrainCommandsDone, mainVars
<1>4. ASSUME NEW p \in HostParams, NEW v \in Value, HostEvent(p, v) PROVE TypeOK'
  BY <1>4 DEF HostEvent, mainVars
<1>5. ASSUME NEW p \in Param, EchoPush(p) PROVE TypeOK'
  <2>1. [param |-> p, value |-> engine[p]] \in Echo
    BY DEF Echo
  <2>2. toUI' \in Seq(Echo) /\ Len(toUI') <= EchoCapacity
    <3> DEFINE longer == Append(toUI, [param |-> p, value |-> engine[p]])
    <3>1. toUI \in Seq(Echo) /\ Len(toUI) <= EchoCapacity /\ Len(toUI) \in Nat /\ EchoCapacity \in Nat
      BY RingElements, EchoCapacityAssumption
    <3>2. longer \in Seq(Echo) /\ Len(longer) = Len(toUI) + 1
      BY <2>1, <3>1, AppendProperties
    <3>3. toUI' = toUI \/ (Len(toUI) < EchoCapacity /\ toUI' = longer)
      BY <1>5 DEF EchoPush
    <3> HIDE DEF longer
    <3>4. CASE toUI' = toUI
      BY <3>1, <3>4
    <3>5. CASE Len(toUI) < EchoCapacity /\ toUI' = longer
      BY <3>1, <3>2, <3>5
    <3> QED BY <3>3, <3>4, <3>5
  <2> QED BY <1>5, <2>2 DEF EchoPush, mainVars
<1>6. CASE EchoLost
  BY <1>6 DEF EchoLost, mainVars
<1>7. CASE RequestEchoDrain
  BY <1>7 DEF RequestEchoDrain, mainVars
<1>8. CASE LeaveEngine
  BY <1>8 DEF LeaveEngine
<1>9. ASSUME NEW p \in EditorParams, NEW v \in Value, EditParameter(p, v) PROVE TypeOK'
  <2>1. toEngine' \in Seq(SetBaseParameter \cup {Republish})
        /\ Len(toEngine') <= CommandCapacity
    <3> DEFINE c == [kind |-> "set", param |-> p, value |-> v]
    <3>1. c \in SetBaseParameter
      BY CommandKinds
    <3>2. \/ toEngine' = Append(toEngine, c) /\ Len(toEngine) < CommandCapacity
          \/ toEngine' = toEngine
      BY <1>9 DEF EditParameter
    <3> HIDE DEF c
    <3>3. CASE toEngine' = Append(toEngine, c) /\ Len(toEngine) < CommandCapacity
      <4>1. toEngine' \in Seq(SetBaseParameter \cup {Republish})
            /\ Len(toEngine') = Len(toEngine) + 1
        BY <3>1, <3>3, AppendProperties
      <4> QED BY <3>3, <4>1, RingElements, CommandCapacityAssumption
    <3> QED BY <3>2, <3>3
  <2>2. main' \in [Param -> Value] /\ dropped' \subseteq EditorParams
    BY <1>9 DEF EditParameter
  <2> QED BY <1>9, <2>1, <2>2 DEF EditParameter, audioVars, mainVars
<1>10. CASE OnMainThread
  BY <1>10 DEF OnMainThread, audioVars
<1>11. CASE StateSave
  BY <1>11 DEF StateSave, audioVars
<1>12. CASE Activate
  BY <1>12 DEF Activate, audioVars
<1>13. CASE Deactivate
  BY <1>13 DEF Deactivate, mainVars
<1>14. CASE ClearPendingDrain
  BY <1>14 DEF ClearPendingDrain, audioVars
<1>15. CASE ClearBecomesVisible
  BY <1>15 DEF ClearBecomesVisible, audioVars
<1>16. CASE DrainEcho
  <2>1. toUI' \in Seq(Echo) /\ Len(toUI') <= EchoCapacity
    BY <1>16, RingElements, EchoCapacityAssumption DEF DrainEcho
  <2>2. main' \in [Param -> Value]
    BY <1>16, RingElements DEF DrainEcho
  <2> QED BY <1>16, <2>1, <2>2 DEF DrainEcho, audioVars, mainVars
<1>17. CASE DrainEchoesDone
  BY <1>17 DEF DrainEchoesDone, audioVars
<1>18. CASE NothingLost
  BY <1>18 DEF NothingLost, Return, audioVars
<1>19. CASE ResyncStopped
  BY <1>19 DEF ResyncStopped, Return, audioVars
<1>20. CASE TakeEchoesLost
  BY <1>20 DEF TakeEchoesLost, audioVars
<1>21. CASE RequestRepublish
  <2>1. toEngine' \in Seq(SetBaseParameter \cup {Republish})
        /\ Len(toEngine') <= CommandCapacity
    BY <1>21, AppendProperties, RingElements, CommandCapacityAssumption
    DEF RequestRepublish
  <2> QED BY <1>21, <2>1 DEF RequestRepublish, Return, audioVars
<1>22. CASE UNCHANGED vars
  BY <1>22 DEF vars, audioVars, mainVars
<1> QED
  BY <1>1, <1>2, <1>3, <1>4, <1>5, <1>6, <1>7, <1>8, <1>9, <1>10, <1>11, <1>12,
     <1>13, <1>14, <1>15, <1>16, <1>17, <1>18, <1>19, <1>20, <1>21, <1>22
  DEF Next, EngineStep, MainStep

(* ParameterEcho's variables keep their types.                             *)
THEOREM Typing == Spec => []TypeOK
<1>1. Init => TypeOK
  BY InitTypes
<1>2. TypeOK /\ [Next]_vars => TypeOK'
  BY NextTypes
<1> QED BY <1>1, <1>2, PTL DEF Spec

-----------------------------------------------------------------------------
(* Where the threads are, and what they leave.                             *)

(* Appending a command other than Republish queues no republish.           *)
LEMMA RepublishAppend ==
  ASSUME TypeOK, NEW c \in SetBaseParameter, toEngine' = Append(toEngine, c)
  PROVE  RepublishQueued' <=> RepublishQueued
<1>1. /\ Len(toEngine') = Len(toEngine) + 1 /\ toEngine'[Len(toEngine) + 1] = c
      /\ \A i \in 1 .. Len(toEngine) : toEngine'[i] = toEngine[i]
  BY AppendProperties DEF TypeOK
<1>2. Len(toEngine) \in Nat /\ c # Republish
  BY RingElements, CommandKinds
<1> QED BY <1>1, <1>2 DEF RepublishQueued

(* A republish in the ring is at its head or behind it.                    *)
LEMMA RepublishTail ==
  ASSUME TypeOK, toEngine # <<>>, toEngine' = Tail(toEngine)
  PROVE  RepublishQueued <=> Head(toEngine) = Republish \/ RepublishQueued'
<1>1. /\ Len(toEngine) \in Nat /\ Len(toEngine) >= 1
      /\ Len(toEngine') = Len(toEngine) - 1 /\ Head(toEngine) = toEngine[1]
      /\ \A i \in 1 .. Len(toEngine') : toEngine'[i] = toEngine[i + 1]
  BY HeadTailProperties, LenProperties, EmptySeq DEF TypeOK
<1>2. \A i \in 2 .. Len(toEngine) :
        i - 1 \in 1 .. Len(toEngine') /\ toEngine[i] = toEngine'[i - 1]
  BY <1>1
<1>3. ASSUME RepublishQueued, Head(toEngine) # Republish PROVE RepublishQueued'
  <2>1. PICK i \in 1 .. Len(toEngine) : toEngine[i] = Republish
    BY <1>3 DEF RepublishQueued
  <2>2. i \in 2 .. Len(toEngine)
    BY <1>1, <1>3, <2>1
  <2> QED BY <1>2, <2>1, <2>2 DEF RepublishQueued
<1>4. ASSUME RepublishQueued' PROVE RepublishQueued
  <2>1. PICK i \in 1 .. Len(toEngine') : toEngine'[i] = Republish
    BY <1>4 DEF RepublishQueued
  <2>2. i + 1 \in 1 .. Len(toEngine) /\ toEngine[i + 1] = Republish
    BY <1>1, <2>1
  <2> QED BY <2>2 DEF RepublishQueued
<1>5. ASSUME Head(toEngine) = Republish PROVE RepublishQueued
  <2>1. 1 \in 1 .. Len(toEngine) /\ toEngine[1] = Republish
    BY <1>1, <1>5
  <2> QED BY <2>1 DEF RepublishQueued
<1> QED BY <1>3, <1>4, <1>5

LEMMA RepublishAppended ==
  ASSUME TypeOK, toEngine' = Append(toEngine, Republish)
  PROVE  RepublishQueued'
<1>1. Len(toEngine') = Len(toEngine) + 1 /\ toEngine'[Len(toEngine) + 1] = Republish
  BY AppendProperties DEF TypeOK
<1> QED BY <1>1, RingElements DEF RepublishQueued

LEMMA NextThreads == TypeOK /\ Threads /\ Stopped /\ [Next]_vars => Threads' /\ Stopped'
<1> SUFFICES ASSUME TypeOK, Threads, Stopped, [Next]_vars PROVE Threads' /\ Stopped'
  OBVIOUS
<1> USE DEF Threads, Stopped, RepublishQueued
<1>1. CASE EnterEngine
  BY <1>1 DEF EnterEngine, mainVars
<1>2. CASE DrainCommand
  BY <1>2 DEF DrainCommand, mainVars
<1>3. CASE DrainCommandsDone
  BY <1>3, EmptySeq DEF DrainCommandsDone, mainVars
<1>4. ASSUME NEW p \in HostParams, NEW v \in Value, HostEvent(p, v)
      PROVE  Threads' /\ Stopped'
  BY <1>4 DEF HostEvent, mainVars
<1>5. ASSUME NEW p \in Param, EchoPush(p) PROVE Threads' /\ Stopped'
  BY <1>5 DEF EchoPush, mainVars
<1>6. CASE EchoLost
  BY <1>6 DEF EchoLost, mainVars
<1>7. CASE RequestEchoDrain
  BY <1>7 DEF RequestEchoDrain, mainVars
<1>8. CASE LeaveEngine
  BY <1>8 DEF LeaveEngine, TypeOK
<1>9. ASSUME NEW p \in EditorParams, NEW v \in Value, EditParameter(p, v)
      PROVE  Threads' /\ Stopped'
  <2>1. RepublishQueued' <=> RepublishQueued
    <3> DEFINE c == [kind |-> "set", param |-> p, value |-> v]
    <3>1. c \in SetBaseParameter
      BY CommandKinds
    <3>2. toEngine' = Append(toEngine, c) \/ toEngine' = toEngine
      BY <1>9 DEF EditParameter
    <3> HIDE DEF c
    <3>3. CASE toEngine' = Append(toEngine, c)
      BY <3>1, <3>3, RepublishAppend
    <3> QED BY <3>2, <3>3
  <2> HIDE DEF RepublishQueued
  <2> QED BY <1>9, <2>1 DEF EditParameter, audioVars, mainVars
<1>10. CASE OnMainThread
  BY <1>10 DEF OnMainThread, audioVars, MainFree
<1>11. CASE StateSave
  BY <1>11 DEF StateSave, audioVars, MainFree
<1>12. CASE Activate
  BY <1>12 DEF Activate, audioVars, MainFree
<1>13. CASE Deactivate
  BY <1>13 DEF Deactivate, mainVars, MainFree
<1>14. CASE ClearPendingDrain
  BY <1>14 DEF ClearPendingDrain, audioVars
<1>15. CASE ClearBecomesVisible
  BY <1>15 DEF ClearBecomesVisible, audioVars
<1>16. CASE DrainEcho
  BY <1>16 DEF DrainEcho, audioVars, mainVars
<1>17. CASE DrainEchoesDone
  BY <1>17 DEF DrainEchoesDone, audioVars
<1>18. CASE NothingLost
  BY <1>18 DEF NothingLost, Return, audioVars
<1>19. CASE ResyncStopped
  BY <1>19 DEF ResyncStopped, Return, audioVars
<1>20. CASE TakeEchoesLost
  BY <1>20 DEF TakeEchoesLost, audioVars
<1>21. CASE RequestRepublish
  BY <1>21 DEF RequestRepublish, Return, audioVars
<1>22. CASE UNCHANGED vars
  BY <1>22 DEF vars, audioVars, mainVars
<1> QED
  BY <1>1, <1>2, <1>3, <1>4, <1>5, <1>6, <1>7, <1>8, <1>9, <1>10, <1>11, <1>12,
     <1>13, <1>14, <1>15, <1>16, <1>17, <1>18, <1>19, <1>20, <1>21, <1>22
  DEF Next, EngineStep, MainStep

-----------------------------------------------------------------------------
(* What the host alone writes.                                             *)

(* A step that moves neither copy of p, nor the ring of echoes.            *)
LEMMA LevelUnchanged ==
  ASSUME NEW p, UNCHANGED <<toUI, engine[p], main[p]>>
  PROVE  LevelAfterDrain(p) <=> LevelAfterDrain(p)'
BY DEF LevelAfterDrain, EchoesOf

LEMMA NextAccounted ==
  TypeOK /\ Threads /\ Stopped /\ HostEditsAccountedFor /\ [Next]_vars
    => HostEditsAccountedFor'
<1> SUFFICES ASSUME TypeOK, Threads, Stopped, HostEditsAccountedFor, [Next]_vars,
                    NEW p \in HostParams \ EditorParams
             PROVE  LevelAfterDrain(p)' \/ Recovering(p)'
  BY DEF HostEditsAccountedFor
<1> DEFINE Goal == LevelAfterDrain(p)' \/ Recovering(p)'
<1>0. (LevelAfterDrain(p) \/ Recovering(p)) /\ p \in Param
  BY ParamAssumption DEF HostEditsAccountedFor
<1> USE <1>0 DEF Recovering
<1>1. CASE EnterEngine
  BY <1>1, LevelUnchanged DEF EnterEngine, mainVars, Threads, RepublishQueued
<1>2. CASE DrainCommand
  <2>1. toEngine # <<>> /\ toEngine' = Tail(toEngine)
    BY <1>2 DEF DrainCommand
  <2>2. RepublishQueued <=> Head(toEngine) = Republish \/ RepublishQueued'
    BY <2>1, RepublishTail
  <2>3. CASE Head(toEngine) = Republish
    BY <1>2, <2>3, CommandKinds DEF DrainCommand
  <2>4. CASE Head(toEngine) # Republish
    <3>1. Head(toEngine).kind = "set" /\ Head(toEngine).param # p
      BY <2>1, <2>4, RingElements, CommandKinds
    <3>2. engine'[p] = engine[p] /\ UNCHANGED <<toUI, main, republishing>>
      BY <1>2, <3>1 DEF DrainCommand, TypeOK
    <3> QED BY <1>2, <2>2, <2>4, <3>2, LevelUnchanged DEF DrainCommand, mainVars
  <2> QED BY <2>3, <2>4
<1>3. CASE DrainCommandsDone
  BY <1>3, LevelUnchanged DEF DrainCommandsDone, mainVars, RepublishQueued, Threads
<1>4. ASSUME NEW q \in HostParams, NEW v \in Value, HostEvent(q, v) PROVE Goal
  <2>1. CASE q = p
    BY <1>4, <2>1 DEF HostEvent
  <2>2. CASE q # p
    <3>1. engine'[p] = engine[p]
      BY <1>4, <2>2 DEF HostEvent, TypeOK
    <3> QED BY <1>4, <3>1, LevelUnchanged
            DEF HostEvent, mainVars, RepublishQueued, Threads
  <2> QED BY <2>1, <2>2
<1>5. ASSUME NEW q \in Param, EchoPush(q) PROVE Goal
  <2>1. CASE audio' = "lost"
    BY <2>1
  <2>2. CASE audio' # "lost"
    <3> DEFINE e == [param |-> q, value |-> engine[q]]
    <3>1. toUI' = Append(toUI, e) /\ e \in Echo
      BY <1>5, <2>2 DEF EchoPush, Echo, TypeOK
    <3>2. CASE q = p
      <4>1. Level(toUI', p, main[p], engine[p])
        BY <3>1, <3>2, LevelAppendOwn DEF TypeOK
      <4> QED BY <1>5, <4>1, LevelIs DEF EchoPush, LevelAfterDrain, EchoesOf, Level
    <3>3. CASE q # p
      <4>1. ASSUME LevelAfterDrain(p) PROVE LevelAfterDrain(p)'
        <5>1. Level(toUI, p, main[p], engine[p])
          BY <4>1, LevelIs
        <5>2. e.param # p
          BY <3>3
        <5> HIDE DEF e
        <5>3. Level(toUI', p, main[p], engine[p])
          BY <3>1, <5>1, <5>2, LevelAppendOther DEF TypeOK
        <5> QED BY <1>5, <5>3 DEF EchoPush, LevelAfterDrain, EchoesOf, Level
      <4> QED BY <1>5, <3>3, <4>1, <2>2
              DEF EchoPush, mainVars, RepublishQueued
    <3> QED BY <3>2, <3>3
  <2> QED BY <2>1, <2>2
<1>6. CASE EchoLost
  BY <1>6 DEF EchoLost
<1>7. CASE RequestEchoDrain
  BY <1>7, LevelUnchanged DEF RequestEchoDrain, mainVars, RepublishQueued
<1>8. CASE LeaveEngine
  BY <1>8, LevelUnchanged DEF LeaveEngine, RepublishQueued, Threads
<1>9. ASSUME NEW q \in EditorParams, NEW v \in Value, EditParameter(q, v) PROVE Goal
  <2>1. main'[p] = main[p]
    BY <1>9 DEF EditParameter, TypeOK
  <2>2. RepublishQueued' <=> RepublishQueued
    <3> DEFINE c == [kind |-> "set", param |-> q, value |-> v]
    <3>1. c \in SetBaseParameter
      BY CommandKinds
    <3>2. toEngine' = Append(toEngine, c) \/ toEngine' = toEngine
      BY <1>9 DEF EditParameter
    <3> HIDE DEF c
    <3>3. CASE toEngine' = Append(toEngine, c)
      BY <3>1, <3>3, RepublishAppend
    <3>4. CASE toEngine' = toEngine
      BY <3>4 DEF RepublishQueued
    <3> QED BY <3>2, <3>3, <3>4
  <2> QED BY <1>9, <2>1, <2>2, LevelUnchanged DEF EditParameter, audioVars, mainVars
<1>10. CASE OnMainThread
  BY <1>10, LevelUnchanged DEF OnMainThread, audioVars, RepublishQueued, MainFree
<1>11. CASE StateSave
  BY <1>11, LevelUnchanged DEF StateSave, audioVars, RepublishQueued, MainFree
<1>12. CASE Activate
  BY <1>12, LevelUnchanged DEF Activate, audioVars, RepublishQueued, MainFree
<1>13. CASE Deactivate
  BY <1>13, LevelUnchanged DEF Deactivate, mainVars, RepublishQueued, Threads
<1>14. CASE ClearPendingDrain
  BY <1>14, LevelUnchanged DEF ClearPendingDrain, audioVars, RepublishQueued
<1>15. CASE ClearBecomesVisible
  BY <1>15, LevelUnchanged DEF ClearBecomesVisible, audioVars, RepublishQueued
<1>16. CASE DrainEcho
  <2>1. toUI # <<>> /\ toUI' = Tail(toUI)
        /\ main' = [main EXCEPT ![Head(toUI).param] = Head(toUI).value]
    BY <1>16 DEF DrainEcho
  <2>2. main'[p] = IF Head(toUI).param = p THEN Head(toUI).value ELSE main[p]
    BY <2>1 DEF TypeOK
  <2>3. ASSUME LevelAfterDrain(p) PROVE LevelAfterDrain(p)'
    <3>1. Level(toUI, p, main[p], engine[p])
      BY <2>3, LevelIs
    <3>2. Level(toUI', p, main'[p], engine[p])
      BY <2>1, <2>2, <3>1, LevelTail DEF TypeOK
    <3> QED BY <1>16, <3>2 DEF DrainEcho, LevelAfterDrain, EchoesOf, Level
  <2> QED BY <1>16, <2>3 DEF DrainEcho, audioVars, mainVars, RepublishQueued
<1>17. CASE DrainEchoesDone
  BY <1>17, LevelUnchanged DEF DrainEchoesDone, audioVars, RepublishQueued
<1>18. CASE NothingLost
  BY <1>18, LevelUnchanged DEF NothingLost, Return, audioVars, RepublishQueued
<1>19. CASE ResyncStopped
  <2>1. toUI = <<>>
    BY <1>19 DEF ResyncStopped, Threads, Stopped
  <2>2. toUI' = <<>> /\ main' = engine /\ engine' = engine
    BY <1>19, <2>1 DEF ResyncStopped
  <2>3. LevelAfterDrain(p)'
    BY <2>2, EmptySeq DEF LevelAfterDrain, EchoesOf
  <2> QED BY <2>3
<1>20. CASE TakeEchoesLost
  BY <1>20 DEF TakeEchoesLost
<1>21. CASE RequestRepublish
  BY <1>21, RepublishAppended DEF RequestRepublish
<1>22. CASE UNCHANGED vars
  BY <1>22, LevelUnchanged DEF vars, audioVars, mainVars, RepublishQueued
<1> QED
  BY <1>1, <1>2, <1>3, <1>4, <1>5, <1>6, <1>7, <1>8, <1>9, <1>10, <1>11, <1>12,
     <1>13, <1>14, <1>15, <1>16, <1>17, <1>18, <1>19, <1>20, <1>21, <1>22
  DEF Next, EngineStep, MainStep

LEMMA InitSafety ==
  Init => Threads /\ Stopped /\ HostEditsAccountedFor /\ CallbackCovered
BY EmptySeq
DEF Init, Threads, Stopped, HostEditsAccountedFor, CallbackCovered, EchoHasReader,
    LevelAfterDrain, EchoesOf, RepublishQueued

-----------------------------------------------------------------------------
(* The coalesced callback.                                                 *)

LEMMA NextCovered ==
  TypeOK /\ Threads /\ CallbackCovered /\ [Next]_vars => CallbackCovered'
<1> SUFFICES ASSUME TypeOK, Threads, CallbackCovered, [Next]_vars
             PROVE  CallbackCovered'
  OBVIOUS
<1> USE DEF CallbackCovered, EchoHasReader, ReaderComing
<1>1. CASE EnterEngine
  BY <1>1 DEF EnterEngine, mainVars
<1>2. CASE DrainCommand
  BY <1>2 DEF DrainCommand, mainVars
<1>3. CASE DrainCommandsDone
  BY <1>3 DEF DrainCommandsDone, mainVars
<1>4. ASSUME NEW p \in HostParams, NEW v \in Value, HostEvent(p, v)
      PROVE  CallbackCovered'
  BY <1>4 DEF HostEvent, mainVars
<1>5. ASSUME NEW p \in Param, EchoPush(p)
      PROVE  CallbackCovered'
  BY <1>5 DEF EchoPush, mainVars
<1>6. CASE EchoLost
  BY <1>6 DEF EchoLost, mainVars
<1>7. CASE RequestEchoDrain
  BY <1>7 DEF RequestEchoDrain, mainVars
<1>8. CASE LeaveEngine
  BY <1>8 DEF LeaveEngine, Threads
<1>9. ASSUME NEW p \in EditorParams, NEW v \in Value, EditParameter(p, v)
      PROVE  CallbackCovered'
  BY <1>9 DEF EditParameter, audioVars, mainVars
<1>10. CASE OnMainThread
  BY <1>10 DEF OnMainThread, audioVars, MainFree
<1>11. CASE StateSave
  BY <1>11 DEF StateSave, audioVars, MainFree
<1>12. CASE Activate
  BY <1>12 DEF Activate, audioVars, MainFree
<1>13. CASE Deactivate
  BY <1>13 DEF Deactivate, MainFree, mainVars
<1>14. CASE ClearPendingDrain
  BY <1>14 DEF ClearPendingDrain, audioVars, mainVars
<1>15. CASE ClearBecomesVisible
  BY <1>15 DEF ClearBecomesVisible, audioVars, mainVars
<1>16. CASE DrainEcho
  BY <1>16 DEF DrainEcho, audioVars, mainVars
<1>17. CASE DrainEchoesDone
  BY <1>17 DEF DrainEchoesDone, audioVars, mainVars
<1>18. CASE NothingLost
  BY <1>18 DEF NothingLost, Return, audioVars, Threads
<1>19. CASE ResyncStopped
  BY <1>19 DEF ResyncStopped, Return, audioVars, Threads
<1>20. CASE TakeEchoesLost
  BY <1>20 DEF TakeEchoesLost, audioVars, mainVars
<1>21. CASE RequestRepublish
  BY <1>21 DEF RequestRepublish, Return, audioVars, Threads
<1>22. CASE UNCHANGED vars
  BY <1>22 DEF vars, audioVars, mainVars
<1> QED
  BY <1>1, <1>2, <1>3, <1>4, <1>5, <1>6, <1>7, <1>8, <1>9, <1>10, <1>11, <1>12,
     <1>13, <1>14, <1>15, <1>16, <1>17, <1>18, <1>19, <1>20, <1>21, <1>22
  DEF Next, EngineStep, MainStep

-----------------------------------------------------------------------------
(* The results.                                                            *)

IInv == TypeOK /\ Threads /\ Stopped /\ HostEditsAccountedFor /\ CallbackCovered

LEMMA Inductive == Spec => []IInv
<1>1. Init => IInv
  BY InitTypes, InitSafety DEF IInv
<1>2. IInv /\ [Next]_vars => IInv'
  BY NextTypes, NextThreads, NextAccounted, NextCovered DEF IInv
<1> QED BY <1>1, <1>2, PTL DEF Spec

(* Through refused echoes, refused requests, restarts and republishes, the *)
(* main thread's copy of what only the host writes is level with the       *)
(* engine's once the ring is read, or a resynchronisation is on its way.   *)
THEOREM HostEditsSurvive == Spec => []HostEditsAccountedFor
<1>1. IInv => HostEditsAccountedFor
  BY DEF IInv
<1> QED BY <1>1, Inductive, PTL

(* A session saved from a stopped plug-in holds the engine's own values.   *)
THEOREM StoppedAgreement == Spec => []StoppedCopiesAgree
<1>1. IInv => StoppedCopiesAgree
  <2> SUFFICES ASSUME IInv, ~running, audio = "idle", mainAt = "idle",
                      NEW p \in HostParams \ EditorParams
               PROVE  main[p] = engine[p]
    BY DEF StoppedCopiesAgree
  <2>1. toUI = <<>> /\ ~echoesLost /\ ~RepublishQueued /\ ~republishing /\ toEcho = {}
    BY DEF IInv, Threads, Stopped
  <2>2. LevelAfterDrain(p)
    BY <2>1 DEF IInv, HostEditsAccountedFor, Recovering
  <2> QED BY <2>1, <2>2, EmptySeq DEF LevelAfterDrain, EchoesOf
<1> QED BY <1>1, Inductive, PTL

(* No echo waits behind a raised flag with nobody coming for it, and where *)
(* the flag's clear is not overtaken none waits at all.                    *)
THEOREM EchoesHaveReaders ==
  Spec => []EchoHasReader /\ [](~StoreBuffer => NoEchoIsSwallowed)
<1>1. IInv => EchoHasReader /\ (~StoreBuffer => NoEchoIsSwallowed)
  BY DEF IInv, CallbackCovered, EchoHasReader, NoEchoIsSwallowed
<1> QED BY <1>1, Inductive, PTL

-----------------------------------------------------------------------------
(* The ring.                                                               *)

USE CapacityAssumption, LapsAssumption

-----------------------------------------------------------------------------
(* Arithmetic of the counters and of the slots they name.                  *)

(* The counters are wide enough to tell a full ring from an empty one.     *)
LEMMA ModulusWide == Modulus \in Nat /\ Modulus >= Capacity + Capacity
<1>1. Capacity * Laps >= Capacity * 2
  OBVIOUS
<1> QED BY <1>1 DEF Modulus

(* A distance between counters is a counter, zero only between equals.     *)
LEMMA MinusRange ==
  ASSUME NEW c \in Counter, NEW d \in Counter
  PROVE  Minus(c, d) \in Counter /\ (Minus(c, d) = 0 <=> c = d)
BY ModulusWide DEF Counter, Minus

LEMMA MinusNat == \A c, d \in Counter : Minus(c, d) \in Nat /\ Minus(c, d) < Modulus
BY MinusRange, ModulusWide DEF Counter

(* Moving the leading counter on by one lengthens the distance by one.     *)
LEMMA MinusSuccLeft ==
  ASSUME NEW c \in Counter, NEW d \in Counter, Minus(c, d) < Capacity
  PROVE  Succ(c) \in Counter /\ Minus(Succ(c), d) = Minus(c, d) + 1
BY ModulusWide DEF Counter, Minus, Succ

(* Moving the trailing counter on by one shortens it by one.               *)
LEMMA MinusSuccRight ==
  ASSUME NEW c \in Counter, NEW d \in Counter, c # d
  PROVE  Succ(d) \in Counter /\ Minus(c, Succ(d)) = Minus(c, d) - 1
BY ModulusWide DEF Counter, Minus, Succ

(* A counter inside the window from d to c splits the distance.            *)
LEMMA MinusSplit ==
  ASSUME NEW c \in Counter, NEW d \in Counter, NEW e \in Counter,
         Minus(e, d) <= Minus(c, d)
  PROVE  Minus(c, d) = Minus(e, d) + Minus(c, e)
BY ModulusWide DEF Counter, Minus

(* Distances add as long as they stay within the ring.                     *)
LEMMA PlusFacts ==
  ASSUME NEW c \in Counter, NEW n \in Nat, n < Modulus
  PROVE  /\ Plus(c, n) \in Counter
         /\ Minus(Plus(c, n), c) = n
         /\ n + 1 < Modulus => Plus(Succ(c), n) = Plus(c, n + 1)
         /\ Plus(c, 0) = c
BY ModulusWide DEF Counter, Minus, Plus, Succ

LEMMA PlusMinus ==
  ASSUME NEW c \in Counter, NEW d \in Counter
  PROVE  Plus(d, Minus(c, d)) = c
BY ModulusWide DEF Counter, Minus, Plus

(* Two different counters less than a ring apart name different slots: the *)
(* wrap of the counters is a whole number of laps of the ring.             *)
LEMMA SlotsDistinct ==
  ASSUME NEW c \in Counter, NEW d \in Counter, c # d, Minus(c, d) < Capacity
  PROVE  SlotOf(c) # SlotOf(d)
<1> DEFINE qc == c \div Capacity
           qd == d \div Capacity
<1>0. c \in Nat /\ d \in Nat
  BY ModulusWide DEF Counter
<1>1. c = Capacity * qc + SlotOf(c) /\ qc \in Nat /\ SlotOf(c) \in Nat
  BY <1>0 DEF SlotOf
<1>2. d = Capacity * qd + SlotOf(d) /\ qd \in Nat /\ SlotOf(d) \in Nat
  BY <1>0 DEF SlotOf
<1> SUFFICES ASSUME SlotOf(c) = SlotOf(d) PROVE FALSE
  OBVIOUS
<1> HIDE DEF qc, qd
<1>3. Minus(c, d) \in Nat /\ Minus(c, d) > 0
  BY MinusRange, ModulusWide DEF Counter
<1>4. CASE c >= d
  <2>1. c - d = Capacity * (qc - qd)
    BY <1>1, <1>2
  <2>2. 0 < Capacity * (qc - qd) /\ Capacity * (qc - qd) < Capacity
    BY <2>1, <1>3, <1>4 DEF Minus
  <2>3. qc - qd \in Int
    BY <1>1, <1>2
  <2>4. CASE qc - qd <= 0
    BY <2>2, <2>3, <2>4
  <2>5. CASE qc - qd >= 1
    BY <2>2, <2>3, <2>5
  <2> QED BY <2>3, <2>4, <2>5
<1>5. CASE c < d
  <2>1. (c - d) + Modulus = Capacity * ((qc - qd) + Laps)
    BY <1>1, <1>2 DEF Modulus
  <2> DEFINE k == (qc - qd) + Laps
  <2>2. 0 < Capacity * k /\ Capacity * k < Capacity
    BY <2>1, <1>0, <1>3, <1>5 DEF Minus
  <2>3. k \in Int
    BY <1>1, <1>2
  <2> HIDE DEF k
  <2>4. CASE k <= 0
    BY <2>2, <2>3, <2>4
  <2>5. CASE k >= 1
    BY <2>2, <2>3, <2>5
  <2> QED BY <2>3, <2>4, <2>5
<1> QED BY <1>0, <1>4, <1>5

LEMMA SlotInRange == \A c \in Counter : SlotOf(c) \in Slots
BY ModulusWide DEF Counter, Slots, SlotOf

-----------------------------------------------------------------------------
(* What the ring invariant says of the slots.                              *)

(* A slot that waits to be popped is not the slot the producer stores to.  *)
LEMMA WaitingSlotsKept ==
  ASSUME RingInv, producer = "store", NEW i \in Nat, i < Occupancy
  PROVE  SlotOf(Plus(read, i)) # SlotOf(written)
<1> USE DEF RingInv, RingTypes
<1>1. Occupancy \in Nat /\ Occupancy < Capacity /\ Occupancy = Minus(written, read)
  BY MinusRange, ModulusWide DEF Bounded, InOperation, Occupancy, Counter
<1>2. Plus(read, i) \in Counter /\ Minus(Plus(read, i), read) = i
  BY <1>1, PlusFacts, ModulusWide
<1>3. Minus(written, read) = i + Minus(written, Plus(read, i))
  BY <1>1, <1>2, MinusSplit
<1>4. Minus(written, Plus(read, i)) \in Nat
  BY <1>2, MinusNat
<1>5. Minus(written, Plus(read, i)) < Capacity /\ Minus(written, Plus(read, i)) # 0
  BY <1>1, <1>3, <1>4
<1>6. Plus(read, i) # written
  BY <1>2, <1>5, MinusRange
<1> QED BY <1>2, <1>5, <1>6, SlotsDistinct

(* A pop under way has something to take: the slot at read_ waits.         *)
LEMMA PopHasMessage ==
  ASSUME RingInv, consumer # "idle"
  PROVE  Occupancy > 0 /\ Occupancy \in Nat /\ written # read
<1> USE DEF RingInv, RingTypes
<1>1. Minus(consumerWritten, read) > 0 /\ Minus(written, consumerWritten) >= 0
  BY MinusRange, ModulusWide DEF InOperation, Counter
<1>2. Occupancy \in Nat
  BY MinusRange, ModulusWide DEF Occupancy, Counter
<1>3. Minus(consumerWritten, read) \in Int /\ Minus(written, consumerWritten) \in Int
  BY MinusRange, ModulusWide DEF Counter
<1>4. Occupancy > 0
  BY <1>1, <1>2, <1>3 DEF Bounded
<1> QED BY <1>2, <1>4, MinusRange DEF Occupancy

(* No step of either thread touches the slot the other one is in.          *)
LEMMA RingInvExcludesRace == RingInv => NoSlotRace
<1> SUFFICES ASSUME RingInv, producer = "store", consumer = "copy"
             PROVE  SlotOf(written) # SlotOf(read)
  BY DEF NoSlotRace
<1>1. Occupancy > 0 /\ Occupancy \in Nat
  BY PopHasMessage
<1>2. SlotOf(Plus(read, 0)) # SlotOf(written)
  BY <1>1, WaitingSlotsKept
<1> QED BY <1>2, PlusFacts, ModulusWide DEF RingInv, RingTypes

-----------------------------------------------------------------------------
(* The invariant holds initially.                                          *)
LEMMA RingInvInit == RingInit => RingInv
<1> SUFFICES ASSUME RingInit PROVE RingInv
  OBVIOUS
<1>1. 0 \in Counter /\ Minus(0, 0) = 0
  BY ModulusWide DEF Counter, Minus
<1>2. RingTypes
  BY <1>1 DEF RingInit, RingTypes, Slots
<1>3. Bounded
  BY <1>1 DEF RingInit, Bounded, Occupancy
<1>4. InOperation
  BY DEF RingInit, InOperation
<1>5. PublishedSlotsFilled
  BY <1>1 DEF RingInit, PublishedSlotsFilled, Occupancy
<1> QED BY <1>2, <1>3, <1>4, <1>5 DEF RingInv

(* A load of the other side's counter leaves the views consistent.         *)
LEMMA ProducerLoad ==
  ASSUME RingInv, NEW seen \in ProducerMaySee
  PROVE  /\ Minus(written, seen) = Minus(read, seen) + Occupancy
         /\ Minus(written, seen) <= Capacity
<1> USE DEF RingInv, RingTypes, Bounded
<1>1. seen \in Counter /\ Minus(seen, producerRead) <= Minus(read, producerRead)
  BY DEF ProducerMaySee
<1>2. Minus(read, producerRead) = Minus(seen, producerRead) + Minus(read, seen)
  BY <1>1, MinusSplit
<1>3. Minus(seen, producerRead) <= Minus(written, producerRead)
  BY <1>1, MinusRange, ModulusWide DEF Occupancy, Counter
<1>4. Minus(written, producerRead) = Minus(seen, producerRead) + Minus(written, seen)
  BY <1>1, <1>3, MinusSplit
<1>5. /\ Minus(read, seen) \in Nat /\ Minus(written, seen) \in Nat
      /\ Minus(seen, producerRead) \in Nat /\ Minus(written, read) \in Nat
  BY <1>1, MinusRange, ModulusWide DEF Counter
<1> QED BY <1>2, <1>4, <1>5 DEF Occupancy

LEMMA ConsumerLoad ==
  ASSUME RingInv, NEW seen \in ConsumerMaySee
  PROVE  Occupancy = Minus(seen, read) + Minus(written, seen)
<1> USE DEF RingInv, RingTypes, Bounded
<1>1. seen \in Counter /\ Minus(seen, consumerWritten) <= Minus(written, consumerWritten)
  BY DEF ConsumerMaySee
<1>2. Minus(written, consumerWritten) = Minus(seen, consumerWritten) + Minus(written, seen)
  BY <1>1, MinusSplit
<1>3. Minus(consumerWritten, read) + Minus(seen, consumerWritten) < Modulus
  BY <1>1, <1>2, MinusRange, ModulusWide DEF Occupancy, Counter
<1>4. Minus(seen, read) = Minus(consumerWritten, read) + Minus(seen, consumerWritten)
  BY <1>1, <1>3, ModulusWide DEF Minus, Counter
<1> QED BY <1>1, <1>2, <1>4, MinusRange, ModulusWide DEF Occupancy, Counter

-----------------------------------------------------------------------------
(* Every step of either thread keeps the invariant.                        *)
LEMMA PushRefusedStep ==
  ASSUME RingInv, NEW seen \in Counter, PushRefused(seen)
  PROVE  RingInv'
<1> USE DEF PushRefused, consumerVars
<1>1. /\ Minus(written, seen) = Minus(read, seen) + Occupancy
      /\ Minus(written, seen) <= Capacity
  BY ProducerLoad
<1>2. RingTypes'
  BY DEF RingInv, RingTypes
<1>3. Bounded'
  BY <1>1 DEF RingInv, Bounded, Occupancy
<1>4. InOperation'
  BY DEF RingInv, InOperation
<1>5. PublishedSlotsFilled'
  BY DEF RingInv, PublishedSlotsFilled, Occupancy
<1> QED BY <1>2, <1>3, <1>4, <1>5 DEF RingInv

LEMMA PushBeginStep ==
  ASSUME RingInv, NEW m \in Message, NEW seen \in Counter, PushBegin(m, seen)
  PROVE  RingInv'
<1> USE DEF PushBegin, consumerVars
<1>1. /\ Minus(written, seen) = Minus(read, seen) + Occupancy
      /\ Minus(written, seen) <= Capacity
  BY ProducerLoad
<1>2. RingTypes'
  BY DEF RingInv, RingTypes
<1>3. Bounded'
  BY <1>1 DEF RingInv, Bounded, Occupancy
<1>4. Minus(written, seen) < Capacity
  BY <1>2, MinusNat DEF IsFull, RingInv, RingTypes
<1>5. InOperation'
  BY <1>4 DEF RingInv, InOperation
<1>6. PublishedSlotsFilled'
  BY DEF RingInv, PublishedSlotsFilled, Occupancy
<1> QED BY <1>2, <1>3, <1>5, <1>6 DEF RingInv

LEMMA PushStoreStep ==
  ASSUME RingInv, PushStore
  PROVE  RingInv'
<1> USE DEF PushStore, consumerVars
<1>1. RingTypes /\ SlotOf(written) \in Slots
  BY SlotInRange DEF RingInv, RingTypes
<1>2. RingTypes'
  BY <1>1 DEF RingInv, RingTypes, InOperation
<1>3. Bounded'
  BY DEF RingInv, Bounded, Occupancy
<1>4. consumer = "publish" => taken = messages'[SlotOf(read)]
  <2> SUFFICES ASSUME consumer = "publish"
               PROVE  taken = messages'[SlotOf(read)]
    OBVIOUS
  <2>1. SlotOf(Plus(read, 0)) # SlotOf(written)
    BY PopHasMessage, WaitingSlotsKept
  <2>2. Plus(read, 0) = read /\ SlotOf(read) \in Slots
    BY <1>1, PlusFacts, ModulusWide, SlotInRange DEF RingTypes
  <2> QED BY <1>1, <2>1, <2>2 DEF RingInv, InOperation, RingTypes
<1>5. InOperation'
  BY <1>1, <1>4 DEF RingInv, InOperation, RingTypes
<1>6. PublishedSlotsFilled'
  <2> SUFFICES ASSUME NEW i \in 0 .. Capacity - 1, i < Occupancy
               PROVE  messages'[SlotOf(Plus(read, i))] \in Message
    BY DEF PublishedSlotsFilled, Occupancy
  <2>1. SlotOf(Plus(read, i)) # SlotOf(written)
    BY WaitingSlotsKept
  <2>2. messages[SlotOf(Plus(read, i))] \in Message
    BY DEF RingInv, PublishedSlotsFilled
  <2>3. SlotOf(Plus(read, i)) \in Slots
    BY <1>1, PlusFacts, ModulusWide, SlotInRange DEF RingTypes
  <2> QED BY <1>1, <2>1, <2>2, <2>3 DEF RingTypes
<1> QED BY <1>2, <1>3, <1>5, <1>6 DEF RingInv

LEMMA PushPublishStep ==
  ASSUME RingInv, PushPublish
  PROVE  RingInv' /\ Occupancy' = Occupancy + 1
<1> USE DEF PushPublish, consumerVars
<1>0. RingTypes
  BY DEF RingInv
<1>1. Minus(written, producerRead) < Capacity /\ Occupancy < Capacity /\ Occupancy \in Nat
  <2>1. Minus(written, producerRead) < Capacity
    BY DEF RingInv, InOperation
  <2>2. Minus(read, producerRead) \in Nat /\ Occupancy \in Nat
    BY <1>0, MinusNat DEF RingTypes, Occupancy
  <2> QED BY <2>1, <2>2 DEF RingInv, Bounded
<1>2. /\ Succ(written) \in Counter
      /\ Minus(Succ(written), producerRead) = Minus(written, producerRead) + 1
      /\ Minus(Succ(written), read) = Minus(written, read) + 1
  BY <1>0, <1>1, MinusSuccLeft DEF RingTypes, Occupancy
<1>3. Occupancy' = Occupancy + 1
  BY <1>2 DEF Occupancy
<1>4. Minus(Succ(written), consumerWritten) = Minus(written, consumerWritten) + 1
  <2>1. Minus(consumerWritten, read) \in Nat /\ Minus(written, consumerWritten) \in Nat
    BY <1>0, MinusNat DEF RingTypes
  <2>2. Minus(written, consumerWritten) < Capacity
    BY <1>1, <2>1 DEF RingInv, Bounded
  <2> QED BY <1>0, <2>2, MinusSuccLeft DEF RingTypes
<1>5. RingTypes'
  BY <1>0, <1>2 DEF RingTypes
<1>6. Bounded'
  <2>1. /\ Minus(read, producerRead) \in Nat /\ Minus(written, producerRead) \in Nat
        /\ Minus(consumerWritten, read) \in Nat /\ Minus(written, consumerWritten) \in Nat
    BY <1>0, MinusNat DEF RingTypes
  <2>2. Bounded
    BY DEF RingInv
  <2> QED BY <1>1, <1>2, <1>3, <1>4, <2>1, <2>2 DEF Bounded
<1>7. InOperation'
  BY <1>0 DEF RingInv, InOperation, RingTypes
<1>8. PublishedSlotsFilled'
  <2> SUFFICES ASSUME NEW i \in 0 .. Capacity - 1, i < Occupancy + 1
               PROVE  messages[SlotOf(Plus(read, i))] \in Message
    BY <1>3 DEF PublishedSlotsFilled
  <2>1. CASE i < Occupancy
    BY <2>1 DEF RingInv, PublishedSlotsFilled
  <2>2. CASE i = Occupancy
    <3>1. Plus(read, i) = written
      BY <1>0, <2>2, PlusMinus DEF RingTypes, Occupancy
    <3> QED BY <3>1 DEF RingInv, InOperation
  <2> QED BY <1>1, <2>1, <2>2
<1> QED BY <1>3, <1>5, <1>6, <1>7, <1>8 DEF RingInv

LEMMA PopLoadStep ==
  ASSUME RingInv, NEW seen \in Counter, PopEmpty(seen) \/ PopBegin(seen)
  PROVE  RingInv'
<1> USE DEF PopEmpty, PopBegin, producerVars
<1>1. Occupancy = Minus(seen, read) + Minus(written, seen)
  BY ConsumerLoad
<1>2. RingTypes'
  BY DEF RingInv, RingTypes
<1>3. Bounded'
  BY <1>1 DEF RingInv, Bounded, Occupancy
<1>4. InOperation'
  BY DEF RingInv, InOperation
<1>5. PublishedSlotsFilled'
  BY DEF RingInv, PublishedSlotsFilled, Occupancy
<1> QED BY <1>2, <1>3, <1>4, <1>5 DEF RingInv

LEMMA PopCopyStep ==
  ASSUME RingInv, PopCopy
  PROVE  RingInv'
<1> USE DEF PopCopy, producerVars
<1>1. messages[SlotOf(read)] \in Message \cup {NoMessage}
  BY SlotInRange DEF RingInv, RingTypes
<1>2. RingTypes'
  BY <1>1 DEF RingInv, RingTypes
<1>3. Bounded'
  BY DEF RingInv, Bounded, Occupancy
<1>4. InOperation'
  BY DEF RingInv, InOperation
<1>5. PublishedSlotsFilled'
  BY DEF RingInv, PublishedSlotsFilled, Occupancy
<1> QED BY <1>2, <1>3, <1>4, <1>5 DEF RingInv

LEMMA PopPublishStep ==
  ASSUME RingInv, PopPublish
  PROVE  RingInv' /\ Occupancy' = Occupancy - 1
<1> USE DEF PopPublish, producerVars
<1>0. RingTypes
  BY DEF RingInv
<1>1. Occupancy > 0 /\ Occupancy \in Nat /\ written # read /\ consumerWritten # read
  BY PopHasMessage DEF RingInv, InOperation
<1>2. /\ Succ(read) \in Counter
      /\ Minus(written, Succ(read)) = Minus(written, read) - 1
      /\ Minus(consumerWritten, Succ(read)) = Minus(consumerWritten, read) - 1
  BY <1>0, <1>1, MinusSuccRight DEF RingTypes
<1>3. Occupancy' = Occupancy - 1
  BY <1>2 DEF Occupancy
<1>n. /\ Minus(read, producerRead) \in Nat /\ Minus(written, producerRead) \in Nat
      /\ Minus(consumerWritten, read) \in Nat /\ Minus(written, consumerWritten) \in Nat
  BY <1>0, MinusNat DEF RingTypes
<1>4. Minus(Succ(read), producerRead) = Minus(read, producerRead) + 1
  <2>1. Minus(read, producerRead) < Capacity
    BY <1>1, <1>n DEF RingInv, Bounded
  <2> QED BY <1>0, <2>1, MinusSuccLeft DEF RingTypes
<1>5. RingTypes'
  BY <1>0, <1>2 DEF RingTypes
<1>6. Bounded'
  BY <1>1, <1>2, <1>3, <1>4, <1>n DEF RingInv, Bounded
<1>7. InOperation'
  BY DEF RingInv, InOperation
<1>8. PublishedSlotsFilled'
  <2> SUFFICES ASSUME NEW i \in 0 .. Capacity - 1, i < Occupancy - 1
               PROVE  messages[SlotOf(Plus(Succ(read), i))] \in Message
    BY <1>3 DEF PublishedSlotsFilled
  <2>1. Occupancy <= Capacity
    BY <1>1, <1>n DEF RingInv, Bounded
  <2>2. i + 1 \in 0 .. Capacity - 1 /\ i + 1 < Occupancy
    BY <1>1, <2>1
  <2>3. Plus(Succ(read), i) = Plus(read, i + 1)
    BY <1>0, <2>2, PlusFacts, ModulusWide DEF RingTypes
  <2> QED BY <2>2, <2>3 DEF RingInv, PublishedSlotsFilled
<1> QED BY <1>3, <1>5, <1>6, <1>7, <1>8 DEF RingInv

LEMMA RingInvStep == RingInv /\ [RingNext]_ringVars => RingInv'
<1> SUFFICES ASSUME RingInv, [RingNext]_ringVars PROVE RingInv'
  OBVIOUS
<1>1. CASE UNCHANGED ringVars
  BY <1>1 DEF ringVars, producerVars, consumerVars, RingInv, RingTypes, Bounded,
    InOperation, PublishedSlotsFilled, Occupancy
<1>2. CASE Producer
  BY <1>2, PushRefusedStep, PushBeginStep, PushStoreStep, PushPublishStep DEF Producer
<1>3. CASE Consumer
  BY <1>3, PopLoadStep, PopCopyStep, PopPublishStep DEF Consumer
<1> QED BY <1>1, <1>2, <1>3 DEF RingNext

(* The counters of the ring stay at most its capacity apart, a published   *)
(* slot holds its message until it is popped, and a stale view of the      *)
(* other thread's counter errs on the safe side (push and pop).            *)
THEOREM RingInvariant == RingSpec => []RingInv
<1> QED BY RingInvInit, RingInvStep, PTL DEF RingSpec

(* The plain array behind the ring is free of data races: no reachable     *)
(* state has the producer storing to the slot the consumer is copying.     *)
THEOREM RingRaceFree == RingSpec => []NoSlotRace
<1> QED BY RingInvariant, RingInvExcludesRace, PTL

-----------------------------------------------------------------------------
(* The refinement: publishing the counter is the push, releasing the slot  *)
(* is the pop, and every other step leaves the abstract queue alone.       *)
LEMMA WaitingIsSeq ==
  ASSUME RingInv
  PROVE  /\ Waiting \in Seq(Message) /\ Len(Waiting) = Occupancy
         /\ Occupancy \in Nat /\ Occupancy <= Capacity
<1>1. Occupancy \in Nat /\ Occupancy <= Capacity
  <2>1. /\ Minus(read, producerRead) \in Nat /\ Occupancy \in Nat
    BY MinusNat DEF RingInv, RingTypes, Occupancy
  <2> QED BY <2>1 DEF RingInv, Bounded
<1>2. \A i \in 1 .. Occupancy : messages[SlotOf(Plus(read, i - 1))] \in Message
  <2> TAKE i \in 1 .. Occupancy
  <2>1. i - 1 \in 0 .. Capacity - 1 /\ i - 1 < Occupancy
    BY <1>1
  <2> QED BY <2>1 DEF RingInv, PublishedSlotsFilled
<1> QED BY <1>1, <1>2 DEF Waiting

LEMMA WaitingIsSeqNext ==
  (RingInv => Waiting \in Seq(Message) /\ Len(Waiting) = Occupancy)'
<1>1. RingInv => Waiting \in Seq(Message) /\ Len(Waiting) = Occupancy
  BY WaitingIsSeq
<1> QED BY <1>1, PTL

LEMMA RefineInit == RingInit => Fifo!Init
<1> SUFFICES ASSUME RingInit PROVE Fifo!Init
  OBVIOUS
<1>1. Occupancy = 0
  BY DEF RingInit, Occupancy, Minus
<1>2. Waiting = <<>>
  BY <1>1 DEF Waiting
<1> QED BY <1>2 DEF RingInit, Fifo!Init

LEMMA RefinePushStore ==
  ASSUME RingInv, PushStore
  PROVE  Waiting' = Waiting
<1>1. Occupancy' = Occupancy
  BY DEF PushStore, consumerVars, Occupancy
<1>2. \A i \in 1 .. Occupancy :
        messages'[SlotOf(Plus(read, i - 1))] = messages[SlotOf(Plus(read, i - 1))]
  <2> TAKE i \in 1 .. Occupancy
  <2>1. Occupancy \in Nat
    BY WaitingIsSeq
  <2>2. SlotOf(Plus(read, i - 1)) # SlotOf(written)
    BY <2>1, WaitingSlotsKept DEF PushStore
  <2> QED BY <2>2 DEF PushStore, RingInv, RingTypes
<1> QED BY <1>1, <1>2 DEF Waiting, PushStore, consumerVars

LEMMA RefinePush ==
  ASSUME RingInv, PushPublish
  PROVE  Fifo!Push(pushing)
<1> USE DEF PushPublish, consumerVars
<1>1. Waiting \in Seq(Message) /\ Len(Waiting) = Occupancy /\ Occupancy \in Nat
  BY WaitingIsSeq
<1>2. Occupancy' = Occupancy + 1
  BY PushPublishStep
<1>3. Occupancy < Capacity
  <2>1. Minus(read, producerRead) \in Nat
    BY MinusNat DEF RingInv, RingTypes
  <2> QED BY <1>1, <2>1 DEF RingInv, Bounded, InOperation
<1>4. messages[SlotOf(Plus(read, Occupancy))] = pushing
  <2>1. Plus(read, Occupancy) = written
    BY PlusMinus DEF RingInv, RingTypes, Occupancy
  <2> QED BY <2>1 DEF RingInv, InOperation
<1>5. Waiting' = Append(Waiting, pushing)
  <2>1. /\ Append(Waiting, pushing) \in Seq(Message)
        /\ Len(Append(Waiting, pushing)) = Occupancy + 1
        /\ \A i \in 1 .. Occupancy : Append(Waiting, pushing)[i] = Waiting[i]
        /\ Append(Waiting, pushing)[Occupancy + 1] = pushing
    BY <1>1, AppendProperties DEF RingInv, InOperation
  <2>2. Waiting' \in Seq(Message) /\ Len(Waiting') = Occupancy + 1
    BY <1>2, PushPublishStep, WaitingIsSeqNext
  <2>3. \A i \in 1 .. Occupancy + 1 : Waiting'[i] = Append(Waiting, pushing)[i]
    <3> TAKE i \in 1 .. Occupancy + 1
    <3>1. Waiting'[i] = messages[SlotOf(Plus(read, i - 1))]
      BY <1>2 DEF Waiting
    <3>2. CASE i \in 1 .. Occupancy
      BY <2>1, <3>1, <3>2 DEF Waiting
    <3>3. CASE i = Occupancy + 1
      <4>1. i - 1 = Occupancy
        BY <1>1, <3>3
      <4> QED BY <1>4, <2>1, <3>1, <3>3, <4>1
    <3> QED BY <1>1, <3>2, <3>3
  <2> QED BY <2>1, <2>2, <2>3, SeqEqual
<1> QED BY <1>1, <1>3, <1>5 DEF Fifo!Push

LEMMA RefinePop ==
  ASSUME RingInv, PopPublish
  PROVE  Fifo!Pop
<1> USE DEF PopPublish, producerVars
<1>1. Waiting \in Seq(Message) /\ Len(Waiting) = Occupancy /\ Occupancy \in Nat
  BY WaitingIsSeq
<1>2. Occupancy > 0 /\ Occupancy' = Occupancy - 1 /\ Occupancy <= Capacity
  BY PopHasMessage, PopPublishStep, WaitingIsSeq
<1>3. Waiting # <<>> /\ Head(Waiting) = messages[SlotOf(read)]
  <2>1. Head(Waiting) = Waiting[1] /\ Waiting # <<>>
    BY <1>1, <1>2
  <2>2. Waiting[1] = messages[SlotOf(Plus(read, 0))]
    BY <1>1, <1>2 DEF Waiting
  <2> QED BY <2>1, <2>2, PlusFacts, ModulusWide DEF RingInv, RingTypes
<1>4. Waiting' = Tail(Waiting)
  <2>1. /\ Tail(Waiting) \in Seq(Message)
        /\ Len(Tail(Waiting)) = Occupancy - 1
        /\ \A i \in 1 .. Occupancy - 1 : Tail(Waiting)[i] = Waiting[i + 1]
    BY <1>1, <1>3, HeadTailProperties
  <2>2. Waiting' \in Seq(Message) /\ Len(Waiting') = Occupancy - 1
    BY <1>2, PopPublishStep, WaitingIsSeqNext
  <2>3. \A i \in 1 .. Occupancy - 1 : Waiting'[i] = Tail(Waiting)[i]
    <3> TAKE i \in 1 .. Occupancy - 1
    <3>1. Waiting[i + 1] = messages[SlotOf(Plus(read, (i + 1) - 1))]
      BY <1>1 DEF Waiting
    <3>2. i - 1 \in Nat /\ (i - 1) + 1 < Modulus /\ (i + 1) - 1 = (i - 1) + 1
      BY <1>1, <1>2, ModulusWide
    <3>3. Plus(Succ(read), i - 1) = Plus(read, (i - 1) + 1)
      BY <3>2, PlusFacts, ModulusWide DEF RingInv, RingTypes
    <3>4. Waiting'[i] = messages[SlotOf(Plus(Succ(read), i - 1))]
      BY <1>2 DEF Waiting
    <3> QED BY <2>1, <3>1, <3>2, <3>3, <3>4
  <2> QED BY <2>1, <2>2, <2>3, SeqEqual
<1> QED BY <1>3, <1>4 DEF Fifo!Pop, RingInv, InOperation

LEMMA RefineStep == RingInv /\ [RingNext]_ringVars => [Fifo!Next]_<<Waiting, popped>>
<1> SUFFICES ASSUME RingInv, [RingNext]_ringVars
             PROVE  [Fifo!Next]_<<Waiting, popped>>
  OBVIOUS
<1> USE DEF producerVars, consumerVars
<1>1. CASE UNCHANGED <<written, read, messages, popped>>
  BY <1>1 DEF Waiting, Occupancy
<1>2. CASE PushStore
  BY <1>2, RefinePushStore DEF PushStore
<1>3. CASE PushPublish
  <2>1. pushing \in Message
    BY <1>3 DEF PushPublish, RingInv, InOperation
  <2> QED BY <1>3, <2>1, RefinePush DEF Fifo!Next
<1>4. CASE PopPublish
  BY <1>4, RefinePop DEF Fifo!Next
<1>5. CASE \E seen \in Counter : PushRefused(seen)
  BY <1>1, <1>5 DEF PushRefused
<1>6. CASE \E m \in Message, seen \in Counter : PushBegin(m, seen)
  BY <1>1, <1>6 DEF PushBegin
<1>7. CASE \E seen \in Counter : PopEmpty(seen) \/ PopBegin(seen)
  BY <1>1, <1>7 DEF PopEmpty, PopBegin
<1>8. CASE PopCopy
  BY <1>1, <1>8 DEF PopCopy
<1>9. CASE UNCHANGED ringVars
  BY <1>1, <1>9 DEF ringVars
<1> QED BY <1>2, <1>3, <1>4, <1>5, <1>6, <1>7, <1>8, <1>9 DEF RingNext, Producer, Consumer

(* The ring implements a bounded FIFO queue: whatever the interleaving and *)
(* the staleness of the loads, messages leave in the order they were       *)
(* accepted, none twice, none lost, never more than its capacity waiting.  *)
THEOREM RingImplementsFifo == RingSpec => RefinesBoundedFifo
<1> QED BY RingInvariant, RefineInit, RefineStep, PTL
    DEF RingSpec, RefinesBoundedFifo, Fifo!Spec, Fifo!vars
=============================================================================
