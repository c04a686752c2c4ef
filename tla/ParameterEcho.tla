---------------------------- MODULE ParameterEcho ----------------------------
(***************************************************************************)
(* The two copies of every parameter and the two rings that keep them      *)
(* level (spectrumWorxCLAP.cpp, core/threading/messages.hpp).              *)
(*                                                                         *)
(* engine is program(), owned by whichever thread runs the engine; main is *)
(* programMain_, owned by the main thread.  A host event is applied to     *)
(* engine and echoed over toUI; an editor edit is applied to main and      *)
(* queued over toEngine.  A refused echo raises echoesLost, and the main   *)
(* thread answers that by asking the engine to republish everything.       *)
(*                                                                         *)
(* Steps of the two threads interleave one ring or flag access at a time.  *)
(* While the plug-in is deactivated, what the audio thread does otherwise  *)
(* runs on the main thread: MainFree keeps the two apart then.             *)
(***************************************************************************)
EXTENDS Naturals, Sequences, FiniteSets

CONSTANTS Param,            \* the parameters, all of them always published
          HostParams,       \* those the host writes events for
          EditorParams,     \* those the editor edits
          Value,            \* the values a parameter takes
          InitialValue,     \* what every parameter holds in a new instance
          CommandCapacity,  \* capacity of toEngine (1024)
          EchoCapacity,     \* capacity of toUI (16384)
          StoreBuffer       \* whether a load may overtake an earlier release
                            \*   store, as C++ allows and x86 does

ASSUME ParamAssumption ==
  /\ IsFiniteSet(Param) /\ HostParams \subseteq Param /\ EditorParams \subseteq Param
ASSUME ValueAssumption == InitialValue \in Value
ASSUME CommandCapacityAssumption == CommandCapacity \in Nat \ {0}
\* Republishing on the spot finds toUI empty and fits in it: 16384 slots
\* against the few thousand parameters of a full rack.
ASSUME EchoCapacityAssumption ==
  EchoCapacity \in Nat /\ EchoCapacity >= Cardinality(Param)

ASSUME StoreBufferAssumption == StoreBuffer \in BOOLEAN

VARIABLES
  main,              \* programMain_
  engine,            \* program()
  toEngine, toUI,    \* the rings
  echoesLost,        \* echoesLost_
  pendingEchoDrain,  \* pendingEchoDrain_
  callbackAsked,     \* request_callback was called and on_main_thread was not
  running,           \* engineRunning_
  dropped,           \* parameters an edit of which a full toEngine refused
  audio,             \* where the thread inside process(), flush() or
                     \*   deactivate()'s drain is
  entry,             \* which of those it is in
  republishing,      \* drainCommands(): a republish was asked for
  toEcho,            \* parameters it still has to echo
  mainAt,            \* where the main thread is in drainEngineEvents()
  activating,        \* that drain is the one activate() opens with
  clearBuffered      \* pendingEchoDrain_'s clear is stored and not yet visible

audioVars == <<audio, entry, republishing, toEcho>>
mainVars == <<mainAt, activating, clearBuffered>>
vars == <<main, engine, toEngine, toUI, echoesLost, pendingEchoDrain,
          callbackAsked, running, dropped, audioVars, mainVars>>

SetBaseParameter == [kind : {"set"}, param : EditorParams, value : Value]
Republish == [kind |-> "republish"]
Echo == [param : Param, value : Value]

Init ==
  /\ main = [p \in Param |-> InitialValue]
  /\ engine = [p \in Param |-> InitialValue]
  /\ toEngine = <<>> /\ toUI = <<>>
  /\ echoesLost = FALSE /\ pendingEchoDrain = FALSE /\ callbackAsked = FALSE
  /\ running = FALSE
  /\ dropped = {}
  /\ audio = "idle" /\ entry = "none" /\ republishing = FALSE /\ toEcho = {}
  /\ mainAt = "idle" /\ activating = FALSE /\ clearBuffered = FALSE

\* The main thread is at rest, and not itself inside an engine call.
MainFree == mainAt = "idle" /\ (running \/ audio = "idle")

-----------------------------------------------------------------------------
(* The thread that owns the engine.                                        *)

\* process(), or paramsFlush() on whichever thread owns the engine.
EnterEngine ==
  /\ audio = "idle"
  /\ running \/ mainAt = "idle"
  /\ audio' = "drain" /\ entry' = "host"
  /\ republishing' = FALSE
  /\ UNCHANGED <<main, engine, toEngine, toUI, echoesLost, pendingEchoDrain,
                 callbackAsked, running, dropped, toEcho, mainVars>>

\* drainCommands(), one message.
DrainCommand ==
  /\ audio = "drain" /\ toEngine # <<>>
  /\ toEngine' = Tail(toEngine)
  /\ LET command == Head(toEngine)
     IN IF command.kind = "set"
          THEN /\ engine' = [engine EXCEPT ![command.param] = command.value]
               /\ UNCHANGED republishing
          ELSE republishing' = TRUE /\ UNCHANGED engine
  /\ UNCHANGED <<main, toUI, echoesLost, pendingEchoDrain, callbackAsked,
                 running, dropped, audio, entry, toEcho, mainVars>>

\* The end of the drain: the republish comes after the loop.
DrainCommandsDone ==
  /\ audio = "drain" /\ toEngine = <<>>
  /\ IF republishing THEN audio' = "push" /\ toEcho' = Param
                     ELSE audio' = "events" /\ UNCHANGED toEcho
  /\ republishing' = FALSE
  /\ UNCHANGED <<main, engine, toEngine, toUI, echoesLost, pendingEchoDrain,
                 callbackAsked, running, dropped, entry, mainVars>>

\* handleEvent() for an event the engine takes.
HostEvent(p, v) ==
  /\ audio = "events" /\ entry = "host"
  /\ engine' = [engine EXCEPT ![p] = v]
  /\ toEcho' = {p} /\ audio' = "push"
  /\ UNCHANGED <<main, toEngine, toUI, echoesLost, pendingEchoDrain,
                 callbackAsked, running, dropped, entry, republishing, mainVars>>

\* echo(): the push, taken or refused.
EchoPush(p) ==
  /\ audio = "push" /\ p \in toEcho
  /\ toEcho' = toEcho \ {p}
  /\ IF Len(toUI) < EchoCapacity
       THEN /\ toUI' = Append(toUI, [param |-> p, value |-> engine[p]])
            /\ audio' = "ask"
       ELSE audio' = "lost" /\ UNCHANGED toUI
  /\ UNCHANGED <<main, engine, toEngine, echoesLost, pendingEchoDrain,
                 callbackAsked, running, dropped, entry, republishing, mainVars>>

\* Mutant: a refused echo is counted and not noted.
EchoLostUnnoted ==
  /\ audio = "lost"
  /\ audio' = "ask"
  /\ UNCHANGED <<main, engine, toEngine, toUI, echoesLost, pendingEchoDrain,
                 callbackAsked, running, dropped, entry, republishing, toEcho, mainVars>>

EchoLost ==
  /\ audio = "lost"
  /\ echoesLost' = TRUE /\ audio' = "ask"
  /\ UNCHANGED <<main, engine, toEngine, toUI, pendingEchoDrain, callbackAsked,
                 running, dropped, entry, republishing, toEcho, mainVars>>

\* requestEchoDrain(): one callback per outstanding drain.
RequestEchoDrain ==
  /\ audio = "ask"
  /\ pendingEchoDrain' = TRUE
  /\ callbackAsked' = (callbackAsked \/ ~pendingEchoDrain)
  /\ audio' = IF toEcho = {} THEN "events" ELSE "push"
  /\ UNCHANGED <<main, engine, toEngine, toUI, echoesLost, running, dropped,
                 entry, republishing, toEcho, mainVars>>

\* Mutant: a flush or a deactivate() that leaves the echoes to a callback.
LeaveEngineUndrained ==
  /\ audio = "events"
  /\ audio' = "idle" /\ entry' = "none"
  /\ UNCHANGED <<main, engine, toEngine, toUI, echoesLost, pendingEchoDrain,
                 callbackAsked, running, dropped, republishing, toEcho, mainVars>>

\* Out of process(), of an active flush, or of a flush or a deactivate() on the
\* main thread, both of which go on to drainEngineEvents().
LeaveEngine ==
  /\ audio = "events"
  /\ audio' = "idle" /\ entry' = "none"
  /\ mainAt' = IF running THEN mainAt ELSE "drain"
  /\ UNCHANGED <<main, engine, toEngine, toUI, echoesLost, pendingEchoDrain,
                 callbackAsked, running, dropped, republishing, toEcho, activating, clearBuffered>>

-----------------------------------------------------------------------------
(* The main thread.                                                        *)

\* editParameter(): applied here, then queued; a refusal is counted.
EditParameter(p, v) ==
  /\ MainFree
  /\ main' = [main EXCEPT ![p] = v]
  /\ IF Len(toEngine) < CommandCapacity
       THEN /\ toEngine' = Append(toEngine, [kind |-> "set", param |-> p, value |-> v])
            /\ dropped' = dropped \ {p}
       ELSE dropped' = dropped \cup {p} /\ UNCHANGED toEngine
  /\ UNCHANGED <<engine, toUI, echoesLost, pendingEchoDrain, callbackAsked,
                 running, audioVars, mainVars>>

\* Mutant: the coalescing flag is left up.
OnMainThreadFlagUp ==
  /\ MainFree /\ callbackAsked
  /\ callbackAsked' = FALSE
  /\ mainAt' = "drain"
  /\ UNCHANGED <<main, engine, toEngine, toUI, echoesLost, pendingEchoDrain,
                 running, dropped, audioVars, activating, clearBuffered>>

\* The host answers request_callback(): onMainThread() begins.
OnMainThread ==
  /\ MainFree /\ callbackAsked
  /\ callbackAsked' = FALSE
  /\ mainAt' = "clear"
  /\ UNCHANGED <<main, engine, toEngine, toUI, echoesLost, pendingEchoDrain,
                 running, dropped, audioVars, activating, clearBuffered>>

\* pendingEchoDrain_.store(false, release), ahead of the drain's loads in the
\* program and not necessarily in what the audio thread sees.
ClearPendingDrain ==
  /\ mainAt = "clear"
  /\ mainAt' = "drain"
  /\ \/ StoreBuffer /\ clearBuffered' = TRUE /\ UNCHANGED pendingEchoDrain
     \/ pendingEchoDrain' = FALSE /\ UNCHANGED clearBuffered
  /\ UNCHANGED <<main, engine, toEngine, toUI, echoesLost, callbackAsked,
                 running, dropped, audioVars, activating>>

ClearBecomesVisible ==
  /\ clearBuffered
  /\ clearBuffered' = FALSE /\ pendingEchoDrain' = FALSE
  /\ UNCHANGED <<main, engine, toEngine, toUI, echoesLost, callbackAsked,
                 running, dropped, audioVars, mainAt, activating>>

\* stateSave() drains before it reads programMain_.
StateSave ==
  /\ MainFree
  /\ mainAt' = "drain"
  /\ UNCHANGED <<main, engine, toEngine, toUI, echoesLost, pendingEchoDrain,
                 callbackAsked, running, dropped, audioVars, activating, clearBuffered>>

\* activate() drains the echoes, not the commands, before audio starts.
Activate ==
  /\ MainFree /\ ~running
  /\ mainAt' = "drain" /\ activating' = TRUE /\ UNCHANGED clearBuffered
  /\ UNCHANGED <<main, engine, toEngine, toUI, echoesLost, pendingEchoDrain,
                 callbackAsked, running, dropped, audioVars>>

\* deactivate(): suspend, then drain the commands here.
Deactivate ==
  /\ MainFree /\ running /\ audio = "idle"
  /\ running' = FALSE
  /\ audio' = "drain" /\ entry' = "deactivate" /\ republishing' = FALSE
  /\ UNCHANGED <<main, engine, toEngine, toUI, echoesLost, pendingEchoDrain,
                 callbackAsked, dropped, toEcho, mainVars>>

\* drainEchoes(), one message.
DrainEcho ==
  /\ mainAt = "drain" /\ toUI # <<>>
  /\ main' = [main EXCEPT ![Head(toUI).param] = Head(toUI).value]
  /\ toUI' = Tail(toUI)
  /\ UNCHANGED <<engine, toEngine, echoesLost, pendingEchoDrain, callbackAsked,
                 running, dropped, audioVars, mainVars>>

DrainEchoesDone ==
  /\ mainAt = "drain" /\ toUI = <<>>
  /\ mainAt' = "lost?"
  /\ UNCHANGED <<main, engine, toEngine, toUI, echoesLost, pendingEchoDrain,
                 callbackAsked, running, dropped, audioVars, activating, clearBuffered>>

\* The rest of drainEngineEvents() and of its caller, which activate() is.
Return ==
  /\ mainAt' = "idle" /\ activating' = FALSE /\ UNCHANGED clearBuffered
  /\ running' = (running \/ activating)

\* echoesLost_.exchange(false), a locked operation that no store outlives:
\* nothing was lost.
NothingLost ==
  /\ mainAt = "lost?" /\ ~clearBuffered /\ ~echoesLost
  /\ Return
  /\ UNCHANGED <<main, engine, toEngine, toUI, echoesLost, pendingEchoDrain,
                 callbackAsked, dropped, audioVars>>

\* A stopped engine is this thread's: republish and drain on the spot.
ResyncStopped ==
  /\ mainAt = "lost?" /\ ~clearBuffered /\ echoesLost /\ ~running
  /\ echoesLost' = FALSE
  /\ main' = engine
  /\ pendingEchoDrain' = TRUE
  /\ callbackAsked' = (callbackAsked \/ ~pendingEchoDrain)
  /\ Return
  /\ UNCHANGED <<engine, toEngine, toUI, dropped, audioVars>>

\* A running engine is asked: the flag is taken down, then the push is tried.
TakeEchoesLost ==
  /\ mainAt = "lost?" /\ ~clearBuffered /\ echoesLost /\ running
  /\ echoesLost' = FALSE
  /\ mainAt' = "request"
  /\ UNCHANGED <<main, engine, toEngine, toUI, pendingEchoDrain, callbackAsked,
                 running, dropped, audioVars, activating, clearBuffered>>

\* Mutant: a refused request is forgotten, as the echoes were.
RequestRepublishOnce ==
  /\ mainAt = "request"
  /\ toEngine' = IF Len(toEngine) < CommandCapacity
                    THEN Append(toEngine, Republish) ELSE toEngine
  /\ Return
  /\ UNCHANGED <<main, engine, toUI, echoesLost, pendingEchoDrain,
                 callbackAsked, dropped, audioVars>>

RequestRepublish ==
  /\ mainAt = "request"
  /\ IF Len(toEngine) < CommandCapacity
       THEN toEngine' = Append(toEngine, Republish) /\ UNCHANGED echoesLost
       ELSE echoesLost' = TRUE /\ UNCHANGED toEngine
  /\ Return
  /\ UNCHANGED <<main, engine, toUI, pendingEchoDrain, callbackAsked, dropped,
                 audioVars>>

-----------------------------------------------------------------------------
EngineStep ==
  \/ DrainCommand
  \/ DrainCommandsDone
  \/ \E p \in Param : EchoPush(p)
  \/ EchoLost
  \/ RequestEchoDrain
  \/ LeaveEngine

MainStep ==
  \/ ClearPendingDrain
  \/ ClearBecomesVisible
  \/ DrainEcho
  \/ DrainEchoesDone
  \/ NothingLost
  \/ ResyncStopped
  \/ TakeEchoesLost
  \/ RequestRepublish

Next ==
  \/ EnterEngine
  \/ EngineStep
  \/ \E p \in HostParams, v \in Value : HostEvent(p, v)
  \/ \E p \in EditorParams, v \in Value : EditParameter(p, v)
  \/ OnMainThread \/ StateSave \/ Activate \/ Deactivate
  \/ MainStep

\* A host that runs the engine keeps calling process(), answers a callback it
\* was asked for, and every call it makes returns.  It need not ever save,
\* deactivate, or send another event.
Fairness ==
  /\ WF_vars(EnterEngine) /\ WF_vars(EngineStep)
  /\ WF_vars(OnMainThread) /\ WF_vars(MainStep)

Spec == Init /\ [][Next]_vars
FairSpec == Spec /\ Fairness

-----------------------------------------------------------------------------
TypeOK ==
  /\ main \in [Param -> Value] /\ engine \in [Param -> Value]
  /\ toEngine \in Seq(SetBaseParameter \cup {Republish})
  /\ Len(toEngine) <= CommandCapacity
  /\ toUI \in Seq(Echo) /\ Len(toUI) <= EchoCapacity
  /\ echoesLost \in BOOLEAN /\ pendingEchoDrain \in BOOLEAN
  /\ callbackAsked \in BOOLEAN /\ running \in BOOLEAN
  /\ dropped \subseteq EditorParams
  /\ audio \in {"idle", "drain", "events", "push", "lost", "ask"}
  /\ entry \in {"none", "host", "deactivate"}
  /\ republishing \in BOOLEAN /\ toEcho \subseteq Param
  /\ mainAt \in {"idle", "clear", "drain", "lost?", "request"}
  /\ activating \in BOOLEAN /\ clearBuffered \in BOOLEAN

\* A resynchronisation is on its way to the main thread's copy.
RepublishQueued == \E i \in 1 .. Len(toEngine) : toEngine[i] = Republish
Recovering(p) ==
  \/ echoesLost \/ audio = "lost"
  \/ mainAt = "request" \/ RepublishQueued \/ republishing
  \/ p \in toEcho

\* What the main thread's copy of p will hold once it has read the ring.
EchoesOf(p) == {i \in 1 .. Len(toUI) : toUI[i].param = p}
LevelAfterDrain(p) ==
  /\ EchoesOf(p) = {} => main[p] = engine[p]
  /\ \A i \in EchoesOf(p) :
       (\A j \in EchoesOf(p) : j <= i) => toUI[i].value = engine[p]

(* The main thread's copy of what only the host writes never goes wrong    *)
(* for good: the echoes still in the ring end at the engine's value, or a  *)
(* resynchronisation that will repair it is under way -- through refused   *)
(* echoes, restarts and a republish that is itself refused.                *)
HostEditsAccountedFor ==
  \A p \in HostParams \ EditorParams : LevelAfterDrain(p) \/ Recovering(p)

\* Somebody who has yet to read the ring is on the way.
ReaderComing ==
  \/ callbackAsked
  \/ mainAt \in {"clear", "drain"}
  \/ audio \in {"lost", "ask"}
  \/ ~running /\ audio # "idle"

(* An echo never waits behind a raised flag with nobody coming for it: the *)
(* requests that pendingEchoDrain_ coalesces are coalesced with one that   *)
(* will be answered.  Where the drain's loads overtake the flag's clear,   *)
(* the echoes pushed meanwhile do wait, but with the flag down or on its   *)
(* way down, so that the next echo asks for the callback that reads them.  *)
EchoHasReader ==
  toUI # <<>> =>
    ReaderComing \/ (StoreBuffer /\ (clearBuffered \/ ~pendingEchoDrain))

(* What onMainThread() says of its order (spectrumWorxCLAP.cpp:1466): the  *)
(* flag is cleared before the drain, so that an echo pushed while it runs  *)
(* asks again rather than being swallowed.  Every echo has a reader on its *)
(* way.                                                                    *)
NoEchoIsSwallowed == toUI # <<>> => ReaderComing

(* With the engine stopped and no call under way, the copy a session is    *)
(* saved from is the engine's own: paramsFlush(), deactivate() and         *)
(* activate() drain what the last blocks left, lost echoes included.       *)
StoppedCopiesAgree ==
  ~running /\ audio = "idle" /\ mainAt = "idle" =>
    \A p \in HostParams \ EditorParams : main[p] = engine[p]

(* What the host alone writes reaches the copy the main thread saves and   *)
(* shows once the writing stops, whatever the rings refused: refused       *)
(* echoes are noticed, asked for, republished and read.  Where the drain's *)
(* loads overtook the flag's clear the last echoes may wait in the ring    *)
(* instead: they end at the engine's values, and with the flag down the    *)
(* next echo, activation or save reads them.                               *)
HostEditsReachMain ==
  \/ []<><<\E p \in HostParams, v \in Value : HostEvent(p, v)>>_vars
  \/ <>[](\A p \in HostParams \ EditorParams : main[p] = engine[p])
  \/ /\ StoreBuffer
     /\ <>[](/\ toUI # <<>> /\ ~pendingEchoDrain
             /\ \A p \in HostParams \ EditorParams : LevelAfterDrain(p))
=============================================================================
