----------------------------- MODULE ChainEdits -----------------------------
(***************************************************************************)
(* The two copies of the module chain, and the edits that reach one from   *)
(* the other (spectrumWorxCLAP.cpp, core/threading/publish.cpp,            *)
(* core/host_interop/host2PluginImpl.inl and programWrite.hpp).            *)
(*                                                                         *)
(* The editor edits main, then queues the edit for a running engine or     *)
(* applies it to a stopped one.  A host writes slot selectors to engine,   *)
(* and what the engine accepts is echoed and written to main.              *)
(***************************************************************************)
EXTENDS ModuleChain

CONSTANTS WriterSets,       \* which of "host" and "editor" may write, a set of choices
          CommandCapacity,  \* capacity of toEngine (1024)
          EchoCapacity      \* capacity of toUI (16384)

ASSUME WritersAssumption == WriterSets \subseteq SUBSET {"host", "editor"}
ASSUME CapacityAssumption == CommandCapacity \in Nat \ {0} /\ EchoCapacity \in Nat \ {0}

VARIABLES
  writers,          \* who writes in this behaviour
  main, engine,     \* programMain_'s chain and program()'s
  toEngine, toUI,   \* the rings
  echoesLost,       \* echoesLost_
  lossSeen,         \* an echo was refused at some time
  dropped,          \* a chain edit was refused at some time
  running,          \* engineRunning_
  audio,            \* where the thread that owns the engine is
  entry,            \* what it entered through
  republishing,     \* drainCommands(): a republish was asked for
  toEcho,           \* the echoes it has still to push
  asserted          \* moveModule() was given a slot with no module in it

vars == <<writers, main, engine, toEngine, toUI, echoesLost, lossSeen, dropped, running,
          audio, entry, republishing, toEcho, asserted>>

RepublishParameters == [kind |-> "republish"]

Init ==
  /\ writers \in WriterSets
  /\ main = <<>> /\ engine = <<>>
  /\ toEngine = <<>> /\ toUI = <<>>
  /\ echoesLost = FALSE /\ lossSeen = FALSE /\ dropped = FALSE
  /\ running = FALSE
  /\ audio = "idle" /\ entry = "none" /\ republishing = FALSE /\ toEcho = <<>>
  /\ asserted = FALSE

\* The same on the engine's, where a move must name two modules.
CarryOut(command) ==
  IF command.kind = "move" /\ ~MoveNamesModules(engine, command.from, command.to)
    THEN asserted' = TRUE /\ UNCHANGED engine
    ELSE engine' = Apply(engine, command) /\ UNCHANGED asserted

\* The echoes written to a chain: no gate here, the engine's has run.
ReadEchoes(chain, echoes) == Written(chain, echoes)

-----------------------------------------------------------------------------
(* drainEngineEvents(), on the main thread.                                *)

DrainEngineEvents ==
  LET drained == ReadEchoes(main, toUI)
      request == echoesLost /\ running
      taken == Len(toEngine) < CommandCapacity
  IN /\ toUI' = <<>>
     /\ main' = IF echoesLost /\ ~running THEN Republished(drained, engine) ELSE drained
     /\ toEngine' = IF request /\ taken THEN Append(toEngine, RepublishParameters)
                                        ELSE toEngine
     /\ echoesLost' = (request /\ ~taken)

-----------------------------------------------------------------------------
(* The thread that owns the engine.                                        *)

\* process() or paramsFlush().
EnterEngine ==
  /\ audio = "idle"
  /\ audio' = "drain" /\ entry' = "host" /\ republishing' = FALSE
  /\ UNCHANGED <<main, engine, toEngine, toUI, echoesLost, lossSeen, dropped,
                 running, toEcho, asserted>>

\* drainCommands(), one message.
DrainCommand ==
  /\ audio = "drain" /\ toEngine # <<>>
  /\ toEngine' = Tail(toEngine)
  /\ CarryOut(Head(toEngine))
  /\ republishing' = (republishing \/ Head(toEngine) = RepublishParameters)
  /\ UNCHANGED <<main, toUI, echoesLost, lossSeen, dropped, running, audio, entry, toEcho>>

DrainCommandsDone ==
  /\ audio = "drain" /\ toEngine = <<>>
  /\ audio' = "events" /\ republishing' = FALSE
  /\ toEcho' = IF republishing THEN Selectors(engine) ELSE <<>>
  /\ UNCHANGED <<main, engine, toEngine, toUI, echoesLost, lossSeen, dropped,
                 running, entry, asserted>>

\* Mutant: a selector the engine declined is echoed all the same.
HostSelectorUnchecked(slot, effect) ==
  /\ "host" \in writers
  /\ audio = "events" /\ entry = "host" /\ toEcho = <<>>
  /\ engine' = IF SelectorAllowed(engine, slot, effect)
                 THEN SetParameter(engine, slot, effect) ELSE engine
  /\ toEcho' = <<[slot |-> slot, effect |-> effect]>>
  /\ UNCHANGED <<main, toEngine, toUI, echoesLost, lossSeen, dropped, running,
                 audio, entry, republishing, asserted>>

\* handleEvent() for a slot selector: an echo only when the engine took it,
\* which it does not when it declines or the module cannot be built.
HostSelector(slot, effect) ==
  /\ "host" \in writers
  /\ audio = "events" /\ entry = "host" /\ toEcho = <<>>
  /\ SelectorAllowed(engine, slot, effect)
  /\ engine' = SetParameter(engine, slot, effect)
  /\ toEcho' = <<[slot |-> slot, effect |-> effect]>>
  /\ UNCHANGED <<main, toEngine, toUI, echoesLost, lossSeen, dropped, running,
                 audio, entry, republishing, asserted>>

\* echo(), of a write or of a selector being republished.
EchoPush ==
  /\ audio = "events" /\ toEcho # <<>>
  /\ toEcho' = Tail(toEcho)
  /\ IF Len(toUI) < EchoCapacity
       THEN toUI' = Append(toUI, Head(toEcho)) /\ UNCHANGED <<echoesLost, lossSeen>>
       ELSE echoesLost' = TRUE /\ lossSeen' = TRUE /\ UNCHANGED toUI
  /\ UNCHANGED <<main, engine, toEngine, dropped, running, audio, entry,
                 republishing, asserted>>

\* Out again; a stopped plug-in's caller goes on to drainEngineEvents().
LeaveEngine ==
  /\ audio = "events" /\ toEcho = <<>>
  /\ audio' = "idle" /\ entry' = "none"
  /\ IF running THEN UNCHANGED <<main, toEngine, toUI, echoesLost>>
                ELSE DrainEngineEvents
  /\ UNCHANGED <<engine, lossSeen, dropped, running, republishing, toEcho, asserted>>

-----------------------------------------------------------------------------
(* The main thread.                                                        *)

MainFree == running \/ audio = "idle"

\* publishSlot(), publishModuleMove(), publishChain(): direct while stopped.
Publish(command) ==
  /\ IF running
       THEN /\ UNCHANGED <<engine, asserted>>
            /\ IF Len(toEngine) < CommandCapacity
                 THEN toEngine' = Append(toEngine, command) /\ UNCHANGED dropped
                 ELSE dropped' = TRUE /\ UNCHANGED toEngine
       ELSE /\ CarryOut(command)
            /\ UNCHANGED <<toEngine, dropped>>
  /\ UNCHANGED <<toUI, echoesLost, lossSeen, running, audio, entry, republishing, toEcho>>

\* editSlot(), for the slots the rack offers: the filled ones and the next.
EditSlot(slot, effect) ==
  /\ "editor" \in writers
  /\ MainFree /\ slot <= Len(main) /\ EffectAt(main, slot) # effect
  /\ main' = SetParameter(main, slot, effect)
  /\ Publish(SetSlot(slot, effect))

\* Mutant: a move's indices the wrong way round.
EditModuleMoveSwapped(from, to) ==
  /\ "editor" \in writers
  /\ MainFree /\ MoveNamesModules(main, from, to)
  /\ main' = MoveModule(main, from, to)
  /\ Publish(Move(to, from))

\* editModuleMove(), of two modules the rack shows.
EditModuleMove(from, to) ==
  /\ "editor" \in writers
  /\ MainFree /\ MoveNamesModules(main, from, to)
  /\ main' = MoveModule(main, from, to)
  /\ Publish(Move(from, to))

\* A preset or a session loaded: the main thread's chain and the engine's.
LoadPreset(chain) ==
  /\ "editor" \in writers
  /\ MainFree
  /\ main' = chain
  /\ Publish(SwapChain(chain))

\* onMainThread() or stateSave().
OnMainThread ==
  /\ MainFree
  /\ DrainEngineEvents
  /\ UNCHANGED <<engine, lossSeen, dropped, running, audio, entry, republishing,
                 toEcho, asserted>>

Activate ==
  /\ MainFree /\ ~running
  /\ DrainEngineEvents
  /\ running' = TRUE
  /\ UNCHANGED <<engine, lossSeen, dropped, audio, entry, republishing, toEcho, asserted>>

Deactivate ==
  /\ running /\ audio = "idle"
  /\ running' = FALSE
  /\ audio' = "drain" /\ entry' = "deactivate" /\ republishing' = FALSE
  /\ UNCHANGED <<main, engine, toEngine, toUI, echoesLost, lossSeen, dropped,
                 toEcho, asserted>>

-----------------------------------------------------------------------------
Next ==
  /\ UNCHANGED writers
  /\ \/ EnterEngine \/ DrainCommand \/ DrainCommandsDone \/ EchoPush \/ LeaveEngine
     \/ \E slot \in Slot, effect \in Effect \cup {noModule} :
          HostSelector(slot, effect) \/ EditSlot(slot, effect)
     \/ \E from, to \in Slot : EditModuleMove(from, to)
     \/ \E chain \in Chain : LoadPreset(chain)
     \/ OnMainThread \/ Activate \/ Deactivate

Spec == Init /\ [][Next]_vars

-----------------------------------------------------------------------------
TypeOK ==
  /\ main \in Chain /\ engine \in Chain
  /\ Len(toEngine) <= CommandCapacity /\ Len(toUI) <= EchoCapacity
  /\ Len(toEcho) <= MaxModules
  /\ \A i \in DOMAIN toUI : toUI[i] \in [slot : Slot, effect : Effect \cup {noModule}]
  /\ echoesLost \in BOOLEAN /\ lossSeen \in BOOLEAN /\ dropped \in BOOLEAN
  /\ running \in BOOLEAN /\ republishing \in BOOLEAN /\ asserted \in BOOLEAN
  /\ audio \in {"idle", "drain", "events"}
  /\ entry \in {"none", "host", "deactivate"}

(* What is queued, carried out on the engine's chain, gives the chain the  *)
(* main thread already shows and saves: adds, replacements, removals,      *)
(* moves and presets, queued while the engine runs and direct while it     *)
(* does not, reach it in the order they were made, and no move finds a     *)
(* slot empty that its sender saw filled (moduleChainImpl.cpp asserts it). *)
EditorChainsReachEngine ==
  writers = {"editor"} /\ ~dropped
    => ~asserted /\ AllApplied(engine, toEngine) = main

(* What the engine accepted of a host's selectors, written to the main     *)
(* thread's chain without the engine's gate, gives the engine's chain.     *)
HostChainsReachMain ==
  writers = {"host"} /\ ~lossSeen => ReadEchoes(main, toUI \o toEcho) = engine

(* A stopped plug-in's resynchronisation repairs a chain that missed any   *)
(* echoes, as long as it is at most one module longer than the engine's.   *)
ResyncRepairsChain ==
  [][ ~running /\ echoesLost /\ ~echoesLost' /\ audio' = "idle"
      /\ Len(ReadEchoes(main, toUI)) <= Len(engine) + 1
        => main' = engine' ]_vars
=============================================================================
