--------------------------- MODULE SpectralSetup ---------------------------
(***************************************************************************)
(* The spectral setup (FFT size, overlap, window): who may apply one, what *)
(* it resizes, and how the host comes to restart the plug-in for it        *)
(* (spectrumWorxCLAP.cpp, core/spectrumWorxCore.cpp,                       *)
(* le/spectrumworx/engine/processor.cpp, gui/editor/presetLoading.cpp).    *)
(*                                                                         *)
(* The three parameters are one setting, and a module is the setting its   *)
(* storage was sized for.  A running engine only notes a new setting; the  *)
(* restart that follows applies it, and in Ardour, which answers no        *)
(* request for one, the audio thread does after some parked blocks.        *)
(***************************************************************************)
EXTENDS Integers, Sequences

CONSTANTS Setting,          \* the settings a user may choose
          Default,          \* the one a fresh Program has
          unset,            \* Setup's before the engine was ever set up, 0
          MaxModules,       \* maxNumberOfModules (5)
          CommandCapacity,  \* capacity of toEngine (1024)
          BlocksToWait,     \* blocksBeforeGivingUpOnTheRestart (4)
          Hosts,            \* which of the hosts, "Ardour" and "other"
          MayFail           \* which activations may fail to allocate, "first", "later"

ASSUME SettingAssumption == Default \in Setting /\ unset \notin Setting
ASSUME BoundsAssumption ==
  /\ MaxModules \in Nat \ {0}
  /\ CommandCapacity \in Nat \ {0}
  /\ BlocksToWait \in Nat \ {0}
ASSUME HostsAssumption ==
  Hosts \subseteq {"Ardour", "other"} /\ MayFail \subseteq {"first", "later"}

VARIABLES
  host,              \* isArdour_
  mainSetting,       \* the parameter in programMain_
  engineSetting,     \* the parameter in program()
  setup,             \* what the engine is sized for, currentStorageFactors_
  modules,           \* the engine's chain, each module by what it is sized for
  toEngine,          \* the command ring
  pending,           \* spectralSetupPending_
  running,           \* engineRunning_
  restartRequested,  \* restartRequested_
  restartAsked,      \* the host was asked and has not restarted since
  blocks,            \* blocksAwaitingRestart_
  withoutARestart,   \* appliedWithoutARestart_
  latency,           \* latencyInSamples_, by the setting it follows from
  hostKnowsLatency,  \* hostKnowsLatency_
  hostLatency,       \* what the host last read
  built,             \* the modules the main thread has built and not published
  mainAt,            \* "idle", "slot", "chain", "ended", "asking"
  audio,             \* the thread in the engine: "idle", "drain", "parked", "events"
  entry,             \* what it entered through
  configured,        \* activate() has named the channels
  apart              \* the two parameters differ for a reason not followed here

spectralVars == <<mainSetting, engineSetting, setup, modules, pending>>
restartVars == <<restartRequested, restartAsked, blocks, withoutARestart>>
latencyVars == <<latency, hostKnowsLatency, hostLatency>>
threadVars == <<built, mainAt, audio, entry>>
vars == <<host, spectralVars, toEngine, running, restartVars, latencyVars,
          threadVars, configured, apart>>

Settings == Setting \cup {unset}
Chains == {c \in Seq(Settings) : Len(c) <= MaxModules}
Commands ==
  [kind : {"setting"}, setting : Setting]
    \cup [kind : {"slot"}, slot : 1 .. MaxModules, module : Settings]
    \cup [kind : {"chain"}, chain : Chains]
SetSetting(s) == [kind |-> "setting", setting |-> s]
SetSlot(k, m) == [kind |-> "slot", slot |-> k, module |-> m]
SwapChain(c) == [kind |-> "chain", chain |-> c]

Init ==
  /\ host \in Hosts
  /\ mainSetting = Default /\ engineSetting = Default
  /\ setup = unset /\ modules = <<>> /\ toEngine = <<>>
  /\ pending = FALSE /\ running = FALSE
  /\ restartRequested = FALSE /\ restartAsked = FALSE
  /\ blocks = 0 /\ withoutARestart = "Nothing"
  /\ latency = unset /\ hostKnowsLatency = FALSE /\ hostLatency = unset
  /\ built = <<>> /\ mainAt = "idle" /\ audio = "idle" /\ entry = "none"
  /\ configured = FALSE /\ apart = FALSE

SizedFor(chain, s) == [k \in DOMAIN chain |-> s]

\* updateEngineSetup(): the setup the parameters ask for and every module
\* resized for it, or the parameters put back.  The setup there already is,
\* and one that is not complete, leave the modules alone.
UpdateEngineSetup(wanted, ok) ==
  IF wanted \in {setup, unset} \/ ~configured
    THEN engineSetting' = wanted /\ UNCHANGED <<setup, modules>>
    ELSE IF ok THEN /\ setup' = wanted /\ engineSetting' = wanted
                    /\ modules' = SizedFor(modules, wanted)
               ELSE engineSetting' = setup /\ UNCHANGED <<setup, modules>>

\* An allocation may fail where this instance lets it.
MayEnd(ok) == ok \/ (IF setup = unset THEN "first" ELSE "later") \in MayFail

\* setGlobalParameter() and deferOrApplySpectralSetup(): noted while the
\* engine runs, applied at once while it does not.
SetGlobalParameter(s, ok) ==
  IF s = engineSetting THEN UNCHANGED <<engineSetting, setup, modules, pending>>
  ELSE IF running THEN engineSetting' = s /\ pending' = TRUE /\ UNCHANGED <<setup, modules>>
  ELSE UpdateEngineSetup(s, ok) /\ pending' = FALSE

\* installModuleInSlot(): nothing is resized on the way in.
InstallModule(k, m) ==
  modules' = IF k <= Len(modules) THEN [modules EXCEPT ![k] = m] ELSE Append(modules, m)

CarryOut(command, ok) ==
  \/ command.kind = "setting" /\ SetGlobalParameter(command.setting, ok)
  \/ /\ command.kind = "slot" /\ InstallModule(command.slot, command.module)
     /\ UNCHANGED <<engineSetting, setup, pending>>
  \/ /\ command.kind = "chain" /\ modules' = command.chain
     /\ UNCHANGED <<engineSetting, setup, pending>>

\* A command queued, or dropped by a full ring.
Full == Len(toEngine) = CommandCapacity
Push(command) == toEngine' = IF Full THEN toEngine ELSE Append(toEngine, command)

-----------------------------------------------------------------------------
(* The thread in the engine.                                               *)

EnterEngine(through) ==
  /\ audio = "idle"
  /\ IF through = "process" THEN running ELSE running \/ mainAt = "idle"
  /\ audio' = "drain" /\ entry' = through
  /\ UNCHANGED <<host, spectralVars, toEngine, running, restartVars, latencyVars,
                 built, mainAt, configured, apart>>

\* drainCommands(), one message.
DrainCommand(ok) ==
  /\ audio = "drain" /\ toEngine # <<>>
  /\ MayEnd(ok)
  /\ toEngine' = Tail(toEngine)
  /\ CarryOut(Head(toEngine), ok)
  /\ apart' = (\/ apart
               \/ /\ Head(toEngine).kind = "setting"
                  /\ engineSetting' # Head(toEngine).setting)
  /\ UNCHANGED <<host, mainSetting, running, restartVars, latencyVars, threadVars,
                 configured>>

\* Its end: one restart asked for, however many settings moved.
DrainCommandsDone ==
  /\ audio = "drain" /\ entry # "deactivate" /\ toEngine = <<>>
  /\ IF running /\ pending
       THEN /\ restartRequested' = TRUE
            /\ restartAsked' = (restartAsked \/ ~restartRequested)
       ELSE UNCHANGED <<restartRequested, restartAsked>>
  /\ audio' = IF entry = "process" THEN "parked" ELSE "events"
  /\ UNCHANGED <<host, spectralVars, toEngine, running, blocks, withoutARestart,
                 latencyVars, built, mainAt, entry, configured, apart>>

\* process() in Ardour: the transport is parked or it rolls.
WaitedLongEnough == blocks + 1 >= BlocksToWait
Fallback(rolling, ok) ==
  /\ audio = "parked"
  /\ audio' = "events"
  /\ IF host = "Ardour" /\ ~rolling /\ pending /\ restartRequested
       THEN IF WaitedLongEnough
              THEN /\ MayEnd(ok)
                   /\ UpdateEngineSetup(engineSetting, ok)
                   /\ pending' = FALSE
                   /\ blocks' = 0 /\ restartRequested' = FALSE
                   /\ withoutARestart' = IF engineSetting' = engineSetting
                                           THEN "Applied" ELSE "Failed"
              ELSE /\ blocks' = blocks + 1
                   /\ UNCHANGED <<engineSetting, setup, modules, pending,
                                  restartRequested, withoutARestart>>
       ELSE /\ blocks' = 0
            /\ UNCHANGED <<engineSetting, setup, modules, pending,
                           restartRequested, withoutARestart>>
  /\ UNCHANGED <<host, mainSetting, toEngine, running, restartAsked, latencyVars,
                 built, mainAt, entry, configured, apart>>

\* handleEvent() for one of the three: its echo is ParameterEcho's.
HostEvent(s, ok) ==
  /\ audio = "events" /\ s # engineSetting
  /\ MayEnd(ok)
  /\ SetGlobalParameter(s, ok)
  /\ apart' = TRUE
  /\ UNCHANGED <<host, mainSetting, toEngine, running, restartVars, latencyVars,
                 threadVars, configured>>

LeaveEngine ==
  /\ audio = "events"
  /\ audio' = "idle" /\ entry' = "none"
  /\ UNCHANGED <<host, spectralVars, toEngine, running, restartVars, latencyVars,
                 built, mainAt, configured, apart>>

-----------------------------------------------------------------------------
(* The main thread.                                                        *)

MainIdle == mainAt = "idle" /\ (running \/ audio = "idle")

\* editParameter(): queued whether the engine runs or not.
EditParameter(s) ==
  /\ MainIdle /\ s # mainSetting
  /\ mainSetting' = s
  /\ Push(SetSetting(s)) /\ apart' = (apart \/ Full)
  /\ UNCHANGED <<host, engineSetting, setup, modules, pending, running, restartVars,
                 latencyVars, threadVars, configured>>

\* createModuleForSlot(), for the setup the engine has now ...
BuildModule ==
  /\ MainIdle
  /\ built' = <<setup>> /\ mainAt' = "slot"
  /\ UNCHANGED <<host, spectralVars, toEngine, running, restartVars, latencyVars,
                 audio, entry, configured, apart>>

\* ... and publishSlot().
PublishSlot(k) ==
  /\ mainAt = "slot"
  /\ IF running
       THEN Push(SetSlot(k, built[1])) /\ UNCHANGED modules
       ELSE InstallModule(k, built[1]) /\ UNCHANGED toEngine
  /\ built' = <<>> /\ mainAt' = "idle"
  /\ UNCHANGED <<host, mainSetting, engineSetting, setup, pending, running,
                 restartVars, latencyVars, audio, entry, configured, apart>>

\* loadPreset(): the parameters, queued or direct, ...
LoadPreset(s, ok) ==
  /\ MainIdle
  /\ mainSetting' = s /\ mainAt' = "globals"
  /\ IF running
       THEN /\ Push(SetSetting(s)) /\ apart' = (apart \/ Full)
            /\ UNCHANGED <<engineSetting, setup, modules, pending>>
       ELSE /\ MayEnd(ok)
            /\ SetGlobalParameter(s, ok)
            /\ apart' = (apart \/ engineSetting' # s \/ toEngine # <<>>)
            /\ UNCHANGED toEngine
  /\ UNCHANGED <<host, running, restartVars, latencyVars, built, audio, entry, configured>>

\* ... the chain, every module sized for the engine's setup, ...
BuildChain(n) ==
  /\ mainAt = "globals"
  /\ built' = [k \in 1 .. n |-> setup] /\ mainAt' = "chain"
  /\ UNCHANGED <<host, spectralVars, toEngine, running, restartVars, latencyVars,
                 audio, entry, configured, apart>>

PublishChain ==
  /\ mainAt = "chain"
  /\ IF running
       THEN Push(SwapChain(built)) /\ UNCHANGED modules
       ELSE modules' = built /\ UNCHANGED toEngine
  /\ built' = <<>> /\ mainAt' = "ended"
  /\ UNCHANGED <<host, mainSetting, engineSetting, setup, pending, running,
                 restartVars, latencyVars, audio, entry, configured, apart>>

\* ... and presetChangeEnd(): the flag read, then exchanged.
PresetChangeEnd ==
  /\ mainAt = "ended"
  /\ mainAt' = IF pending THEN "asking" ELSE "idle"
  /\ UNCHANGED <<host, spectralVars, toEngine, running, restartVars, latencyVars,
                 built, audio, entry, configured, apart>>

AskForRestart ==
  /\ mainAt = "asking"
  /\ restartRequested' = TRUE
  /\ restartAsked' = (restartAsked \/ ~restartRequested)
  /\ mainAt' = "idle"
  /\ UNCHANGED <<host, spectralVars, toEngine, running, blocks, withoutARestart,
                 latencyVars, built, audio, entry, configured, apart>>

\* resyncSpectralParametersToEngine(): the main thread's copy brought back to
\* what the engine settled on.  Mutant: it is left.
NoResync == UNCHANGED mainSetting
ResyncSpectralParametersToEngine == mainSetting' = engineSetting'

\* The latency of the setup there is now, and the host told when it moved.
\* Mutant: the host is left to its first reading.
ReportLatencyQuietly(hostReads) ==
  /\ latency' = setup'
  /\ hostLatency' = IF hostReads THEN latency' ELSE hostLatency
ReportLatency(hostReads) ==
  /\ latency' = setup'
  /\ hostLatency' = IF latency' # latency \/ hostReads THEN latency' ELSE hostLatency

\* setSampleRate(): every module resized for the factors there are.  Mutant:
\* only for a rate that changed.
ResizedForRateIfChanged == modules
ResizedForRate == SizedFor(modules, setup)

\* deactivate(): the restart arrived.  Mutant: the request stands.
RestartArrivedUnnoticed == blocks' = 0 /\ restartAsked' = FALSE /\ UNCHANGED restartRequested
RestartArrived == blocks' = 0 /\ restartAsked' = FALSE /\ restartRequested' = FALSE

\* onMainThread(), the fallback's other half.
OnMainThread ==
  /\ MainIdle /\ withoutARestart # "Nothing"
  /\ withoutARestart' = "Nothing"
  /\ UNCHANGED <<host, engineSetting, setup, modules, pending, toEngine, running,
                 restartRequested, restartAsked, blocks, hostKnowsLatency,
                 threadVars, configured, apart>>
  /\ IF withoutARestart = "Failed" THEN ResyncSpectralParametersToEngine
                                   ELSE UNCHANGED mainSetting
  /\ ReportLatency(FALSE)

\* activate(): the sample rate, then initialise(), which applies what the
\* parameters ask for; a first latency is read by the host itself.
Activate(ok) ==
  /\ MainIdle /\ ~running
  /\ configured' = TRUE
  /\ MayEnd(ok)
  /\ IF engineSetting \in {setup, unset}
       THEN modules' = ResizedForRate /\ UNCHANGED <<engineSetting, setup>>
       ELSE IF ok THEN /\ setup' = engineSetting /\ UNCHANGED engineSetting
                       /\ modules' = SizedFor(modules, engineSetting)
                  ELSE /\ engineSetting' = setup /\ UNCHANGED setup
                       /\ modules' = ResizedForRate
  /\ running' = (engineSetting' = engineSetting)
  /\ hostKnowsLatency' = (hostKnowsLatency \/ running')
  /\ IF running' THEN ReportLatency(~hostKnowsLatency) /\ UNCHANGED mainSetting
                 ELSE ResyncSpectralParametersToEngine /\ UNCHANGED <<latency, hostLatency>>
  /\ apart' = (apart \/ (~running' /\ toEngine # <<>>))
  /\ UNCHANGED <<host, pending, toEngine, restartVars, threadVars>>

Deactivate ==
  /\ running /\ mainAt = "idle" /\ audio = "idle"
  /\ running' = FALSE
  /\ audio' = "drain" /\ entry' = "deactivate"
  /\ UNCHANGED <<host, spectralVars, toEngine, restartVars, latencyVars, built,
                 mainAt, configured, apart>>

\* The rest of deactivate(), its commands drained.
ApplyAndStop(ok) ==
  /\ audio = "drain" /\ entry = "deactivate" /\ toEngine = <<>>
  /\ MayEnd(ok)
  /\ RestartArrived
  /\ pending' = FALSE
  /\ IF pending THEN UpdateEngineSetup(engineSetting, ok)
                ELSE UNCHANGED <<engineSetting, setup, modules>>
  /\ IF engineSetting' # engineSetting THEN ResyncSpectralParametersToEngine
                                       ELSE UNCHANGED mainSetting
  /\ audio' = "idle" /\ entry' = "none"
  /\ UNCHANGED <<host, toEngine, running, withoutARestart, latencyVars, built,
                 mainAt, configured, apart>>

-----------------------------------------------------------------------------
AudioThread ==
  \/ \E through \in {"process", "flush"} : EnterEngine(through)
  \/ \E ok \in BOOLEAN : DrainCommand(ok)
  \/ DrainCommandsDone
  \/ \E rolling, ok \in BOOLEAN : Fallback(rolling, ok)
  \/ \E s \in Setting, ok \in BOOLEAN : HostEvent(s, ok)
  \/ LeaveEngine

Editor ==
  \/ \E s \in Setting : EditParameter(s)
  \/ BuildModule
  \/ \E s \in Setting, ok \in BOOLEAN : LoadPreset(s, ok)

MainThread ==
  \/ Editor
  \/ \E k \in 1 .. MaxModules : PublishSlot(k)
  \/ \E n \in 0 .. MaxModules : BuildChain(n)
  \/ PublishChain \/ PresetChangeEnd \/ AskForRestart \/ OnMainThread
  \/ \E ok \in BOOLEAN : Activate(ok) \/ ApplyAndStop(ok)
  \/ Deactivate

Next == AudioThread \/ MainThread
Spec == Init /\ [][Next]_vars

\* Blocks keep coming, a call that began ends, and a host that was asked to
\* restart the plug-in does.
Fairness ==
  /\ WF_vars(EnterEngine("process"))
  /\ WF_vars(\E ok \in BOOLEAN : DrainCommand(ok))
  /\ WF_vars(DrainCommandsDone)
  /\ WF_vars(\E rolling, ok \in BOOLEAN : Fallback(rolling, ok))
  /\ WF_vars(LeaveEngine)
  /\ WF_vars(\E k \in 1 .. MaxModules : PublishSlot(k))
  /\ WF_vars(\E n \in 0 .. MaxModules : BuildChain(n))
  /\ WF_vars(PublishChain \/ PresetChangeEnd \/ AskForRestart)
  /\ SF_vars(restartAsked /\ Deactivate)
  /\ WF_vars(\E ok \in BOOLEAN : ApplyAndStop(ok))
FairSpec == Spec /\ Fairness

-----------------------------------------------------------------------------
TypeOK ==
  /\ host \in Hosts
  /\ mainSetting \in Settings /\ engineSetting \in Settings /\ setup \in Settings
  /\ latency \in Settings /\ hostLatency \in Settings
  /\ modules \in Chains /\ built \in Chains
  /\ toEngine \in Seq(Commands) /\ Len(toEngine) <= CommandCapacity
  /\ blocks \in 0 .. BlocksToWait - 1
  /\ withoutARestart \in {"Nothing", "Applied", "Failed"}
  /\ pending \in BOOLEAN /\ running \in BOOLEAN /\ configured \in BOOLEAN
  /\ restartRequested \in BOOLEAN /\ restartAsked \in BOOLEAN
  /\ hostKnowsLatency \in BOOLEAN /\ apart \in BOOLEAN
  /\ mainAt \in {"idle", "slot", "globals", "chain", "ended", "asking"}
  /\ audio \in {"idle", "drain", "parked", "events"}
  /\ entry \in {"none", "process", "flush", "deactivate"}

(* publish.cpp: the engine's module is sized against the current spectral  *)
(* setup.  No block is rendered with a module sized for another one, which *)
(* it would overrun.                                                       *)
ModulesSized ==
  audio = "events" /\ entry = "process" => \A k \in DOMAIN modules : modules[k] = setup

(* Where the setup only moves with the plug-in stopped it always holds,    *)
(* for modules and chains built before a restart and installed after it.   *)
RendersSizedModules == host # "Ardour" => ModulesSized

(* The latency the host compensates for is the running engine's, through   *)
(* restarts, rollbacks and the setups applied without a restart, once the  *)
(* callback those ask for has run.                                         *)
HostLatencyRight == running /\ withoutARestart = "Nothing" => hostLatency = setup

(* With nothing under way the parameter shown and saved is the one the     *)
(* engine runs, after a setup it had to decline too.                       *)
SettingsAgree ==
  /\ host # "Ardour" /\ ~apart
  /\ toEngine = <<>> /\ ~pending /\ audio = "idle" /\ mainAt = "idle"
  => mainSetting = engineSetting /\ (running => engineSetting = setup)

(* A setting the running engine took is in force in the end: the restart   *)
(* it needs is asked for, and no earlier request stands in its way.        *)
PendingIsApplied ==
  host # "Ardour" => \/ []<><<Editor>>_vars
                     \/ pending ~> ~pending
=============================================================================
