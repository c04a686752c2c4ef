------------------------ MODULE SpectralSetupProofs ------------------------
(***************************************************************************)
(* Proofs about the spectral setup.  Where the host answers restarts, the  *)
(* setup only moves with the engine stopped; what the main thread builds   *)
(* or queues while it runs is sized for the one setup there is, and what a *)
(* stop leaves in the chain is resized on the way up again.  In any host   *)
(* the latency it holds is the running engine's, and the setting shown is  *)
(* the one the engine comes to.                                            *)
(***************************************************************************)
EXTENDS SpectralSetup, SequenceTheorems, TLAPS

\* Every module of a chain is sized for the engine's setup.
Sized(chain) == \A k \in 1 .. Len(chain) : chain[k] = setup
QueuedSized ==
  \A i \in 1 .. Len(toEngine) :
    /\ toEngine[i].kind = "slot" => toEngine[i].module = setup
    /\ toEngine[i].kind = "chain" => Sized(toEngine[i].chain)
OnlySettingsQueued == \A i \in 1 .. Len(toEngine) : toEngine[i].kind = "setting"

\* Where the two threads are while the engine is stopped or being stopped.
Threads ==
  /\ audio = "idle" <=> entry = "none"
  /\ audio \in {"parked", "events"} => entry \in {"process", "flush"}
  /\ entry = "process" => running
  /\ entry = "deactivate" => ~running /\ mainAt = "idle"
  /\ mainAt = "slot" => Len(built) = 1
  /\ mainAt \notin {"slot", "chain"} => built = <<>>

\* The inductive invariant: a stopped engine's ring holds settings alone, and
\* a running engine's chain, ring and the modules in hand are of one size.
StoppedRing == ~running /\ entry # "deactivate" => OnlySettingsQueued
RunningSized ==
  host # "Ardour" /\ running => Sized(modules) /\ QueuedSized /\ Sized(built)
IInv == TypeOK /\ Threads /\ StoppedRing /\ RunningSized

-----------------------------------------------------------------------------
(* Sequences.                                                              *)

(* A command put behind what the ring holds.                               *)
LEMMA PushType ==
  ASSUME TypeOK, NEW c \in Commands, Push(c)
  PROVE  /\ toEngine' \in Seq(Commands) /\ Len(toEngine') <= CommandCapacity
         /\ \A i \in 1 .. Len(toEngine') :
              toEngine'[i] = c \/ (i \in 1 .. Len(toEngine) /\ toEngine'[i] = toEngine[i])
<1>1. Len(toEngine) \in Nat
  BY LenProperties DEF TypeOK
<1>2. CASE Full
  BY <1>1, <1>2 DEF Push, TypeOK
<1>3. CASE ~Full
  <2>1. /\ toEngine' \in Seq(Commands)
        /\ Len(toEngine') = Len(toEngine) + 1
        /\ toEngine'[Len(toEngine) + 1] = c
        /\ \A i \in 1 .. Len(toEngine) : toEngine'[i] = toEngine[i]
    BY <1>3, AppendProperties DEF Push, TypeOK
  <2> QED BY <1>1, <1>3, <2>1, BoundsAssumption DEF Full, TypeOK
<1> QED BY <1>2, <1>3

(* The ring without its first command.                                     *)
LEMMA TailType ==
  ASSUME TypeOK, toEngine # <<>>, toEngine' = Tail(toEngine)
  PROVE  /\ toEngine' \in Seq(Commands) /\ Len(toEngine') <= CommandCapacity
         /\ Head(toEngine) \in Commands /\ Head(toEngine) = toEngine[1]
         /\ 1 \in 1 .. Len(toEngine)
         /\ \A i \in 1 .. Len(toEngine') :
              i + 1 \in 1 .. Len(toEngine) /\ toEngine'[i] = toEngine[i + 1]
<1>1. Len(toEngine) \in Nat /\ Len(toEngine) # 0
  BY LenProperties, EmptySeq DEF TypeOK
<1>2. /\ toEngine' \in Seq(Commands) /\ Len(toEngine') = Len(toEngine) - 1
      /\ Head(toEngine) \in Commands /\ Head(toEngine) = toEngine[1]
      /\ \A i \in 1 .. Len(toEngine') : toEngine'[i] = toEngine[i + 1]
  BY HeadTailProperties DEF TypeOK
<1> QED BY <1>1, <1>2, BoundsAssumption DEF TypeOK

(* A chain resized to one setting.                                         *)
LEMMA SizedForType ==
  ASSUME NEW c \in Chains, NEW s \in Settings
  PROVE  /\ SizedFor(c, s) \in Chains /\ Len(SizedFor(c, s)) = Len(c)
         /\ \A k \in 1 .. Len(c) : SizedFor(c, s)[k] = s
<1>1. Len(c) \in Nat /\ DOMAIN c = 1 .. Len(c) /\ Len(c) <= MaxModules
  BY LenProperties DEF Chains
<1>2. SizedFor(c, s) \in [1 .. Len(c) -> Settings]
  BY <1>1 DEF SizedFor
<1>3. SizedFor(c, s) \in Seq(Settings) /\ Len(SizedFor(c, s)) = Len(c)
  BY <1>1, <1>2, SeqDef
<1> QED BY <1>1, <1>2, <1>3 DEF Chains, SizedFor

(* A module installed: the chain grows by it, or it takes a place.         *)
LEMMA InstallType ==
  ASSUME TypeOK, NEW k \in 1 .. MaxModules, NEW m \in Settings, InstallModule(k, m)
  PROVE  /\ modules' \in Chains
         /\ \A j \in 1 .. Len(modules') :
              modules'[j] = m \/ (j \in 1 .. Len(modules) /\ modules'[j] = modules[j])
<1>1. modules \in Seq(Settings) /\ Len(modules) \in Nat /\ Len(modules) <= MaxModules
  BY LenProperties DEF TypeOK, Chains
<1>2. CASE k <= Len(modules)
  <2>1. modules' = [modules EXCEPT ![k] = m] /\ k \in 1 .. Len(modules)
    BY <1>1, <1>2 DEF InstallModule
  <2>2. modules' \in Seq(Settings) /\ Len(modules') = Len(modules)
    BY <1>1, <2>1, ExceptSeq
  <2> QED BY <1>1, <2>1, <2>2 DEF Chains
<1>3. CASE ~(k <= Len(modules))
  <2>1. modules' = Append(modules, m)
    BY <1>3 DEF InstallModule
  <2>2. /\ modules' \in Seq(Settings) /\ Len(modules') = Len(modules) + 1
        /\ modules'[Len(modules) + 1] = m
        /\ \A j \in 1 .. Len(modules) : modules'[j] = modules[j]
    BY <1>1, <2>1, AppendProperties
  <2> QED BY <1>1, <1>3, <2>2, BoundsAssumption DEF Chains
<1> QED BY <1>2, <1>3

-----------------------------------------------------------------------------
(* The engine's operations.                                                *)

(* What a command of each kind carries.                                    *)
LEMMA CommandParts ==
  ASSUME NEW c \in Commands
  PROVE  /\ c.kind \in {"setting", "slot", "chain"}
         /\ c.kind = "setting" => c.setting \in Setting
         /\ c.kind = "slot" => c.slot \in 1 .. MaxModules /\ c.module \in Settings
         /\ c.kind = "chain" => c.chain \in Chains
BY DEF Commands

(* The commands there are are in the ring's type.                          *)
LEMMA CommandTypes ==
  /\ \A s \in Setting : SetSetting(s) \in Commands
  /\ \A k \in 1 .. MaxModules, x \in Settings : SetSlot(k, x) \in Commands
  /\ \A c \in Chains : SwapChain(c) \in Commands
BY DEF Commands, SetSetting, SetSlot, SwapChain

(* A setup applied or declined leaves everything of its type.              *)
LEMMA UpdateType ==
  ASSUME TypeOK, NEW wanted \in Settings, NEW ok, UpdateEngineSetup(wanted, ok)
  PROVE  engineSetting' \in Settings /\ setup' \in Settings /\ modules' \in Chains
<1>1. SizedFor(modules, wanted) \in Chains
  BY SizedForType DEF TypeOK
<1> QED BY <1>1 DEF UpdateEngineSetup, TypeOK

(* A running engine's setup and modules are left alone by a new setting.   *)
LEMMA SetGlobalType ==
  ASSUME TypeOK, NEW s \in Setting, NEW ok, SetGlobalParameter(s, ok)
  PROVE  /\ engineSetting' \in Settings /\ setup' \in Settings /\ modules' \in Chains
         /\ pending' \in BOOLEAN
         /\ running => UNCHANGED <<setup, modules>>
<1>1. s \in Settings
  BY DEF Settings
<1>2. CASE s = engineSetting
  BY <1>1, <1>2 DEF SetGlobalParameter, TypeOK
<1>3. CASE s # engineSetting /\ running
  BY <1>1, <1>3 DEF SetGlobalParameter, TypeOK
<1>4. CASE s # engineSetting /\ ~running
  BY <1>1, <1>4, UpdateType DEF SetGlobalParameter
<1> QED BY <1>2, <1>3, <1>4

(* A command carried out by a running engine installs what it carries.     *)
LEMMA CarryOutType ==
  ASSUME TypeOK, NEW c \in Commands, NEW ok, CarryOut(c, ok)
  PROVE  /\ engineSetting' \in Settings /\ setup' \in Settings /\ modules' \in Chains
         /\ pending' \in BOOLEAN
         /\ running => UNCHANGED setup
         /\ running /\ c.kind = "setting" => UNCHANGED modules
         /\ c.kind = "slot" =>
              \A j \in 1 .. Len(modules') :
                modules'[j] = c.module \/ (j \in 1 .. Len(modules) /\ modules'[j] = modules[j])
         /\ c.kind = "chain" => modules' = c.chain
<1>1. CASE c.kind = "setting"
  BY <1>1, CommandParts, SetGlobalType DEF CarryOut
<1>2. CASE c.kind = "slot"
  BY <1>2, CommandParts, InstallType DEF CarryOut, TypeOK
<1>3. CASE c.kind = "chain"
  BY <1>3, CommandParts DEF CarryOut, TypeOK
<1> QED BY <1>1, <1>2, <1>3, CommandParts

-----------------------------------------------------------------------------
(* The invariant is inductive.                                             *)

(* What the chain, the ring and the hand hold is what they held.           *)
LEMMA Frame ==
  ASSUME IInv, UNCHANGED <<host, setup, modules, toEngine, running, built>>,
         entry = "deactivate" => entry' = "deactivate"
  PROVE  StoppedRing' /\ RunningSized'
BY DEF IInv, StoppedRing, RunningSized, OnlySettingsQueued, QueuedSized, Sized

(* The steps that move neither.                                            *)
LEMMA QuietSteps ==
  ASSUME IInv,
         \/ \E through \in {"process", "flush"} : EnterEngine(through)
         \/ DrainCommandsDone \/ LeaveEngine
         \/ PresetChangeEnd \/ AskForRestart \/ OnMainThread
         \/ UNCHANGED vars
  PROVE  IInv'
<1> USE DEF IInv, spectralVars, restartVars, latencyVars, threadVars
<1>1. CASE \E through \in {"process", "flush"} : EnterEngine(through)
  BY <1>1, Frame DEF EnterEngine, TypeOK, Threads
<1>2. CASE DrainCommandsDone
  <2>1. restartRequested' \in BOOLEAN /\ restartAsked' \in BOOLEAN
    BY <1>2, Zenon DEF DrainCommandsDone, TypeOK
  <2> QED BY <1>2, <2>1, Frame DEF DrainCommandsDone, TypeOK, Threads
<1>3. CASE LeaveEngine
  BY <1>3, Frame DEF LeaveEngine, TypeOK, Threads
<1>4. CASE PresetChangeEnd
  BY <1>4, Frame DEF PresetChangeEnd, TypeOK, Threads
<1>5. CASE AskForRestart
  <2>1. restartAsked' \in BOOLEAN
    BY <1>5, Zenon DEF AskForRestart, TypeOK
  <2> QED BY <1>5, <2>1, Frame DEF AskForRestart, TypeOK, Threads
<1>6. CASE OnMainThread
  BY <1>6, Frame DEF OnMainThread, MainIdle, ReportLatency,
                     ResyncSpectralParametersToEngine, TypeOK, Threads
<1>7. CASE UNCHANGED vars
  BY <1>7, Frame DEF vars, TypeOK, Threads
<1> QED BY <1>1, <1>2, <1>3, <1>4, <1>5, <1>6, <1>7

(* A command put in a running engine's ring.                               *)
LEMMA PushSized ==
  ASSUME IInv, NEW c \in Commands, running, Push(c), UNCHANGED setup,
         host # "Ardour" => \/ c.kind = "setting"
                            \/ c.kind = "slot" /\ c.module = setup
                            \/ c.kind = "chain" /\ Sized(c.chain)
  PROVE  host # "Ardour" => QueuedSized'
BY PushType DEF IInv, RunningSized, QueuedSized, Sized

(* A setting queued, whether the engine runs or not.                       *)
LEMMA PushSetting ==
  ASSUME IInv, NEW s \in Setting, Push(SetSetting(s)),
         UNCHANGED <<host, setup, modules, running, built, entry>>
  PROVE  StoppedRing' /\ RunningSized'
<1>1. SetSetting(s) \in Commands /\ SetSetting(s).kind = "setting"
  BY CommandTypes DEF SetSetting
<1>2. StoppedRing'
  BY <1>1, PushType DEF IInv, StoppedRing, OnlySettingsQueued
<1>3. RunningSized'
  BY <1>1, PushSized DEF IInv, RunningSized, Sized
<1> QED BY <1>2, <1>3

(* drainCommands() takes one message.                                      *)
LEMMA DrainStep ==
  ASSUME IInv, NEW ok \in BOOLEAN, DrainCommand(ok)
  PROVE  IInv'
<1> DEFINE c == Head(toEngine)
<1>1. /\ c \in Commands /\ CarryOut(c, ok)
      /\ toEngine' \in Seq(Commands) /\ Len(toEngine') <= CommandCapacity
      /\ c = toEngine[1] /\ 1 \in 1 .. Len(toEngine)
      /\ \A i \in 1 .. Len(toEngine') :
           i + 1 \in 1 .. Len(toEngine) /\ toEngine'[i] = toEngine[i + 1]
  BY TailType DEF IInv, DrainCommand
<1>2. /\ engineSetting' \in Settings /\ setup' \in Settings /\ modules' \in Chains
      /\ pending' \in BOOLEAN
  BY <1>1, CarryOutType DEF IInv
<1>3. TypeOK'
  <2> HIDE DEF c
  <2>1. apart' \in BOOLEAN
    BY Zenon DEF DrainCommand, IInv, TypeOK
  <2> QED BY <1>1, <1>2, <2>1 DEF DrainCommand, IInv, TypeOK, restartVars, latencyVars, threadVars
<1>4. Threads'
  BY DEF DrainCommand, IInv, Threads, threadVars
<1>5. StoppedRing'
  BY <1>1 DEF DrainCommand, IInv, StoppedRing, OnlySettingsQueued, threadVars
<1>6. ASSUME host # "Ardour", running PROVE Sized(modules)' /\ QueuedSized' /\ Sized(built)'
  <2>1. UNCHANGED <<setup, built>> /\ Sized(modules) /\ QueuedSized /\ Sized(built)
    BY <1>1, <1>6, CarryOutType DEF DrainCommand, IInv, RunningSized, threadVars
  <2>2. QueuedSized' /\ Sized(built)'
    BY <1>1, <2>1 DEF QueuedSized, Sized
  <2>3. /\ c.kind = "slot" => c.module = setup
        /\ c.kind = "chain" => Sized(c.chain)
    BY <1>1, <2>1 DEF QueuedSized
  <2>4. Sized(modules)'
    <3> HIDE DEF c
    <3>1. CASE c.kind = "setting"
      BY <1>1, <1>6, <2>1, <3>1, CarryOutType DEF IInv, Sized
    <3>2. CASE c.kind = "slot"
      BY <1>1, <2>1, <2>3, <3>2, CarryOutType DEF IInv, Sized
    <3>3. CASE c.kind = "chain"
      BY <1>1, <2>1, <2>3, <3>3, CarryOutType DEF IInv, Sized
    <3> QED BY <1>1, <3>1, <3>2, <3>3, CommandParts
  <2> QED BY <2>2, <2>4
<1>7. RunningSized'
  BY <1>6 DEF RunningSized, DrainCommand
<1> QED BY <1>3, <1>4, <1>5, <1>7 DEF IInv

(* The audio thread's own steps: the fallback is Ardour's alone, and a     *)
(* host's event only moves a stopped engine's setup.                       *)
LEMMA AudioSteps ==
  ASSUME IInv, NEW ok \in BOOLEAN,
         \/ \E rolling \in BOOLEAN : Fallback(rolling, ok)
         \/ \E s \in Setting : HostEvent(s, ok)
  PROVE  IInv'
<1>1. CASE \E rolling \in BOOLEAN : Fallback(rolling, ok)
  <2> PICK rolling \in BOOLEAN : Fallback(rolling, ok)
    BY <1>1
  <2>1. engineSetting' \in Settings /\ setup' \in Settings /\ modules' \in Chains
    BY UpdateType DEF Fallback, IInv, TypeOK
  <2>2. blocks' \in 0 .. BlocksToWait - 1
    BY BoundsAssumption DEF Fallback, WaitedLongEnough, IInv, TypeOK
  <2>3. /\ pending' \in BOOLEAN /\ restartRequested' \in BOOLEAN
        /\ withoutARestart' \in {"Nothing", "Applied", "Failed"}
    BY Zenon DEF Fallback, IInv, TypeOK
  <2>4. TypeOK'
    BY <2>1, <2>2, <2>3 DEF Fallback, IInv, TypeOK, Threads, latencyVars
  <2>5. Threads'
    BY DEF Fallback, IInv, Threads
  <2>6. StoppedRing'
    BY DEF Fallback, IInv, StoppedRing, OnlySettingsQueued
  <2>7. RunningSized'
    BY DEF Fallback, IInv, RunningSized, QueuedSized, Sized
  <2> QED BY <2>4, <2>5, <2>6, <2>7 DEF IInv
<1>2. CASE \E s \in Setting : HostEvent(s, ok)
  <2> PICK s \in Setting : HostEvent(s, ok)
    BY <1>2
  <2>1. /\ engineSetting' \in Settings /\ setup' \in Settings /\ modules' \in Chains
        /\ pending' \in BOOLEAN
        /\ running => UNCHANGED <<setup, modules>>
    BY SetGlobalType DEF HostEvent, IInv
  <2>2. TypeOK' /\ Threads'
    BY <2>1 DEF HostEvent, IInv, TypeOK, Threads, restartVars, latencyVars, threadVars
  <2>3. StoppedRing' /\ RunningSized'
    BY <2>1 DEF HostEvent, IInv, StoppedRing, OnlySettingsQueued, RunningSized,
                QueuedSized, Sized, threadVars
  <2> QED BY <2>2, <2>3 DEF IInv
<1> QED BY <1>1, <1>2

(* The main thread queues a setting.                                       *)
LEMMA EditParameterStep ==
  ASSUME IInv, NEW s \in Setting, EditParameter(s)
  PROVE  IInv'
<1>1. StoppedRing' /\ RunningSized'
  BY PushSetting DEF EditParameter, threadVars
<1>2. /\ toEngine' \in Seq(Commands) /\ Len(toEngine') <= CommandCapacity
  BY PushType, CommandTypes DEF EditParameter, IInv
<1>3. s \in Settings
  BY DEF Settings
<1>4. apart' \in BOOLEAN
  BY Zenon DEF EditParameter, IInv, TypeOK
<1>5. TypeOK' /\ Threads'
  BY <1>2, <1>3, <1>4 DEF EditParameter, IInv, TypeOK, Threads, restartVars, latencyVars, threadVars
<1> QED BY <1>1, <1>5 DEF IInv

(* A preset's parameters: queued by a running engine, else applied.        *)
LEMMA LoadPresetStep ==
  ASSUME IInv, NEW s \in Setting, NEW ok \in BOOLEAN, LoadPreset(s, ok)
  PROVE  IInv'
<1>1. s \in Settings
  BY DEF Settings
<1>2. apart' \in BOOLEAN
  BY Zenon DEF LoadPreset, IInv, TypeOK
<1>3. CASE running
  <2>1. Push(SetSetting(s)) /\ UNCHANGED <<engineSetting, setup, modules, pending>>
    BY <1>3 DEF LoadPreset
  <2>2. StoppedRing' /\ RunningSized'
    BY <2>1, PushSetting DEF LoadPreset
  <2>3. toEngine' \in Seq(Commands) /\ Len(toEngine') <= CommandCapacity
    BY <2>1, PushType, CommandTypes DEF IInv
  <2>4. TypeOK' /\ Threads'
    BY <1>1, <1>2, <1>3, <2>1, <2>3
      DEF LoadPreset, MainIdle, IInv, TypeOK, Threads, restartVars, latencyVars
  <2> QED BY <2>2, <2>4 DEF IInv
<1>4. CASE ~running
  <2>1. SetGlobalParameter(s, ok) /\ UNCHANGED toEngine
    BY <1>4 DEF LoadPreset
  <2>2. /\ engineSetting' \in Settings /\ setup' \in Settings /\ modules' \in Chains
        /\ pending' \in BOOLEAN
    BY <2>1, SetGlobalType DEF IInv
  <2>3. TypeOK' /\ Threads'
    BY <1>1, <1>2, <1>4, <2>1, <2>2
      DEF LoadPreset, MainIdle, IInv, TypeOK, Threads, restartVars, latencyVars
  <2>4. StoppedRing' /\ RunningSized'
    BY <1>4, <2>1 DEF LoadPreset, IInv, StoppedRing, OnlySettingsQueued, RunningSized
  <2> QED BY <2>3, <2>4 DEF IInv
<1> QED BY <1>3, <1>4

(* What the main thread builds is sized for the setup there is.            *)
LEMMA BuildSteps ==
  ASSUME IInv, BuildModule \/ \E n \in 0 .. MaxModules : BuildChain(n)
  PROVE  IInv'
<1>1. ASSUME NEW n \in 0 .. MaxModules
      PROVE  LET c == [k \in 1 .. n |-> setup]
             IN  c \in Chains /\ Len(c) = n /\ Sized(c)
  <2> DEFINE c == [k \in 1 .. n |-> setup]
  <2>1. n \in Nat /\ n <= MaxModules /\ setup \in Settings
    BY BoundsAssumption DEF IInv, TypeOK
  <2>2. c \in Seq(Settings) /\ Len(c) = n
    BY <2>1, SeqDef
  <2> QED BY <2>1, <2>2 DEF Chains, Sized
<1>2. <<setup>> \in Chains /\ Len(<<setup>>) = 1 /\ Sized(<<setup>>)
  <2>1. setup \in Settings
    BY DEF IInv, TypeOK
  <2> QED BY <2>1, BoundsAssumption DEF Chains, Sized
<1>3. CASE BuildModule
  <2>1. TypeOK' /\ Threads'
    BY <1>2, <1>3 DEF BuildModule, MainIdle, IInv, TypeOK, Threads, spectralVars, restartVars, latencyVars
  <2>2. Sized(built)'
    BY <1>2, <1>3 DEF BuildModule, Sized, spectralVars
  <2>3. StoppedRing' /\ RunningSized'
    BY <1>3, <2>2 DEF BuildModule, IInv, StoppedRing, OnlySettingsQueued, RunningSized,
                      QueuedSized, Sized, spectralVars
  <2> QED BY <2>1, <2>3 DEF IInv
<1>4. CASE \E n \in 0 .. MaxModules : BuildChain(n)
  <2> PICK n \in 0 .. MaxModules : BuildChain(n)
    BY <1>4
  <2>1. built' \in Chains /\ Sized(built)'
    BY <1>1 DEF BuildChain, Sized, spectralVars
  <2>2. TypeOK' /\ Threads'
    BY <2>1 DEF BuildChain, IInv, TypeOK, Threads, spectralVars, restartVars, latencyVars
  <2>3. StoppedRing' /\ RunningSized'
    BY <2>1 DEF BuildChain, IInv, StoppedRing, OnlySettingsQueued, RunningSized,
                QueuedSized, Sized, spectralVars
  <2> QED BY <2>2, <2>3 DEF IInv
<1> QED BY <1>3, <1>4

(* publishSlot() and publishChain(): into a running engine's ring, or into *)
(* a stopped engine's chain.                                               *)
LEMMA PublishSteps ==
  ASSUME IInv, PublishChain \/ \E k \in 1 .. MaxModules : PublishSlot(k)
  PROVE  IInv'
<1>1. <<>> \in Chains
  BY EmptySeq, BoundsAssumption DEF Chains
<1>2. CASE \E k \in 1 .. MaxModules : PublishSlot(k)
  <2> PICK k \in 1 .. MaxModules : PublishSlot(k)
    BY <1>2
  <2> DEFINE c == SetSlot(k, built[1])
  <2>1. /\ built[1] \in Settings /\ (host # "Ardour" /\ running => built[1] = setup)
    BY DEF PublishSlot, IInv, TypeOK, Threads, RunningSized, Sized, Chains
  <2>2. c \in Commands /\ c.kind = "slot" /\ c.module = built[1]
    BY <2>1, CommandTypes DEF SetSlot
  <2> HIDE DEF c
  <2>3. CASE running
    <3>1. Push(c) /\ UNCHANGED modules
      BY <2>3 DEF PublishSlot, c
    <3>2. toEngine' \in Seq(Commands) /\ Len(toEngine') <= CommandCapacity
      BY <2>2, <3>1, PushType DEF IInv
    <3>3. host # "Ardour" => QueuedSized'
      BY <2>1, <2>2, <2>3, <3>1, PushSized DEF PublishSlot
    <3>4. TypeOK' /\ Threads'
      BY <1>1, <2>3, <3>1, <3>2 DEF PublishSlot, IInv, TypeOK, Threads, restartVars, latencyVars
    <3>5. StoppedRing' /\ RunningSized'
      BY <2>3, <3>1, <3>3, EmptySeq DEF PublishSlot, IInv, StoppedRing, RunningSized, Sized
    <3> QED BY <3>4, <3>5 DEF IInv
  <2>4. CASE ~running
    <3>1. InstallModule(k, built[1]) /\ UNCHANGED toEngine
      BY <2>4 DEF PublishSlot
    <3>2. modules' \in Chains
      BY <2>1, <3>1, InstallType DEF IInv
    <3>3. TypeOK' /\ Threads'
      BY <1>1, <2>4, <3>1, <3>2 DEF PublishSlot, IInv, TypeOK, Threads, restartVars, latencyVars
    <3>4. StoppedRing' /\ RunningSized'
      BY <2>4, <3>1 DEF PublishSlot, IInv, StoppedRing, OnlySettingsQueued, RunningSized
    <3> QED BY <3>3, <3>4 DEF IInv
  <2> QED BY <2>3, <2>4
<1>3. CASE PublishChain
  <2> DEFINE c == SwapChain(built)
  <2>1. c \in Commands /\ c.kind = "chain" /\ c.chain = built
    BY CommandTypes DEF SwapChain, IInv, TypeOK
  <2> HIDE DEF c
  <2>2. CASE running
    <3>1. Push(c) /\ UNCHANGED modules
      BY <1>3, <2>2 DEF PublishChain, c
    <3>2. toEngine' \in Seq(Commands) /\ Len(toEngine') <= CommandCapacity
      BY <2>1, <3>1, PushType DEF IInv
    <3>3. host # "Ardour" => QueuedSized'
      BY <1>3, <2>1, <2>2, <3>1, PushSized DEF PublishChain, IInv, RunningSized
    <3>4. TypeOK' /\ Threads'
      BY <1>1, <1>3, <2>2, <3>1, <3>2 DEF PublishChain, IInv, TypeOK, Threads, restartVars, latencyVars
    <3>5. StoppedRing' /\ RunningSized'
      BY <1>3, <2>2, <3>1, <3>3, EmptySeq DEF PublishChain, IInv, StoppedRing, RunningSized, Sized
    <3> QED BY <3>4, <3>5 DEF IInv
  <2>3. CASE ~running
    BY <1>1, <1>3, <2>3 DEF PublishChain, IInv, TypeOK, Threads, StoppedRing, OnlySettingsQueued,
                            RunningSized, restartVars, latencyVars
  <2> QED BY <2>2, <2>3
<1> QED BY <1>2, <1>3

(* activate(): every module resized, or the engine left stopped.           *)
LEMMA ActivateStep ==
  ASSUME IInv, NEW ok \in BOOLEAN, Activate(ok)
  PROVE  IInv'
<1>1. /\ engineSetting \in Settings /\ setup \in Settings /\ modules \in Chains
      /\ ~running /\ OnlySettingsQueued /\ Sized(built) /\ built = <<>>
  BY EmptySeq DEF Activate, MainIdle, IInv, TypeOK, StoppedRing, Threads, Sized
<1>2. /\ modules' = SizedFor(modules, setup')
      /\ engineSetting' \in Settings /\ setup' \in Settings
      /\ UNCHANGED <<host, toEngine, built, mainAt, audio, entry>>
  BY <1>1 DEF Activate, ResizedForRate, threadVars
<1>3. modules' \in Chains /\ Sized(modules)'
  BY <1>1, <1>2, SizedForType DEF Sized
<1>4. /\ running' \in BOOLEAN /\ hostKnowsLatency' \in BOOLEAN /\ apart' \in BOOLEAN
      /\ configured' \in BOOLEAN
  BY Zenon DEF Activate, IInv, TypeOK
<1>5. latency' \in Settings /\ hostLatency' \in Settings /\ mainSetting' \in Settings
  BY <1>2 DEF Activate, ReportLatency, ResyncSpectralParametersToEngine, IInv, TypeOK
<1>6. TypeOK'
  BY <1>2, <1>3, <1>4, <1>5 DEF Activate, IInv, TypeOK, restartVars, threadVars
<1>7. Threads'
  BY <1>1, <1>2 DEF Activate, MainIdle, IInv, Threads
<1>8. StoppedRing' /\ RunningSized'
  BY <1>1, <1>2, <1>3, EmptySeq DEF StoppedRing, RunningSized, OnlySettingsQueued, QueuedSized, Sized
<1> QED BY <1>6, <1>7, <1>8 DEF IInv

(* deactivate(): the ring is drained before the engine counts as stopped.  *)
LEMMA StopSteps ==
  ASSUME IInv, Deactivate \/ \E ok \in BOOLEAN : ApplyAndStop(ok)
  PROVE  IInv'
<1>1. CASE Deactivate
  <2>1. TypeOK' /\ Threads'
    BY <1>1 DEF Deactivate, IInv, TypeOK, Threads, spectralVars, restartVars, latencyVars
  <2>2. StoppedRing' /\ RunningSized'
    BY <1>1 DEF Deactivate, StoppedRing, RunningSized
  <2> QED BY <2>1, <2>2 DEF IInv
<1>2. CASE \E ok \in BOOLEAN : ApplyAndStop(ok)
  <2> PICK ok \in BOOLEAN : ApplyAndStop(ok)
    BY <1>2
  <2>1. engineSetting' \in Settings /\ setup' \in Settings /\ modules' \in Chains
    BY UpdateType DEF ApplyAndStop, IInv, TypeOK
  <2>2. mainSetting' \in Settings
    BY <2>1 DEF ApplyAndStop, ResyncSpectralParametersToEngine, IInv, TypeOK
  <2>3. blocks' \in 0 .. BlocksToWait - 1
    BY BoundsAssumption DEF ApplyAndStop, RestartArrived
  <2>4. TypeOK'
    BY <2>1, <2>2, <2>3 DEF ApplyAndStop, RestartArrived, IInv, TypeOK, latencyVars
  <2>5. Threads'
    BY DEF ApplyAndStop, IInv, Threads
  <2>6. StoppedRing' /\ RunningSized'
    BY EmptySeq DEF ApplyAndStop, IInv, Threads, StoppedRing, OnlySettingsQueued, RunningSized
  <2> QED BY <2>4, <2>5, <2>6 DEF IInv
<1> QED BY <1>1, <1>2

-----------------------------------------------------------------------------
(* The latency.  What the host holds is what the plug-in last reported, and *)
(* that is the running engine's, but for a setup applied without a restart *)
(* whose callback is still to run.                                         *)
LatencyInv ==
  /\ running => hostKnowsLatency
  /\ hostKnowsLatency => hostLatency = latency
  /\ running /\ withoutARestart = "Nothing" => latency = setup

LEMMA LatencyStarts == Init => LatencyInv
BY DEF Init, LatencyInv

LEMMA LatencyKept == IInv /\ LatencyInv /\ [Next]_vars => LatencyInv'
<1> SUFFICES ASSUME IInv, LatencyInv, [Next]_vars PROVE LatencyInv'
  OBVIOUS
<1> USE DEF LatencyInv, spectralVars, restartVars, latencyVars, threadVars
\* Only a stopped engine's setup moves with a setting; a running one's is noted.
<1>1. ASSUME NEW s, NEW ok, SetGlobalParameter(s, ok), running
      PROVE  UNCHANGED setup
  BY <1>1 DEF SetGlobalParameter
<1>2. CASE AudioThread
  <2>1. ASSUME NEW ok \in BOOLEAN, DrainCommand(ok) PROVE LatencyInv'
    <3>1. running => UNCHANGED setup
      BY <1>1, <2>1 DEF DrainCommand, CarryOut
    <3> QED BY <2>1, <3>1 DEF DrainCommand
  <2>2. ASSUME NEW rolling \in BOOLEAN, NEW ok \in BOOLEAN, Fallback(rolling, ok) PROVE LatencyInv'
    <3>1. UNCHANGED <<setup, withoutARestart>> \/ withoutARestart' # "Nothing"
      BY <2>2 DEF Fallback
    <3> QED BY <2>2, <3>1 DEF Fallback
  <2>3. ASSUME NEW s \in Setting, NEW ok \in BOOLEAN, HostEvent(s, ok) PROVE LatencyInv'
    BY <1>1, <2>3 DEF HostEvent
  <2>4. CASE DrainCommandsDone
    BY <2>4 DEF DrainCommandsDone
  <2> QED BY <1>2, <2>1, <2>2, <2>3, <2>4 DEF AudioThread, EnterEngine, LeaveEngine
<1>3. CASE MainThread
  <2>1. ASSUME NEW s \in Setting, NEW ok \in BOOLEAN, LoadPreset(s, ok) PROVE LatencyInv'
    <3>1. running => UNCHANGED setup
      BY <2>1 DEF LoadPreset
    <3> QED BY <2>1, <3>1 DEF LoadPreset
  <2>2. ASSUME NEW k \in 1 .. MaxModules, PublishSlot(k) PROVE LatencyInv'
    BY <2>2 DEF PublishSlot
  <2>3. CASE OnMainThread
    BY <2>3 DEF OnMainThread, ReportLatency
  <2>4. ASSUME NEW ok \in BOOLEAN, Activate(ok) PROVE LatencyInv'
    <3>1. CASE running'
      BY <2>4, <3>1 DEF Activate, ReportLatency
    <3>2. CASE ~running'
      BY <2>4, <3>2 DEF Activate
    <3> QED BY <3>1, <3>2
  <2>5. ASSUME NEW ok \in BOOLEAN, ApplyAndStop(ok) PROVE LatencyInv'
    BY <2>5 DEF ApplyAndStop, IInv, Threads
  <2>6. CASE Deactivate
    BY <2>6 DEF Deactivate
  <2>7. CASE PublishChain \/ PresetChangeEnd \/ AskForRestart
    BY <2>7 DEF PublishChain, PresetChangeEnd, AskForRestart
  <2>8. CASE BuildModule \/ \E n \in 0 .. MaxModules : BuildChain(n)
    BY <2>8 DEF BuildModule, BuildChain
  <2>9. CASE \E s \in Setting : EditParameter(s)
    BY <2>9 DEF EditParameter
  <2> QED BY <1>3, <2>1, <2>2, <2>3, <2>4, <2>5, <2>6, <2>7, <2>8, <2>9 DEF MainThread, Editor
<1>4. CASE UNCHANGED vars
  BY <1>4 DEF vars
<1> QED BY <1>2, <1>3, <1>4 DEF Next

(* The settings.  The one the main thread shows is the last one queued for *)
(* the engine, or, where none is queued, the engine's; and a running       *)
(* engine's that is not pending is the one its setup is of.                *)
Newest ==
  \/ \E i \in 1 .. Len(toEngine) :
       /\ toEngine[i].kind = "setting" /\ toEngine[i].setting = mainSetting
       /\ \A j \in i + 1 .. Len(toEngine) : toEngine[j].kind # "setting"
  \/ /\ \A i \in 1 .. Len(toEngine) : toEngine[i].kind # "setting"
     /\ engineSetting = mainSetting

\* An engine is never asked for the setup it had before the first.
OnceSet == engineSetting = unset => setup = unset

AgreeInv ==
  /\ OnceSet
  /\ host # "Ardour" => /\ withoutARestart = "Nothing"
                        /\ running /\ ~pending => engineSetting = setup
                        /\ ~apart => Newest

LEMMA AgreeStarts == Init => AgreeInv
<1> SUFFICES ASSUME Init PROVE AgreeInv
  OBVIOUS
<1>1. Len(<<>>) = 0
  OBVIOUS
<1> QED BY <1>1 DEF Init, AgreeInv, OnceSet, Newest

\* A setting queued is the newest; a module or a chain queued is not one.
LEMMA PushNewest ==
  ASSUME TypeOK, NEW c \in Commands, Push(c), ~Full,
         \/ c.kind = "setting" /\ mainSetting' = c.setting
         \/ c.kind # "setting" /\ Newest /\ UNCHANGED <<mainSetting, engineSetting>>
  PROVE  Newest'
<1>1. /\ toEngine \in Seq(Commands) /\ Len(toEngine) \in Nat
      /\ toEngine' = Append(toEngine, c)
  BY LenProperties DEF Push, TypeOK
<1>2. /\ Len(toEngine') = Len(toEngine) + 1 /\ toEngine'[Len(toEngine) + 1] = c
      /\ \A i \in 1 .. Len(toEngine) : toEngine'[i] = toEngine[i]
  BY <1>1, AppendProperties
<1>3. CASE c.kind = "setting" /\ mainSetting' = c.setting
  <2>1. /\ Len(toEngine') \in 1 .. Len(toEngine') /\ toEngine'[Len(toEngine')] = c
        /\ \A j \in Len(toEngine') + 1 .. Len(toEngine') : FALSE
    BY <1>1, <1>2
  <2> QED BY <1>3, <2>1 DEF Newest
<1>4. CASE c.kind # "setting" /\ Newest /\ UNCHANGED <<mainSetting, engineSetting>>
  <2>1. \A j \in 1 .. Len(toEngine') :
          \/ j \in 1 .. Len(toEngine) /\ toEngine'[j] = toEngine[j]
          \/ toEngine'[j].kind # "setting"
    BY <1>1, <1>2, <1>4
  <2>2. CASE \A i \in 1 .. Len(toEngine) : toEngine[i].kind # "setting"
    <3>1. engineSetting = mainSetting
      BY <1>4, <2>2 DEF Newest
    <3>2. \A i \in 1 .. Len(toEngine') : toEngine'[i].kind # "setting"
      BY <2>1, <2>2
    <3> QED BY <1>4, <3>1, <3>2 DEF Newest
  <2>3. CASE \E i \in 1 .. Len(toEngine) :
               /\ toEngine[i].kind = "setting" /\ toEngine[i].setting = mainSetting
               /\ \A j \in i + 1 .. Len(toEngine) : toEngine[j].kind # "setting"
    <3> PICK i \in 1 .. Len(toEngine) :
          /\ toEngine[i].kind = "setting" /\ toEngine[i].setting = mainSetting
          /\ \A j \in i + 1 .. Len(toEngine) : toEngine[j].kind # "setting"
      BY <2>3
    <3>1. i \in 1 .. Len(toEngine') /\ toEngine'[i] = toEngine[i]
      BY <1>1, <1>2
    <3>2. ASSUME NEW j \in i + 1 .. Len(toEngine') PROVE toEngine'[j].kind # "setting"
      <4>1. j \in 1 .. Len(toEngine')
        BY <3>1
      <4>2. j \in 1 .. Len(toEngine) => j \in i + 1 .. Len(toEngine)
        OBVIOUS
      <4> QED BY <2>1, <4>1, <4>2
    <3> QED BY <1>4, <3>1, <3>2 DEF Newest
  <2> QED BY <1>4, <2>2, <2>3 DEF Newest
<1> QED BY <1>3, <1>4

\* A setting taken is still the newest where none is behind it, now as the
\* engine's.
LEMMA TailNewest ==
  ASSUME TypeOK, Newest, toEngine # <<>>, toEngine' = Tail(toEngine), UNCHANGED mainSetting,
         IF Head(toEngine).kind = "setting" THEN engineSetting' = Head(toEngine).setting
                                            ELSE UNCHANGED engineSetting
  PROVE  Newest'
<1>1. /\ Head(toEngine) = toEngine[1] /\ 1 \in 1 .. Len(toEngine)
      /\ Len(toEngine) \in Nat /\ Len(toEngine') = Len(toEngine) - 1
      /\ \A i \in 1 .. Len(toEngine') :
           i + 1 \in 1 .. Len(toEngine) /\ toEngine'[i] = toEngine[i + 1]
  <2>1. Len(toEngine) \in Nat /\ Len(toEngine') = Len(toEngine) - 1
    BY LenProperties, HeadTailProperties DEF TypeOK
  <2> QED BY <2>1, TailType
<1>2. CASE \A i \in 2 .. Len(toEngine) : toEngine[i].kind # "setting"
  <2>1. \A i \in 1 .. Len(toEngine') : toEngine'[i].kind # "setting"
    <3> TAKE i \in 1 .. Len(toEngine')
    <3>1. i + 1 \in 2 .. Len(toEngine) /\ toEngine'[i] = toEngine[i + 1]
      BY <1>1
    <3> QED BY <1>2, <3>1
  <2>2. engineSetting' = mainSetting
    <3>1. CASE Head(toEngine).kind = "setting"
      <4>1. PICK i \in 1 .. Len(toEngine) :
              toEngine[i].kind = "setting" /\ toEngine[i].setting = mainSetting
        BY <1>1, <3>1 DEF Newest
      <4>2. i = 1
        BY <1>2, <4>1
      <4> QED BY <1>1, <3>1, <4>1, <4>2
    <3>2. CASE Head(toEngine).kind # "setting"
      <4>1. \A i \in 1 .. Len(toEngine) : toEngine[i].kind # "setting"
        <5> TAKE i \in 1 .. Len(toEngine)
        <5>1. i = 1 \/ i \in 2 .. Len(toEngine)
          OBVIOUS
        <5> QED BY <1>1, <1>2, <3>2, <5>1
      <4> QED BY <3>2, <4>1 DEF Newest
    <3> QED BY <3>1, <3>2
  <2> QED BY <2>1, <2>2 DEF Newest
<1>3. CASE ~(\A i \in 2 .. Len(toEngine) : toEngine[i].kind # "setting")
  <2>1. PICK i \in 1 .. Len(toEngine) :
          /\ toEngine[i].kind = "setting" /\ toEngine[i].setting = mainSetting
          /\ \A j \in i + 1 .. Len(toEngine) : toEngine[j].kind # "setting"
    BY <1>3 DEF Newest
  <2>2. i # 1
    BY <1>3, <2>1
  <2>3. /\ i - 1 \in 1 .. Len(toEngine') /\ (i - 1) + 1 = i
        /\ toEngine'[i - 1] = toEngine[i]
    <3>1. i - 1 \in 1 .. Len(toEngine') /\ (i - 1) + 1 = i
      BY <1>1, <2>2
    <3> QED BY <1>1, <3>1
  <2>4. ASSUME NEW j \in (i - 1) + 1 .. Len(toEngine') PROVE toEngine'[j].kind # "setting"
    <3>1. j \in 1 .. Len(toEngine') /\ j + 1 \in i + 1 .. Len(toEngine)
      BY <1>1, <2>3
    <3> QED BY <1>1, <2>1, <3>1
  <2> QED BY <2>1, <2>3, <2>4 DEF Newest
<1> QED BY <1>2, <1>3

LEMMA NewestKept ==
  ASSUME Newest, UNCHANGED <<toEngine, mainSetting, engineSetting>>
  PROVE  Newest'
BY DEF Newest

\* A setting applied or noted leaves an engine that was ever set up with one.
LEMMA OnceSetKept ==
  ASSUME OnceSet, NEW ok,
         \/ \E s \in Setting : SetGlobalParameter(s, ok)
         \/ UpdateEngineSetup(engineSetting, ok)
  PROVE  OnceSet'
<1>1. ASSUME NEW w, UpdateEngineSetup(w, ok), w = unset => setup = unset PROVE OnceSet'
  BY <1>1 DEF UpdateEngineSetup, OnceSet
<1>2. ASSUME NEW s \in Setting, SetGlobalParameter(s, ok) PROVE OnceSet'
  <2>1. s # unset
    BY SettingAssumption
  <2> QED BY <1>1, <1>2, <2>1 DEF SetGlobalParameter, OnceSet
<1> QED BY <1>1, <1>2 DEF OnceSet

LEMMA AgreeKept == IInv /\ AgreeInv /\ [Next]_vars => AgreeInv'
<1> SUFFICES ASSUME IInv, AgreeInv, [Next]_vars PROVE AgreeInv'
  OBVIOUS
<1>1. TypeOK /\ Threads /\ OnceSet
  BY DEF IInv, AgreeInv
<1> USE DEF spectralVars, restartVars, latencyVars, threadVars
<1>2. ASSUME UNCHANGED <<host, mainSetting, engineSetting, setup, toEngine, pending,
                         running, withoutARestart, apart>>
      PROVE  AgreeInv'
  BY <1>1, <1>2, NewestKept DEF AgreeInv, OnceSet
<1>3. ASSUME NEW ok \in BOOLEAN, DrainCommand(ok) PROVE AgreeInv'
  <2> DEFINE c == Head(toEngine)
  <2>1. /\ c \in Commands /\ CarryOut(c, ok) /\ toEngine # <<>> /\ toEngine' = Tail(toEngine)
        /\ UNCHANGED <<host, mainSetting, running, withoutARestart>>
        /\ apart' = (apart \/ (c.kind = "setting" /\ engineSetting' # c.setting))
    BY <1>1, <1>3, TailType DEF DrainCommand
  <2> HIDE DEF c
  <2>2. CASE c.kind = "setting"
    <3>1. c.setting \in Setting /\ SetGlobalParameter(c.setting, ok)
      BY <2>1, <2>2, CommandParts DEF CarryOut
    <3>2. OnceSet'
      BY <1>1, <3>1, OnceSetKept
    <3>3. host # "Ardour" /\ running' /\ ~pending' => engineSetting' = setup'
      BY <2>1, <3>1 DEF AgreeInv, SetGlobalParameter
    <3>4. host # "Ardour" /\ ~apart' => Newest'
      BY <1>1, <2>1, <2>2, TailNewest DEF AgreeInv, c
    <3> QED BY <2>1, <3>2, <3>3, <3>4 DEF AgreeInv
  <2>3. CASE c.kind # "setting"
    <3>1. UNCHANGED <<engineSetting, setup, pending>>
      BY <2>1, <2>3 DEF CarryOut
    <3>2. host # "Ardour" /\ ~apart' => Newest'
      BY <1>1, <2>1, <2>3, <3>1, TailNewest DEF AgreeInv, c
    <3> QED BY <1>1, <2>1, <3>1, <3>2 DEF AgreeInv, OnceSet
  <2> QED BY <2>2, <2>3
<1>4. ASSUME NEW rolling \in BOOLEAN, NEW ok \in BOOLEAN, Fallback(rolling, ok) PROVE AgreeInv'
  <2>1. OnceSet'
    <3>1. CASE UpdateEngineSetup(engineSetting, ok)
      BY <1>1, <3>1, OnceSetKept
    <3>2. CASE UNCHANGED <<engineSetting, setup>>
      BY <1>1, <3>2 DEF OnceSet
    <3> QED BY <1>4, <3>1, <3>2 DEF Fallback
  <2>2. host # "Ardour" =>
          UNCHANGED <<host, mainSetting, engineSetting, setup, toEngine, pending,
                      running, withoutARestart, apart>>
    BY <1>4 DEF Fallback
  <2>3. host' = host
    BY <1>4 DEF Fallback
  <2> QED BY <2>1, <2>2, <2>3, NewestKept DEF AgreeInv
<1>5. ASSUME NEW s \in Setting, NEW ok \in BOOLEAN, HostEvent(s, ok) PROVE AgreeInv'
  <2>1. /\ SetGlobalParameter(s, ok) /\ apart' = TRUE
        /\ UNCHANGED <<host, running, withoutARestart>>
    BY <1>5 DEF HostEvent
  <2>2. OnceSet'
    BY <1>1, <2>1, OnceSetKept
  <2>3. host # "Ardour" /\ running' /\ ~pending' => engineSetting' = setup'
    BY <2>1 DEF AgreeInv, SetGlobalParameter
  <2> QED BY <2>1, <2>2, <2>3 DEF AgreeInv
<1>6. ASSUME NEW s \in Setting, EditParameter(s) PROVE AgreeInv'
  <2>1. /\ Push(SetSetting(s)) /\ mainSetting' = s /\ apart' = (apart \/ Full)
        /\ UNCHANGED <<host, engineSetting, setup, pending, running, withoutARestart>>
    BY <1>6 DEF EditParameter
  <2>2. ~apart' => Newest'
    BY <1>1, <2>1, PushNewest, CommandTypes DEF SetSetting
  <2> QED BY <1>1, <2>1, <2>2 DEF AgreeInv, OnceSet
<1>7. ASSUME NEW s \in Setting, NEW ok \in BOOLEAN, LoadPreset(s, ok) PROVE AgreeInv'
  <2>1. mainSetting' = s /\ UNCHANGED <<host, running, withoutARestart>>
    BY <1>7 DEF LoadPreset
  <2>2. CASE running
    <3>1. /\ Push(SetSetting(s)) /\ apart' = (apart \/ Full)
          /\ UNCHANGED <<engineSetting, setup, modules, pending>>
      BY <1>7, <2>2 DEF LoadPreset
    <3>2. ASSUME ~apart' PROVE Newest'
      <4>1. ~Full
        BY <3>1, <3>2
      <4>2. /\ SetSetting(s) \in Commands
            /\ SetSetting(s).kind = "setting" /\ SetSetting(s).setting = s
        BY CommandTypes DEF SetSetting
      <4> QED BY <1>1, <2>1, <3>1, <4>1, <4>2, PushNewest
    <3> QED BY <1>1, <2>1, <3>1, <3>2 DEF AgreeInv, OnceSet
  <2>3. CASE ~running
    <3>1. /\ SetGlobalParameter(s, ok) /\ UNCHANGED toEngine
          /\ apart' = (apart \/ engineSetting' # s \/ toEngine # <<>>)
      BY <1>7, <2>3 DEF LoadPreset
    <3>2. OnceSet'
      BY <1>1, <3>1, OnceSetKept
    <3>3. ASSUME ~apart' PROVE Newest'
      <4>1. Len(<<>>) = 0
        OBVIOUS
      <4>2. toEngine' = <<>> /\ engineSetting' = mainSetting'
        BY <2>1, <3>1, <3>3
      <4> QED BY <4>1, <4>2 DEF Newest
    <3> QED BY <2>1, <2>3, <3>2, <3>3 DEF AgreeInv
  <2> QED BY <2>2, <2>3
<1>8. CASE PublishChain \/ \E k \in 1 .. MaxModules : PublishSlot(k)
  <2>1. UNCHANGED <<host, mainSetting, engineSetting, setup, pending, running,
                    withoutARestart, apart>>
    BY <1>8 DEF PublishChain, PublishSlot
  <2>2. toEngine' = toEngine \/ \E c \in Commands : c.kind # "setting" /\ ~Full /\ Push(c)
    <3>1. ASSUME NEW k \in 1 .. MaxModules, PublishSlot(k)
          PROVE  toEngine' = toEngine \/ \E c \in Commands : c.kind # "setting" /\ ~Full /\ Push(c)
      <4>1. toEngine' = toEngine \/ (Push(SetSlot(k, built[1])) /\ ~Full)
        BY <3>1 DEF PublishSlot, Push
      <4>2. built[1] \in Settings
        <5>1. built \in Seq(Settings) /\ Len(built) = 1
          BY <1>1, <3>1 DEF PublishSlot, TypeOK, Threads, Chains
        <5> QED BY <5>1
      <4>3. SetSlot(k, built[1]) \in Commands /\ SetSlot(k, built[1]).kind = "slot"
        BY <4>2, CommandTypes DEF SetSlot
      <4> QED BY <4>1, <4>3
    <3>2. CASE PublishChain
      <4>1. toEngine' = toEngine \/ (Push(SwapChain(built)) /\ ~Full)
        BY <3>2 DEF PublishChain, Push
      <4>2. SwapChain(built) \in Commands /\ SwapChain(built).kind = "chain"
        BY <1>1, CommandTypes DEF SwapChain, TypeOK
      <4> QED BY <4>1, <4>2
    <3> QED BY <1>8, <3>1, <3>2
  <2>3. Newest => Newest'
    BY <1>1, <2>1, <2>2, PushNewest, NewestKept
  <2> QED BY <1>1, <2>1, <2>3 DEF AgreeInv, OnceSet
<1>9. CASE OnMainThread
  <2>1. /\ withoutARestart # "Nothing" /\ withoutARestart' = "Nothing"
        /\ UNCHANGED <<host, engineSetting, setup>>
    BY <1>9 DEF OnMainThread
  <2> QED BY <1>1, <2>1 DEF AgreeInv, OnceSet
<1>10. ASSUME NEW ok \in BOOLEAN, Activate(ok) PROVE AgreeInv'
  <2>1. /\ UNCHANGED <<host, pending, toEngine, withoutARestart>>
        /\ running' = (engineSetting' = engineSetting)
        /\ IF running' THEN UNCHANGED mainSetting ELSE mainSetting' = engineSetting'
        /\ apart' = (apart \/ (~running' /\ toEngine # <<>>))
    BY <1>10 DEF Activate, ResyncSpectralParametersToEngine
  <2>2. \/ engineSetting \in {setup, unset} /\ UNCHANGED <<engineSetting, setup>>
        \/ engineSetting \notin {setup, unset} /\ setup' = engineSetting /\ UNCHANGED engineSetting
        \/ engineSetting \notin {setup, unset} /\ engineSetting' = setup /\ UNCHANGED setup
    BY <1>10 DEF Activate
  <2>3. OnceSet'
    BY <1>1, <2>2 DEF OnceSet
  <2>4. running' => engineSetting' = setup'
    BY <1>1, <2>1, <2>2 DEF OnceSet
  <2>5. host # "Ardour" /\ ~apart' => Newest'
    <3>1. Len(<<>>) = 0
      OBVIOUS
    <3>2. CASE running'
      <4>1. UNCHANGED <<toEngine, mainSetting, engineSetting>>
        BY <2>1, <3>2
      <4>2. host' = host /\ (apart => apart')
        BY <2>1
      <4> QED BY <4>1, <4>2, NewestKept DEF AgreeInv
    <3>3. ASSUME ~running', ~apart' PROVE Newest'
      <4>1. toEngine' = <<>> /\ engineSetting' = mainSetting'
        BY <2>1, <3>3
      <4> QED BY <3>1, <4>1 DEF Newest
    <3> QED BY <3>2, <3>3
  <2> QED BY <2>1, <2>3, <2>4, <2>5 DEF AgreeInv
<1>11. ASSUME NEW ok \in BOOLEAN, ApplyAndStop(ok) PROVE AgreeInv'
  <2>1. /\ entry = "deactivate" /\ toEngine = <<>>
        /\ UNCHANGED <<host, toEngine, running, withoutARestart, apart>>
        /\ IF engineSetting' # engineSetting THEN mainSetting' = engineSetting'
                                             ELSE UNCHANGED mainSetting
    BY <1>11 DEF ApplyAndStop, ResyncSpectralParametersToEngine
  <2>2. OnceSet'
    <3>1. CASE UpdateEngineSetup(engineSetting, ok)
      BY <1>1, <3>1, OnceSetKept
    <3>2. CASE UNCHANGED <<engineSetting, setup>>
      BY <1>1, <3>2 DEF OnceSet
    <3> QED BY <1>11, <3>1, <3>2 DEF ApplyAndStop
  <2>3. ~running'
    BY <1>1, <2>1 DEF Threads
  <2>4. Newest => Newest'
    <3>1. Len(<<>>) = 0
      OBVIOUS
    <3> QED BY <2>1, <3>1 DEF Newest
  <2> QED BY <2>1, <2>2, <2>3, <2>4 DEF AgreeInv
<1>12. CASE AudioThread
  BY <1>2, <1>3, <1>4, <1>5, <1>12 DEF AudioThread, EnterEngine, DrainCommandsDone, LeaveEngine
<1>13. CASE MainThread
  <2>1. CASE Deactivate
    BY <1>1, <2>1, NewestKept DEF Deactivate, AgreeInv, OnceSet
  <2>2. CASE BuildModule \/ \E n \in 0 .. MaxModules : BuildChain(n)
    BY <1>2, <2>2 DEF BuildModule, BuildChain
  <2>3. CASE PresetChangeEnd \/ AskForRestart
    BY <1>2, <2>3 DEF PresetChangeEnd, AskForRestart
  <2> QED BY <1>6, <1>7, <1>8, <1>9, <1>10, <1>11, <1>13, <2>1, <2>2, <2>3 DEF MainThread, Editor
<1>14. CASE UNCHANGED vars
  BY <1>2, <1>14 DEF vars
<1> QED BY <1>12, <1>13, <1>14 DEF Next

-----------------------------------------------------------------------------
(* The theorems.                                                           *)

LEMMA Initially == Init => IInv
<1> SUFFICES ASSUME Init PROVE IInv
  OBVIOUS
<1>1. <<>> \in Seq(Commands) /\ Len(<<>>) = 0 /\ <<>> \in Seq(Settings)
  BY EmptySeq
<1>2. <<>> \in Chains
  BY <1>1, BoundsAssumption DEF Chains
<1>3. Default \in Settings /\ unset \in Settings
  BY SettingAssumption DEF Settings
<1>4. 0 \in 0 .. BlocksToWait - 1
  BY BoundsAssumption
<1>5. Len(toEngine) <= CommandCapacity
  BY <1>1, BoundsAssumption DEF Init
<1>6. TypeOK
  BY <1>1, <1>2, <1>3, <1>4, <1>5 DEF Init, TypeOK
<1> QED BY <1>1, <1>6 DEF Init, IInv, Threads, StoppedRing, OnlySettingsQueued, RunningSized

LEMMA Inductive == IInv /\ [Next]_vars => IInv'
<1> SUFFICES ASSUME IInv, [Next]_vars PROVE IInv'
  OBVIOUS
<1>1. CASE AudioThread
  BY <1>1, QuietSteps, DrainStep, AudioSteps DEF AudioThread
<1>2. CASE MainThread
  <2>1. CASE Editor
    BY <2>1, EditParameterStep, LoadPresetStep, BuildSteps DEF Editor
  <2>2. CASE ~Editor
    BY <1>2, <2>2, PublishSteps, BuildSteps, QuietSteps, ActivateStep, StopSteps DEF MainThread
  <2> QED BY <2>1, <2>2
<1>3. CASE UNCHANGED vars
  BY <1>3, QuietSteps
<1> QED BY <1>1, <1>2, <1>3 DEF Next

(* Every variable keeps its type: the ring and the chain their bounds, the *)
(* count of parked blocks its limit.                                       *)
THEOREM SpectralTyping == Spec => []TypeOK
<1>1. IInv => TypeOK
  BY DEF IInv
<1> QED BY <1>1, Initially, Inductive, PTL DEF Spec

(* publish.cpp's promise, where hosts answer a restart: for any number of  *)
(* settings, modules and queued commands, no block is rendered with a      *)
(* module sized for a setup other than the engine's.                       *)
THEOREM SizedWhereHostsRestart == Spec => []RendersSizedModules
<1>1. IInv => RendersSizedModules
  <2> SUFFICES ASSUME IInv, host # "Ardour", audio = "events", entry = "process"
               PROVE  \A k \in DOMAIN modules : modules[k] = setup
    BY DEF RendersSizedModules, ModulesSized
  <2>1. Sized(modules) /\ modules \in Seq(Settings)
    BY DEF IInv, Threads, RunningSized, TypeOK, Chains
  <2> QED BY <2>1, LenProperties DEF Sized
<1> QED BY <1>1, Initially, Inductive, PTL DEF Spec

(* The host's copy of the latency is the running engine's, through every   *)
(* restart, rollback and setup applied without one (reportLatency()).      *)
THEOREM LatencyKnown == Spec => []HostLatencyRight
<1>1. LatencyInv => HostLatencyRight
  BY DEF LatencyInv, HostLatencyRight
<1> QED BY <1>1, Initially, Inductive, LatencyStarts, LatencyKept, PTL DEF Spec

(* With nothing under way the two copies of the setting agree, and a       *)
(* running engine is set up for it, whatever was declined on the way.      *)
THEOREM SettingsSettle == Spec => []SettingsAgree
<1>1. IInv /\ AgreeInv => SettingsAgree
  <2>1. Len(<<>>) = 0
    OBVIOUS
  <2> QED BY <2>1 DEF AgreeInv, SettingsAgree, Newest
<1> QED BY <1>1, Initially, Inductive, AgreeStarts, AgreeKept, PTL DEF Spec
=============================================================================
