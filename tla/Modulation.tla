------------------------------ MODULE Modulation ------------------------------
(***************************************************************************)
(* One parameter an LFO may drive: the value somebody chose (base) and the *)
(* value the engine plays (live), in the engine and in the main thread's   *)
(* copy, and the knob that shows it.  What is chosen travels on the rings; *)
(* what is played is published once a block in a mailbox, which keeps the  *)
(* newest value and a bit that says it has not been painted.               *)
(*                                                                         *)
(* The engine runs throughout: a stopped one is ParameterEcho's subject.   *)
(***************************************************************************)
EXTENDS Integers, Sequences

CONSTANTS Asked,            \* the values somebody may choose
          Swept,            \* the values an LFO may pass through
          Presets,          \* [base, lfo]: what a preset may say of it
          EchoCapacity,     \* bound: of toUI_
          CommandCapacity   \* bound: of toEngine_

ASSUME SweepAssumption == Asked \cap Swept = {} /\ Asked # {} /\ {"no", "taken"} \cap (Asked \cup Swept) = {}
ASSUME PresetAssumption == Presets \subseteq [base : Asked, lfo : BOOLEAN]
ASSUME RingAssumption == EchoCapacity \in Nat \ {0} /\ CommandCapacity \in Nat \ {0}

VARIABLES
  engine,         \* the module in program_: [base, live, lfo]
  main,           \* the one in programMain_: [base, lfo]
  toUI, toEngine, echoesLost,
  republishing,   \* drainCommands() has taken a request to
  modulating,     \* this parameter's bit of modulating_
  value, dirty,   \* the mailbox's slot and its bit
  publishing,     \* set(): the value is stored and the bit is not
  chainChanged,   \* chainChangedPending_
  sweep,          \* forEachChanged(): "no", "taken" the bit, or what was read
  shown,          \* what the knob stands at
  current,        \* history: the reader read, or dropped, what the mailbox holds
  unpainted,      \* a resync dropped a value and left the strip as it was
  crossed         \* history: a write was made over another on its way, and
                  \* nothing has been sent since that settles both copies

rings == <<toUI, toEngine, echoesLost, republishing>>
mailbox == <<value, dirty>>
reader == <<sweep, shown, current, unpainted>>
vars == <<engine, main, rings, modulating, mailbox, publishing, chainChanged, reader, crossed>>

Values == Asked \cup Swept
Writes == [what : {"base"}, to : Asked] \cup [what : {"lfo"}, to : BOOLEAN]
Echoes == [kind : {"write", "republished"}, write : Writes]
Commands == [kind : {"write"}, write : Writes] \cup [kind : {"chain"}, to : Presets]
              \cup [kind : {"republish"}]

----------------------------------------------------------------------------
(* Writing a module.                                                       *)

\* Mutant: the sweep's last value is left in the parameter.
LeavesSweep(module, write) ==
  CASE write.what = "base" ->
         IF module.lfo THEN module ELSE [module EXCEPT !.base = write.to, !.live = write.to]
    [] write.what = "lfo" -> [module EXCEPT !.lfo = write.to]
\* A chosen value is ignored while the LFO has the parameter, and an LFO that
\* is switched off puts the chosen one back.
Written(module, write) ==
  CASE write.what = "base" ->
         IF module.lfo THEN module ELSE [module EXCEPT !.base = write.to, !.live = write.to]
    [] write.what = "lfo" ->
         [module EXCEPT !.lfo = write.to,
                        !.live = IF module.lfo /\ ~write.to THEN module.base ELSE @]

\* Mutant: another Program's state is written as an edit of it.
StoredAsWritten(copy, write) ==
  CASE write.what = "base" -> IF copy.lfo THEN copy ELSE [copy EXCEPT !.base = write.to]
    [] write.what = "lfo"  -> [copy EXCEPT !.lfo = write.to]
\* WhileModulated::stored: what the other Program holds, whatever runs here.
Stored(copy, write) ==
  CASE write.what = "base" -> [copy EXCEPT !.base = write.to]
    [] write.what = "lfo"  -> [copy EXCEPT !.lfo = write.to]

\* In the main thread's copy, where no LFO is ever evaluated.
WrittenInCopy(copy, write) ==
  CASE write.what = "base" -> IF copy.lfo THEN copy ELSE [copy EXCEPT !.base = write.to]
    [] write.what = "lfo"  -> [copy EXCEPT !.lfo = write.to]

\* parameterChangedElsewhere(), setLFOEnabled(): the knob takes the value it is
\* told, and goes back to the chosen one when its LFO is switched off.
Drawn(write, copy) ==
  CASE write.what = "base" -> write.to
    [] write.what = "lfo"  -> IF write.to THEN shown ELSE copy.base

\* echo(): or the word that one was lost.
Echo(messages) ==
  LET all == toUI \o messages
  IN /\ toUI' = IF Len(all) > EchoCapacity THEN SubSeq(all, 1, EchoCapacity) ELSE all
     /\ echoesLost' = (echoesLost \/ Len(all) > EchoCapacity)

\* There is an edit on its way to this thread's copy, or what makes up for one;
\* and there is one on its way to the engine's.  A write made over such an edit
\* crosses it: each copy takes the two in an order of its own.
EditorMeetsHost ==
  toUI # <<>> \/ echoesLost \/ republishing \/ \E i \in DOMAIN toEngine : toEngine[i].kind = "republish"
HostMeetsEditor == \E i \in DOMAIN toEngine : toEngine[i].kind # "republish"

----------------------------------------------------------------------------
(* The audio thread.                                                       *)

HostWrites(write) ==
  /\ ~publishing /\ ~republishing
  /\ engine' = Written(engine, write)
  /\ Echo(<<[kind |-> "write", write |-> write]>>)
  /\ crossed' = (crossed \/ HostMeetsEditor)
  /\ UNCHANGED <<main, toEngine, republishing, modulating, mailbox, publishing, chainChanged, reader>>

Republished(module) ==
  <<[kind |-> "republished", write |-> [what |-> "base", to |-> module.base]],
    [kind |-> "republished", write |-> [what |-> "lfo", to |-> module.lfo]]>>

\* What is queued, one after another, and the republish after the last of it.
drainCommand ==
  /\ toEngine # <<>> /\ ~publishing
  /\ toEngine' = Tail(toEngine)
  /\ LET command == Head(toEngine)
     IN /\ engine' = CASE command.kind = "write" -> Written(engine, command.write)
                       [] command.kind = "chain" -> [base |-> command.to.base, live |-> command.to.base,
                                                     lfo |-> command.to.lfo]
                       [] OTHER -> engine
        /\ chainChanged' = (chainChanged \/ command.kind = "chain")
        /\ republishing' = (republishing \/ command.kind = "republish")
  /\ UNCHANGED <<main, toUI, echoesLost, modulating, mailbox, publishing, reader, crossed>>

republishParameters ==
  /\ republishing /\ republishing' = FALSE
  /\ Echo(Republished(engine))
  /\ crossed' = (crossed /\ HostMeetsEditor)
  /\ UNCHANGED <<engine, main, toEngine, modulating, mailbox, publishing, chainChanged, reader>>

\* A frame: the LFO moves what is played, and only that.
preProcess(v) ==
  /\ engine.lfo /\ ~publishing /\ ~republishing
  /\ engine' = [engine EXCEPT !.live = v]
  /\ UNCHANGED <<main, rings, modulating, mailbox, publishing, chainChanged, reader, crossed>>

\* Mutant: the block an LFO stops in is not published.
PublishWhileRunning ==
  /\ ~publishing /\ ~republishing /\ engine.lfo
  /\ value' = engine.live /\ publishing' = TRUE /\ current' = FALSE
  /\ modulating' = FALSE
  /\ UNCHANGED <<engine, main, rings, dirty, chainChanged, sweep, shown, unpainted, crossed>>
\* publishModulatedValues(), at the end of a block: the value, and then the bit.
PublishValue ==
  /\ ~publishing /\ ~republishing /\ (engine.lfo \/ modulating)
  /\ value' = engine.live /\ publishing' = TRUE /\ current' = FALSE
  /\ modulating' = engine.lfo
  /\ UNCHANGED <<engine, main, rings, dirty, chainChanged, sweep, shown, unpainted, crossed>>

PublishBit ==
  /\ publishing
  /\ dirty' = TRUE /\ publishing' = FALSE
  /\ UNCHANGED <<engine, main, rings, modulating, value, chainChanged, reader, crossed>>

----------------------------------------------------------------------------
(* The main thread.                                                        *)

EditorWrites(write) ==
  /\ sweep = "no" /\ Len(toEngine) < CommandCapacity
  /\ main' = WrittenInCopy(main, write)
  /\ toEngine' = Append(toEngine, [kind |-> "write", write |-> write])
  /\ shown' = Drawn(write, main')
  /\ crossed' = (crossed \/ EditorMeetsHost)
  /\ UNCHANGED <<engine, toUI, echoesLost, republishing, modulating, mailbox, publishing, chainChanged,
                 sweep, current, unpainted>>

drainEchoes ==
  /\ sweep = "no" /\ toUI # <<>>
  /\ LET echo == Head(toUI)
     IN /\ main' = IF echo.kind = "republished" THEN Stored(main, echo.write)
                   ELSE WrittenInCopy(main, echo.write)
        /\ shown' = Drawn(echo.write, main')
  /\ toUI' = Tail(toUI)
  /\ UNCHANGED <<engine, toEngine, echoesLost, republishing, modulating, mailbox, publishing, chainChanged,
                 sweep, current, unpainted, crossed>>

AskForRepublish ==
  /\ sweep = "no" /\ toUI = <<>> /\ echoesLost /\ Len(toEngine) < CommandCapacity
  /\ echoesLost' = FALSE
  /\ toEngine' = Append(toEngine, [kind |-> "republish"])
  /\ UNCHANGED <<engine, main, toUI, republishing, modulating, mailbox, publishing, chainChanged, reader,
                 crossed>>

\* A preset: this copy is replaced and its strip rebuilt, and the engine's chain
\* is queued.
Load(preset) ==
  /\ sweep = "no" /\ Len(toEngine) < CommandCapacity
  /\ main' = preset
  /\ toEngine' = Append(toEngine, [kind |-> "chain", to |-> preset])
  /\ crossed' = EditorMeetsHost
  /\ shown' = preset.base /\ dirty' = FALSE /\ current' = TRUE /\ unpainted' = FALSE
  /\ UNCHANGED <<engine, toUI, echoesLost, republishing, modulating, value, publishing, chainChanged, sweep>>

\* The engine has installed a chain: a strip whose module is still there is kept
\* as it stands, and what the mailbox holds is dropped.
resyncModuleRack ==
  /\ sweep = "no" /\ chainChanged /\ toUI = <<>>
  /\ chainChanged' = FALSE
  /\ dirty' = FALSE /\ current' = TRUE
  /\ unpainted' = (unpainted \/ dirty)
  /\ UNCHANGED <<engine, main, rings, modulating, value, publishing, sweep, shown, crossed>>

\* A window opened: every strip is built from this thread's copy.
OpenEditor ==
  /\ sweep = "no"
  /\ shown' = main.base /\ dirty' = FALSE /\ current' = TRUE /\ unpainted' = FALSE
  /\ UNCHANGED <<engine, main, rings, modulating, value, publishing, chainChanged, sweep, crossed>>

\* pumpModulatedValues(), at 30 Hz: the bit is taken, then the value read.
SweepTake ==
  /\ sweep = "no" /\ dirty
  /\ dirty' = FALSE /\ sweep' = "taken"
  /\ UNCHANGED <<engine, main, rings, modulating, value, publishing, chainChanged,
                 shown, current, unpainted, crossed>>

SweepRead ==
  /\ sweep = "taken"
  /\ sweep' = value /\ current' = TRUE
  /\ UNCHANGED <<engine, main, rings, modulating, mailbox, publishing, chainChanged,
                 shown, unpainted, crossed>>

\* Mutant: the bit is cleared once its value has been dealt with.
PaintAndClear ==
  /\ sweep \in Values
  /\ shown' \in {sweep, main.base}
  /\ sweep' = "no" /\ unpainted' = FALSE /\ dirty' = FALSE
  /\ UNCHANGED <<engine, main, rings, modulating, value, publishing, chainChanged, current, crossed>>
\* The sweep, or the chosen value where the user asked not to see the sweep.
SweepPaint ==
  /\ sweep \in Values
  /\ shown' \in {sweep, main.base}
  /\ sweep' = "no" /\ unpainted' = FALSE
  /\ UNCHANGED <<engine, main, rings, modulating, mailbox, publishing, chainChanged, current, crossed>>

----------------------------------------------------------------------------
Init ==
  \E v \in Asked :
    /\ engine = [base |-> v, live |-> v, lfo |-> FALSE]
    /\ main = [base |-> v, lfo |-> FALSE]
    /\ value = v /\ shown = v /\ current = TRUE
    /\ toUI = <<>> /\ toEngine = <<>> /\ echoesLost = FALSE /\ republishing = FALSE
    /\ modulating = FALSE /\ dirty = FALSE /\ publishing = FALSE
    /\ chainChanged = FALSE /\ sweep = "no" /\ unpainted = FALSE /\ crossed = FALSE

Next ==
  \/ \E write \in Writes : HostWrites(write) \/ EditorWrites(write)
  \/ drainCommand \/ republishParameters \/ \E v \in Swept : preProcess(v)
  \/ PublishValue \/ PublishBit
  \/ drainEchoes \/ AskForRepublish \/ resyncModuleRack \/ OpenEditor
  \/ \E preset \in Presets : Load(preset)
  \/ SweepTake \/ SweepRead \/ SweepPaint

Spec == Init /\ [][Next]_vars

----------------------------------------------------------------------------
TypeOK ==
  /\ engine \in [base : Asked, live : Values, lfo : BOOLEAN]
  /\ main \in [base : Asked, lfo : BOOLEAN]
  /\ toUI \in Seq(Echoes) /\ Len(toUI) <= EchoCapacity
  /\ toEngine \in Seq(Commands) /\ Len(toEngine) <= CommandCapacity
  /\ {value, shown} \subseteq Values /\ sweep \in {"no", "taken"} \cup Values
  /\ {echoesLost, republishing, modulating, dirty, publishing, chainChanged, current, unpainted, crossed}
       \subseteq BOOLEAN

AudioResting == ~engine.lfo /\ ~modulating /\ ~publishing
RingsEmpty == toUI = <<>> /\ toEngine = <<>> /\ ~echoesLost /\ ~republishing

(* A parameter no LFO drives plays the value somebody chose: no sweep is   *)
(* left behind, whether the LFO is switched off by the host, by the editor *)
(* or by a chain arriving, and no write made meanwhile is half taken.      *)
StoppedPlaysBase == ~engine.lfo => engine.live = engine.base

(* The two Programs are kept level by the rings that carry every edit:     *)
(* once these are empty the copies hold one value and one switch, though   *)
(* each write is taken or ignored by what its copy's LFO does, and echoes  *)
(* were lost and republished.  It is not so after two edits crossed, one   *)
(* made here and one there with neither heard of: each copy then ends on   *)
(* the other's, and stays there until a preset is loaded over settled      *)
(* rings, or a lost echo has everything republished, and no edit crosses   *)
(* that.                                                                   *)
KeptLevel == RingsEmpty /\ ~crossed => main = [base |-> engine.base, lfo |-> engine.lfo]

(* They are so whatever crossed: both are "kept level by toUI_ and         *)
(* toEngine_" (spectrumWorxCLAP.hpp, programMain_).                        *)
LevelWhateverCrossed == RingsEmpty => main = [base |-> engine.base, lfo |-> engine.lfo]

(* The newest value is never lost to a reader that takes the bit while it  *)
(* is being published: with the bit down and nobody at it, the reader has  *)
(* had what the mailbox holds.                                             *)
SweepsMissNothing == ~dirty /\ ~publishing /\ sweep # "taken" => current

(* An LFO that stops leaves its knob at a value somebody chose, unless a   *)
(* resync of the rack dropped the last thing the engine had to say.        *)
Painted == AudioResting /\ RingsEmpty /\ ~chainChanged /\ ~dirty /\ sweep = "no"
KnobComesBack == Painted /\ ~unpainted => shown \in Asked

(* It is so whatever was loaded and when: nothing the mailbox says is late *)
(* (spectrumWorxEditor.cpp, resyncModuleRack).                             *)
NothingIsLate == Painted => shown \in Asked
=============================================================================
