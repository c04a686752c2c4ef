-------------------------------- MODULE LfoSync --------------------------------
(***************************************************************************)
(* One synced LFO in the two Programs, and the meter they are read in.     *)
(* The audio thread's timer follows the host's meter and snaps the         *)
(* engine's period when it changes; every write, by whichever route,       *)
(* snaps onto the grid of the moment, in each copy by itself.              *)
(*                                                                         *)
(* A write and one going the other way do not cross here (that is          *)
(* ParameterEcho's subject): see Uncrossed.                                *)
(***************************************************************************)
EXTENDS LfoPeriod, Sequences

CONSTANTS Asked,            \* the periods a host or a panel may name
          Choices,          \* the sync types they may: one grid, or none
          Files,            \* presets from elsewhere: [sync, period]
          EchoCapacity,     \* bound: of toUI_
          CommandCapacity   \* bound: of toEngine_

ASSUME AskedAssumption == \A p \in Asked : isValidValue(p)
ASSUME ChoicesAssumption == Choices \subseteq {Free} \cup {{grid} : grid \in Grids}
\* The default stands for a period the file does not name.
ASSUME FilesAssumption == Files \subseteq [sync : SUBSET Grids, period : Nat]
ASSUME CapacityAssumption == EchoCapacity \in Nat \ {0} /\ CommandCapacity \in Nat \ {0}

VARIABLES engine, main,     \* the LFO in program_ and in programMain_
          toUI, toEngine,   \* what is on its way between them
          echoesLost,
          meter,            \* lfoTimer().measureNumerator()
          established,      \* timingInformationEstablished_
          stated,           \* the meter the host last stated; 0 for none yet
          placed,           \* history: the meter the engine's period was placed in
          level             \* history: both have been given a period in this meter,
                            \* and no second snap has moved one of them since

rings == <<toUI, toEngine, echoesLost>>
timer == <<meter, established, stated>>
syncVars == <<engine, main, rings, timer, placed, level>>

\* A snap does not look at the range: in a meter of many beats the shortest
\* notes are outside it.
Notes == UNION {GridPoints(grid, n) : grid \in Grids, n \in Meters \cup {reference}}
LFO == [sync : SUBSET Grids, period : Periods \cup Notes]
Writes == [what : {"sync"}, to : Choices] \cup [what : {"period"}, to : Asked]

----------------------------------------------------------------------------
(* A write, in either copy.                                                *)

\* Mutant: the period is left on the grid of the old sync type.
SyncLeavesPeriod(lfo, write) ==
  IF write.what = "sync" THEN [lfo EXCEPT !.sync = write.to]
  ELSE [lfo EXCEPT !.period = snapPeriodScale(write.to, lfo.sync, meter)]
\* setAutomatedLFOParameter(): a period snaps as it is written, and one that
\* stands when its sync type is written is moved onto the new grid.
setAutomatedLFOParameter(lfo, write) ==
  IF write.what = "sync"
    THEN [sync |-> write.to,
          period |-> IF write.to = Free THEN lfo.period
                     ELSE snapPeriodScale(lfo.period, write.to, meter)]
  ELSE [lfo EXCEPT !.period = snapPeriodScale(write.to, lfo.sync, meter)]

\* An echo, or none and the word that one was lost.
Echo(messages) ==
  LET room == EchoCapacity - Len(toUI)
      sent == Smaller(room, Len(messages))
  IN /\ toUI' = toUI \o SubSeq(messages, 1, sent)
     /\ echoesLost' = (echoesLost \/ sent < Len(messages))

Agreeing(write, lfo) == IF write.what = "period" THEN TRUE ELSE level

\* A snap leaves the period where it is.
Stands(lfo) == snapPeriodScale(lfo.period, lfo.sync, meter) = lfo.period
\* The main thread's copy is still to be given the engine's period.
PeriodComing ==
  \/ echoesLost \/ \E i \in DOMAIN toEngine : toEngine[i].what = "republish"
  \/ \E i \in DOMAIN toUI : toUI[i].what = "period"

\* What is queued for the other side is not a write of this parameter.
Uncrossed(ring) == \A i \in DOMAIN ring : ring[i].what = "republish"

HostWrites(write) ==
  /\ Uncrossed(toEngine)
  /\ engine' = setAutomatedLFOParameter(engine, write)
  /\ Echo(<<write>>)
  /\ placed' = meter
  /\ level' = Agreeing(write, engine)
  /\ UNCHANGED <<main, toEngine, timer>>

EditorWrites(write) ==
  /\ toUI = <<>> /\ ~echoesLost /\ Len(toEngine) < CommandCapacity
  /\ \A i \in DOMAIN toEngine : toEngine[i].what # "republish"
  /\ main' = setAutomatedLFOParameter(main, write)
  /\ toEngine' = Append(toEngine, write)
  /\ level' = Agreeing(write, main)
  /\ UNCHANGED <<engine, toUI, echoesLost, timer, placed>>

\* The open panel redraws itself from the period, and writes back what it drew.
updatePeriodControl ==
  /\ main' = [main EXCEPT !.period = snapPeriodScale(@, main.sync, meter)]
  /\ level' = (level /\ (Stands(main) \/ PeriodComing))
  /\ UNCHANGED <<engine, rings, timer, placed>>

----------------------------------------------------------------------------
(* The rings.                                                              *)

drainEchoes ==
  /\ toUI # <<>>
  /\ main' = setAutomatedLFOParameter(main, Head(toUI))
  /\ toUI' = Tail(toUI)
  /\ UNCHANGED <<engine, toEngine, echoesLost, timer, placed, level>>

AskForRepublish ==
  /\ toUI = <<>> /\ echoesLost /\ Len(toEngine) < CommandCapacity
  /\ echoesLost' = FALSE
  /\ toEngine' = Append(toEngine, [what |-> "republish"])
  /\ UNCHANGED <<engine, main, toUI, timer, placed, level>>

\* Mutant: in the order of the parameters, the period before its sync type.
InParameterOrder(lfo) ==
  <<[what |-> "period", to |-> lfo.period], [what |-> "sync", to |-> lfo.sync]>>
\* republishParameters(): a period follows the sync type it is written under.
Republished(lfo) ==
  <<[what |-> "sync", to |-> lfo.sync], [what |-> "period", to |-> lfo.period]>>

drainCommands ==
  /\ toEngine # <<>>
  /\ toEngine' = Tail(toEngine)
  /\ LET command == Head(toEngine)
     IN CASE command.what = "republish" ->
               Echo(Republished(engine)) /\ level' = (level /\ Stands(engine))
               /\ UNCHANGED <<engine, placed>>
          [] command.what = "chain" ->
               engine' = command.to.lfo /\ placed' = command.to.meter
               /\ UNCHANGED <<toUI, echoesLost, level>>
          [] OTHER ->
               engine' = setAutomatedLFOParameter(engine, command) /\ placed' = meter
               /\ UNCHANGED <<toUI, echoesLost, level>>
  /\ UNCHANGED <<main, timer>>

----------------------------------------------------------------------------
(* Sessions and presets.                                                   *)

\* Mutant: in the order of the parameters, so under the sync type before.
loadInParameterOrder(file) ==
  LET asked == snapPeriodScale(file.period, {Quarter}, meter)
  IN [sync |-> file.sync,
      period |-> IF file.period # Default /\ isValidValue(asked) THEN asked ELSE Default]
\* The period is loaded after its sync type; one that is not a period the
\* range has is the default's, and so is one the file does not name.
loadLFO(file) ==
  LET asked == snapPeriodScale(file.period, file.sync, meter)
  IN [sync |-> file.sync,
      period |-> IF file.period # Default /\ isValidValue(asked) THEN asked ELSE Default]

\* Each copy is built from the file, and the engine's is queued whole.
Load(file) ==
  /\ toUI = <<>> /\ ~echoesLost /\ Len(toEngine) < CommandCapacity
  /\ \A i \in DOMAIN toEngine : toEngine[i].what # "republish"
  /\ main' = loadLFO(file)
  /\ toEngine' = Append(toEngine, [what |-> "chain", to |-> [lfo |-> main', meter |-> meter]])
  /\ level' = TRUE
  /\ UNCHANGED <<engine, toUI, echoesLost, timer, placed>>

----------------------------------------------------------------------------
(* The timer.                                                              *)

\* establishedChange(): the first timing is stated, not changed.
establishedChange(n) == established /\ n # meter

\* updateLFOTiming(): a block that states a meter, or none, which is 4/4.
updateLFOTiming(n) ==
  /\ meter' = n /\ established' = TRUE /\ stated' = n
  /\ IF establishedChange(n) /\ engine.sync # Free
       THEN engine' = [engine EXCEPT !.period = snapPeriodScale(@, engine.sync, n)]
       ELSE UNCHANGED engine
  /\ placed' = IF establishedChange(n) THEN n ELSE placed
  /\ level' = (level /\ n = meter)
  /\ UNCHANGED <<main, rings>>

\* A host's reset(): the timer is back at its assumption.
ResetTimer ==
  /\ meter' = reference
  /\ level' = (level /\ meter = reference)
  /\ UNCHANGED <<engine, main, rings, established, stated, placed>>

----------------------------------------------------------------------------
SyncInit ==
  /\ engine = [sync |-> {Quarter}, period |-> Default] /\ main = engine
  /\ toUI = <<>> /\ toEngine = <<>> /\ echoesLost = FALSE
  /\ meter = reference /\ established = FALSE /\ stated = 0
  /\ placed = reference /\ level = TRUE

SyncNext ==
  \/ \E write \in Writes : HostWrites(write) \/ EditorWrites(write)
  \/ updatePeriodControl
  \/ drainEchoes \/ AskForRepublish \/ drainCommands
  \/ \E file \in Files \cup {main} : Load(file)
  \/ \E n \in Meters : updateLFOTiming(n)
  \/ ResetTimer

SyncSpec == SyncInit /\ [][SyncNext]_syncVars

----------------------------------------------------------------------------
SyncTypes ==
  /\ engine \in LFO /\ main \in LFO
  /\ Len(toUI) <= EchoCapacity /\ Len(toEngine) <= CommandCapacity
  /\ meter \in Meters \cup {reference} /\ stated \in Meters \cup {0}
  /\ established \in BOOLEAN /\ echoesLost \in BOOLEAN
  /\ placed \in Meters \cup {reference} /\ level \in BOOLEAN

\* A note of up to a bar: a second snap leaves it where it is in any meter, and
\* in a meter of up to four beats it leaves the longer ones too.
UpToABar(period, grid) == period * ToNote(grid)[1] <= Bar * ToNote(grid)[2]

(* What the engine plays is a note of the meter it was last placed in,     *)
(* whatever order writes, sync types, presets and changes of meter came    *)
(* in; or the default, which a file that names no period of the range is   *)
(* given.  It is placed in the present meter by every write and by every   *)
(* change of meter, but not by the first one stated, by a reset(), or by a *)
(* preset read in one meter and drained in another: those three leave it.  *)
EngineOnGrid ==
  \/ engine.sync = Free \/ engine.period = Default
  \/ \E grid \in engine.sync : engine.period \in GridPoints(grid, placed)

(* Each copy snaps for itself, and they still agree: once the rings are    *)
(* empty, a period given in this meter is the same in both, lost echoes    *)
(* made up for and the panel's own writing back included.  It no longer    *)
(* is when one of them, as a panel's and a republished one do, went        *)
(* through a second snap that moved it.                                    *)
CopiesAgree ==
  level /\ toUI = <<>> /\ toEngine = <<>> /\ ~echoesLost => engine = main

(* A host that keeps to one meter has its periods left alone by every      *)
(* block, the first one after a reset() included.                          *)
SteadyMeterMovesNothing ==
  [][\A n \in Meters : updateLFOTiming(n) /\ stated \in {0, n} => engine' = engine]_syncVars

(* A note of the range comes back from a session saved and loaded in its   *)
(* meter where it was: one of up to a bar in every meter, and any of them  *)
(* in a meter of up to four beats.                                         *)
ReloadMovesNothing ==
  [][Load(main) /\ isValidValue(main.period)
     /\ (\E grid \in main.sync : /\ main.period \in GridPoints(grid, meter)
                                 /\ UpToABar(main.period, grid) \/ meter <= reference)
       => main' = main]_syncVars

(* A period of the range reads back as the note it is printed as, on the   *)
(* grid it was printed on: up to a bar in every meter, and any of them in  *)
(* four four.                                                              *)
PrintedReadsBack ==
  engine.sync # Free =>
    LET snapped == snapSyncedPeriod(engine.period, engine.sync, meter)
        note == printSyncedPeriodScale(engine.period, engine.sync, meter)
    IN isValidValue(snapped.period) /\ (UpToABar(snapped.period, note.grid) \/ meter = reference)
         => parsePeriodScale(note, meter) = snapped
=============================================================================
