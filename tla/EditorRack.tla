------------------------------ MODULE EditorRack ------------------------------
(***************************************************************************)
(* The rack the editor draws, the chain it draws, and what the host is     *)
(* told of both (gui/editor/spectrumWorxEditor.cpp, spectrumWorxCLAP.cpp). *)
(*                                                                         *)
(* A strip holds a module and stands in a slot.  An edit changes the main  *)
(* thread's chain at once, moves or counts strips at once, and posts the   *)
(* redrawing of the rack; the engine applies it when it next runs; the     *)
(* host hears the selectors the editor queued for it, and is asked to read *)
(* everything again when the engine's chain moved.                         *)
(*                                                                         *)
(* The editor is open, and the engine runs or is stopped throughout.       *)
(* Writes of the host and the editor that cross in the rings are           *)
(* ChainEdits' subject and left out.                                       *)
(***************************************************************************)
EXTENDS ModuleChain

CONSTANTS Starts,      \* the chains an editor may be opened on
          Presets,     \* the chains a preset or a session may hold
          MaxEdits     \* bound: edits, writes, loads and saves of a behaviour

ASSUME ChainsAssumption == Starts \subseteq Chain /\ Presets \subseteq Chain
ASSUME EditsAssumption == MaxEdits \in Nat

VARIABLES
  main,         \* programMain_'s chain: modules, each an object of its own
  engine,       \* program()'s chain, of effects
  running,      \* engineRunning_
  regions,      \* moduleRegions_: a strip or noStrip in each place
  counter,      \* nextAvailableModuleSlot_
  posted,       \* a resyncModuleRack() is in the message queue
  menu,         \* what the open effect menu was opened for
  inverse,      \* the chain edit undo() would carry out
  toEngine, toUI,
  uiEdits,      \* the newest value queued for each selector
  chainChanged, \* chainChangedPending_
  rescan,       \* pendingRescan_
  echoDrain,    \* pendingEchoDrain_
  clearing,     \* its clear is stored and the audio thread does not see it yet
  asked,        \* the host owes a callback
  audio,        \* where process() or paramsFlush() is
  effectChanged,
  thread, via,  \* where drainEngineEvents() is and what called it
  slotMoved,
  told,         \* the selectors as the host knows them
  edits,        \* how many of MaxEdits are spent
  undrawn,      \* an undo the rack does not show yet
  hurried,      \* an edit was made on a rack whose redrawing was posted
  stale         \* slots whose queued selector an undo or a load has overtaken

screen == <<regions, counter, posted, menu, undrawn>>
rings == <<toEngine, toUI, uiEdits>>
flags == <<chainChanged, rescan, echoDrain, clearing, asked>>
marks == <<hurried, stale>>
block == <<audio, effectChanged>>
drain == <<thread, via, slotMoved>>
vars == <<main, engine, running, screen, inverse, rings, flags, block, drain, told, edits,
          marks>>

noStrip == [id |-> 0, slot |-> -1]
noTarget == [action |-> "none"]

Effects(chain) == [k \in DOMAIN chain |-> chain[k].effect]
SelectorsOf(chain) == [slot \in Slot |-> EffectAt(Effects(chain), slot)]

-----------------------------------------------------------------------------
(* Modules and the main thread's chain.                                    *)

Places == 1 .. MaxModules
Ids == 1 .. 3 * MaxModules
InUse == {main[k].id : k \in DOMAIN main} \cup {regions[p].id : p \in Places}

\* new Module: none the chain or a strip still holds.
New(effect, n) ==
  LET free == Ids \ InUse
  IN [id |-> CHOOSE id \in free : Cardinality({j \in free : j <= id}) = n, effect |-> effect]
NewChain(effects) == [k \in DOMAIN effects |-> New(effects[k], k)]

\* One command of editSlot() or editModuleMove(), on this thread's copy.
Edited(chain, command) ==
  IF command.kind = "slot"
    THEN IF EffectAt(Effects(chain), command.slot) = command.effect THEN chain
         ELSE IF command.effect = noModule
           THEN InstallModuleInSlot(chain, command.slot, noModule)
           ELSE InsertAtAndReplace(chain, command.slot, New(command.effect, 1))
    ELSE MoveModule(chain, command.from, command.to)

\* What each would leave for undo(), ahead of what came before it.
InverseOf(chain, command) ==
  IF command.kind = "slot"
    THEN SetSlot(command.slot, EffectAt(Effects(chain), command.slot))
    ELSE Move(command.to, command.from)
OneMore(done, command) ==
  [chain |-> Edited(done.chain, command),
   undo  |-> <<InverseOf(done.chain, command)>> \o done.undo]
Carried(chain, commands) ==
  LET done[n \in 0 .. Len(commands)] ==
        IF n = 0 THEN [chain |-> chain, undo |-> <<>>] ELSE OneMore(done[n - 1], commands[n])
  IN done[Len(commands)]

\* publishSlot(), publishModuleMove(), publishChain().
Publish(commands) ==
  IF running THEN toEngine' = toEngine \o commands /\ UNCHANGED engine
             ELSE engine' = AllApplied(engine, commands) /\ UNCHANGED toEngine

EditChain(commands) ==
  LET carried == Carried(main, commands)
  IN main' = carried.chain /\ inverse' = carried.undo /\ Publish(commands)

-----------------------------------------------------------------------------
(* The rack.                                                               *)

StripsIn(slot) == {p \in Places : regions[p].slot = slot /\ regions[p] # noStrip}
RegionInRackSlot(slot) == Min(StripsIn(slot))
EffectInRackSlot(slot) ==
  IF StripsIn(slot) = {} THEN noModule ELSE regions[RegionInRackSlot(slot)].effect

\* createModuleRegion(): a module that has a strip keeps it and moves; with no
\* place left for a strip it has none.
CreateModuleRegion(strips, module, slot) ==
  LET existing == {p \in Places : strips[p].id = module.id}
      free == {p \in Places : strips[p] = noStrip}
  IN IF existing # {} THEN [strips EXCEPT ![Min(existing)].slot = slot]
     ELSE IF free # {}
            THEN [strips EXCEPT ![Min(free)] =
                    [id |-> module.id, effect |-> module.effect, slot |-> slot]]
     ELSE strips

Resynced(shown, chain) ==
  LET kept == [p \in Places |->
                 IF \E k \in DOMAIN chain : chain[k].id = shown[p].id
                   THEN shown[p] ELSE noStrip]
      strips[k \in 0 .. Len(chain)] ==
        IF k = 0 THEN kept ELSE CreateModuleRegion(strips[k - 1], chain[k], k - 1)
  IN strips[Len(chain)]

\* Mutant: an open menu is left open.
ResyncUnderMenu(chain) ==
  /\ regions' = Resynced(regions, chain)
  /\ counter' = Len(chain)
  /\ undrawn' = FALSE
  /\ UNCHANGED menu

\* resyncModuleRack(), which dismisses an open menu.
ResyncModuleRack(chain) ==
  /\ regions' = Resynced(regions, chain)
  /\ counter' = Len(chain)
  /\ menu' = noTarget
  /\ undrawn' = FALSE

-----------------------------------------------------------------------------
(* What the host is told.                                                  *)

\* moduleChangedByUser(), for each slot of a function.
Over(newer, older) ==
  [slot \in DOMAIN newer \cup DOMAIN older |->
     IF slot \in DOMAIN newer THEN newer[slot] ELSE older[slot]]
ModulesChangedByUser(selectors) ==
  /\ uiEdits' = Over(selectors, uiEdits)
  /\ stale' = stale \ DOMAIN selectors
NoneChangedByUser == UNCHANGED <<uiEdits, stale>>

\* requestRescan(): one callback for a batch.
RequestRescan == rescan' = TRUE /\ asked' = (asked \/ ~rescan)

\* chainChanged().
ChainChanged == chainChanged' = TRUE /\ RequestRescan

-----------------------------------------------------------------------------
(* The user.                                                               *)

\* A click the message loop delivers, with the engine's owner elsewhere, no
\* write of the host's on its way and the last undo drawn: until the callback
\* that draws one, counter is not the chain's and an edit would miss.
MainFree == thread = "idle" /\ (running \/ audio = "idle")
Clicked ==
  /\ MainFree /\ edits < MaxEdits /\ edits' = edits + 1
  /\ toUI = <<>> /\ ~undrawn
  /\ hurried' = (hurried \/ posted)
\* What an undo or a load leaves queued is older than the chain it makes.
Overtakes == stale' = stale \cup DOMAIN uiEdits /\ UNCHANGED uiEdits
Untouched == UNCHANGED <<running, toUI, block, drain, told>>

\* refreshModuleRackAsync().
RefreshModuleRackAsync == posted' = TRUE

\* removeModule(): a strip off the end of the chain is only redrawn, and every
\* selector from the strip's on is told of the effect after it.
RemoveModule(p) ==
  /\ Clicked /\ menu = noTarget /\ regions[p] # noStrip
  /\ LET slot == regions[p].slot
     IN IF slot >= counter
          THEN NoneChangedByUser /\ UNCHANGED <<main, engine, inverse, toEngine, counter>>
          ELSE /\ EditChain(<<SetSlot(slot, noModule)>>)
               /\ ModulesChangedByUser([s \in slot .. counter - 1 |-> EffectInRackSlot(s + 1)])
               /\ counter' = counter - 1
  /\ RefreshModuleRackAsync
  /\ UNCHANGED <<regions, menu, undrawn, flags>> /\ Untouched

\* effectMenuTargetAt() and the add button: a strip, a gap before one or the
\* end of the rack, as far as the rack has room.
Targets ==
  {[action |-> "replace", slot |-> slot, id |-> IF StripsIn(slot) = {} THEN 0
                                               ELSE regions[RegionInRackSlot(slot)].id] :
     slot \in 0 .. counter - 1}
  \cup (IF counter < MaxModules
          THEN {[action |-> "insert", slot |-> gap] : gap \in 0 .. counter - 1}
                 \cup {[action |-> "append"]}
          ELSE {})
ShowEffectMenu(target) ==
  /\ MainFree /\ edits < MaxEdits /\ target \in Targets
  /\ menu' = target
  /\ UNCHANGED <<main, engine, running, regions, counter, posted, undrawn, inverse, rings,
                 flags, block, drain, told, edits, marks>>

\* addUserAddedModule().
AddUserAddedModule(effect) ==
  /\ EditChain(<<SetSlot(counter, effect)>>)
  /\ ModulesChangedByUser([s \in {counter} |-> effect])
  /\ counter' = counter + 1
  /\ RefreshModuleRackAsync

\* A choice that no longer applies: nothing is told, nothing redrawn.
Ignored == NoneChangedByUser /\ UNCHANGED <<main, engine, inverse, toEngine, counter, posted>>

\* replaceModuleInSlot(): a strip that is there, and another effect.
ReplaceModuleInSlot(slot, effect) ==
  IF slot >= counter \/ EffectInRackSlot(slot) = effect
    THEN Ignored
    ELSE /\ EditChain(<<SetSlot(slot, effect)>>)
         /\ ModulesChangedByUser([s \in {slot} |-> effect])
         /\ UNCHANGED counter
         /\ RefreshModuleRackAsync

\* insertModuleAtGap(): added on the end and moved, the strips left alone.
InsertModuleAtGap(gap, effect) ==
  IF gap >= counter \/ counter >= MaxModules
    THEN Ignored
    ELSE /\ EditChain(<<SetSlot(counter, effect), Move(counter, gap)>>)
         /\ ModulesChangedByUser([s \in gap .. counter |->
              IF s = gap THEN effect ELSE EffectInRackSlot(s - 1)])
         /\ counter' = counter + 1
         /\ RefreshModuleRackAsync

\* The effect chosen from the menu, which is then gone.
ApplyEffectMenuChoice(effect) ==
  /\ Clicked /\ menu # noTarget
  /\ CASE menu.action = "replace" -> ReplaceModuleInSlot(menu.slot, effect)
       [] menu.action = "insert"  -> InsertModuleAtGap(menu.slot, effect)
       [] menu.action = "append"  -> AddUserAddedModule(effect)
  /\ menu' = noTarget
  /\ UNCHANGED <<regions, undrawn, flags>> /\ Untouched

\* moveModuleSlot(): the strips first and the chain second.
MoveModuleSlot(from, to) ==
  LET step == IF from < to THEN -1 ELSE 1
      between == Min({from, to}) .. Max({from, to})
      moved == [p \in Places |->
                  IF regions[p] = noStrip \/ regions[p].slot \notin between THEN regions[p]
                  ELSE IF regions[p].slot = from THEN [regions[p] EXCEPT !.slot = to]
                  ELSE [regions[p] EXCEPT !.slot = @ + step]]
      in(slot) == {p \in Places : moved[p] # noStrip /\ moved[p].slot = slot}
  IN /\ regions' = moved
     /\ EditChain(<<Move(from, to)>>)
     /\ ModulesChangedByUser([slot \in between |->
          IF in(slot) = {} THEN noModule ELSE moved[Min(in(slot))].effect])

\* swapModuleSlots(): two moves, or one when they are neighbours.
SwapModuleSlots(a, b) ==
  LET first == Min({a, b})
      second == Max({a, b})
      pFirst == RegionInRackSlot(first)
      pSecond == RegionInRackSlot(second)
  IN IF StripsIn(first) = {} \/ StripsIn(second) = {}
       THEN NoneChangedByUser /\ UNCHANGED <<main, engine, inverse, toEngine, regions>>
       ELSE /\ regions' = [regions EXCEPT ![pFirst].slot = second, ![pSecond].slot = first]
            /\ EditChain(<<Move(first, second)>> \o
                 IF second - 1 # first THEN <<Move(second - 1, first)>> ELSE <<>>)
            /\ ModulesChangedByUser([s \in {first, second} |->
                 regions[IF s = first THEN pSecond ELSE pFirst].effect])

\* moduleDropAt(): a swap with another strip or an insertion at a gap that is
\* not its own, in a rack of two or more.
SwapAt(slot) == [action |-> "swap", slot |-> slot]
InsertAtGap(gap) == [action |-> "insert", slot |-> gap]
Drops(source) ==
  IF counter < 2 \/ source >= counter THEN {}
  ELSE {SwapAt(slot) : slot \in 0 .. counter - 1 \ {source}}
         \cup {InsertAtGap(gap) : gap \in 0 .. counter \ {source, source + 1}}

\* applyModuleDrop(), where taking the strip out closes the gaps after it.
ApplyModuleDrop(p, drop) ==
  /\ Clicked /\ menu = noTarget /\ regions[p] # noStrip
  /\ drop \in Drops(regions[p].slot)
  /\ LET source == regions[p].slot
     IN IF drop.action = "swap" THEN SwapModuleSlots(source, drop.slot)
        ELSE MoveModuleSlot(source, IF drop.slot > source THEN drop.slot - 1 ELSE drop.slot)
  /\ RefreshModuleRackAsync
  /\ UNCHANGED <<counter, menu, undrawn, flags>> /\ Untouched

\* undo() of the last chain edit, or redo() of what that undid: nothing is
\* posted, the rack follows the announcement.
Undo ==
  /\ Clicked /\ menu = noTarget /\ inverse # <<>>
  /\ EditChain(inverse) /\ Overtakes
  /\ ChainChanged
  /\ undrawn' = TRUE
  /\ UNCHANGED <<regions, counter, posted, menu, echoDrain, clearing>> /\ Untouched

\* A preset or a session: the chain replaced here and swapped into the engine,
\* and the host asked to read only when there is no engine to say so later.
LoadPreset(effects) ==
  /\ Clicked /\ Overtakes
  /\ main' = NewChain(effects)
  /\ inverse' = <<>>
  /\ Publish(<<SwapChain(effects)>>)
  /\ counter' = Len(effects)
  /\ menu' = noTarget
  /\ RefreshModuleRackAsync
  /\ IF running THEN UNCHANGED <<rescan, asked>> ELSE RequestRescan
  /\ UNCHANGED <<regions, undrawn, chainChanged, echoDrain, clearing>> /\ Untouched

-----------------------------------------------------------------------------
(* The message loop and the host's callback, on the main thread.           *)

\* The posted resyncModuleRack().
RefreshMessage ==
  /\ MainFree /\ posted
  /\ ResyncModuleRack(main)
  /\ posted' = FALSE
  /\ UNCHANGED <<main, engine, running, inverse, rings, flags, block, drain, told, edits, marks>>

\* Mutant: the request for a drain is not cleared.
OnMainThreadUncleared ==
  /\ MainFree /\ asked
  /\ asked' = FALSE /\ UNCHANGED <<echoDrain, clearing>>
  /\ thread' = "drain" /\ via' = "callback"
  /\ UNCHANGED <<main, engine, running, screen, inverse, rings, chainChanged, rescan, block,
                 slotMoved, told, edits, marks>>

\* onMainThread() begins.  The clear of the request for a drain is a release
\* store, which the loads of the drain may overtake.
OnMainThread ==
  /\ MainFree /\ asked
  /\ asked' = FALSE
  /\ \/ echoDrain' = FALSE /\ UNCHANGED clearing
     \/ clearing' = TRUE /\ UNCHANGED echoDrain
  /\ thread' = "drain" /\ via' = "callback"
  /\ UNCHANGED <<main, engine, running, screen, inverse, rings, chainChanged, rescan, block,
                 slotMoved, told, edits, marks>>

ClearBecomesVisible ==
  /\ clearing
  /\ clearing' = FALSE /\ echoDrain' = FALSE
  /\ UNCHANGED <<main, engine, running, screen, inverse, rings, chainChanged, rescan, asked,
                 block, drain, told, edits, marks>>

\* stateSave(), which drains and announces nothing itself.
StateSave ==
  /\ MainFree /\ edits < MaxEdits /\ edits' = edits + 1
  /\ thread' = "drain" /\ via' = "save"
  /\ UNCHANGED <<main, engine, running, screen, inverse, rings, flags, block, slotMoved, told,
                 marks>>

\* drainEchoes(), one echo of a slot selector. A chain the host edited has no
\* undo here.
DrainEcho ==
  /\ thread = "drain" /\ toUI # <<>>
  /\ toUI' = Tail(toUI)
  /\ main' = Edited(main, Head(toUI))
  /\ slotMoved' = (slotMoved \/ SelectorsOf(main') # SelectorsOf(main))
  /\ inverse' = IF SelectorsOf(main') # SelectorsOf(main) THEN <<>> ELSE inverse
  /\ UNCHANGED <<engine, running, screen, toEngine, uiEdits, flags, block, thread, via, told,
                 edits, marks>>

\* drainEchoes() finds the ring empty.
DrainEchoesDone ==
  /\ thread = "drain" /\ toUI = <<>>
  /\ thread' = "drained"
  /\ UNCHANGED <<main, engine, running, screen, inverse, rings, flags, block, via, slotMoved,
                 told, edits, marks>>

\* Mutant: only the engine's own announcement is passed on.
DrainDoneUnannounced ==
  /\ thread = "drained" /\ ~clearing
  /\ UNCHANGED <<rescan, asked>>
  /\ chainChanged' = FALSE
  /\ IF chainChanged \/ slotMoved THEN ResyncModuleRack(main)
                                  ELSE UNCHANGED <<regions, counter, menu, undrawn>>
  /\ slotMoved' = FALSE
  /\ thread' = IF via = "callback" THEN "rescan" ELSE "idle"
  /\ via' = IF via = "callback" THEN via ELSE "none"
  /\ UNCHANGED <<main, engine, running, posted, inverse, rings, echoDrain, clearing, block, told,
                 edits, marks>>

\* Mutant: the rack waits for the engine's announcement.
DrainDoneUndrawn ==
  /\ thread = "drained" /\ ~clearing
  /\ IF slotMoved THEN RequestRescan ELSE UNCHANGED <<rescan, asked>>
  /\ chainChanged' = FALSE
  /\ IF chainChanged THEN ResyncModuleRack(main)
                                  ELSE UNCHANGED <<regions, counter, menu, undrawn>>
  /\ slotMoved' = FALSE
  /\ thread' = IF via = "callback" THEN "rescan" ELSE "idle"
  /\ via' = IF via = "callback" THEN via ELSE "none"
  /\ UNCHANGED <<main, engine, running, posted, inverse, rings, echoDrain, clearing, block, told,
                 edits, marks>>

\* The rest of drainEngineEvents(), which the exchange of echoesLost_ begins, a
\* locked operation that no store outlives: a slot that moved is announced, and
\* the rack redrawn for it or for a chain the engine changed.
DrainDone ==
  /\ thread = "drained" /\ ~clearing
  /\ IF slotMoved THEN RequestRescan ELSE UNCHANGED <<rescan, asked>>
  /\ chainChanged' = FALSE
  /\ IF chainChanged \/ slotMoved THEN ResyncModuleRack(main)
                                  ELSE UNCHANGED <<regions, counter, menu, undrawn>>
  /\ slotMoved' = FALSE
  /\ thread' = IF via = "callback" THEN "rescan" ELSE "idle"
  /\ via' = IF via = "callback" THEN via ELSE "none"
  /\ UNCHANGED <<main, engine, running, posted, inverse, rings, echoDrain, clearing, block, told,
                 edits, marks>>

\* The end of onMainThread(): the host reads every selector of this copy.
ParamsRescan ==
  /\ thread = "rescan"
  /\ IF rescan THEN told' = SelectorsOf(main) /\ stale' = stale \cap DOMAIN uiEdits
               ELSE UNCHANGED <<told, stale>>
  /\ rescan' = FALSE
  /\ thread' = "idle" /\ via' = "none"
  /\ UNCHANGED <<main, engine, running, screen, inverse, rings, chainChanged, echoDrain, clearing,
                 asked, block, slotMoved, edits, hurried>>

-----------------------------------------------------------------------------
(* process(), or paramsFlush().                                            *)

\* drainCommands(): each command changes the chain and says so. A block with
\* nothing to take in and no write to come is a stutter.
EnterEngine ==
  /\ audio = "idle" /\ (running \/ thread = "idle")
  /\ toEngine # <<>> \/ DOMAIN uiEdits # {} \/ edits < MaxEdits
  /\ audio' = "events" /\ effectChanged' = FALSE
  /\ engine' = AllApplied(engine, toEngine)
  /\ toEngine' = <<>>
  /\ IF toEngine # <<>> THEN ChainChanged ELSE UNCHANGED <<chainChanged, rescan, asked>>
  /\ UNCHANGED <<main, running, screen, inverse, toUI, uiEdits, echoDrain, clearing, drain, told, edits,
                 marks>>

\* handleEvent() for a selector the engine takes, and its echo.
HandleEvent(slot, effect) ==
  /\ audio = "events" /\ edits < MaxEdits /\ edits' = edits + 1
  /\ toEngine = <<>> /\ DOMAIN uiEdits = {}
  /\ SelectorAllowed(engine, slot, effect) /\ EffectAt(engine, slot) # effect
  /\ engine' = SetParameter(engine, slot, effect)
  /\ effectChanged' = TRUE
  /\ toUI' = Append(toUI, SetSlot(slot, effect))
  /\ echoDrain' = TRUE /\ asked' = (asked \/ ~echoDrain)
  /\ told' = [told EXCEPT ![slot] = effect]
  /\ UNCHANGED <<main, running, screen, inverse, toEngine, uiEdits, chainChanged, rescan, clearing,
                 audio, drain, marks>>

\* After the last event; an inactive plug-in drains its engine's events itself.
\* With nothing to flush the block is over.
EventsDone ==
  /\ audio = "events"
  /\ audio' = IF DOMAIN uiEdits = {} THEN "idle" ELSE "flush"
  /\ effectChanged' = FALSE
  /\ IF effectChanged THEN ChainChanged ELSE UNCHANGED <<chainChanged, rescan, asked>>
  /\ IF running THEN UNCHANGED <<thread, via>> ELSE thread' = "drain" /\ via' = "flush"
  /\ UNCHANGED <<main, engine, running, screen, inverse, rings, echoDrain, clearing, slotMoved, told, edits,
                 marks>>

FlushUIEdits ==
  /\ audio = "flush" /\ (running \/ thread = "idle")
  /\ audio' = "idle"
  /\ told' = Over(uiEdits, told)
  /\ uiEdits' = <<>>
  /\ UNCHANGED <<main, engine, running, screen, inverse, toEngine, toUI, flags, effectChanged,
                 drain, edits, marks>>

-----------------------------------------------------------------------------
\* An editor opened on a plug-in that holds a chain the host knows of.
Init ==
  /\ running \in BOOLEAN
  /\ engine \in Starts
  /\ main = [k \in DOMAIN engine |-> [id |-> k, effect |-> engine[k]]]
  /\ regions = [p \in Places |-> IF p <= Len(engine)
                  THEN [id |-> p, effect |-> engine[p], slot |-> p - 1] ELSE noStrip]
  /\ counter = Len(engine) /\ posted = FALSE /\ menu = noTarget /\ undrawn = FALSE
  /\ inverse = <<>> /\ toEngine = <<>> /\ toUI = <<>> /\ uiEdits = <<>>
  /\ chainChanged = FALSE /\ rescan = FALSE /\ echoDrain = FALSE
  /\ clearing = FALSE /\ asked = FALSE
  /\ audio = "idle" /\ effectChanged = FALSE
  /\ thread = "idle" /\ via = "none" /\ slotMoved = FALSE
  /\ told = [slot \in Slot |-> EffectAt(engine, slot)]
  /\ edits = 0 /\ hurried = FALSE /\ stale = {}

User ==
  \/ \E p \in Places : RemoveModule(p) \/ \E drop \in
       {SwapAt(s) : s \in Slot} \cup {InsertAtGap(g) : g \in 0 .. MaxModules} :
         ApplyModuleDrop(p, drop)
  \/ \E target \in Targets : ShowEffectMenu(target)
  \/ \E effect \in Effect : ApplyEffectMenuChoice(effect)
  \/ Undo
  \/ \E effects \in Presets : LoadPreset(effects)
Host == \E slot \in Slot, effect \in Effect \cup {noModule} : HandleEvent(slot, effect)
Next ==
  \/ User \/ Host
  \/ RefreshMessage \/ OnMainThread \/ ClearBecomesVisible \/ StateSave
  \/ DrainEcho \/ DrainEchoesDone \/ DrainDone \/ ParamsRescan
  \/ EnterEngine \/ EventsDone \/ FlushUIEdits

Spec == Init /\ [][Next]_vars

-----------------------------------------------------------------------------
Effectless == Effect \cup {noModule}
TypeOK ==
  /\ Effects(main) \in Chain /\ engine \in Chain
  /\ \A k \in DOMAIN main : main[k].id \in Ids
  /\ counter \in 0 .. MaxModules
  /\ DOMAIN uiEdits \subseteq Slot /\ \A s \in DOMAIN uiEdits : uiEdits[s] \in Effectless
  /\ told \in [Slot -> Effectless]
  /\ {running, posted, undrawn, chainChanged, rescan, echoDrain, clearing, asked, effectChanged,
      slotMoved, hurried} \subseteq BOOLEAN
  /\ stale \subseteq Slot
  /\ audio \in {"idle", "events", "flush"} /\ thread \in {"idle", "drain", "drained", "rescan"}

(* With no redrawing on its way the rack is the main thread's chain: a     *)
(* strip for every module, in its slot, and the add button after the last. *)
Drawn == {[id |-> main[k].id, effect |-> main[k].effect, slot |-> k - 1] : k \in DOMAIN main}
RackIsDrawn ==
  thread \notin {"drain", "drained"} /\ ~undrawn =>
    /\ counter = Len(main)
    /\ ~posted => /\ {regions[p] : p \in Places} \ {noStrip} = Drawn
                  /\ Cardinality({p \in Places : regions[p] # noStrip}) = Len(main)

(* Nothing waits for the main thread without a callback on its way, but an *)
(* echo that was pushed while the clear of its flag was overtaken: that    *)
(* one waits with the flag down, so that the next asks for both.           *)
CallbackOwed ==
  thread = "idle" => /\ rescan \/ undrawn => asked
                     /\ toUI # <<>> => asked \/ ~echoDrain

(* When everything on its way has arrived, the host's selectors, the       *)
(* engine's chain and the one that is shown and saved are the same, whoever *)
(* edited what, provided no edit was made on a rack still to be redrawn;   *)
(* except, for the host, in a slot whose selector was still queued when an *)
(* undo or a load changed the chain behind it.  A rescan made after the    *)
(* queue is flushed, or another edit of the slot, puts that right as well. *)
AtRest ==
  /\ audio = "idle" /\ thread = "idle" /\ ~asked
  /\ toEngine = <<>> /\ toUI = <<>> /\ DOMAIN uiEdits = {}
HostKnowsSlots ==
  AtRest /\ ~hurried =>
    /\ engine = Effects(main)
    /\ \A slot \in Slot \ stale : told[slot] = SelectorsOf(main)[slot]

(* The same of every slot, as a rescan's answer is taken to be the last    *)
(* word: it is not, for selectors are flushed to the host after it.        *)
HostKnowsEverySlot == AtRest /\ ~hurried => told = SelectorsOf(main)

(* On a rack that is drawn an edit is one change of the chain, of what was *)
(* pointed at: the strip clicked is what goes, the strip a menu was opened *)
(* over is what is replaced whatever happened while it was open, an effect *)
(* goes in before the strip right of its gap or after the last, a strip    *)
(* dropped on another trades places with it though the chain only moves.   *)
EditsTakeWhatWasPointedAt ==
  [][ ~hurried' =>
      /\ \A p \in Places : RemoveModule(p) =>
           \E k \in DOMAIN main : main[k].id = regions[p].id /\ main' = RemoveAt(main, k)
      /\ \A effect \in Effect : ApplyEffectMenuChoice(effect) =>
           CASE menu.action = "replace" ->
                  \E k \in DOMAIN main :
                    /\ main[k].id = menu.id /\ main'[k].effect = effect
                    /\ main' = [main EXCEPT ![k] = main'[k]]
             [] menu.action = "insert" ->
                  Effects(main') = InsertAt(Effects(main), menu.slot + 1, effect)
             [] menu.action = "append" -> Effects(main') = Append(Effects(main), effect)
      /\ \A p, q \in Places :
           regions[q] # noStrip /\ ApplyModuleDrop(p, SwapAt(regions[q].slot)) =>
             main' = [k \in DOMAIN main |->
                        CASE main[k].id = regions[p].id -> main[regions[q].slot + 1]
                          [] main[k].id = regions[q].id -> main[regions[p].slot + 1]
                          [] OTHER -> main[k]] ]_vars

=============================================================================
