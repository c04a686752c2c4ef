# SpectrumWorx in TLA+

SpectrumWorx is a spectral multi-effect: a CLAP audio plug-in that cuts its input
into overlapping FFT frames and sends each one through a chain of up to five
modules. This directory models the parts of it that a test hardly reaches: what
two threads, four rings, a host and a user can do to one another between two
function calls. Paths below are relative to the repository; `C` stands for
`src/spectrumWorxCLAP.cpp`.

    tlc -workers 2 -config MCSideChain.cfg MCSideChain     # check one run
    tlapm SideChainProofs.tla                              # check one module's proofs

## The system

Two threads share the plug-in. The **main thread** runs the host's calls, the
editor and undo; the **audio thread** renders. Each owns a `Program` (parameters
and chain): `programMain_` is the main thread's and is what is shown and saved,
`program_` is the engine's while the plug-in is active. Nothing is locked. They
talk through four single-producer single-consumer rings:

| ring | from → to | carries | drained by |
|---|---|---|---|
| `ToEngine`, 1024 | main → audio | values, slots, chains, moves, samples, the republish request | `drainCommands()`: first thing in a block, a flush, `deactivate()` |
| `ToUI`, 16k | audio → main | echoes of what the engine took from the host | `drainEngineEvents()`: `onMainThread()`, activate, deactivate, state save, an inactive flush, the destructor |
| retire, 1024 | audio → main | modules, chains, samples taken out | the same |
| `UIEdits`, 1024 | main → host | gestures and values for the host | `flushUIEdits()`: the end of a block or a flush |

and through a few atomics: the flags that coalesce callback requests, the
`ValueMailbox` of modulated values, and the pending spectral setup.

### Components

| component | state | operations | what makes it correct |
|---|---|---|---|
| Ring (`core/threading/spscQueue.hpp`) | two counters, an array | push, pop, size | a bounded FIFO, with no slot touched by both threads |
| Parameter transport (C) | two Programs, two rings, two flags | host event, editor edit, drain, republish, activate, deactivate, save | no host write is lost for good, even to a full ring; a stopped plug-in saves what it plays |
| Module chain (`core/automatedModuleChain.*`, `moduleChainImpl.*`) | two chains | slot, swap, move, selectors, resync | both chains end equal; a resync repairs what lost echoes broke |
| Spectral setup (`core/spectrumWorxCore.*`, `processor.cpp`) | pending and current FFT setup, module sizes, latency | edit, defer, restart, fall back, roll back | no module runs in storage of another size; the host knows the latency |
| Publish and retire (`publish.*`, `moduleNode.hpp`) | reference counts, links | build, queue, install, displace, retire, release | counts are the references there are; the audio thread frees nothing |
| Undo (`undoHistory.*`, C) | two stacks, values set aside | gesture, chain edit, load, undo, redo | back is where it began, forward is where it was |
| Audio block (C, `processor.cpp`, `channelBuffers.cpp`) | window and output buffers, cursor | cut, apply events, frame, add | one window's delay at any cut, nothing starved, events on time |
| LFO period (`lfoImpl.*`, `automatedModule.*`) | sync type, period, meter, twice | write, snap, print, parse, load, meter | the period is a note of its grid, and survives its trips |
| Modulation (`automatedModuleImpl.*`, `valueMailbox.hpp`) | base and played value, switch, mailbox, knob | write, sweep, publish, paint, load | what is played and shown without an LFO is what was chosen |
| Rack (`gui/editor/spectrumWorxEditor.cpp`) | strips, menu, posted redraws, selectors, rescan flags | add, remove, replace, insert, drag, swap, undo, load | an edit takes what was pointed at; host, engine and rack agree when all is delivered |
| Side chain (C, `sample.cpp`, `presetLoading.cpp`) | source, name, sample, position, rate | choose, load, decode, activate, read | what is shown and saved is what is heard |

They meet where one component's message is another's action: an edit of the rack
is a command of the chain, which is a reference of the ownership and a step of
the undo history, and the rings carry all of it. Each module therefore keeps the
rings its component uses and leaves the traffic of the others out; the chain's
operators (`ModuleChain`) are shared by `ChainEdits` and `EditorRack`, and the
ring's contract (`BoundedFifo`), which every other module takes for granted, is
what `SpscQueue` is shown to implement.

What is hard here: handlers of two threads interleave at every atomic access;
every ring can be full; hosts may stop the engine, flush, rescan or ignore
(Ardour does not restart a plug-in that asks for it) at any point; edits name
modules by slot in a chain that changes under them; and almost every value
exists two or more times.

## The modules

State variables and actions carry the source's names wherever TLA+ allows, and
`PROJECT.json` gives the lines each definition stands for.

| module | models | extends |
|---|---|---|
| `BoundedFifo` | what a ring promises | |
| `SpscQueue` | the ring, one atomic access or copy per step, stale acquire loads, wrapping counters | `Fifo == INSTANCE BoundedFifo` |
| `ParameterEcho` | the transport of values | |
| `ModuleChain` | the chain's operations as pure operators | |
| `ChainEdits` | the two chains and their messages | `ModuleChain` |
| `SpectralSetup` | deferral, restart, fallback, rollback, latency | |
| `ModuleOwnership` | every reference to a module, chain or sample | |
| `EditHistory` | undo over a chain and values | |
| `OverlapAdd` | a block, from its cut to what leaves the output buffer | |
| `LfoPeriod`, `LfoSync` | the arithmetic of periods; its two copies | `LfoSync` EXTENDS `LfoPeriod` |
| `Modulation` | base and played values, mailbox, knob | |
| `EditorRack` | the rack, the chain, the engine and the host together | `ModuleChain` |
| `SideChain` | source, file, sample and reading | |
| `*Proofs` | theorems about the module of the same name (`TransportProofs`: about `ParameterEcho` and `SpscQueue`; `EditProofs`: about `ChainEdits` and `EditHistory`; `BlockProofs`: about `OverlapAdd` and `LfoSync`) | it, and `TLAPS` |
| `MC*` | constants for TLC | the module of the same name |

A **thread that runs a call of several steps** has a program counter
(`SpscQueue`, `ParameterEcho`, `SpectralSetup`) where another thread can act
between the steps; where nothing another thread does in between can be told
apart, the call is one action (most main-thread handlers: they touch rings at
one point).

## The runs

All twelve pass; `PROJECT.json` names the properties of each and, for each
property, a mutant of the code's model that breaks it. They hold the properties
that could be wrong; the type invariants, which say that rings keep their bounds
and variables their types, are theorems in `ParameterEcho`, `SpectralSetup`,
`ChainEdits`, `EditHistory`, `Modulation`, `ModuleOwnership` and `LfoSync`, part of
`RingInv` in `SpscQueue`, and have a configuration of their own, `*_Types.cfg`, where TLC
alone checks them.
`NeverUnheard` (a file is the source exactly when one is named) is proved and
not run.

**spsc_ring.** Capacity 2, two messages, counters that wrap after 3 laps: smaller
than a wrap the counters' comparison would never be tested, and two slots are
enough for full, empty and partly full. Shows the FIFO and the absence of a race
on a slot.

**echo** and **echo_live.** One parameter of the host's, one of the editor's, two
values; rings of two, which both overflow, so that lost echoes, a refused
republish request and a republish that overflows again all happen; `echo_live`
has rings of one and adds fairness. Both let the clear of the callback flag be
overtaken by the loads after it (`StoreBuffer = TRUE`), which is what a release
store allows. An echo pushed in between is then left with the flag down and no
callback of its own; `EchoHasReader` says that none is ever left behind a flag
that is *up* with nobody coming, and `HostEditsReachMain` that once the host
rests the main thread's copy is at the engine's values or one reading of the
ring away from them.

**chain.** Three modules, two effects, rings of two, the editor alone and the
host alone (`WriterSets`). Three places are what a move needs to shift others on
either side.

**spectral.** Two settings and a chain of one module, a ring of two; a host that
restarts and one that, like Ardour, does not; the setup that fails is a later one
(`MayFail = {"later"}`). `BlocksToWait` is 2 for the code's 4.

**ownership.** Four modules, one built chain, one sample; a command ring of one
and a retire ring of two, both of which overflow. Deadlock is not checked: the
plug-in is destroyed in the end, and nothing follows.

**history.** Chains of up to three modules of two symmetric effects, one value
each and a global one; two undo steps and two places for values set aside, so
that both stacks drop their oldest. Every module can be removed, and a session
may fail to load. The step of a removal with modules behind it does not lead back
(*Known disagreements*), so what came before it is `beyond` what undo should go
through: `UndoReachesOrigin` is of the steps since (`Reaching`), and
`RedoReachesEnd` of a user who took back none of the others (`astray`). What
those others do to the program is modelled all the same. `Short = 2`: a control is
dragged in chains of at most two modules, and a preset loaded over fewer; the
chain edits have all three.

**overlap_add.** A window of four samples with every hop (1, 2, 4: overlap of 75,
50 and 0 per cent), two channels, blocks of one to five samples in any order over
ten samples: longer than two windows and, with five, never aligned for long.

**lfo_sync.** Periods are whole 2880ths of a bar, exact for every note of every
grid in 4/4 and 5/4. In five a second snap moves the longest notes, in four none.
Choices of free and triplet sync, one preset that masks two grids and one that
names no period for a grid the default is not on, a period that lies between notes
and one longer than any, an echo ring of two, which a republish can overflow, and
a command ring of one. `placed` is the meter the engine's period was last placed
in, which a first statement of a meter, a `reset()` and a preset read in one meter
and drained in another leave as it was; `level` says that both copies were given a
period in this meter and none has been through a second snap that moved it.

**modulation.** Two values to choose and one that only a sweep passes, which is
what tells "chosen" from "left over"; two presets, an echo ring of two and a
command ring of one, an LFO that stops in any block, a sweep of the mailbox that
is interrupted at each of its steps, and writes of host and editor that cross
(`crossed`): `KeptLevel` is of copies that no crossing has touched since a preset
or a republish last settled them.

**editor_rack.** Two modules, room for a third, a preset of one, three edits by a
user and a host in any order. Three of the chain's five slots are enough for a
swap of slots that are not neighbours and for an insertion between two. The drain
of the echoes may overtake the clear of its flag (`clearing`), and a rescan may be
answered before older selectors are flushed: the slots whose selector was still
queued when an undo or a load changed the chain are `stale`, and `HostKnowsSlots`
is of the others, until a rescan or an edit of theirs tells the host anew. Deadlock
is not checked: the edits are budgeted (`MaxEdits`), so the run ends.

**side_chain.** Two files: one shorter than a piece, one of 4 or 5 frames by
rate, with pieces of two, so that a file is shorter than a piece, ends with one,
or ends inside one. A command ring of two, which a patch's two commands fill.
Files vanish and return, and five choices, loads and activations come in any
order (`MaxEdits = 5`).

### Fairness

Liveness is checked where the code has something to promise:

* `ParameterEcho` (echo_live): a host goes on calling `process` or `flush`, a call
  that was entered goes on, and a host that was asked for a callback makes it:
  CLAP promises that and no more. Nothing is assumed of edits.
* `SpectralSetup`: the same of calls, and strong fairness of the deactivation
  while a restart is asked for: a host may refuse it a moment, not for ever.
* `OverlapAdd`: `process` goes on once entered.

The others state safety only; "when all is delivered" in their properties is a
state with empty rings, not an eventuality.

## The proofs

Eight modules prove, for every value of the constants, properties the runs check
on small instances. Assumptions are the named `ASSUME`s of each module.

* **`TransportProofs`.** The ring: `RingInv` is inductive, that is, the counters
  are at most a capacity apart modulo the wrap, each side's cached copy of the
  other's counter is some earlier value of it, and the published slots hold what
  was pushed. From it, that no slot is accessed by both threads, and that each
  step is a step or a stutter of `BoundedFifo`. The transport: `IInv` adds to the
  three safety properties where each thread may stand (`Threads`), that a stopped
  engine's ring is drained (`Stopped`), and that a set flag has a callback on its
  way or its clear not yet visible (`CallbackCovered`).
  A lost host edit is accounted for by whichever of echo, flag, request or
  republish still carries it; the proof goes round that circle, a step of the
  code at a time. `EchoesHaveReaders` holds with the clear overtaken and without,
  and adds that where nothing overtakes it every echo in the ring has a reader
  coming, as the comment at C:1466 says (`NoEchoIsSwallowed`).
* **`SpectralSetupProofs`.** `RunningSized`: while the engine runs, every module it
  has *and every one queued for it* is sized for the setup in force. It needs
  `StoppedRing`, that nothing is queued for an engine that stands still, and
  holds where no fallback applies a setting in mid-run. `LatencyInv` says for each
  point of the handlers what the latency the host last heard may still differ by,
  and which callback is on its way to say so. `AgreeInv` names the setting asked
  for last (`Newest`: queued, pending or in force) and shows it to be the one
  shown.
* **`ModuleOwnershipProofs`.** `IInv` is the balance of the counts. Each module's
  is the links to it and the places it waits in (rings, refused retirements,
  releases under way), each sample's the same with the engine's slot for the
  links, each chain's three while it is there (`Balance`); what is counted is
  there and nothing else (`Alive`). The balance is not inductive by itself:
  unlinking a module takes two from its count and overwrites the links it has
  kept, which is right only of one that was in one place of one chain (`Once`)
  and was never taken out before (`Unmoved`); what is queued for the engine has
  that one owner (`Alone`); a chain waits in one ring (`Carried`); a stopped
  engine has nothing queued, and a plug-in that is gone no list (`Life`). Filling a slot, by
  any of its three ways, is one lemma (`RelinkKeeps`), handing an object from
  ring to ring another (`HandedKeeps`). `NothingIsLeft` needs more than counts,
  for modules taken out hold one another: `Aged` gives each module an age so that
  a kept link to one that is in no chain leads to a later age. The module of
  least age among those left would then be held by nobody. The assumption added
  for this is that there are finitely many modules at once.
* **`EditProofs`, the chain.** A command acts on the chain its receiver has by then, so
  the chains in between matter: `Applying(trail, ...)` names them. For an editor,
  `EditorInv`: the commands under way lead the engine's chain to the main
  thread's, and each move among them names two modules of the chain it will
  meet. For a host, `HostInv`: the echoes under way lead the main thread's chain
  to the engine's, until one is lost. For the repair, slot by slot: a resync's
  selectors turn any chain at most one longer than the engine's into it.
  `MoveUndoesMove` is what undo of a move rests on. `ChainTypes` keeps both chains
  within `MaxModules`, whatever is queued for them.
* **`EditProofs`, undo.** What the two properties say is of a run of steps, and each
  action changes one end of a stack; so `LeadsBack(P, steps, Q)` names the programs
  a stack goes through, step by step, from `P` to `Q`. `HistoryInv`: the steps of
  undo that reach somewhere lead from the program, with what is set aside and in
  hand put down first, to `origin` (`BackLeads`); the redo stack, while nothing is set
  aside or in hand and nothing has gone astray, from the program to `ahead`
  (`ForthLeads`); one gesture is open and one value set aside at most. `WriteBack`
  (putting a value back is exact), `EditBack` (what is recorded of any chain edit
  but a removal with modules behind it takes it back, a move by `MoveUndoesMove`)
  and `StepBack` (a step taken back leaves the step that takes it forward) are the
  algebra; `OldestDropped` is a full stack, `JoinedLeads` an edit that joins the
  step before it, `RemoveKeeps` a removal anywhere. A session that cannot be
  loaded (`StateFailsKeeps`) drops what was set aside and keeps the stacks: the
  steps are replayed over a program that differs in that value, and lead to an
  origin that differs in it unless one of them writes it (`ReplaysOver`,
  `LeadsFromElsewhere`). What is typed stays so even where steps are
  carried out on a chain they were not recorded for (`HistoryTyped`). No
  removal and no failure is assumed away. Assumed of the constants: a slot is no
  global parameter, and "no module" and "nothing held" are values of their own.
* **`BlockProofs`, the frames.** `held + ready = window` in every channel whenever the
  loop asks for output: what has been taken in and not framed, and what has been
  framed and not given out, always make one window, so nothing starves. `FlowInv`
  adds what is in the buffers: the input by the position it came at
  (`HoldsInput`), the output as so many frames of each sample (`HoldsOutput`:
  whole for what is ready, one fewer each hop beyond it), all channels `Abreast`
  of each other to within the frame in progress. From it the delay of exactly one
  window. `Trigger` and `OnTime` follow a press through the frames: who has acted
  on it, who owes it, and the newest sample a frame may have.
* **`BlockProofs`, the periods.** A grid is so many eighths of a beat, times what
  the grid makes of one (`UnitIs`), and a snap answers with a note of a grid that
  was asked for (`SnapIsNote`, `WonIs`), whatever the meter; so the engine's is
  `Held` in the one it was `placed` in. `SyncInv` adds what is under way: only one
  side has written (`OneSide`), its messages lead its copy to the other's while
  both are `level` (`Leads`), and a run of writes that has a period in it leaves
  any two copies alike (`RunsMeet`), which is what makes up for an echo that was
  lost. That a note stays when it is snapped again (`NoteStays`) is proved of
  notes up to a bar in every meter and of all notes in up to four beats, where
  all are in the range besides (`NotesInRange`); the properties of reloading and of
  printing say so. No meter is assumed away: they assume only that a bar divides into the notes of
  each, and of four four, in which the timer starts.
* **`ModulationProofs`.** A stopped LFO's parameter plays its base
  (`StoppedPlaysBase` is inductive with `TypeOK`, crossings included). For the
  knob, whichever of the mailbox, a reader under way or the knob itself is behind
  is the one that owes the last value (`MailboxOwed`, `ReadOwed`, `KnobOwed`).
  `LevelInv`, of copies no crossing has left unsettled: each message is taken or
  ignored by what its receiver then holds, those under way still lead one copy to
  the other, and they all go one way (`OneWay`). A crossing ends that; the preset
  or the republish that settles both copies begins it again.
* **`EditorRackProofs`.** Five invariants, each on those before it.
  `IInv`: each coalescing flag is raised with a callback asked for
  and taken down by that callback, the rescan's before it reads and the echoes'
  while the drain goes on, so a rescan or an undo that waits is always owed one,
  and an echo too or its flag is down. `RackInv`: modules of a chain and strips of the
  rack have ids of their own, of which one is always free (by counting); unless a
  redraw is posted each strip shows its module in its slot; an open menu
  has its target; the edit an undo would make can be made. `Linked`: what is
  queued for the engine leads its chain to the main thread's, what is echoed
  leads the main thread's to its, and only one of the two is under way.
  `EditsTake` then goes through the user's edits one by one: what is under the
  pointer, what the rack takes it for and what becomes of the chain. `TellInv`: a
  selector queued for the host is the chain's own or `stale`, none is queued while
  an echo is under way, and any other slot is known to the host or a rescan is
  still to come.
* **`SideChainProofs`.** With each queued command goes, as a history variable, the
  pair of source and file recorded with it; every command turns the pair before
  it into that one, so the engine goes through the recorded pairs in order. With
  `Stopped` (an idle engine has nothing queued), `Named` (a source of `File` has a
  name) and `UnderWayAtRate` (all that is queued was decoded at the running rate)
  three of the theorems follow. `HeardOn` is of the copying loop, a recursive
  function: it goes round the file's end as often as a block needs, by induction
  on what is left to fill. `LoadedWhole` goes through the loads by what the file
  says and what the disk has.

Induction over the naturals, where a recursive function needs one, is by the
well-founded order of the naturals (`NatInd` and the like): the set of numbers
for which a statement fails has no least member.

**Only model-checked:** liveness (`HostEditsReachMain`, `PendingIsApplied`,
`EveryBlockEnds`), for TLAPS has no fairness or ENABLED here. Every other property
of the runs is a theorem.

## What is abstracted, module by module

* **ParameterEcho**: values are not snapped to a parameter's grid; the structural
  effect of a slot selector is `ChainEdits`'.
* **ChainEdits**: modules are their effects; none fails to build. One writer at a
  time: see *Known disagreements* for both.
* **SpectralSetup**: the three parameters are one setting, so their separate
  failures are not told apart.
* **ModuleOwnership**: one chain of two slots; a move owns nothing and is left out.
  Structural commands are queued only while the engine runs, and `deactivate()`
  drains them, so what `discardQueuedCommands()` discards owns nothing.
* **EditHistory**: one gesture at a time; a host does not edit the chain; what
  steps from before a removal out of the middle make of the program is bounded by
  no property but its type.
* **OverlapAdd**: a frame is its position; the effects and the side chain, which
  goes through the same positions, are left out.
* **LfoSync**: a period halfway between two notes may be rounded either way (the
  code's floats do one or the other); writes of host and editor do not cross; a
  preset load is atomic; the length of a bar in seconds is left out.
* **Modulation**: the engine runs throughout; the redrawing posted after a load is
  part of it (a strip being rebuilt takes no paint); no push on a full ring by
  the editor.
* **EditorRack**: the editor stays open; the engine runs throughout or stands
  still throughout; the rings of the rack's own traffic do not fill; host and
  editor do not write at once; the host writes selectors the engine takes, does
  not write back what it reads; undo is of the last edit; redraws posted twice
  are merged; choosing from a menu is one step.
* **SideChain**: a file is a number of frames per rate, and decodes unless it has
  gone from the disk; "modified" marks, dialogs, and the falling back of routing
  where a port is missing are left out; an undo is another load. A load's source
  and sample are two commands, between which a block may come.

## Known disagreements

`PROJECT.json` lists the hazards that matter most, each with the properties that
would catch it. What follows is narrower: places
where the code departs from a document, a comment or an assertion, met
while modelling. Those with a configuration can be replayed with
`tlc -config X.cfg M`; TLC reports the named property as violated. They are not
among the runs, which say what holds.

| where | what | configuration |
|---|---|---|
| C:1466 | the clear of the callback flag is a release store, which the drain's loads may overtake; an echo pushed then waits for the next request. The comment there says it does not | `ParameterEcho_StoreBuffer`: `NoEchoIsSwallowed` |
| C:1174, :355, :1897 | in Ardour the audio thread applies a setting while a module built for the one before waits in the ring, and runs it at the wrong size | `SpectralSetup_Ardour`: `ModulesSized` |
| `referenceCounter.hpp:21` | counts have eight bits; modules waiting in the retire ring hold the chain's root by their links, and some 250 of them overflow it | `MCModuleOwnership_Count`: `CountsFit` (8 and 4 stand for 255 and 1024) |
| C:2394, `undo-redo.md:121` | undoing a removal from the middle replaces the module that slid into the slot | `MCEditHistory_Removal`: `RemovalTakenBack` |
| `lfoImpl.cpp:1167`, `lfoImpl.hpp:246` | `reset()` leaves the meter "established", so the next block in another meter snaps periods nobody wrote | `MCLfoSync_Reset`: `SteadyMeterMovesNothing` |
| `spectrumWorxEditor.cpp:2421` | "there is nothing to deliver late": a resync of the rack drops the mailbox, and a knob whose LFO has just stopped stays where it stood | `MCModulation_Late`: `NothingIsLate` |
| `spectrumWorxCLAP.hpp:618` | a host write and an editor write that cross leave the two Programs apart | `MCModulation_Crossing`: `LevelWhateverCrossed` |
| C:1237 | a rescan is answered from the restored chain, and older selectors are flushed to the host after it | `MCEditorRack_Overtaking`: `HostKnowsEverySlot` |

Without a configuration:

* Transport. A republish request that is refused is asked again only by the next
  lost echo (C:1833); an editor that never stops pushing keeps `drainCommands()`
  in its loop; with the engine stopped `drainCommands()` ignores a refused value.
  `size()`'s comment (`spscQueue.hpp:88`) promises more than two loads give.
* Chain. With main at [A, B, C] and the engine at [A] a resync leaves [A, C]
  (C:1657). An editor's move that crosses a host's removal reaches
  `moveModule()`'s assertion (`moduleChainImpl.cpp:210`). The comments at
  `messages.hpp:52` ("trading places") and `host2PluginImpl.inl:102` describe an
  earlier code. The engine's pass drops a module that fails to initialise and
  the main thread's copy keeps it (`presets.hpp:981`); `presetLoading.cpp:142`
  drops `publishChain()`'s answer.
* Spectral setup. A first activation that fails restores an FFT size of 0, and the
  next one "succeeds" with it (`spectrumWorxCore.cpp:422`). A preset's globals,
  written directly with the engine stopped, are overtaken by an edit still queued
  (`presetLoading.cpp:93`). A second fallback overwrites the outcome of a first.
* Undo. `moveTop()`'s comment (`undoHistory.cpp:88`) does not hold after undo and
  redo within 500 ms; a load that could not be read records an empty step; a
  failed restore in mid-drag forgets what was set aside; steps outlive a host's
  changes to the chain they name.
* Audio. At no overlap `latency.md` section 3's bounds on what is held do not hold.
* LFO. A change of meter snaps the engine's period and not the main thread's;
  an open panel writes the main thread's and does not tell the engine; in a
  meter of five beats and more a snapped period may be out of range, and of five,
  nine, ten, eleven and from sixteen on a second snap moves some notes longer than
  a bar; 4/3 of a bar in 3/4 is printed "1/1 bars".
* Modulation. A value left in the mailbox may be painted over a newer write of the
  host's; a host's write that the engine ignored while modulated is drawn until
  the next sweep. The comment at C:2146 disagrees with `markCurrentProgramAsEdited()`.
* Rack. A second click before a redraw removes the module now in that slot, and the
  host is told of the strip's neighbours; an undo's chain is not drawn before the
  callback, and adding or moving meanwhile uses the strips of before; a selector
  the engine declines is never corrected at the host. `spectrumWorxEditor.hpp:628`
  names `updateGUIForChangedModule`, which does not exist. A host that writes
  back selectors it read too early could go on doing so (not modelled).
* Side chain. With external audio ignored, a patch without a recorded source is
  resolved by the file of the patch before (`presetLoading.cpp:263`, against
  `sidechain-approach.md` section 4). A file gone at activation plays on at the
  old rate (C:303 only asserts). The comment over `Loader::setSideChain()` keeps
  a file loaded under another source, which the code discards, and clears one
  that will not decode, whose name the code keeps.

## Not modelled

* **The effects** (`le/spectrumworx/effects`), the **mathematics and analysis**
  (`le/math`, `le/analysis`) and the **sample data** in the engine: about a
  quarter of the code, single-threaded floating-point arithmetic. TLC has no
  floating point, and what could be said without it (positions, sizes) is
  `OverlapAdd`'s. Their golden tests are the right tool.
* **Painting, layout, focus, accessibility, themes, resources** (`gui/`): about a
  third of the code, one thread's drawing on JUCE. What its handlers do to shared
  state is in `EditorRack`, `Modulation`, `LfoSync` and `SideChain`.
* **Preset files**: XML, names, migration, the browser's lists, preferences. What
  a load does to each component is modelled; text processing is not.
* **Parameter text and CLAP ranges**: pure functions of one value.
* **MIDI notes and the monitor**: one array on one thread, and relaxed atomics
  whose only ordering hazard costs a repaint.
* **Entry points, ports, thread checks, build files, tools, tests.**

The map covers a small share of the source for this reason: what remains is
arithmetic and drawing, in which there is no interleaving and no protocol to get
wrong.

## Plan

The order was: the ring under everything; the transport, which loses and repairs;
the chain; the setup; ownership; undo; the block; then the four compositions with
the editor and the disk (LFO periods, modulation, the rack, the side chain); then
their proofs, from the ring up, of which liveness alone is left to TLC. What
would come next in the models: a host that edits the chain under the undo
history (with a statement of what undo should then mean), a preset load over a chain whose modules fail to
build, and the MIDI monitor's stamps.
