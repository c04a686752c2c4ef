----------------------------- MODULE EditHistory -----------------------------
(***************************************************************************)
(* Undo and redo: what the user did in the editor, as steps that say what  *)
(* to put back (undoHistory.cpp, the Undo section of spectrumWorxCLAP.cpp).*)
(* All of it is the main thread's, over its own copy of the program.       *)
(*                                                                         *)
(* A module is an effect and one value; a parameter is a global one or a   *)
(* slot's.  The rack shows the chain as it is.  A user drags one control   *)
(* at a time, and neither edits the chain nor takes a step back meanwhile. *)
(***************************************************************************)
EXTENDS ModuleChain

CONSTANTS Global,            \* the global parameters
          Value, Default,    \* their values; what a new module's holds
          Depth,             \* UndoHistory::depth (64)
          Places,            \* pendingDeltas_.size() (4)
          vacant,            \* a place that holds nothing
          Short              \* bound: no chain is longer that a control is dragged
                             \* in, and one a preset is loaded over is shorter

ASSUME ValueAssumption == Default \in Value
ASSUME GlobalAssumption == Global \cap Slot = {}
ASSUME DepthAssumption == Depth \in Nat \ {0}
ASSUME PlacesAssumption == Places \in Nat \ {0, 1}

VARIABLES program,   \* programMain_
          undo,      \* undo_, the next step to take back last
          redo,      \* redo_
          pending,   \* pendingDeltas_
          inHand,    \* the parameters with a gesture open
          origin,    \* where taking back should lead
          beyond,    \* the oldest steps of undo, which it should not go through
          ahead,     \* where everything taken back should lead again
          astray     \* one of those oldest steps was taken back all the same

filled == Len(program.chain)
history == <<undo, redo>>
ghosts == <<origin, beyond, ahead, astray>>
historyVars == <<program, history, pending, inHand, ghosts>>

Parameter == Global \cup Slot
Module == [effect : Effect, value : Value]
Program == [chain  : UNION {[1 .. n -> Module] : n \in 0 .. MaxModules},
            global : [Global -> Value]]
Held == [id : Parameter, value : Value]
NothingHeld == [n \in 1 .. Places |-> vacant]

ASSUME NothingAssumption == noModule \notin Module /\ vacant \notin Held

----------------------------------------------------------------------------
(* The program, and the commands that edit it.                             *)

Exists(prog, p) == IF p \in Global THEN TRUE ELSE p < Len(prog.chain)
\* Where there is no module the answer is always the same.
ValueIn(prog, p) ==
  IF p \in Global THEN prog.global[p]
  ELSE IF p < Len(prog.chain) THEN prog.chain[p + 1].value
  ELSE Default
WithValue(prog, p, v) ==
  IF p \in Global THEN [prog EXCEPT !.global[p] = v]
  ELSE IF p < Len(prog.chain) THEN [prog EXCEPT !.chain[p + 1].value = v]
  ELSE prog

EffectIn(prog, slot) == IF slot < Len(prog.chain) THEN prog.chain[slot + 1].effect ELSE noModule

SlotState(slot, effect, value) ==
  [kind |-> "slot", slot |-> slot, effect |-> effect, value |-> value]
MoveStep(from, to) == [kind |-> "move", from |-> from, to |-> to]

\* Mutant: the module comes back with nothing in it.
SlotStateWithoutValues(prog, slot) == SlotState(slot, EffectIn(prog, slot), Default)
\* The values go along only where a module has to come back.
CurrentSlotState(prog, slot) ==
  IF slot < Len(prog.chain)
    THEN SlotState(slot, prog.chain[slot + 1].effect, prog.chain[slot + 1].value)
    ELSE SlotState(slot, noModule, Default)

SlotEdited(prog, slot, effect) ==
  IF EffectIn(prog, slot) = effect THEN prog
  ELSE [prog EXCEPT !.chain = InstallModuleInSlot(@, slot,
          IF effect = noModule THEN noModule ELSE [effect |-> effect, value |-> Default])]

\* moveModule() where its assertions are compiled out: past the end there is
\* the list's root, and moving it or to it turns the ring of modules.
Moved(chain, from, to) ==
  CASE MoveNamesModules(chain, from, to) -> MoveModule(chain, from, to)
    [] from >= Len(chain) /\ to < Len(chain) ->
         SubSeq(chain, to + 1, Len(chain)) \o SubSeq(chain, 1, to)
    [] from < Len(chain) /\ to >= Len(chain) ->
         <<chain[from + 1]>> \o RemoveAt(chain, from + 1)
    [] OTHER -> <<>>

CarriedOut(prog, c) ==
  CASE c.kind = "move" -> [prog EXCEPT !.chain = Moved(@, c.from, c.to)]
    [] c.kind = "slot" /\ c.effect = noModule -> SlotEdited(prog, c.slot, noModule)
    [] c.kind = "slot" /\ c.effect # noModule ->
         WithValue(SlotEdited(prog, c.slot, c.effect), c.slot, c.value)

InverseOf(prog, c) ==
  IF c.kind = "move" THEN MoveStep(c.to, c.from) ELSE CurrentSlotState(prog, c.slot)

\* Mutant: in the order they were done.
InOrder(inverse, commands) == Append(commands, inverse)
\* Undoing several is doing them backwards.
Before(inverse, commands) == <<inverse>> \o commands

Replayed(prog, commands) ==
  LET done[n \in 0 .. Len(commands)] ==
        IF n = 0 THEN [program |-> prog, inverse |-> <<>>]
        ELSE [program |-> CarriedOut(done[n - 1].program, commands[n]),
              inverse |-> Before(InverseOf(done[n - 1].program, commands[n]),
                                 done[n - 1].inverse)]
  IN done[Len(commands)]

----------------------------------------------------------------------------
(* A step, and putting it back: the program it leads to and the step that  *)
(* leads back again.                                                       *)

ValueDelta(p, v) == [kind |-> "value", id |-> p, value |-> v]
ChainEdit(commands) == [kind |-> "chain", commands |-> commands]
StateSnapshot(prog) == [kind |-> "state", program |-> prog]

Applied(prog, record) ==
  CASE record.kind = "value" ->
         [program |-> WithValue(prog, record.id, record.value),
          inverse |-> ValueDelta(record.id, ValueIn(prog, record.id))]
    [] record.kind = "chain" ->
         LET replayed == Replayed(prog, record.commands)
         IN [program |-> replayed.program, inverse |-> ChainEdit(replayed.inverse)]
    [] record.kind = "state" ->
         [program |-> record.program, inverse |-> StateSnapshot(prog)]

\* Every step of a stack put back, the last one first.
Unwound(prog, stack) ==
  LET before[n \in 0 .. Len(stack)] ==
        IF n = Len(stack) THEN prog ELSE Applied(before[n + 1], stack[n + 1]).program
  IN before[0]
\* The values set aside put back.
Released(prog, held) ==
  LET with[n \in 0 .. Places] ==
        IF n = 0 THEN prog
        ELSE IF held[n] = vacant THEN with[n - 1]
        ELSE WithValue(with[n - 1], held[n].id, held[n].value)
  IN with[Places]

----------------------------------------------------------------------------
(* UndoHistory                                                             *)

PushDropping(stack, record) ==
  IF Len(stack) = Depth THEN Append(Tail(stack), record) ELSE Append(stack, record)

Continues(record, top) ==
  record.kind = "value" /\ top.kind = "value" /\ record.id = top.id

\* Mutant: it stays on offer.
StillThere(stack) == stack
\* What was taken back describes a program the user has edited away from.
Unreachable(stack) == <<>>

\* The steps that lead back to the origin: all but those beyond it.
Reaching == SubSeq(undo, beyond + 1, Len(undo))

\* record(): how long the last step was ago is the clock's to say.  The steps
\* from the one after `under` on lead back to `from`.
RecordOver(record, under, from) ==
  /\ redo' = Unreachable(redo)
  /\ ahead' = program' /\ astray' = FALSE
  /\ \E withinWindow \in BOOLEAN :
       IF withinWindow /\ undo # <<>> /\ Continues(record, Last(undo))
         THEN /\ UNCHANGED <<undo, beyond>>
              /\ origin' = IF beyond = Len(undo) THEN Released(program', pending') ELSE origin
         ELSE /\ undo' = PushDropping(undo, record)
              /\ beyond' = IF Len(undo) = Depth /\ under > 0 THEN under - 1 ELSE under
              /\ origin' = IF Len(undo) = Depth /\ under = 0
                             THEN Unwound(Released(program', pending'), undo')
                             ELSE from
Record(record) == RecordOver(record, beyond, origin)

----------------------------------------------------------------------------
(* A parameter's gesture.                                                  *)

\* rememberForUndo(): a full set gives up its first place.
Remembered(held, p, v) ==
  LET free == {n \in 1 .. Places : held[n] = vacant}
      given == [id |-> p, value |-> v]
  IN IF \E n \in 1 .. Places : held[n] # vacant /\ held[n].id = p THEN held
     ELSE IF free # {} THEN [held EXCEPT ![CHOOSE n \in free : \A k \in free : n <= k] = given]
     ELSE Append(Tail(held), given)

\* forgetPendingDeltas(), which a load makes at both ends of itself.
ForgottenAtEnd(held) == NothingHeld

BeginGesture(p) ==
  /\ inHand = {} /\ Exists(program, p) /\ filled <= Short
  /\ inHand' = {p}
  /\ UNCHANGED <<program, history, pending, ghosts>>

EditParameter(p, v) ==
  /\ p \in inHand
  /\ pending' = Remembered(pending, p, ValueIn(program, p))
  /\ program' = WithValue(program, p, v)
  /\ ahead' = IF redo = <<>> \/ astray THEN program' ELSE ahead
  /\ UNCHANGED <<history, inHand, origin, beyond, astray>>

\* recordPendingDelta()
EndGesture(p) ==
  /\ p \in inHand
  /\ inHand' = inHand \ {p}
  /\ UNCHANGED program
  /\ LET place == {n \in 1 .. Places : pending[n] # vacant /\ pending[n].id = p}
     IN \/ place = {} /\ UNCHANGED <<history, pending, ghosts>>
        \/ \E n \in place :
             /\ pending' = [pending EXCEPT ![n] = vacant]
             /\ Record(ValueDelta(p, pending[n].value))

\* publishValue(): a wheel notch, a menu row, a typed value or a drag across to
\* the other thumb of a range, written and then reported as a whole gesture.
PublishValue(p, v) ==
  /\ p \notin inHand /\ Exists(program, p)
  /\ program' = WithValue(program, p, v)
  /\ UNCHANGED <<pending, inHand>>
  /\ Record(ValueDelta(p, ValueIn(program, p)))

\* A host's automation, which reaches this copy as an echo: no step of ours,
\* and what it wrote is where a stack that does not name it leads.
Names(stack, p) ==
  \E n \in 1 .. Len(stack) :
    stack[n].kind = "state" \/ (stack[n].kind = "value" /\ stack[n].id = p)
HostWrites(p, v) ==
  LET held == \E n \in 1 .. Places : pending[n] # vacant /\ pending[n].id = p
  IN /\ program' = WithValue(program, p, v)
     /\ origin' = IF Names(Reaching, p) \/ held THEN origin ELSE WithValue(origin, p, v)
     /\ ahead' = IF redo = <<>> \/ astray THEN program'
                 ELSE IF Names(redo, p) \/ held THEN ahead ELSE WithValue(ahead, p, v)
     /\ UNCHANGED <<history, pending, inHand, beyond, astray>>

----------------------------------------------------------------------------
(* Edits of the chain: the commands, then the name that makes them a step. *)

EditChainOver(commands, under, from) ==
  /\ inHand = {}
  /\ LET edit == Replayed(program, commands)
     IN program' = edit.program /\ UNCHANGED <<pending, inHand>>
                                /\ RecordOver(ChainEdit(edit.inverse), under, from)
EditChain(commands) == EditChainOver(commands, beyond, origin)

Fresh(slot, effect) == SlotState(slot, effect, Default)

AddModule(effect) == filled < MaxModules /\ EditChain(<<Fresh(filled, effect)>>)
ReplaceModule(slot, effect) ==
  slot < filled /\ EffectIn(program, slot) # effect /\ EditChain(<<Fresh(slot, effect)>>)
InsertModule(gap, effect) ==
  /\ gap < filled /\ filled < MaxModules
  /\ EditChain(<<Fresh(filled, effect), MoveStep(filled, gap)>>)
\* Its step puts the module back into its slot, where the next one is by then:
\* taking it back costs that one, and what came before cannot be reached.
RemoveModule(slot) ==
  LET commands == <<SlotState(slot, noModule, Default)>>
  IN \/ slot + 1 = filled /\ EditChain(commands)
     \/ slot + 1 < filled
        /\ EditChainOver(commands, Len(undo), [program EXCEPT !.chain = RemoveAt(@, slot + 2)])
MoveModuleSlot(from, to) == from # to /\ from < filled /\ to < filled
                                      /\ EditChain(<<MoveStep(from, to)>>)
SwapModuleSlots(first, second) ==
  /\ first < second /\ second < filled
  /\ EditChain(IF second - 1 = first THEN <<MoveStep(first, second)>>
               ELSE <<MoveStep(first, second), MoveStep(second - 1, first)>>)

----------------------------------------------------------------------------
(* Whole programs.                                                         *)

\* loadPreset() by the user: a file that cannot be read leaves the program and
\* is a step all the same.  With audio running every global parameter is
\* written through editParameter(), and no gesture claims it.
LoadsPreset(loaded) ==
  /\ inHand = {} /\ filled < Short
  /\ program' = loaded
  /\ pending' = ForgottenAtEnd(FoldSet(LAMBDA p, held : Remembered(held, p, loaded.global[p]),
                                       NothingHeld, Global))
  /\ UNCHANGED inHand
  /\ Record(StateSnapshot(program))

\* stateLoad(), with whatever is in hand; a module's control goes with it.
StateLoad(loaded) ==
  /\ program' = loaded
  /\ pending' = NothingHeld
  /\ inHand' = inHand \cap Global
  /\ undo' = <<>> /\ redo' = <<>>
  /\ origin' = loaded /\ ahead' = loaded
  /\ beyond' = 0 /\ astray' = FALSE

\* A session this build cannot read: the load forgets what was set aside before
\* and after it tries, and the program and the stacks stay.  What a drag under
\* way has done so far is nobody's step then, so it is there at either end.
StateLoadFails ==
  /\ pending' = ForgottenAtEnd(pending)
  /\ origin' = Unwound(program, Reaching)
  /\ ahead' = IF astray THEN program ELSE Unwound(program, redo)
  /\ UNCHANGED <<program, history, inHand, beyond, astray>>

\* Among steps that do not lead back: here is as far as any of them is followed.
GoneAstray == origin' = program' /\ beyond' = Len(undo') /\ ahead' = program' /\ astray' = TRUE

Undo ==
  /\ inHand = {} /\ undo # <<>>
  /\ LET applied == Applied(program, Last(undo))
     IN /\ program' = applied.program
        /\ undo' = Front(undo)
        /\ redo' = PushDropping(redo, applied.inverse)
  /\ IF beyond < Len(undo) THEN UNCHANGED ghosts
     ELSE GoneAstray
  /\ UNCHANGED <<pending, inHand>>

Redo ==
  /\ inHand = {} /\ redo # <<>>
  /\ LET applied == Applied(program, Last(redo))
     IN /\ program' = applied.program
        /\ redo' = Front(redo)
        /\ undo' = PushDropping(undo, applied.inverse)
  /\ IF astray THEN GoneAstray ELSE UNCHANGED ghosts
  /\ UNCHANGED <<pending, inHand>>

----------------------------------------------------------------------------
\* What files hold: one module, with a value of its own.
Files == [chain  : {<<[effect |-> e, value |-> v]>> : e \in Effect, v \in Value \ {Default}},
          global : {[p \in Global |-> v] : v \in Value \ {Default}}]
Empty == [chain |-> <<>>, global |-> [p \in Global |-> Default]]

HistoryInit ==
  /\ program = Empty /\ origin = Empty /\ ahead = Empty
  /\ undo = <<>> /\ redo = <<>>
  /\ beyond = 0 /\ astray = FALSE
  /\ pending = NothingHeld /\ inHand = {}

HistoryNext ==
  \/ \E p \in Parameter : BeginGesture(p) \/ EndGesture(p)
  \/ \E p \in Parameter, v \in Value : EditParameter(p, v) \/ PublishValue(p, v)
  \/ \E p \in Global, v \in Value : HostWrites(p, v)
  \/ \E e \in Effect : AddModule(e)
  \/ \E s \in Slot, e \in Effect : ReplaceModule(s, e) \/ InsertModule(s, e)
  \/ \E s \in Slot : RemoveModule(s)
  \/ \E s, t \in Slot : MoveModuleSlot(s, t) \/ SwapModuleSlots(s, t)
  \/ \E loaded \in Files \cup {program} : LoadsPreset(loaded)
  \/ \E loaded \in Files : StateLoad(loaded)
  \/ StateLoadFails \/ Undo \/ Redo

HistorySpec == HistoryInit /\ [][HistoryNext]_historyVars

----------------------------------------------------------------------------
(* The two stacks together never hold more than one may.                   *)
HistoryTypes ==
  /\ program \in Program /\ origin \in Program /\ ahead \in Program
  /\ Len(undo) + Len(redo) <= Depth
  /\ beyond \in 0 .. Len(undo) /\ astray \in BOOLEAN
  /\ pending \in [1 .. Places -> Held \cup {vacant}]
  /\ inHand \subseteq Parameter

(* Whatever was dragged, typed, added, removed, moved, loaded, restored    *)
(* in vain and taken back or not, taking back the steps there are, and     *)
(* putting down what is in hand, leads to the program the oldest of them   *)
(* was taken from.  A removal with modules behind it ends that: its own    *)
(* step leads to the chain without the module next to it (applyChainEdit() *)
(* puts the removed one in that one's slot), and nothing is said of steps  *)
(* older than it, nor of what is done to them, until the next new step.    *)
UndoReachesOrigin == Unwound(Released(program, pending), Reaching) = origin

(* And going forward again over everything taken back leads to where the   *)
(* user turned around, unless a step older than such a removal was taken   *)
(* back on the way.                                                        *)
RedoReachesEnd == inHand = {} /\ ~astray => Unwound(program, redo) = ahead

(* A removal is taken back like any other edit (undo-redo.md, section 5):  *)
(* not with modules behind it.                                             *)
RemovalTakenBack ==
  [][\A s \in Slot : RemoveModule(s) =>
        Applied(program', Last(undo')).program = program]_historyVars

=============================================================================
