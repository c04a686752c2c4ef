----------------------------- MODULE ModuleChain -----------------------------
(***************************************************************************)
(* The module chain: what an engine plays and what the main thread keeps   *)
(* a copy of (engine/moduleChainImpl.cpp, core/automatedModuleChain.hpp).  *)
(* A chain is a sequence without holes; slots count from zero.             *)
(***************************************************************************)
EXTENDS Integers, SequencesExt

CONSTANTS Effect,      \* the effects a build has
          noModule,    \* what an empty slot's selector says
          MaxModules   \* maxNumberOfModules (5)

ASSUME EffectAssumption == noModule \notin Effect
ASSUME MaxModulesAssumption == MaxModules \in Nat \ {0}

Slot == 0 .. MaxModules - 1
Chain == UNION {[1 .. n -> Effect] : n \in 0 .. MaxModules}

\* getParameterForIndex(): module() answers the end past the last one.
EffectAt(chain, slot) == IF slot < Len(chain) THEN chain[slot + 1] ELSE noModule

\* insertAtAndReplace(): before the slot's module, which then goes; before the
\* end, which does not.
InsertAtAndReplace(chain, slot, effect) ==
  IF slot < Len(chain) THEN [chain EXCEPT ![slot + 1] = effect]
                       ELSE Append(chain, effect)

\* installModuleInSlot(): an empty hand empties the slot.
InstallModuleInSlot(chain, slot, effect) ==
  IF effect # noModule THEN InsertAtAndReplace(chain, slot, effect)
  ELSE IF slot < Len(chain) THEN RemoveAt(chain, slot + 1)
  ELSE chain

\* AutomatedModuleChain::setParameter(): the same effect is left alone.
SetParameter(chain, slot, effect) ==
  IF EffectAt(chain, slot) = effect THEN chain
                                    ELSE InstallModuleInSlot(chain, slot, effect)

\* moveModule(): unlinked at source and linked after target when that is
\* further on, before it when it is not.
MoveNamesModules(chain, source, target) ==
  source # target /\ source < Len(chain) /\ target < Len(chain)
MoveModule(chain, source, target) ==
  [k \in 1 .. Len(chain) |->
     CASE k = target + 1                     -> chain[source + 1]
       [] k > source /\ k < target + 1       -> chain[k + 1]
       [] k > target + 1 /\ k <= source + 1  -> chain[k - 1]
       [] OTHER                              -> chain[k]]

\* What the editor queues for the engine, and a command carried out on a chain.
SetSlot(slot, effect) == [kind |-> "slot", slot |-> slot, effect |-> effect]
Move(from, to) == [kind |-> "move", from |-> from, to |-> to]
SwapChain(chain) == [kind |-> "chain", chain |-> chain]
Apply(chain, command) ==
  CASE command.kind = "slot"  -> InstallModuleInSlot(chain, command.slot, command.effect)
    [] command.kind = "move"  -> MoveModule(chain, command.from, command.to)
    [] command.kind = "chain" -> command.chain
    [] OTHER                  -> chain

\* Commands carried out on a chain, and selectors written to one, in their order.
AllApplied(chain, commands) ==
  LET after[n \in 0 .. Len(commands)] ==
        IF n = 0 THEN chain ELSE Apply(after[n - 1], commands[n])
  IN after[Len(commands)]
Written(chain, selectors) ==
  LET after[n \in 0 .. Len(selectors)] ==
        IF n = 0 THEN chain
        ELSE SetParameter(after[n - 1], selectors[n].slot, selectors[n].effect)
  IN after[Len(selectors)]

\* The engine's answer to a slot selector a host wrote.
SelectorAllowed(chain, slot, effect) ==
  LET addModule == effect # noModule
      targetSlotFull == slot < Len(chain)
  IN \/ addModule = targetSlotFull
     \/ addModule /\ slot - 1 < Len(chain)
     \/ ~addModule /\ slot + 1 = Len(chain)

\* Mutant: the selectors republished from the last slot down.
RepublishedBackwards(copy, chain) ==
  FoldLeft(LAMBDA c, n : SetParameter(c, MaxModules - n, EffectAt(chain, MaxModules - n)),
           copy, [n \in 1 .. MaxModules |-> n])

\* Every selector of chain written into copy, in the order republishParameters()
\* writes them.
Selectors(chain) ==
  [n \in 1 .. MaxModules |-> [slot |-> n - 1, effect |-> EffectAt(chain, n - 1)]]
Republished(copy, chain) == Written(copy, Selectors(chain))
=============================================================================
