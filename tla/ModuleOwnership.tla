-------------------------- MODULE ModuleOwnership --------------------------
(***************************************************************************)
(* Who owns the modules, chains and samples that travel between the main   *)
(* thread and the engine, and which thread destroys them                   *)
(* (core/threading/publish.cpp, spectrumWorxCLAP.cpp,                      *)
(* core/automatedModuleChain.hpp, le/spectrumworx/engine/moduleChainImpl). *)
(*                                                                         *)
(* A chain is a circular list whose links are counted references.  A       *)
(* module that is taken out keeps its two links, and so holds its old      *)
(* neighbours until it is destroyed.  A chain's root is counted as well;   *)
(* a sample has one owner and is deleted.  A move owns nothing and is left *)
(* to ChainEdits.                                                          *)
(***************************************************************************)
EXTENDS Integers, FiniteSets, SequencesExt

CONSTANTS Module,           \* the module objects there may be at once
          Chain,            \* the chain objects a preset load makes
          Sample,           \* the sample objects
          engine,           \* the root of the engine's own chain
          none,
          MaxModules,       \* maxNumberOfModules (5)
          CommandCapacity,  \* capacity of toEngine (1024)
          RetireCapacity,   \* capacity of retire_ (1024)
          MaxCount          \* the largest 8-bit reference count (255)

ASSUME ObjectsAssumption ==
  /\ engine \notin Module \cup Chain \cup Sample
  /\ none \notin Module \cup Chain \cup Sample \cup {engine}
  /\ Module \cap Chain = {} /\ Module \cap Sample = {} /\ Chain \cap Sample = {}
  /\ IsFiniteSet(Module)
ASSUME BoundsAssumption ==
  /\ MaxModules \in Nat \ {0} /\ CommandCapacity \in Nat \ {0}
  /\ RetireCapacity \in Nat \ {0} /\ MaxCount \in Nat

VARIABLES
  list,       \* by root, the modules linked in its chain
  left,       \* by module, the links it kept when it was taken out
  refs,       \* referenceCount_, and 1 for a sample
  live,       \* the objects there are
  sample,     \* pSample_
  toEngine,   \* the command ring's structural commands
  retired,    \* retire_
  leaked,     \* what a full retire_ refused
  toRelease,  \* the references the main thread is in the middle of dropping
  deleting,   \* the chain it is about to delete
  phase       \* "stopped", "running", "stopping", "destroying", "gone"

rings == <<toEngine, retired, leaked>>
vars == <<list, left, refs, live, sample, rings, toRelease, deleting, phase>>

Root == Chain \cup {engine}
Object == Module \cup Root \cup Sample
Unlinked == [prev |-> none, next |-> none]

Init ==
  /\ list = [r \in Root |-> <<>>]
  /\ left = [m \in Module |-> Unlinked]
  /\ refs = [x \in Object |-> IF x = engine THEN 3 ELSE 0]
  /\ live = {engine}
  /\ sample = none /\ toEngine = <<>> /\ retired = <<>> /\ leaked = {}
  /\ toRelease = <<>> /\ deleting = none /\ phase = "stopped"

-----------------------------------------------------------------------------
(* The list.                                                               *)

One(condition) == IF condition THEN 1 ELSE 0
\* The links to x: the two a circular list has to each of its nodes, and the
\* ones kept by modules that were taken out.
Links(lists, kept, x) ==
  (IF \E r \in Root : x \in Range(lists[r]) THEN 2 ELSE 0)
    + Cardinality({m \in Module : kept[m].prev = x})
    + Cardinality({m \in Module : kept[m].next = x})

\* Counts after the lists and the links changed, and `more` was added.
Recounted(more(_)) ==
  [x \in Object |-> refs[x] + Links(list', left', x) - Links(list, left, x) + more(x)]

\* A count that falls to zero runs the deleter, on the thread that is there.
Survivors(objects) == {x \in objects : refs'[x] # 0}

Before(s, k) == IF k = 1 THEN engine ELSE s[k - 1]
After(s, k) == IF k = Len(s) THEN engine ELSE s[k + 1]
Slots == 1 .. MaxModules

\* insertAtAndReplace() and remove() on the engine's chain: the module in the
\* slot goes and keeps its links, the new one among them.
Relink(k, m) ==
  LET s == list[engine]
      full == k <= Len(s)
  IN  /\ list' = [list EXCEPT ![engine] =
                    IF ~full THEN IF m = none THEN s ELSE Append(s, m)
                    ELSE IF m = none THEN RemoveAt(s, k) ELSE ReplaceAt(s, k, m)]
      /\ left' = IF full THEN [left EXCEPT ![s[k]] =
                                 [prev |-> IF m = none THEN Before(s, k) ELSE m,
                                  next |-> After(s, k)]]
                         ELSE left

Displaced(k) == IF k <= Len(list[engine]) THEN list[engine][k] ELSE none

\* The reference that keeps the displaced module until it is let go.  Mutant:
\* none is taken, and unlinking it drops the last.
NoneTaken(x, k) == 0
Taken(x, k) == One(x = Displaced(k))
\* The reference the caller transferred in is the chain's.  Mutant: it is left.
TransferKept(x, m) == 0
Transferred(x, m) == One(x = m)

\* installModuleInSlot(): the displaced module comes out with a reference.
InstallModuleInSlot(k, m) ==
  /\ Relink(k, m)
  /\ refs' = Recounted(LAMBDA x : Taken(x, k) - Transferred(x, m))
  /\ live' = Survivors(live)

\* swapModuleChain().
SwapModuleChain(c) ==
  /\ list' = [list EXCEPT ![engine] = list[c], ![c] = list[engine]]
  /\ UNCHANGED <<left, refs, live>>

-----------------------------------------------------------------------------
(* The rings.                                                              *)

Full == Len(toEngine) = CommandCapacity
Setting(k, m) == [kind |-> "slot", slot |-> k, object |-> m]
Swapping(c) == [kind |-> "chain", slot |-> 0, object |-> c]
Sampling(s) == [kind |-> "sample", slot |-> 0, object |-> s]

\* retire(): a full ring loses what it is given.
Retire(x) ==
  IF x = none THEN UNCHANGED <<retired, leaked>>
  ELSE IF Len(retired) < RetireCapacity
    THEN retired' = Append(retired, x) /\ UNCHANGED leaked
    ELSE leaked' = leaked \cup {x} /\ UNCHANGED retired

\* drainCommands(), one message, wherever the engine is.
DrainSlot ==
  /\ phase \in {"running", "stopping"} /\ toEngine # <<>>
  /\ LET command == Head(toEngine) IN
       /\ command.kind = "slot"
       /\ InstallModuleInSlot(command.slot, command.object)
       /\ Retire(Displaced(command.slot))
  /\ toEngine' = Tail(toEngine)
  /\ UNCHANGED <<sample, toRelease, deleting, phase>>

DrainChain ==
  /\ phase \in {"running", "stopping"} /\ toEngine # <<>>
  /\ LET command == Head(toEngine) IN
       /\ command.kind = "chain"
       /\ SwapModuleChain(command.object)
       /\ Retire(command.object)
  /\ toEngine' = Tail(toEngine)
  /\ UNCHANGED <<sample, toRelease, deleting, phase>>

DrainSample ==
  /\ phase \in {"running", "stopping"} /\ toEngine # <<>>
  /\ LET command == Head(toEngine) IN
       /\ command.kind = "sample"
       /\ sample' = command.object
       /\ Retire(sample)
  /\ toEngine' = Tail(toEngine)
  /\ UNCHANGED <<list, left, refs, live, toRelease, deleting, phase>>

\* The main thread is inside no call.
MainIdle == toRelease = <<>> /\ deleting = none
InFlush == phase = "stopped" /\ MainIdle

\* A host's slot selector, inside process() or flush(): the last slot filled
\* or the first free, the module built there and then.
SlotMayChange(k, adding) ==
  LET size == Len(list[engine]) IN
    \/ adding /\ k <= size + 1
    \/ ~adding /\ k = size

SelectSlot(k, m) ==
  /\ phase = "running" \/ InFlush
  /\ SlotMayChange(k, m # none)
  /\ Relink(k, m)
  /\ refs' = Recounted(LAMBDA x : Taken(x, k))
  /\ live' = Survivors(live \cup ({m} \ {none}))
  /\ Retire(Displaced(k))
  /\ UNCHANGED <<sample, toEngine, toRelease, deleting, phase>>

\* ... and a module that would not initialise, which no chain ever saw.
SelectSlotFails(k, m) ==
  /\ phase = "running" \/ InFlush
  /\ SlotMayChange(k, TRUE)
  /\ refs' = [refs EXCEPT ![m] = 1]
  /\ live' = live \cup {m}
  /\ Retire(m)
  /\ UNCHANGED <<list, left, sample, toEngine, toRelease, deleting, phase>>

-----------------------------------------------------------------------------
(* The main thread.                                                        *)

LetGo(x) == IF x = none THEN <<>> ELSE <<x>>

\* publishSlot(), the module just built and carrying one reference.
PublishSlotQueued(k, m) ==
  /\ MainIdle /\ phase = "running"
  /\ live' = live \cup ({m} \ {none})
  /\ refs' = [x \in Object |-> refs[x] + One(x = m)]
  /\ IF Full THEN toRelease' = LetGo(m) /\ UNCHANGED toEngine
             ELSE toEngine' = Append(toEngine, Setting(k, m)) /\ UNCHANGED toRelease
  /\ UNCHANGED <<list, left, sample, retired, leaked, deleting, phase>>

PublishSlotDirect(k, m) ==
  /\ MainIdle /\ phase = "stopped"
  /\ Relink(k, m)
  /\ refs' = Recounted(LAMBDA x : Taken(x, k))
  /\ live' = Survivors(live \cup ({m} \ {none}))
  /\ toRelease' = LetGo(Displaced(k))
  /\ UNCHANGED <<sample, rings, deleting, phase>>

\* publishChain(): the chain and the modules built for it, ...
Built(c, modules) ==
  /\ live' = live \cup {c} \cup Range(modules)
  /\ refs' = [x \in Object |-> CASE x = c -> 3
                                 [] x \in Range(modules) -> 2
                                 [] OTHER -> refs[x]]
  /\ UNCHANGED left

\* ... queued, or refused and the caller's to destroy, ...
PublishChainQueued(c, modules) ==
  /\ MainIdle /\ phase = "running"
  /\ Built(c, modules)
  /\ list' = [list EXCEPT ![c] = modules]
  /\ IF Full THEN deleting' = c /\ UNCHANGED toEngine
             ELSE toEngine' = Append(toEngine, Swapping(c)) /\ UNCHANGED deleting
  /\ UNCHANGED <<sample, retired, leaked, toRelease, phase>>

\* ... or exchanged with the engine's, and destroyed with what was live.
PublishChainDirect(c, modules) ==
  /\ MainIdle /\ phase = "stopped"
  /\ Built(c, modules)
  /\ list' = [list EXCEPT ![c] = list[engine], ![engine] = modules]
  /\ deleting' = c
  /\ UNCHANGED <<sample, rings, toRelease, phase>>

\* publishSideChain(), where it replaces the sample.
PublishSample(s) ==
  /\ MainIdle
  /\ live' = live \cup ({s} \ {none})
  /\ refs' = [x \in Object |-> refs[x] + One(x = s)]
  /\ \/ /\ phase = "running" /\ UNCHANGED sample
        /\ IF Full THEN toRelease' = LetGo(s) /\ UNCHANGED toEngine
                   ELSE toEngine' = Append(toEngine, Sampling(s)) /\ UNCHANGED toRelease
     \/ /\ phase = "stopped" /\ sample' = s
        /\ toRelease' = LetGo(sample) /\ UNCHANGED toEngine
  /\ UNCHANGED <<list, left, retired, leaked, deleting, phase>>

\* drainEngineEvents(), one retirement.
DrainRetired ==
  /\ MainIdle /\ phase \in {"running", "stopped", "destroying"}
  /\ retired # <<>>
  /\ retired' = Tail(retired)
  /\ IF Head(retired) \in Chain
       THEN deleting' = Head(retired) /\ UNCHANGED toRelease
       ELSE toRelease' = <<Head(retired)>> /\ UNCHANGED deleting
  /\ UNCHANGED <<list, left, refs, live, sample, toEngine, leaked, phase>>

\* ~ModuleChainBase(): every module is unlinked, its own links reset, and
\* released.  Mutant: the links are left as unlink() leaves them.
LinksLeft(c) ==
  left' = [m \in Module |->
    IF m \in Range(list[c]) THEN [prev |-> c, next |-> c] ELSE left[m]]
LinksReset(c) == UNCHANGED left

DestroyChain ==
  /\ deleting # none /\ toRelease = <<>>
  /\ LinksReset(deleting)
  /\ list' = [list EXCEPT ![deleting] = <<>>]
  /\ refs' = [Recounted(LAMBDA x : 0) EXCEPT ![deleting] = 0]
  /\ live' = Survivors(live)
  /\ deleting' = none
  /\ UNCHANGED <<sample, rings, toRelease, phase>>

\* intrusive_ptr_release() of a module or of a link, and the links of a module
\* that goes with it; a sample is deleted.
Release ==
  /\ toRelease # <<>>
  /\ LET x == Head(toRelease)
         last == x \in Module /\ refs[x] = 1
         kept == IF last THEN LetGo(left[x].prev) \o LetGo(left[x].next) ELSE <<>>
     IN  /\ refs' = [refs EXCEPT ![x] = @ - 1]
         /\ left' = IF last THEN [left EXCEPT ![x] = Unlinked] ELSE left
         /\ toRelease' = kept \o Tail(toRelease)
  /\ live' = Survivors(live)
  /\ UNCHANGED <<list, sample, rings, deleting, phase>>

-----------------------------------------------------------------------------
(* The plug-in's life.                                                     *)

Stays == UNCHANGED <<list, left, refs, live, rings>>

Activate ==
  /\ MainIdle /\ phase = "stopped"
  /\ phase' = "running"
  /\ Stays /\ UNCHANGED <<sample, toRelease, deleting>>

Deactivate ==
  /\ MainIdle /\ phase = "running"
  /\ phase' = "stopping"
  /\ Stays /\ UNCHANGED <<sample, toRelease, deleting>>

\* deactivate(), its commands drained.
Stopped ==
  /\ phase = "stopping" /\ toEngine = <<>>
  /\ phase' = "stopped"
  /\ Stays /\ UNCHANGED <<sample, toRelease, deleting>>

Destroy ==
  /\ MainIdle /\ phase = "stopped"
  /\ phase' = "destroying"
  /\ Stays /\ UNCHANGED <<sample, toRelease, deleting>>

\* drainEngineEvents() in the destructor, the last chance.  Mutant: not called.
LeftInTheRing == TRUE
RetiredDrained == retired = <<>>

\* ~SpectrumWorxCLAP(): the sample, then the Program.
DestroyEngine ==
  /\ MainIdle /\ phase = "destroying" /\ RetiredDrained
  /\ phase' = "gone"
  /\ toRelease' = LetGo(sample) /\ sample' = none /\ deleting' = engine
  /\ Stays

-----------------------------------------------------------------------------
FreshModule == Module \ live
FreshChains ==
  {s \in BoundedSeq(FreshModule, MaxModules) : IsInjective(s)}

AudioThread ==
  \/ DrainSlot \/ DrainChain \/ DrainSample
  \/ \E k \in Slots : \/ \E m \in FreshModule \cup {none} : SelectSlot(k, m)
                      \/ \E m \in FreshModule : SelectSlotFails(k, m)

MainThread ==
  \/ \E k \in Slots, m \in FreshModule \cup {none} :
       PublishSlotQueued(k, m) \/ PublishSlotDirect(k, m)
  \/ \E c \in Chain \ live, modules \in FreshChains :
       PublishChainQueued(c, modules) \/ PublishChainDirect(c, modules)
  \/ \E s \in (Sample \ live) \cup {none} : PublishSample(s)
  \/ DrainRetired \/ DestroyChain \/ Release
  \/ Activate \/ Deactivate \/ Stopped \/ Destroy \/ DestroyEngine

Next == AudioThread \/ MainThread
Spec == Init /\ [][Next]_vars

-----------------------------------------------------------------------------
TypeOK ==
  /\ \A r \in Root : list[r] \in Seq(Module)
  /\ left \in [Module -> [prev : Object \cup {none}, next : Object \cup {none}]]
  /\ refs \in [Object -> Nat] /\ live \subseteq Object
  /\ sample \in Sample \cup {none}
  /\ toEngine \in Seq([kind : {"slot", "chain", "sample"}, slot : 0 .. MaxModules,
                       object : Object \cup {none}])
  /\ Len(toEngine) <= CommandCapacity
  /\ retired \in Seq(Object) /\ Len(retired) <= RetireCapacity
  /\ leaked \subseteq Object /\ toRelease \in Seq(Object)
  /\ deleting \in Root \cup {none}
  /\ phase \in {"stopped", "running", "stopping", "destroying", "gone"}

\* The references to x that are not links.
Holders(x) ==
  One(x \in Chain /\ x \in live) + One(x = engine /\ x \in live) + One(x = sample)
    + One(x \in leaked /\ x \notin Chain)
    + Cardinality({i \in DOMAIN toEngine : toEngine[i].object = x /\ x \notin Chain})
    + Cardinality({i \in DOMAIN retired : retired[i] = x /\ x \notin Chain})
    + Cardinality({i \in DOMAIN toRelease : toRelease[i] = x})
RootLinks(x) == IF x \in Root /\ x \in live THEN 2 ELSE 0

(* publish.hpp: one reference, transferred.  Whatever an object's count     *)
(* says there is a link, a message or a slot that will let go of it, once. *)
EveryReferenceHeld ==
  \A x \in Object \ ({engine} \ live) : refs[x] = Links(list, left, x) + RootLinks(x) + Holders(x)

(* threading_model.md 5: nothing the audio thread does destroys an object, *)
(* whoever else let go of it before.                                       *)
AudioFreesNothing ==
  [][live \subseteq live' \/ ~(phase \in {"running", "stopping"} /\ AudioThread)]_vars

(* moduleChainImpl.cpp's note on chains that die first: no link, message   *)
(* or list leads to an object that was destroyed.                          *)
NothingDangles ==
  phase # "gone" =>
    /\ \A r \in Root : Range(list[r]) \subseteq live
    /\ \A m \in Module : {left[m].prev, left[m].next} \subseteq live \cup {none}
    /\ {toEngine[i].object : i \in DOMAIN toEngine} \subseteq live \cup {none}
    /\ Range(retired) \subseteq live /\ sample \in live \cup {none}

(* Once the plug-in is gone everything it built was destroyed, the modules *)
(* that held each other's links too, unless a retirement was refused.      *)
NothingIsLeft ==
  phase = "gone" /\ MainIdle /\ leaked = {} => live = {}

(* referenceCounter.hpp asserts that a count has room before it is raised. *)
CountsFit == \A x \in Object : refs[x] <= MaxCount
=============================================================================
