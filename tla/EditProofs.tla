------------------------------ MODULE EditProofs ------------------------------
(***************************************************************************)
(* What ChainEdits promises of the two copies of a chain, and EditHistory  *)
(* of undo and redo, for any effects, chain length, rings and stacks, and  *)
(* the facts about chains they rest on.                                    *)
(***************************************************************************)
EXTENDS ChainEdits, EditHistory, SequenceTheorems, WellFoundedInduction, TLAPS

-----------------------------------------------------------------------------
(* Commands carried out one after the other, and selectors written one     *)
(* after the other: the chains a run of them goes through.                 *)

\* Induction over the naturals, for a set.
Earlier == {ss \in Nat \X Nat : ss[1] < ss[2]}
LEMMA NatInd ==
  ASSUME NEW S, 0 \in S, \A n \in Nat : n \in S => n + 1 \in S
  PROVE  \A n \in Nat : n \in S
<1> DEFINE T == Nat \ S
<1>1. IsWellFoundedOn(Earlier, Nat)
  BY NatLessThanWellFounded DEF OpToRel, Earlier
<1>2. SUFFICES ASSUME T # {} PROVE FALSE
  OBVIOUS
<1>3. PICK x \in T : \A y \in T : ~ (<<y, x>> \in Earlier)
  <2> HIDE DEF T
  <2>1. T \subseteq Nat BY DEF T
  <2> QED BY <1>1, <1>2, <2>1, WFMin
<1>4. x # 0
  OBVIOUS
<1>5. x - 1 \in Nat /\ <<x - 1, x>> \in Earlier
  BY <1>4 DEF Earlier
<1>6. x - 1 \in S
  BY <1>3, <1>5
<1> QED
  BY <1>5, <1>6

\* trail[i] is what the first i of them make of the chain trail[0].
Applying(trail, chain, commands) ==
  /\ trail[0] = chain
  /\ \A i \in 1 .. Len(commands) : trail[i] = Apply(trail[i - 1], commands[i])
Writing(trail, chain, selectors) ==
  /\ trail[0] = chain
  /\ \A i \in 1 .. Len(selectors) :
       trail[i] = SetParameter(trail[i - 1], selectors[i].slot, selectors[i].effect)

\* Any such trail ends where AllApplied() does.
LEMMA AppliedAlong ==
  ASSUME NEW chain, NEW commands, Len(commands) \in Nat,
         NEW trail, Applying(trail, chain, commands)
  PROVE  AllApplied(chain, commands) = trail[Len(commands)]
<1> DEFINE m == Len(commands)
           F(f) == f = [n \in 0 .. m |-> IF n = 0 THEN chain ELSE Apply(f[n - 1], commands[n])]
           after == CHOOSE f : F(f)
<1>1. \E f : F(f)
  <2> DEFINE f == [n \in 0 .. m |-> trail[n]]
  <2>1. ASSUME NEW n \in 0 .. m
        PROVE  f[n] = IF n = 0 THEN chain ELSE Apply(f[n - 1], commands[n])
    <3>1. CASE n = 0
      BY <3>1 DEF Applying
    <3>2. CASE n # 0
      <4>1. n \in 1 .. m /\ n - 1 \in 0 .. m
        BY <3>2
      <4>2. f[n] = trail[n] /\ f[n - 1] = trail[n - 1]
        BY <4>1
      <4> QED BY <3>2, <4>1, <4>2 DEF Applying
    <3> QED BY <3>1, <3>2
  <2>2. F(f)
    BY <2>1
  <2> HIDE DEF F
  <2> QED BY <2>2
<1>2. AllApplied(chain, commands) = after[m]
  BY Zenon DEF AllApplied
<1> HIDE DEF F
<1>3. F(after)
  BY <1>1, Zenon
<1>4. after = [n \in 0 .. m |-> IF n = 0 THEN chain ELSE Apply(after[n - 1], commands[n])]
  BY <1>3 DEF F
<1> HIDE DEF after
<1>5. after[0] = chain /\ \A n \in 1 .. m : after[n] = Apply(after[n - 1], commands[n])
  BY <1>4
<1> DEFINE S == {n \in Nat : n <= m => after[n] = trail[n]}
<1>6. \A n \in Nat : n \in S
  <2>1. 0 \in S
    BY <1>5 DEF Applying
  <2>2. ASSUME NEW n \in Nat, n \in S PROVE n + 1 \in S
    <3>1. SUFFICES ASSUME n + 1 <= m PROVE after[n + 1] = trail[n + 1]
      OBVIOUS
    <3>2. n + 1 \in 1 .. m /\ (n + 1) - 1 = n /\ after[n] = trail[n]
      BY <3>1, <2>2
    <3>3. after[n + 1] = Apply(after[n], commands[n + 1])
      BY <1>5, <3>2
    <3>4. trail[n + 1] = Apply(trail[n], commands[n + 1])
      BY <3>2 DEF Applying
    <3> QED BY <3>2, <3>3, <3>4
  <2> HIDE DEF S
  <2> QED BY <2>1, <2>2, NatInd
<1> QED BY <1>2, <1>6

\* And where Written() does.
LEMMA WrittenAlong ==
  ASSUME NEW chain, NEW selectors, Len(selectors) \in Nat,
         NEW trail, Writing(trail, chain, selectors)
  PROVE  Written(chain, selectors) = trail[Len(selectors)]
<1> DEFINE m == Len(selectors)
           Write(c, n) == SetParameter(c, selectors[n].slot, selectors[n].effect)
           F(f) == f = [n \in 0 .. m |-> IF n = 0 THEN chain ELSE Write(f[n - 1], n)]
           after == CHOOSE f : F(f)
<1>0. \A n \in 1 .. m : trail[n] = Write(trail[n - 1], n)
  BY DEF Writing
<1>1. \E f : F(f)
  <2> DEFINE f == [n \in 0 .. m |-> trail[n]]
  <2>1. ASSUME NEW n \in 0 .. m
        PROVE  f[n] = IF n = 0 THEN chain ELSE Write(f[n - 1], n)
    <3> HIDE DEF Write
    <3>1. CASE n = 0
      BY <3>1 DEF Writing
    <3>2. CASE n # 0
      <4>1. n \in 1 .. m /\ n - 1 \in 0 .. m
        BY <3>2
      <4>2. f[n] = trail[n] /\ f[n - 1] = trail[n - 1]
        BY <4>1
      <4> QED BY <3>2, <4>1, <4>2, <1>0
    <3> QED BY <3>1, <3>2
  <2>2. F(f)
    <3> HIDE DEF Write
    <3> QED BY <2>1
  <2> HIDE DEF F
  <2> QED BY <2>2
<1>2. Written(chain, selectors) = after[m]
  BY Zenon DEF Written
<1> HIDE DEF F
<1>3. F(after)
  BY <1>1, Zenon
<1> HIDE DEF Write
<1>4. after = [n \in 0 .. m |-> IF n = 0 THEN chain ELSE Write(after[n - 1], n)]
  BY <1>3 DEF F
<1> HIDE DEF after
<1>5. after[0] = chain /\ \A n \in 1 .. m : after[n] = Write(after[n - 1], n)
  BY <1>4
<1> DEFINE S == {n \in Nat : n <= m => after[n] = trail[n]}
<1>6. \A n \in Nat : n \in S
  <2>1. 0 \in S
    BY <1>5 DEF Writing
  <2>2. ASSUME NEW n \in Nat, n \in S PROVE n + 1 \in S
    <3>1. SUFFICES ASSUME n + 1 <= m PROVE after[n + 1] = trail[n + 1]
      OBVIOUS
    <3>2. n + 1 \in 1 .. m /\ (n + 1) - 1 = n /\ after[n] = trail[n]
      BY <3>1, <2>2
    <3>3. after[n + 1] = Write(after[n], n + 1)
      BY <1>5, <3>2
    <3>4. trail[n + 1] = Write(trail[n], n + 1)
      BY <3>2, <1>0
    <3> QED BY <3>2, <3>3, <3>4
  <2> HIDE DEF S
  <2> QED BY <2>1, <2>2, NatInd
<1> QED BY <1>2, <1>6

\* There always is a trail of writes.
LEMMA WritingExists ==
  ASSUME NEW chain, NEW selectors, Len(selectors) \in Nat
  PROVE  \E trail : Writing(trail, chain, selectors)
<1> DEFINE m == Len(selectors)
           Write(c, n) == SetParameter(c, selectors[n].slot, selectors[n].effect)
           Goes(f, n) == f[0] = chain /\ \A i \in 1 .. n : f[i] = Write(f[i - 1], i)
           S == {n \in Nat : \E f : Goes(f, n)}
<1> HIDE DEF Write
<1>1. 0 \in S
  <2> DEFINE f == [n \in {0} |-> chain]
  <2>1. Goes(f, 0)
    OBVIOUS
  <2> HIDE DEF Goes
  <2> QED BY <2>1
<1>2. ASSUME NEW n \in Nat, n \in S PROVE n + 1 \in S
  <2> PICK f : Goes(f, n)
    BY <1>2
  <2> DEFINE g == [i \in 0 .. n + 1 |-> IF i <= n THEN f[i] ELSE Write(f[n], n + 1)]
  <2>1. \A i \in 0 .. n : g[i] = f[i]
    OBVIOUS
  <2>2. g[n + 1] = Write(g[n], n + 1)
    OBVIOUS
  <2> HIDE DEF g
  <2>3. ASSUME NEW i \in 1 .. n + 1 PROVE g[i] = Write(g[i - 1], i)
    <3>1. CASE i = n + 1
      BY <3>1, <2>2
    <3>2. CASE i # n + 1
      <4>1. i \in 1 .. n /\ i \in 0 .. n /\ i - 1 \in 0 .. n
        BY <3>2
      <4> QED BY <4>1, <2>1
    <3> QED BY <3>1, <3>2
  <2>4. Goes(g, n + 1)
    BY <2>1, <2>3
  <2> HIDE DEF Goes
  <2> QED BY <2>4
<1> HIDE DEF S
<1>3. m \in S
  BY <1>1, <1>2, NatInd
<1>4. PICK f : Goes(f, m)
  BY <1>3 DEF S
<1> QED BY <1>4 DEF Writing, Write

-----------------------------------------------------------------------------
(* Moves.                                                                  *)

(* A move keeps the chain's length, and the moves back and forth between   *)
(* two slots cancel: the inverse editModuleMove() records for the undo     *)
(* history, the same move with its slots exchanged, restores every slot    *)
(* and not only the two it names.                                          *)
LEMMA MoveType ==
  ASSUME NEW E, NEW chain \in Seq(E), NEW i \in Nat, NEW j \in Nat,
         MoveNamesModules(chain, i, j)
  PROVE  /\ MoveModule(chain, i, j) \in Seq(E)
         /\ Len(MoveModule(chain, i, j)) = Len(chain)
<1> DEFINE moved == MoveModule(chain, i, j)
<1>1. Len(chain) \in Nat /\ \A k \in 1 .. Len(chain) : chain[k] \in E
  BY ElementOfSeq, LenProperties
<1>2. i + 1 \in 1 .. Len(chain)
  BY <1>1 DEF MoveNamesModules
<1>3. ASSUME NEW k \in 1 .. Len(chain) PROVE moved[k] \in E
  <2>1. CASE k = j + 1
    BY <1>1, <1>2, <2>1 DEF MoveModule
  <2>2. CASE k > i /\ k < j + 1
    <3>1. k + 1 \in 1 .. Len(chain)
      BY <1>1, <2>2 DEF MoveNamesModules
    <3> QED BY <1>1, <2>2, <3>1 DEF MoveModule
  <2>3. CASE k > j + 1 /\ k <= i + 1
    <3>1. k - 1 \in 1 .. Len(chain)
      BY <1>1, <2>3 DEF MoveNamesModules
    <3> QED BY <1>1, <2>3, <3>1 DEF MoveModule
  <2>4. CASE k # j + 1 /\ ~(k > i /\ k < j + 1) /\ ~(k > j + 1 /\ k <= i + 1)
    BY <1>1, <2>4 DEF MoveModule
  <2> QED BY <1>1, <2>1, <2>2, <2>3, <2>4
<1>4. moved \in [1 .. Len(chain) -> E]
  BY <1>3 DEF MoveModule
<1> QED BY <1>1, <1>4, LenProperties

(* moveModule() to a slot and back is the identity.                        *)
THEOREM MoveUndoesMove ==
  ASSUME NEW E, NEW chain \in Seq(E), NEW i \in Nat, NEW j \in Nat,
         MoveNamesModules(chain, i, j)
  PROVE  MoveModule(MoveModule(chain, i, j), j, i) = chain
<1> DEFINE moved == MoveModule(chain, i, j)
           back == MoveModule(moved, j, i)
<1>1. moved \in Seq(E) /\ Len(moved) = Len(chain) /\ Len(chain) \in Nat
  BY MoveType, LenProperties
<1>2. MoveNamesModules(moved, j, i)
  BY <1>1 DEF MoveNamesModules
<1>3. back \in Seq(E) /\ Len(back) = Len(chain)
  BY <1>1, <1>2, MoveType
<1>4. ASSUME NEW k \in 1 .. Len(chain) PROVE back[k] = chain[k]
  <2> USE <1>1 DEF MoveNamesModules
  <2>1. CASE k = i + 1
    BY <2>1 DEF MoveModule
  <2>2. CASE k > j /\ k < i + 1
    <3>1. back[k] = moved[k + 1]
      BY <2>2 DEF MoveModule
    <3>2. moved[k + 1] = chain[k]
      BY <2>2 DEF MoveModule
    <3> QED BY <3>1, <3>2
  <2>3. CASE k > i + 1 /\ k <= j + 1
    <3>1. back[k] = moved[k - 1]
      BY <2>3 DEF MoveModule
    <3>2. moved[k - 1] = chain[k]
      BY <2>3 DEF MoveModule
    <3> QED BY <3>1, <3>2
  <2>4. CASE k # i + 1 /\ ~(k > j /\ k < i + 1) /\ ~(k > i + 1 /\ k <= j + 1)
    <3>1. back[k] = moved[k]
      BY <2>4 DEF MoveModule
    <3>2. moved[k] = chain[k]
      BY <2>4 DEF MoveModule
    <3> QED BY <3>1, <3>2
  <2> QED BY <2>1, <2>2, <2>3, <2>4
<1> QED BY <1>1, <1>3, <1>4, SeqEqual

-----------------------------------------------------------------------------
(* What keeps a chain a chain.                                             *)

Choice == Effect \cup {noModule}
Selector == [slot : Slot, effect : Choice]
Command ==
  [kind : {"slot"}, slot : Slot, effect : Choice]
    \cup [kind : {"move"}, from : Slot, to : Slot]
    \cup [kind : {"chain"}, chain : Chain]
    \cup [kind : {"republish"}]

LEMMA ChainIs ==
  ASSUME NEW c
  PROVE  c \in Chain <=> c \in Seq(Effect) /\ Len(c) <= MaxModules
<1>1. ASSUME c \in Chain PROVE c \in Seq(Effect) /\ Len(c) <= MaxModules
  <2> PICK n \in 0 .. MaxModules : c \in [1 .. n -> Effect]
    BY <1>1 DEF Chain
  <2>1. n \in Nat /\ n <= MaxModules
    BY MaxModulesAssumption
  <2> QED BY <2>1, SeqDef, LenProperties
<1>2. ASSUME c \in Seq(Effect), Len(c) <= MaxModules PROVE c \in Chain
  <2>1. Len(c) \in Nat /\ c \in [1 .. Len(c) -> Effect]
    BY <1>2, LenProperties
  <2>2. Len(c) \in 0 .. MaxModules
    BY <1>2, <2>1, MaxModulesAssumption
  <2> QED BY <2>1, <2>2 DEF Chain
<1> QED BY <1>1, <1>2

\* What removing a module leaves.
LEMMA Removed ==
  ASSUME NEW E, NEW c \in Seq(E), NEW n \in 1 .. Len(c)
  PROVE  /\ RemoveAt(c, n) \in Seq(E)
         /\ Len(RemoveAt(c, n)) = Len(c) - 1
         /\ \A k \in 1 .. n - 1 : RemoveAt(c, n)[k] = c[k]
         /\ \A k \in n .. Len(c) - 1 : RemoveAt(c, n)[k] = c[k + 1]
<1>1. Len(c) \in Nat
  BY LenProperties
<1> DEFINE a == SubSeq(c, 1, n - 1)
           b == SubSeq(c, n + 1, Len(c))
<1>2. a \in Seq(E) /\ Len(a) = n - 1 /\ \A k \in 1 .. n - 1 : a[k] = c[k]
  BY <1>1
<1>3. b \in Seq(E) /\ Len(b) = Len(c) - n /\ \A k \in 1 .. Len(c) - n : b[k] = c[n + k]
  BY <1>1
<1> HIDE DEF a, b
<1>4. /\ a \o b \in Seq(E) /\ Len(a \o b) = Len(c) - 1
      /\ \A k \in 1 .. n - 1 : (a \o b)[k] = c[k]
      /\ \A k \in n .. Len(c) - 1 : (a \o b)[k] = c[k + 1]
  <2>1. a \o b \in Seq(E) /\ Len(a \o b) = Len(c) - 1
    BY <1>1, <1>2, <1>3
  <2>2. ASSUME NEW k \in 1 .. n - 1 PROVE (a \o b)[k] = c[k]
    BY <1>1, <1>2, <1>3
  <2>3. ASSUME NEW k \in n .. Len(c) - 1 PROVE (a \o b)[k] = c[k + 1]
    <3>1. /\ k - Len(a) \in 1 .. Len(c) - n /\ n + (k - Len(a)) = k + 1
          /\ k \in 1 .. Len(a) + Len(b) /\ ~(k <= Len(a))
      BY <1>1, <1>2, <1>3
    <3>2. (a \o b)[k] = b[k - Len(a)]
      BY <1>2, <1>3, <3>1, ConcatProperties
    <3> QED BY <1>3, <3>1, <3>2
  <2> QED BY <2>1, <2>2, <2>3
<1>5. RemoveAt(c, n) = a \o b
  BY DEF RemoveAt, a, b
<1> QED BY <1>4, <1>5

\* Setting a slot keeps a chain a chain, no longer than one more.
LEMMA InstallType ==
  ASSUME NEW c \in Chain, NEW slot \in Slot, NEW effect \in Choice
  PROVE  InstallModuleInSlot(c, slot, effect) \in Chain
<1>1. c \in Seq(Effect) /\ Len(c) \in Nat /\ Len(c) <= MaxModules
  BY ChainIs, LenProperties
<1>2. slot \in Nat /\ slot < MaxModules
  BY MaxModulesAssumption DEF Slot
<1>3. CASE effect # noModule /\ slot < Len(c)
  <2>1. effect \in Effect /\ slot + 1 \in 1 .. Len(c)
    BY <1>1, <1>2, <1>3 DEF Choice
  <2>2. [c EXCEPT ![slot + 1] = effect] \in Seq(Effect)
        /\ Len([c EXCEPT ![slot + 1] = effect]) = Len(c)
    BY <1>1, <2>1, ExceptSeq
  <2> QED BY <1>1, <1>3, <2>2, ChainIs DEF InstallModuleInSlot, InsertAtAndReplace
<1>4. CASE effect # noModule /\ ~(slot < Len(c))
  <2>1. effect \in Effect
    BY <1>4 DEF Choice
  <2>2. Append(c, effect) \in Seq(Effect) /\ Len(Append(c, effect)) = Len(c) + 1
    BY <1>1, <2>1
  <2>3. Len(c) + 1 <= MaxModules
    BY <1>1, <1>2, <1>4, MaxModulesAssumption
  <2> QED BY <1>4, <2>2, <2>3, ChainIs DEF InstallModuleInSlot, InsertAtAndReplace
<1>5. CASE effect = noModule /\ slot < Len(c)
  <2>1. slot + 1 \in 1 .. Len(c)
    BY <1>1, <1>2, <1>5
  <2>2. RemoveAt(c, slot + 1) \in Seq(Effect) /\ Len(RemoveAt(c, slot + 1)) <= MaxModules
    BY <1>1, <2>1, Removed, MaxModulesAssumption
  <2> QED BY <1>5, <2>2, ChainIs DEF InstallModuleInSlot
<1>6. CASE effect = noModule /\ ~(slot < Len(c))
  BY <1>6 DEF InstallModuleInSlot
<1> QED BY <1>3, <1>4, <1>5, <1>6

LEMMA SetParameterType ==
  ASSUME NEW c \in Chain, NEW slot \in Slot, NEW effect \in Choice
  PROVE  SetParameter(c, slot, effect) \in Chain
BY InstallType DEF SetParameter

\* A command the engine's thread may carry out keeps a chain a chain.
LEMMA ApplyType ==
  ASSUME NEW c \in Chain, NEW command \in Command,
         command.kind = "move" => MoveNamesModules(c, command.from, command.to)
  PROVE  Apply(c, command) \in Chain
<1>1. CASE command \in [kind : {"slot"}, slot : Slot, effect : Choice]
  BY <1>1, InstallType DEF Apply
<1>2. CASE command \in [kind : {"move"}, from : Slot, to : Slot]
  <2>1. command.kind = "move" /\ command.from \in Nat /\ command.to \in Nat
    BY <1>2, MaxModulesAssumption DEF Slot
  <2>2. MoveModule(c, command.from, command.to) \in Chain
    <3>1. c \in Seq(Effect) /\ Len(c) <= MaxModules
      BY ChainIs
    <3>2. MoveModule(c, command.from, command.to) \in Seq(Effect)
          /\ Len(MoveModule(c, command.from, command.to)) = Len(c)
      BY <3>1, <2>1, MoveType
    <3> QED BY <3>1, <3>2, ChainIs
  <2> QED BY <2>1, <2>2 DEF Apply
<1>3. CASE command \in [kind : {"chain"}, chain : Chain]
  BY <1>3 DEF Apply
<1>4. CASE command \in [kind : {"republish"}]
  BY <1>4 DEF Apply
<1> QED BY <1>1, <1>2, <1>3, <1>4 DEF Command

LEMMA WritingType ==
  ASSUME NEW c \in Chain, NEW selectors \in Seq(Selector),
         NEW trail, Writing(trail, c, selectors)
  PROVE  \A n \in 0 .. Len(selectors) : trail[n] \in Chain
<1> DEFINE m == Len(selectors)
           S == {n \in Nat : n <= m => trail[n] \in Chain}
<1>1. m \in Nat
  BY LenProperties
<1>2. 0 \in S
  BY DEF Writing
<1>3. ASSUME NEW n \in Nat, n \in S PROVE n + 1 \in S
  <2>1. SUFFICES ASSUME n + 1 <= m PROVE trail[n + 1] \in Chain
    OBVIOUS
  <2>2. n + 1 \in 1 .. m /\ (n + 1) - 1 = n /\ trail[n] \in Chain
    BY <1>1, <1>3, <2>1
  <2> DEFINE s == selectors[n + 1]
  <2>3. s \in Selector
    BY <2>2, ElementOfSeq
  <2>4. s.slot \in Slot /\ s.effect \in Choice
    BY <2>3 DEF Selector
  <2>5. trail[n + 1] = SetParameter(trail[n], s.slot, s.effect)
    BY <2>2 DEF Writing
  <2> HIDE DEF s
  <2> QED BY <2>2, <2>4, <2>5, SetParameterType
<1> HIDE DEF S
<1>4. \A n \in Nat : n \in S
  BY <1>2, <1>3, NatInd
<1> QED BY <1>1, <1>4 DEF S

LEMMA WrittenType ==
  ASSUME NEW c \in Chain, NEW selectors \in Seq(Selector)
  PROVE  Written(c, selectors) \in Chain
<1>1. Len(selectors) \in Nat
  BY LenProperties
<1>2. PICK trail : Writing(trail, c, selectors)
  BY <1>1, WritingExists
<1>3. Written(c, selectors) = trail[Len(selectors)]
  BY <1>1, <1>2, WrittenAlong
<1> QED BY <1>1, <1>2, <1>3, WritingType

-----------------------------------------------------------------------------
(* The selectors of one chain written to another.                          *)

LEMMA SelectorsType ==
  ASSUME NEW chain \in Chain
  PROVE  /\ Selectors(chain) \in Seq(Selector)
         /\ Len(Selectors(chain)) = MaxModules
         /\ \A n \in 1 .. MaxModules :
              Selectors(chain)[n] = [slot |-> n - 1, effect |-> EffectAt(chain, n - 1)]
<1>1. chain \in Seq(Effect) /\ Len(chain) \in Nat
  BY ChainIs, LenProperties
<1>2. ASSUME NEW n \in 1 .. MaxModules
      PROVE  [slot |-> n - 1, effect |-> EffectAt(chain, n - 1)] \in Selector
  <2>1. n - 1 \in Slot
    BY MaxModulesAssumption DEF Slot
  <2>2. EffectAt(chain, n - 1) \in Choice
    <3>1. CASE n - 1 < Len(chain)
      <4>1. (n - 1) + 1 \in 1 .. Len(chain)
        BY <1>1, <3>1, MaxModulesAssumption
      <4> QED BY <1>1, <4>1, <3>1, ElementOfSeq DEF EffectAt, Choice
    <3>2. CASE ~(n - 1 < Len(chain))
      BY <3>2 DEF EffectAt, Choice
    <3> QED BY <3>1, <3>2
  <2> QED BY <2>1, <2>2 DEF Selector
<1>3. Selectors(chain) \in [1 .. MaxModules -> Selector]
  BY <1>2 DEF Selectors
<1>4. MaxModules \in Nat
  BY MaxModulesAssumption
<1>5. Selectors(chain) \in Seq(Selector) /\ Len(Selectors(chain)) = MaxModules
  BY <1>3, <1>4, SeqDef, LenProperties
<1> QED BY <1>5 DEF Selectors

\* Slot n filled from a chain that has a module there, the ones before it being
\* the chain's already.
LEMMA FillingSlot ==
  ASSUME NEW chain \in Chain, NEW c \in Chain, NEW n \in Nat, n < Len(chain),
         n <= Len(c), Len(c) <= Len(chain) + 1, \A k \in 1 .. n : c[k] = chain[k],
         NEW d, d = SetParameter(c, n, EffectAt(chain, n))
  PROVE  /\ n + 1 <= Len(d) /\ Len(d) <= Len(chain) + 1
         /\ \A k \in 1 .. n + 1 : d[k] = chain[k]
<1>1. /\ chain \in Seq(Effect) /\ Len(chain) \in Nat
      /\ c \in Seq(Effect) /\ Len(c) \in Nat
  BY ChainIs, LenProperties
<1> DEFINE e == chain[n + 1]
<1>2. n + 1 \in 1 .. Len(chain)
  BY <1>1
<1>3. e \in Effect /\ e # noModule /\ EffectAt(chain, n) = e
  BY <1>1, <1>2, ElementOfSeq, EffectAssumption DEF EffectAt
<1> HIDE DEF e
<1>4. CASE n < Len(c)
  <2>1. n + 1 \in 1 .. Len(c) /\ EffectAt(c, n) = c[n + 1]
    BY <1>1, <1>4 DEF EffectAt
  <2>2. CASE c[n + 1] = e
    <3>1. d = c
      BY <1>3, <2>1, <2>2 DEF SetParameter
    <3> QED BY <1>1, <2>1, <2>2, <3>1 DEF e
  <2>3. CASE c[n + 1] # e
    <3>1. d = [c EXCEPT ![n + 1] = e]
      BY <1>3, <1>4, <2>1, <2>3 DEF SetParameter, InstallModuleInSlot, InsertAtAndReplace
    <3>2. Len(d) = Len(c) /\ \A k \in 1 .. Len(c) : d[k] = IF k = n + 1 THEN e ELSE c[k]
      BY <1>1, <1>3, <2>1, <3>1, ExceptSeq
    <3>3. \A k \in 1 .. n + 1 : k \in 1 .. Len(c) /\ (k # n + 1 => k \in 1 .. n)
      BY <1>1, <2>1
    <3> QED BY <1>1, <2>1, <3>2, <3>3 DEF e
  <2> QED BY <2>2, <2>3
<1>5. CASE ~(n < Len(c))
  <2>1. Len(c) = n /\ EffectAt(c, n) = noModule
    BY <1>1, <1>5 DEF EffectAt
  <2>2. d = Append(c, e)
    BY <1>3, <1>5, <2>1 DEF SetParameter, InstallModuleInSlot, InsertAtAndReplace
  <2>3. Len(d) = n + 1 /\ d[n + 1] = e /\ \A k \in 1 .. n : d[k] = c[k]
    BY <1>1, <1>3, <2>1, <2>2
  <2> QED BY <1>1, <2>3 DEF e
<1> QED BY <1>4, <1>5

\* The slot past a chain's last emptied, whether or not there is a module in it.
LEMMA EmptyingNext ==
  ASSUME NEW chain \in Chain, NEW c \in Chain,
         Len(chain) <= Len(c), Len(c) <= Len(chain) + 1,
         \A k \in 1 .. Len(chain) : c[k] = chain[k]
  PROVE  SetParameter(c, Len(chain), EffectAt(chain, Len(chain))) = chain
<1> DEFINE n == Len(chain)
<1>1. /\ chain \in Seq(Effect) /\ n \in Nat
      /\ c \in Seq(Effect) /\ Len(c) \in Nat
  BY ChainIs, LenProperties
<1>2. EffectAt(chain, n) = noModule
  BY <1>1 DEF EffectAt
<1>3. CASE Len(c) = n
  <2>1. c = chain
    BY <1>1, <1>3, SeqEqual
  <2> QED BY <1>2, <2>1 DEF SetParameter
<1>4. CASE Len(c) = n + 1
  <2>1. n + 1 \in 1 .. Len(c) /\ n < Len(c)
    BY <1>1, <1>4
  <2>2. EffectAt(c, n) # noModule
    BY <1>1, <2>1, ElementOfSeq, EffectAssumption DEF EffectAt
  <2>3. SetParameter(c, n, noModule) = RemoveAt(c, n + 1)
    BY <2>1, <2>2 DEF SetParameter, InstallModuleInSlot
  <2> DEFINE r == RemoveAt(c, n + 1)
  <2>4. r \in Seq(Effect) /\ Len(r) = Len(c) - 1 /\ \A k \in 1 .. (n + 1) - 1 : r[k] = c[k]
    BY <1>1, <2>1, Removed
  <2>5. Len(r) = n /\ \A k \in 1 .. n : r[k] = chain[k]
    BY <1>1, <1>4, <2>4
  <2> HIDE DEF r
  <2>6. r = chain
    BY <1>1, <2>4, <2>5, SeqEqual
  <2> QED BY <1>2, <2>3, <2>6 DEF r
<1> QED BY <1>1, <1>3, <1>4

LEMMA RepublishedIs ==
  ASSUME NEW chain \in Chain, NEW copy \in Chain, Len(copy) <= Len(chain) + 1
  PROVE  Republished(copy, chain) = chain
<1> DEFINE selectors == Selectors(chain)
           size == Len(chain)
<1>1. /\ selectors \in Seq(Selector) /\ Len(selectors) = MaxModules
      /\ \A n \in 1 .. MaxModules :
           selectors[n] = [slot |-> n - 1, effect |-> EffectAt(chain, n - 1)]
  BY SelectorsType
<1>2. MaxModules \in Nat /\ chain \in Seq(Effect) /\ size \in Nat /\ size <= MaxModules
  BY MaxModulesAssumption, ChainIs, LenProperties
<1>3. PICK trail : Writing(trail, copy, selectors)
  BY <1>1, <1>2, WritingExists
<1>4. \A n \in 0 .. MaxModules : trail[n] \in Chain
  BY <1>1, <1>3, WritingType
<1>5. ASSUME NEW n \in Nat, n + 1 <= MaxModules
      PROVE  trail[n + 1] = SetParameter(trail[n], n, EffectAt(chain, n))
  <2>1. n + 1 \in 1 .. MaxModules /\ (n + 1) - 1 = n
    BY <1>2, <1>5
  <2>2. trail[n + 1] = SetParameter(trail[(n + 1) - 1], selectors[n + 1].slot,
                                    selectors[n + 1].effect)
    BY <1>1, <1>3, <2>1 DEF Writing
  <2>3. selectors[n + 1] = [slot |-> (n + 1) - 1, effect |-> EffectAt(chain, (n + 1) - 1)]
    BY <1>1, <2>1
  <2> QED BY <2>1, <2>2, <2>3
<1> DEFINE Matches(n) ==
             /\ n <= size => /\ n <= Len(trail[n]) /\ Len(trail[n]) <= size + 1
                             /\ \A k \in 1 .. n : trail[n][k] = chain[k]
             /\ n > size => trail[n] = chain
           S == {n \in Nat : n <= MaxModules => Matches(n)}
<1>6. 0 \in S
  <2>1. trail[0] = copy /\ Len(copy) \in Nat
    BY <1>3, ChainIs, LenProperties DEF Writing
  <2> QED BY <1>2, <2>1
<1>7. ASSUME NEW n \in Nat, n \in S PROVE n + 1 \in S
  <2>1. SUFFICES ASSUME n + 1 <= MaxModules PROVE Matches(n + 1)
    BY DEF S
  <2>2. Matches(n) /\ trail[n] \in Chain
    <3>1. n \in 0 .. MaxModules
      BY <1>2, <2>1
    <3> QED BY <1>4, <1>7, <3>1
  <2>3. trail[n + 1] = SetParameter(trail[n], n, EffectAt(chain, n))
    BY <1>5, <2>1
  <2>4. CASE n < size
    <3>1. n <= size
      BY <1>2, <2>4
    <3>2. /\ n + 1 <= Len(trail[n + 1]) /\ Len(trail[n + 1]) <= size + 1
          /\ \A k \in 1 .. n + 1 : trail[n + 1][k] = chain[k]
      <4> DEFINE c == trail[n]
                 d == trail[n + 1]
      <4>1. n <= Len(c) /\ Len(c) <= size + 1 /\ \A k \in 1 .. n : c[k] = chain[k]
        BY <2>2, <3>1
      <4>2. c \in Chain /\ d = SetParameter(c, n, EffectAt(chain, n))
        BY <2>2, <2>3
      <4> HIDE DEF c, d, Matches
      <4>3. /\ n + 1 <= Len(d) /\ Len(d) <= Len(chain) + 1
            /\ \A k \in 1 .. n + 1 : d[k] = chain[k]
        BY <2>4, <4>1, <4>2, FillingSlot
      <4> QED BY <4>3 DEF d
    <3>3. ~(n + 1 > size)
      BY <1>2, <2>4
    <3> QED BY <3>2, <3>3
  <2>5. CASE n = size
    <3>1. trail[n + 1] = chain
      BY <1>2, <2>2, <2>3, <2>5, EmptyingNext
    <3>2. ~(n + 1 <= size)
      BY <1>2, <2>5
    <3> QED BY <3>1, <3>2
  <2>6. CASE n > size
    <3>1. trail[n] = chain /\ ~(n + 1 <= size)
      BY <1>2, <2>2, <2>6
    <3>2. SetParameter(chain, n, EffectAt(chain, n)) = chain
      BY DEF SetParameter
    <3> QED BY <2>3, <3>1, <3>2
  <2> QED BY <1>2, <2>4, <2>5, <2>6
<1> HIDE DEF S
<1>8. \A n \in Nat : n \in S
  BY <1>6, <1>7, NatInd
<1>9. Matches(MaxModules)
  BY <1>2, <1>8 DEF S
<1>10. trail[MaxModules] = chain
  <2>1. CASE size < MaxModules
    BY <1>2, <1>9, <2>1
  <2>2. CASE size = MaxModules
    <3> DEFINE last == trail[MaxModules]
    <3>1. last \in Seq(Effect) /\ Len(last) \in Nat /\ Len(last) <= MaxModules
      BY <1>2, <1>4, ChainIs, LenProperties
    <3>2. Len(last) = size /\ \A k \in 1 .. size : last[k] = chain[k]
      BY <1>2, <1>9, <2>2, <3>1
    <3> HIDE DEF last
    <3>3. last = chain
      BY <1>2, <3>1, <3>2, SeqEqual
    <3> QED BY <3>3 DEF last
  <2> QED BY <1>2, <2>1, <2>2
<1>11. Written(copy, selectors) = trail[Len(selectors)]
  BY <1>1, <1>2, <1>3, WrittenAlong
<1> QED BY <1>1, <1>10, <1>11 DEF Republished

-----------------------------------------------------------------------------
(* Types: both copies stay chains whatever is queued, echoed and lost.     *)

Chains == main \in Chain /\ engine \in Chain
Rings ==
  /\ toEngine \in Seq(Command) /\ Len(toEngine) <= CommandCapacity
  /\ toUI \in Seq(Selector) /\ Len(toUI) <= EchoCapacity
  /\ toEcho \in Seq(Selector) /\ Len(toEcho) <= MaxModules
Flags ==
  /\ echoesLost \in BOOLEAN /\ lossSeen \in BOOLEAN /\ dropped \in BOOLEAN
  /\ running \in BOOLEAN /\ republishing \in BOOLEAN /\ asserted \in BOOLEAN
  /\ audio \in {"idle", "drain", "events"}
  /\ entry \in {"none", "host", "deactivate"}
Types == Chains /\ Rings /\ Flags

LEMMA Capacities ==
  /\ CommandCapacity \in Nat /\ CommandCapacity > 0
  /\ EchoCapacity \in Nat /\ EchoCapacity > 0
  /\ MaxModules \in Nat /\ MaxModules > 0
BY CapacityAssumption, MaxModulesAssumption

LEMMA Nothing ==
  /\ <<>> \in Chain /\ <<>> \in Seq(Command) /\ <<>> \in Seq(Selector)
  /\ Len(<<>>) = 0 /\ RepublishParameters \in Command
<1>1. <<>> \in Seq(Effect) /\ Len(<<>>) = 0
  OBVIOUS
<1>2. <<>> \in Chain
  <2> DEFINE c == <<>>
  <2>1. c \in Seq(Effect) /\ Len(c) <= MaxModules
    BY <1>1, Capacities
  <2> HIDE DEF c
  <2>2. c \in Chain
    BY <2>1, ChainIs
  <2> QED BY <2>2 DEF c
<1> QED BY <1>2 DEF RepublishParameters, Command

LEMMA InitTypes == Init => Types
<1> SUFFICES ASSUME Init PROVE Types
  OBVIOUS
<1>1. Chains
  BY Nothing DEF Init, Chains
<1>2. Rings
  BY Nothing, Capacities DEF Init, Rings
<1>3. Flags
  BY DEF Init, Flags
<1> QED BY <1>1, <1>2, <1>3 DEF Types

LEMMA DrainTypes ==
  ASSUME Types, DrainEngineEvents,
         UNCHANGED <<engine, toEcho>>
  PROVE  Chains' /\ Rings' /\ echoesLost' \in BOOLEAN
<1>1. ReadEchoes(main, toUI) \in Chain
  BY WrittenType DEF Types, Chains, Rings, ReadEchoes
<1>2. Republished(ReadEchoes(main, toUI), engine) \in Chain
  BY <1>1, SelectorsType, WrittenType DEF Types, Chains, Republished
<1>3. Chains'
  BY <1>1, <1>2 DEF DrainEngineEvents, Types, Chains
<1>4. toEngine' \in Seq(Command) /\ Len(toEngine') <= CommandCapacity
  <2>1. CASE Len(toEngine) < CommandCapacity
    <3>1. Append(toEngine, RepublishParameters) \in Seq(Command)
          /\ Len(Append(toEngine, RepublishParameters)) = Len(toEngine) + 1
          /\ Len(toEngine) \in Nat
      BY Nothing, LenProperties DEF Types, Rings
    <3> QED BY <2>1, <3>1, Capacities DEF Types, Rings, DrainEngineEvents
  <2>2. CASE ~(Len(toEngine) < CommandCapacity)
    BY <2>2 DEF Types, Rings, DrainEngineEvents
  <2> QED BY <2>1, <2>2
<1>5. Rings'
  BY <1>4, Nothing, Capacities DEF Types, Rings, DrainEngineEvents
<1>6. echoesLost' \in BOOLEAN
  BY DEF DrainEngineEvents
<1> QED BY <1>3, <1>5, <1>6

LEMMA CarryOutTypes ==
  ASSUME Types, NEW command \in Command, CarryOut(command)
  PROVE  engine' \in Chain /\ asserted' \in BOOLEAN
<1>1. CASE command.kind = "move" /\ ~MoveNamesModules(engine, command.from, command.to)
  BY <1>1 DEF CarryOut, Types, Chains
<1>2. CASE ~(command.kind = "move" /\ ~MoveNamesModules(engine, command.from, command.to))
  <2>1. engine' = Apply(engine, command) /\ asserted' = asserted
    BY <1>2 DEF CarryOut
  <2>2. Apply(engine, command) \in Chain
    BY <1>2, ApplyType DEF Types, Chains
  <2> QED BY <2>1, <2>2 DEF Types, Flags
<1> QED BY <1>1, <1>2

LEMMA PublishTypes ==
  ASSUME Types, NEW command \in Command, Publish(command), main' \in Chain
  PROVE  Types'
<1>1. CASE running
  <2>1. /\ UNCHANGED <<engine, asserted, toUI, toEcho, echoesLost, lossSeen, running,
                       audio, entry, republishing>>
        /\ IF Len(toEngine) < CommandCapacity
             THEN toEngine' = Append(toEngine, command) /\ UNCHANGED dropped
             ELSE dropped' = TRUE /\ UNCHANGED toEngine
    BY <1>1 DEF Publish
  <2>2. toEngine' \in Seq(Command) /\ Len(toEngine') <= CommandCapacity
    <3>1. Append(toEngine, command) \in Seq(Command)
          /\ Len(Append(toEngine, command)) = Len(toEngine) + 1 /\ Len(toEngine) \in Nat
      BY LenProperties DEF Types, Rings
    <3>2. CASE Len(toEngine) < CommandCapacity
      BY <2>1, <3>1, <3>2, Capacities
    <3>3. CASE ~(Len(toEngine) < CommandCapacity)
      BY <2>1, <3>3 DEF Types, Rings
    <3> QED BY <3>2, <3>3
  <2> QED BY <2>1, <2>2 DEF Types, Chains, Rings, Flags
<1>2. CASE ~running
  <2>1. /\ UNCHANGED <<toEngine, dropped, toUI, toEcho, echoesLost, lossSeen, running,
                       audio, entry, republishing>>
        /\ CarryOut(command)
    BY <1>2 DEF Publish
  <2>2. engine' \in Chain /\ asserted' \in BOOLEAN
    BY <2>1, CarryOutTypes
  <2> QED BY <2>1, <2>2 DEF Types, Chains, Rings, Flags
<1> QED BY <1>1, <1>2

LEMMA Commands ==
  /\ \A slot \in Slot, effect \in Choice : SetSlot(slot, effect) \in Command
  /\ \A from, to \in Slot : Move(from, to) \in Command
  /\ \A chain \in Chain : SwapChain(chain) \in Command
BY DEF SetSlot, Move, SwapChain, Command

LEMMA NextTypes == Types /\ [Next]_vars => Types'
<1> SUFFICES ASSUME Types, [Next]_vars PROVE Types'
  OBVIOUS
<1>1. CASE EnterEngine
  BY <1>1 DEF EnterEngine, Types, Chains, Rings, Flags
<1>2. CASE DrainCommand
  <2>1. /\ Head(toEngine) \in Command /\ Tail(toEngine) \in Seq(Command)
        /\ Len(Tail(toEngine)) = Len(toEngine) - 1 /\ Len(toEngine) \in Nat
    BY <1>2, LenProperties DEF DrainCommand, Types, Rings
  <2>2. engine' \in Chain /\ asserted' \in BOOLEAN
    BY <1>2, <2>1, CarryOutTypes DEF DrainCommand
  <2>3. toEngine' \in Seq(Command) /\ Len(toEngine') <= CommandCapacity
    <3>1. toEngine' = Tail(toEngine) /\ Len(toEngine) <= CommandCapacity
      BY <1>2 DEF DrainCommand, Types, Rings
    <3> QED BY <2>1, <3>1, Capacities
  <2>4. republishing' \in BOOLEAN
    BY <1>2 DEF DrainCommand, Types, Flags
  <2> QED BY <1>2, <2>2, <2>3, <2>4 DEF DrainCommand, Types, Chains, Rings, Flags
<1>3. CASE DrainCommandsDone
  <2>1. Selectors(engine) \in Seq(Selector) /\ Len(Selectors(engine)) <= MaxModules
    BY SelectorsType, Capacities DEF Types, Chains
  <2>2. toEcho' \in Seq(Selector) /\ Len(toEcho') <= MaxModules
    BY <1>3, <2>1, Nothing, Capacities DEF DrainCommandsDone
  <2> QED BY <1>3, <2>2 DEF DrainCommandsDone, Types, Chains, Rings, Flags
<1>4. CASE EchoPush
  <2>1. /\ Head(toEcho) \in Selector /\ Tail(toEcho) \in Seq(Selector)
        /\ Len(Tail(toEcho)) = Len(toEcho) - 1 /\ Len(toEcho) \in Nat /\ Len(toUI) \in Nat
    BY <1>4, LenProperties DEF EchoPush, Types, Rings
  <2>2. toEcho' \in Seq(Selector) /\ Len(toEcho') <= MaxModules
    BY <1>4, <2>1, Capacities DEF EchoPush, Types, Rings
  <2>3. /\ toUI' \in Seq(Selector) /\ Len(toUI') <= EchoCapacity
        /\ echoesLost' \in BOOLEAN /\ lossSeen' \in BOOLEAN
    <3>1. Append(toUI, Head(toEcho)) \in Seq(Selector)
          /\ Len(Append(toUI, Head(toEcho))) = Len(toUI) + 1
      BY <2>1 DEF Types, Rings
    <3>2. CASE Len(toUI) < EchoCapacity
      <4>1. toUI' = Append(toUI, Head(toEcho)) /\ UNCHANGED <<echoesLost, lossSeen>>
        BY <1>4, <3>2 DEF EchoPush
      <4>2. Len(toUI') <= EchoCapacity
        BY <2>1, <3>1, <3>2, <4>1, Capacities
      <4> QED BY <3>1, <4>1, <4>2 DEF Types, Flags
    <3>3. CASE ~(Len(toUI) < EchoCapacity)
      BY <1>4, <3>3 DEF EchoPush, Types, Rings, Flags
    <3> QED BY <3>2, <3>3
  <2> QED BY <1>4, <2>2, <2>3 DEF EchoPush, Types, Chains, Rings, Flags
<1>5. CASE LeaveEngine
  <2>1. CASE running
    BY <1>5, <2>1 DEF LeaveEngine, Types, Chains, Rings, Flags
  <2>2. CASE ~running
    <3>1. DrainEngineEvents /\ UNCHANGED <<engine, toEcho>>
      BY <1>5, <2>2 DEF LeaveEngine
    <3>2. Chains' /\ Rings' /\ echoesLost' \in BOOLEAN
      BY <3>1, DrainTypes
    <3> QED BY <1>5, <3>2 DEF LeaveEngine, Types, Flags
  <2> QED BY <2>1, <2>2
<1>6. ASSUME NEW slot \in Slot, NEW effect \in Choice, HostSelector(slot, effect)
      PROVE  Types'
  <2>1. engine' \in Chain
    BY <1>6, SetParameterType DEF HostSelector, Types, Chains
  <2>2. toEcho' \in Seq(Selector) /\ Len(toEcho') <= MaxModules
    <3>1. [slot |-> slot, effect |-> effect] \in Selector
      BY DEF Selector
    <3>2. toEcho' = <<[slot |-> slot, effect |-> effect]>>
      BY <1>6 DEF HostSelector
    <3> HIDE DEF Selector
    <3> QED BY <3>1, <3>2, Capacities
  <2> QED BY <1>6, <2>1, <2>2 DEF HostSelector, Types, Chains, Rings, Flags
<1>7. ASSUME NEW slot \in Slot, NEW effect \in Choice, EditSlot(slot, effect)
      PROVE  Types'
  <2>1. main' \in Chain
    BY <1>7, SetParameterType DEF EditSlot, Types, Chains
  <2> QED BY <1>7, <2>1, Commands, PublishTypes DEF EditSlot
<1>8. ASSUME NEW from \in Slot, NEW to \in Slot, EditModuleMove(from, to)
      PROVE  Types'
  <2>1. Move(from, to) \in Command /\ Apply(main, Move(from, to)) = MoveModule(main, from, to)
    BY Commands DEF Apply, Move
  <2>2. main' \in Chain
    BY <1>8, <2>1, ApplyType DEF EditModuleMove, Types, Chains, Move
  <2> QED BY <1>8, <2>1, <2>2, PublishTypes DEF EditModuleMove
<1>9. ASSUME NEW chain \in Chain, LoadPreset(chain)
      PROVE  Types'
  BY <1>9, Commands, PublishTypes DEF LoadPreset
<1>10. CASE OnMainThread
  <2>1. Chains' /\ Rings' /\ echoesLost' \in BOOLEAN
    BY <1>10, DrainTypes DEF OnMainThread
  <2> QED BY <1>10, <2>1 DEF OnMainThread, Types, Flags
<1>11. CASE Activate
  <2>1. Chains' /\ Rings' /\ echoesLost' \in BOOLEAN
    BY <1>11, DrainTypes DEF Activate
  <2> QED BY <1>11, <2>1 DEF Activate, Types, Flags
<1>12. CASE Deactivate
  BY <1>12 DEF Deactivate, Types, Chains, Rings, Flags
<1>13. CASE UNCHANGED vars
  BY <1>13 DEF vars, Types, Chains, Rings, Flags
<1> QED
  BY <1>1, <1>2, <1>3, <1>4, <1>5, <1>6, <1>7, <1>8, <1>9, <1>10, <1>11, <1>12, <1>13
     DEF Next, Choice

(* In every reachable state both copies are chains no longer than a chain  *)
(* may be, and the rings hold only commands and selectors there are.       *)
THEOREM ChainTypes == Spec => []TypeOK
<1>1. Types => TypeOK
  <2> SUFFICES ASSUME Types PROVE TypeOK
    OBVIOUS
  <2>1. \A i \in DOMAIN toUI : toUI[i] \in [slot : Slot, effect : Choice]
    <3>1. toUI \in Seq(Selector)
      BY DEF Types, Rings
    <3>2. DOMAIN toUI = 1 .. Len(toUI)
      BY <3>1, LenProperties
    <3> QED BY <3>1, <3>2, ElementOfSeq DEF Selector
  <2> QED BY <2>1 DEF Types, Chains, Rings, Flags, TypeOK, Choice
<1> QED BY InitTypes, NextTypes, <1>1, PTL DEF Spec

-----------------------------------------------------------------------------
(* The resynchronisation of a stopped plug-in.                             *)

LEMMA DrainRepairs ==
  ASSUME Types, DrainEngineEvents, ~running, echoesLost,
         UNCHANGED engine, Len(ReadEchoes(main, toUI)) <= Len(engine) + 1
  PROVE  main' = engine'
<1>1. ReadEchoes(main, toUI) \in Chain /\ engine \in Chain
  BY WrittenType DEF Types, Chains, Rings, ReadEchoes
<1>2. Republished(ReadEchoes(main, toUI), engine) = engine
  BY <1>1, RepublishedIs
<1>3. main' = Republished(ReadEchoes(main, toUI), engine)
  BY DEF DrainEngineEvents
<1> QED BY <1>2, <1>3

(* A stopped plug-in's resynchronisation repairs the main thread's chain   *)
(* whatever echoes it missed, as long as what it has is at most one module *)
(* longer than the engine's: republishParameters() writes the selectors    *)
(* from the first slot up, and the empty one after the last removes it.    *)
THEOREM ChainRepaired == Spec => ResyncRepairsChain
<1> DEFINE Repairs ==
      ~running /\ echoesLost /\ ~echoesLost' /\ audio' = "idle"
      /\ Len(ReadEchoes(main, toUI)) <= Len(engine) + 1
        => main' = engine'
<1>1. Types /\ [Next]_vars => [Repairs]_vars
  <2> SUFFICES ASSUME Types, Next,
                      ~running, echoesLost, ~echoesLost', audio' = "idle",
                      Len(ReadEchoes(main, toUI)) <= Len(engine) + 1
               PROVE  main' = engine'
    OBVIOUS
  <2>1. CASE LeaveEngine
    BY <2>1, DrainRepairs DEF LeaveEngine
  <2>2. CASE OnMainThread
    BY <2>2, DrainRepairs DEF OnMainThread
  <2>3. CASE Activate
    BY <2>3, DrainRepairs DEF Activate
  <2>4. CASE EnterEngine \/ DrainCommand \/ DrainCommandsDone \/ Deactivate
    BY <2>4 DEF EnterEngine, DrainCommand, DrainCommandsDone, Deactivate
  <2>5. CASE EchoPush
    BY <2>5 DEF EchoPush
  <2>6. ASSUME NEW slot, NEW effect, HostSelector(slot, effect) PROVE FALSE
    BY <2>6 DEF HostSelector
  <2>7. ASSUME NEW command, Publish(command) PROVE FALSE
    BY <2>7 DEF Publish
  <2>8. ASSUME NEW slot, NEW effect, EditSlot(slot, effect) PROVE FALSE
    BY <2>7, <2>8 DEF EditSlot
  <2>9. ASSUME NEW from, NEW to, EditModuleMove(from, to) PROVE FALSE
    BY <2>7, <2>9 DEF EditModuleMove
  <2>10. ASSUME NEW chain, LoadPreset(chain) PROVE FALSE
    BY <2>7, <2>10 DEF LoadPreset
  <2> QED
    BY <2>1, <2>2, <2>3, <2>4, <2>5, <2>6, <2>8, <2>9, <2>10 DEF Next
<1> QED BY InitTypes, NextTypes, <1>1, PTL DEF Spec, ResyncRepairsChain

-----------------------------------------------------------------------------
(* An editor alone.  Carried out one after the other from the engine's     *)
(* chain, the commands under way go through chains that end in the one the *)
(* main thread shows, and every move on the way names two modules.         *)

Ahead(trail, from, commands, to) ==
  /\ Applying(trail, from, commands)
  /\ trail[Len(commands)] = to
  /\ \A i \in 1 .. Len(commands) :
       commands[i].kind = "move"
         => MoveNamesModules(trail[i - 1], commands[i].from, commands[i].to)

NothingEchoed ==
  /\ toUI = <<>> /\ toEcho = <<>> /\ echoesLost = FALSE /\ ~republishing
  /\ \A i \in 1 .. Len(toEngine) : toEngine[i] # RepublishParameters

\* With the engine stopped nothing is under way, except while deactivate() drains.
StoppedIsDrained == ~running /\ audio # "drain" => toEngine = <<>>

EditsLead ==
  ~dropped => ~asserted /\ \E trail : Ahead(trail, engine, toEngine, main)

EditorInv == writers = {"editor"} => NothingEchoed /\ StoppedIsDrained /\ EditsLead

LEMMA AheadOfNothing ==
  ASSUME NEW c PROVE \E trail : Ahead(trail, c, <<>>, c)
<1> DEFINE trail == [n \in {0} |-> c]
<1>1. Len(<<>>) = 0 /\ trail[0] = c
  OBVIOUS
<1>2. Ahead(trail, c, <<>>, c)
  BY <1>1 DEF Ahead, Applying
<1> HIDE DEF trail
<1> QED BY <1>2

\* Nothing under way: the two are the same chain.
LEMMA AheadNowhere ==
  ASSUME NEW c, NEW d, NEW trail, Ahead(trail, c, <<>>, d) PROVE c = d
BY DEF Ahead, Applying

LEMMA AheadOneMore ==
  ASSUME NEW from, NEW to, NEW commands \in Seq(Command), NEW command \in Command,
         NEW trail, Ahead(trail, from, commands, to),
         command.kind = "move" => MoveNamesModules(to, command.from, command.to)
  PROVE  \E longer : Ahead(longer, from, Append(commands, command), Apply(to, command))
<1> DEFINE m == Len(commands)
           more == Append(commands, command)
           longer == [n \in 0 .. m + 1 |-> IF n <= m THEN trail[n] ELSE Apply(to, command)]
<1>1. /\ m \in Nat /\ Len(more) = m + 1 /\ more[m + 1] = command
      /\ \A i \in 1 .. m : more[i] = commands[i]
  BY LenProperties
<1>2. \A n \in 0 .. m : longer[n] = trail[n]
  BY <1>1
<1>3. longer[m + 1] = Apply(to, command)
  BY <1>1
<1>4. /\ trail[0] = from /\ trail[m] = to
      /\ \A i \in 1 .. m :
           /\ trail[i] = Apply(trail[i - 1], commands[i])
           /\ commands[i].kind = "move"
                => MoveNamesModules(trail[i - 1], commands[i].from, commands[i].to)
  BY DEF Ahead, Applying
<1> HIDE DEF longer, more
<1>5. ASSUME NEW i \in 1 .. m + 1
      PROVE  /\ longer[i] = Apply(longer[i - 1], more[i])
             /\ more[i].kind = "move"
                  => MoveNamesModules(longer[i - 1], more[i].from, more[i].to)
  <2>1. CASE i = m + 1
    <3>1. i - 1 = m /\ longer[m] = to
      BY <1>1, <1>2, <1>4, <2>1
    <3> QED BY <1>1, <1>3, <2>1, <3>1
  <2>2. CASE i # m + 1
    <3>1. i \in 1 .. m /\ i \in 0 .. m /\ i - 1 \in 0 .. m
      BY <1>1, <2>2
    <3>2. longer[i] = trail[i] /\ longer[i - 1] = trail[i - 1] /\ more[i] = commands[i]
      BY <1>1, <1>2, <3>1
    <3> QED BY <1>4, <3>1, <3>2
  <2> QED BY <2>1, <2>2
<1>6. longer[0] = from
  BY <1>1, <1>2, <1>4
<1>7. Ahead(longer, from, more, Apply(to, command))
  BY <1>1, <1>3, <1>5, <1>6 DEF Ahead, Applying
<1> QED BY <1>7 DEF more

LEMMA AheadOneLess ==
  ASSUME NEW from, NEW to, NEW commands \in Seq(Command), commands # <<>>,
         NEW trail, Ahead(trail, from, commands, to)
  PROVE  /\ Head(commands).kind = "move"
              => MoveNamesModules(from, Head(commands).from, Head(commands).to)
         /\ \E rest : Ahead(rest, Apply(from, Head(commands)), Tail(commands), to)
<1> DEFINE m == Len(commands)
           less == Tail(commands)
           rest == [n \in 0 .. m - 1 |-> trail[n + 1]]
<1>1. /\ m \in Nat \ {0} /\ Len(less) = m - 1 /\ Head(commands) = commands[1]
      /\ \A i \in 1 .. m - 1 : less[i] = commands[i + 1]
  BY LenProperties, EmptySeq
<1>2. \A n \in 0 .. m - 1 : rest[n] = trail[n + 1]
  BY <1>1
<1>3. /\ trail[0] = from /\ trail[m] = to
      /\ \A i \in 1 .. m :
           /\ trail[i] = Apply(trail[i - 1], commands[i])
           /\ commands[i].kind = "move"
                => MoveNamesModules(trail[i - 1], commands[i].from, commands[i].to)
  BY DEF Ahead, Applying
<1> HIDE DEF rest, less
<1>4. 1 \in 1 .. m /\ 1 - 1 = 0
  BY <1>1
<1>5. /\ rest[0] = Apply(from, Head(commands)) /\ rest[m - 1] = to
      /\ Head(commands).kind = "move"
           => MoveNamesModules(from, Head(commands).from, Head(commands).to)
  <2>1. /\ trail[1] = Apply(trail[0], commands[1])
        /\ commands[1].kind = "move"
             => MoveNamesModules(trail[0], commands[1].from, commands[1].to)
    BY <1>3, <1>4
  <2>2. 0 \in 0 .. m - 1 /\ m - 1 \in 0 .. m - 1 /\ 0 + 1 = 1 /\ (m - 1) + 1 = m
    BY <1>1
  <2>3. rest[0] = trail[1] /\ rest[m - 1] = trail[m]
    BY <1>2, <2>2
  <2> QED BY <1>1, <1>3, <2>1, <2>3
<1>6. ASSUME NEW i \in 1 .. m - 1
      PROVE  /\ rest[i] = Apply(rest[i - 1], less[i])
             /\ less[i].kind = "move"
                  => MoveNamesModules(rest[i - 1], less[i].from, less[i].to)
  <2>1. /\ i + 1 \in 1 .. m /\ (i + 1) - 1 = i /\ i \in 0 .. m - 1
        /\ i - 1 \in 0 .. m - 1 /\ (i - 1) + 1 = i
    BY <1>1
  <2>2. rest[i] = trail[i + 1] /\ rest[i - 1] = trail[i] /\ less[i] = commands[i + 1]
    BY <1>1, <1>2, <2>1
  <2> QED BY <1>3, <2>1, <2>2
<1>7. Ahead(rest, Apply(from, Head(commands)), less, to)
  BY <1>1, <1>5, <1>6 DEF Ahead, Applying
<1> QED BY <1>5, <1>7 DEF less

\* An edit the main thread has made of its own chain, on its way to the engine's.
LEMMA PublishLeads ==
  ASSUME Types, NothingEchoed, StoppedIsDrained, EditsLead, MainFree,
         NEW command \in Command, command # RepublishParameters,
         command.kind = "move" => MoveNamesModules(main, command.from, command.to),
         main' = Apply(main, command), Publish(command)
  PROVE  NothingEchoed' /\ StoppedIsDrained' /\ EditsLead'
<1>1. UNCHANGED <<toUI, toEcho, echoesLost, republishing, running, audio>>
  BY DEF Publish
<1>2. toEngine \in Seq(Command)
  BY DEF Types, Rings
<1>3. CASE running
  <2>1. /\ UNCHANGED <<engine, asserted>>
        /\ IF Len(toEngine) < CommandCapacity
             THEN toEngine' = Append(toEngine, command) /\ UNCHANGED dropped
             ELSE dropped' = TRUE /\ UNCHANGED toEngine
    BY <1>3 DEF Publish
  <2>2. CASE Len(toEngine) < CommandCapacity
    <3>1. toEngine' = Append(toEngine, command) /\ dropped' = dropped
      BY <2>1, <2>2
    <3>2. NothingEchoed'
      <4>1. /\ Len(toEngine') = Len(toEngine) + 1 /\ Len(toEngine) \in Nat
            /\ toEngine'[Len(toEngine) + 1] = command
            /\ \A i \in 1 .. Len(toEngine) : toEngine'[i] = toEngine[i]
        BY <1>2, <3>1, LenProperties
      <4>2. \A i \in 1 .. Len(toEngine) + 1 : i = Len(toEngine) + 1 \/ i \in 1 .. Len(toEngine)
        BY <4>1
      <4> QED BY <1>1, <4>1, <4>2 DEF NothingEchoed
    <3>3. EditsLead'
      <4> SUFFICES ASSUME ~dropped'
                   PROVE  ~asserted' /\ \E trail : Ahead(trail, engine', toEngine', main')
        BY DEF EditsLead
      <4>1. PICK trail : Ahead(trail, engine, toEngine, main)
        BY <3>1 DEF EditsLead
      <4>2. \E longer : Ahead(longer, engine, Append(toEngine, command), Apply(main, command))
        BY <1>2, <4>1, AheadOneMore
      <4> QED BY <2>1, <3>1, <4>2 DEF EditsLead
    <3> QED BY <1>1, <1>3, <3>2, <3>3 DEF StoppedIsDrained
  <2>3. CASE ~(Len(toEngine) < CommandCapacity)
    <3>1. toEngine' = toEngine /\ dropped'
      BY <2>1, <2>3
    <3> QED BY <1>1, <3>1 DEF NothingEchoed, StoppedIsDrained, EditsLead
  <2> QED BY <2>2, <2>3
<1>4. CASE ~running
  <2>1. toEngine = <<>> /\ audio = "idle"
    BY <1>4 DEF MainFree, StoppedIsDrained
  <2>2. CarryOut(command) /\ UNCHANGED <<toEngine, dropped>>
    BY <1>4 DEF Publish
  <2>3. NothingEchoed' /\ StoppedIsDrained'
    BY <1>1, <2>2 DEF NothingEchoed, StoppedIsDrained
  <2>4. EditsLead'
    <3> SUFFICES ASSUME ~dropped'
                 PROVE  ~asserted' /\ \E trail : Ahead(trail, engine', toEngine', main')
      BY DEF EditsLead
    <3>1. PICK trail : Ahead(trail, engine, toEngine, main)
      BY <2>2 DEF EditsLead
    <3>2. engine = main /\ ~asserted
      BY <2>1, <2>2, <3>1, AheadNowhere DEF EditsLead
    <3>3. engine' = Apply(engine, command) /\ asserted' = asserted
      BY <2>2, <3>2 DEF CarryOut
    <3>4. engine' = main' /\ toEngine' = <<>>
      BY <2>1, <2>2, <3>2, <3>3
    <3> QED BY <3>2, <3>3, <3>4, AheadOfNothing
  <2> QED BY <2>3, <2>4
<1> QED BY <1>3, <1>4 DEF Types, Flags

\* A drain of the echoes there are not.
LEMMA DrainNothing ==
  ASSUME NothingEchoed, DrainEngineEvents
  PROVE  UNCHANGED <<main, toEngine, toUI, echoesLost>>
<1>1. Writing([n \in {0} |-> main], main, toUI) /\ Len(toUI) = 0
  BY DEF NothingEchoed, Writing
<1>2. ReadEchoes(main, toUI) = main
  <2> DEFINE trail == [n \in {0} |-> main]
  <2>1. trail[0] = main
    OBVIOUS
  <2> HIDE DEF trail
  <2>2. Writing(trail, main, toUI)
    BY <1>1 DEF trail
  <2>3. Written(main, toUI) = trail[Len(toUI)]
    BY <1>1, <2>2, WrittenAlong
  <2> QED BY <1>1, <2>1, <2>3 DEF ReadEchoes
<1> QED BY <1>2 DEF DrainEngineEvents, NothingEchoed

LEMMA EditorKept ==
  ASSUME Types, EditorInv, writers = {"editor"}, Next
  PROVE  NothingEchoed' /\ StoppedIsDrained' /\ EditsLead'
<1> USE DEF EditorInv
<1>1. CASE EnterEngine
  BY <1>1 DEF EnterEngine, NothingEchoed, StoppedIsDrained, EditsLead
<1>2. CASE DrainCommand
  <2>1. toEngine # <<>> /\ toEngine \in Seq(Command) /\ toEngine' = Tail(toEngine)
        /\ CarryOut(Head(toEngine))
        /\ UNCHANGED <<main, toUI, echoesLost, dropped, running, audio, toEcho>>
    BY <1>2 DEF DrainCommand, Types, Rings
  <2>2. /\ Len(toEngine) \in Nat \ {0} /\ Head(toEngine) = toEngine[1]
        /\ Len(toEngine') = Len(toEngine) - 1
        /\ \A i \in 1 .. Len(toEngine) - 1 : toEngine'[i] = toEngine[i + 1]
    BY <2>1, LenProperties, EmptySeq
  <2>3. Head(toEngine) # RepublishParameters
    BY <2>2 DEF NothingEchoed
  <2>4. NothingEchoed'
    <3>1. ~republishing'
      BY <1>2, <2>3 DEF DrainCommand, NothingEchoed
    <3>2. \A i \in 1 .. Len(toEngine) - 1 : i + 1 \in 1 .. Len(toEngine)
      BY <2>2
    <3>3. \A i \in 1 .. Len(toEngine') : toEngine'[i] # RepublishParameters
      BY <2>2, <3>2 DEF NothingEchoed
    <3> QED BY <2>1, <3>1, <3>3 DEF NothingEchoed
  <2>5. StoppedIsDrained'
    BY <1>2, <2>1 DEF DrainCommand, StoppedIsDrained
  <2>6. EditsLead'
    <3> SUFFICES ASSUME ~dropped'
                 PROVE  ~asserted' /\ \E trail : Ahead(trail, engine', toEngine', main')
      BY DEF EditsLead
    <3>1. PICK trail : Ahead(trail, engine, toEngine, main)
      BY <2>1 DEF EditsLead
    <3>2. /\ Head(toEngine).kind = "move"
               => MoveNamesModules(engine, Head(toEngine).from, Head(toEngine).to)
          /\ \E rest : Ahead(rest, Apply(engine, Head(toEngine)), Tail(toEngine), main)
      BY <2>1, <3>1, AheadOneLess
    <3>3. engine' = Apply(engine, Head(toEngine)) /\ asserted' = asserted
      BY <2>1, <3>2 DEF CarryOut
    <3> QED BY <2>1, <3>2, <3>3 DEF EditsLead
  <2> QED BY <2>4, <2>5, <2>6
<1>3. CASE DrainCommandsDone
  BY <1>3 DEF DrainCommandsDone, NothingEchoed, StoppedIsDrained, EditsLead
<1>4. CASE EchoPush
  BY <1>4 DEF EchoPush, NothingEchoed
<1>5. CASE LeaveEngine
  <2>1. UNCHANGED <<main, toEngine, toUI, echoesLost>>
    BY <1>5, DrainNothing DEF LeaveEngine
  <2> QED BY <1>5, <2>1 DEF LeaveEngine, NothingEchoed, StoppedIsDrained, EditsLead
<1>6. ASSUME NEW slot, NEW effect, HostSelector(slot, effect) PROVE FALSE
  BY <1>6 DEF HostSelector
<1>7. ASSUME NEW slot \in Slot, NEW effect \in Choice, EditSlot(slot, effect)
      PROVE  NothingEchoed' /\ StoppedIsDrained' /\ EditsLead'
  <2> DEFINE command == SetSlot(slot, effect)
  <2>1. command \in Command /\ command # RepublishParameters /\ command.kind # "move"
    BY Commands DEF SetSlot, RepublishParameters
  <2>2. main' = Apply(main, command)
    BY <1>7 DEF EditSlot, SetParameter, Apply, SetSlot
  <2>3. MainFree /\ Publish(command)
    BY <1>7 DEF EditSlot
  <2> HIDE DEF command
  <2> QED BY <2>1, <2>2, <2>3, PublishLeads
<1>8. ASSUME NEW from \in Slot, NEW to \in Slot, EditModuleMove(from, to)
      PROVE  NothingEchoed' /\ StoppedIsDrained' /\ EditsLead'
  <2> DEFINE command == Move(from, to)
  <2>1. /\ command \in Command /\ command # RepublishParameters
        /\ command.from = from /\ command.to = to
    BY Commands DEF Move, RepublishParameters
  <2>2. main' = Apply(main, command) /\ MoveNamesModules(main, from, to)
    BY <1>8 DEF EditModuleMove, Apply, Move
  <2>3. MainFree /\ Publish(command)
    BY <1>8 DEF EditModuleMove
  <2> HIDE DEF command
  <2> QED BY <2>1, <2>2, <2>3, PublishLeads
<1>9. ASSUME NEW chain \in Chain, LoadPreset(chain)
      PROVE  NothingEchoed' /\ StoppedIsDrained' /\ EditsLead'
  <2> DEFINE command == SwapChain(chain)
  <2>1. command \in Command /\ command # RepublishParameters /\ command.kind # "move"
    BY Commands DEF SwapChain, RepublishParameters
  <2>2. main' = Apply(main, command)
    BY <1>9 DEF LoadPreset, Apply, SwapChain
  <2>3. MainFree /\ Publish(command)
    BY <1>9 DEF LoadPreset
  <2> HIDE DEF command
  <2> QED BY <2>1, <2>2, <2>3, PublishLeads
<1>10. CASE OnMainThread
  <2>1. UNCHANGED <<main, toEngine, toUI, echoesLost>>
    BY <1>10, DrainNothing DEF OnMainThread
  <2> QED BY <1>10, <2>1 DEF OnMainThread, NothingEchoed, StoppedIsDrained, EditsLead
<1>11. CASE Activate
  <2>1. UNCHANGED <<main, toEngine, toUI, echoesLost>>
    BY <1>11, DrainNothing DEF Activate
  <2> QED BY <1>11, <2>1 DEF Activate, NothingEchoed, StoppedIsDrained, EditsLead
<1>12. CASE Deactivate
  BY <1>12 DEF Deactivate, NothingEchoed, StoppedIsDrained, EditsLead
<1> QED
  BY <1>1, <1>2, <1>3, <1>4, <1>5, <1>6, <1>7, <1>8, <1>9, <1>10, <1>11, <1>12
     DEF Next, Choice

LEMMA InitEditorInv == Init => EditorInv
<1> SUFFICES ASSUME Init PROVE NothingEchoed /\ StoppedIsDrained /\ EditsLead
  BY DEF EditorInv
<1>1. EditsLead
  BY AheadOfNothing DEF Init, EditsLead
<1> QED BY <1>1 DEF Init, NothingEchoed, StoppedIsDrained

LEMMA NextEditorInv == Types /\ EditorInv /\ [Next]_vars => EditorInv'
<1> SUFFICES ASSUME Types, EditorInv, [Next]_vars, writers' = {"editor"}
             PROVE  NothingEchoed' /\ StoppedIsDrained' /\ EditsLead'
  BY DEF EditorInv
<1>1. writers = {"editor"}
  BY DEF Next, vars
<1>2. CASE Next
  BY <1>1, <1>2, EditorKept
<1>3. CASE UNCHANGED vars
  BY <1>1, <1>3 DEF vars, EditorInv, NothingEchoed, StoppedIsDrained, EditsLead
<1> QED BY <1>2, <1>3

(* Every add, replacement, removal, move and preset of an editor reaches   *)
(* the engine's chain in the order they were made, whatever was queued     *)
(* and whatever was direct, across activations: what is under way, carried *)
(* out on the engine's chain, gives the chain the main thread shows, and   *)
(* no move finds a slot empty that its sender saw filled.                  *)
THEOREM EditsReachEngine == Spec => []EditorChainsReachEngine
<1>1. Types /\ EditorInv => EditorChainsReachEngine
  <2> SUFFICES ASSUME Types, EditorInv, writers = {"editor"}, ~dropped
               PROVE  ~asserted /\ AllApplied(engine, toEngine) = main
    BY DEF EditorChainsReachEngine
  <2>1. PICK trail : Ahead(trail, engine, toEngine, main)
    BY DEF EditorInv, EditsLead
  <2>2. Len(toEngine) \in Nat
    BY LenProperties DEF Types, Rings
  <2>3. AllApplied(engine, toEngine) = trail[Len(toEngine)]
    BY <2>1, <2>2, AppliedAlong DEF Ahead
  <2> QED BY <2>1, <2>3 DEF EditorInv, EditsLead, Ahead
<1> QED BY InitTypes, NextTypes, InitEditorInv, NextEditorInv, <1>1, PTL DEF Spec

-----------------------------------------------------------------------------
(* A host alone.  Written to the main thread's chain one after the other,  *)
(* the echoes under way go through chains that end in the engine's.        *)

Behind(trail, from, echoes, to) ==
  Writing(trail, from, echoes) /\ trail[Len(echoes)] = to

NothingAsked == toEngine = <<>> /\ ~republishing /\ ~echoesLost
EchoesInTheirTime == audio # "events" => toEcho = <<>>
EchoesLead == \E trail : Behind(trail, main, toUI \o toEcho, engine)

HostInv ==
  writers = {"host"} /\ ~lossSeen => NothingAsked /\ EchoesInTheirTime /\ EchoesLead

LEMMA BehindNothing ==
  ASSUME NEW c PROVE \E trail : Behind(trail, c, <<>>, c)
<1> DEFINE trail == [n \in {0} |-> c]
<1>1. Len(<<>>) = 0 /\ trail[0] = c
  OBVIOUS
<1>2. Behind(trail, c, <<>>, c)
  BY <1>1 DEF Behind, Writing
<1> HIDE DEF trail
<1> QED BY <1>2

LEMMA BehindOneMore ==
  ASSUME NEW from, NEW to, NEW echoes \in Seq(Selector), NEW s \in Selector,
         NEW trail, Behind(trail, from, echoes, to)
  PROVE  \E longer : Behind(longer, from, Append(echoes, s), SetParameter(to, s.slot, s.effect))
<1> DEFINE m == Len(echoes)
           more == Append(echoes, s)
           next == SetParameter(to, s.slot, s.effect)
           longer == [n \in 0 .. m + 1 |-> IF n <= m THEN trail[n] ELSE next]
           Write(c, e) == SetParameter(c, e.slot, e.effect)
<1>1. /\ m \in Nat /\ Len(more) = m + 1 /\ more[m + 1] = s
      /\ \A i \in 1 .. m : more[i] = echoes[i]
  BY LenProperties
<1>2. /\ trail[0] = from /\ trail[m] = to /\ next = Write(to, s)
      /\ \A i \in 1 .. m : trail[i] = Write(trail[i - 1], echoes[i])
  BY DEF Behind, Writing
<1> HIDE DEF next, Write, more
<1>3. longer[m + 1] = next /\ \A n \in 0 .. m : longer[n] = trail[n]
  BY <1>1
<1> HIDE DEF longer
<1>4. ASSUME NEW i \in 1 .. m + 1 PROVE longer[i] = Write(longer[i - 1], more[i])
  <2>1. CASE i = m + 1
    <3>1. i - 1 = m /\ longer[m] = to
      BY <1>1, <1>2, <1>3, <2>1
    <3> QED BY <1>1, <1>2, <1>3, <2>1, <3>1
  <2>2. CASE i # m + 1
    <3>1. i \in 1 .. m /\ i \in 0 .. m /\ i - 1 \in 0 .. m
      BY <1>1, <2>2
    <3> QED BY <1>1, <1>2, <1>3, <3>1
  <2> QED BY <2>1, <2>2
<1>5. longer[0] = from
  BY <1>1, <1>2, <1>3
<1>6. Behind(longer, from, more, next)
  BY <1>1, <1>3, <1>4, <1>5 DEF Behind, Writing, Write
<1> QED BY <1>6 DEF more, next

\* The first of the echoes written, the rest is still behind.
LEMMA BehindTheRest ==
  ASSUME NEW from, NEW to, NEW first \in Seq(Selector), NEW rest \in Seq(Selector),
         NEW trail, Behind(trail, from, first \o rest, to)
  PROVE  \E later : Behind(later, Written(from, first), rest, to)
<1> DEFINE m == Len(first)
           n == Len(rest)
           all == first \o rest
           later == [i \in 0 .. n |-> trail[m + i]]
           Write(c, e) == SetParameter(c, e.slot, e.effect)
<1>1. m \in Nat /\ n \in Nat
  BY LenProperties
<1>2. /\ Len(all) = m + n
      /\ \A i \in 1 .. m : all[i] = first[i]
      /\ \A i \in 1 .. n : all[m + i] = rest[i]
  BY <1>1
<1>3. /\ trail[0] = from /\ trail[Len(all)] = to
      /\ \A i \in 1 .. Len(all) : trail[i] = Write(trail[i - 1], all[i])
  BY DEF Behind, Writing
<1> HIDE DEF all, Write
<1>4. \A i \in 0 .. n : later[i] = trail[m + i]
  OBVIOUS
<1> HIDE DEF later
<1>5. \A i \in 1 .. m : trail[i] = Write(trail[i - 1], first[i])
  <2> TAKE i \in 1 .. m
  <2>1. i \in 1 .. Len(all)
    BY <1>1, <1>2
  <2> QED BY <1>2, <1>3, <2>1
<1>6. Written(from, first) = trail[m]
  <2>1. Writing(trail, from, first)
    BY <1>3, <1>5 DEF Writing, Write
  <2> QED BY <1>1, <2>1, WrittenAlong
<1>7. later[0] = trail[m] /\ later[n] = to
  <2>1. 0 \in 0 .. n /\ n \in 0 .. n /\ m + 0 = m
    BY <1>1
  <2>2. later[0] = trail[m + 0] /\ later[n] = trail[m + n]
    BY <1>4, <2>1
  <2> QED BY <1>2, <1>3, <2>1, <2>2
<1>8. ASSUME NEW i \in 1 .. n PROVE later[i] = Write(later[i - 1], rest[i])
  <2>1. /\ m + i \in 1 .. Len(all) /\ (m + i) - 1 = m + (i - 1)
        /\ i \in 0 .. n /\ i - 1 \in 0 .. n
    BY <1>1, <1>2
  <2>2. trail[m + i] = Write(trail[m + (i - 1)], all[m + i])
    BY <1>3, <2>1
  <2>3. later[i] = trail[m + i] /\ later[i - 1] = trail[m + (i - 1)]
    BY <1>4, <2>1
  <2> QED BY <1>2, <2>2, <2>3
<1>9. Behind(later, Written(from, first), rest, to)
  BY <1>6, <1>7, <1>8 DEF Behind, Writing, Write
<1> QED BY <1>9

\* A drain of the echoes, with none lost.
LEMMA DrainLeads ==
  ASSUME Types, NothingAsked, EchoesLead, DrainEngineEvents, UNCHANGED <<engine, toEcho>>
  PROVE  toEngine' = <<>> /\ ~echoesLost' /\ EchoesLead'
<1>1. toEngine' = <<>> /\ ~echoesLost'
  BY DEF DrainEngineEvents, NothingAsked
<1>2. main' = Written(main, toUI) /\ toUI' = <<>>
  BY DEF DrainEngineEvents, NothingAsked, ReadEchoes
<1>3. \E later : Behind(later, Written(main, toUI), toEcho, engine)
  BY BehindTheRest DEF Types, Rings, EchoesLead
<1>4. toUI' \o toEcho' = toEcho
  BY <1>2 DEF Types, Rings
<1> QED BY <1>1, <1>2, <1>3, <1>4 DEF EchoesLead

LEMMA HostKept ==
  ASSUME Types, HostInv, writers = {"host"}, ~lossSeen', Next
  PROVE  NothingAsked' /\ EchoesInTheirTime' /\ EchoesLead'
<1>0. CASE lossSeen
  <2>1. lossSeen'
    <3>1. ASSUME NEW slot, NEW effect, HostSelector(slot, effect) PROVE lossSeen'
      BY <1>0, <3>1 DEF HostSelector
    <3> QED
      BY <1>0, <3>1 DEF Next, EnterEngine, DrainCommand, DrainCommandsDone, EchoPush,
         LeaveEngine, EditSlot, EditModuleMove, LoadPreset, OnMainThread, Activate, Deactivate
  <2> QED BY <2>1
<1> SUFFICES ASSUME NothingAsked, EchoesInTheirTime, EchoesLead
             PROVE  NothingAsked' /\ EchoesInTheirTime' /\ EchoesLead'
  BY <1>0 DEF HostInv
<1>1. CASE EnterEngine
  BY <1>1 DEF EnterEngine, NothingAsked, EchoesInTheirTime, EchoesLead
<1>2. CASE DrainCommand
  BY <1>2 DEF DrainCommand, NothingAsked
<1>3. CASE DrainCommandsDone
  <2>1. toEcho = <<>> /\ toEcho' = <<>>
    BY <1>3 DEF DrainCommandsDone, NothingAsked, EchoesInTheirTime
  <2> QED BY <1>3, <2>1 DEF DrainCommandsDone, NothingAsked, EchoesInTheirTime, EchoesLead
<1>4. CASE EchoPush
  <2>1. /\ toUI' = Append(toUI, Head(toEcho)) /\ toEcho' = Tail(toEcho) /\ toEcho # <<>>
        /\ UNCHANGED <<main, engine, toEngine, audio, republishing, echoesLost>>
        /\ audio = "events"
    <3>1. CASE Len(toUI) < EchoCapacity
      BY <1>4, <3>1 DEF EchoPush
    <3>2. CASE ~(Len(toUI) < EchoCapacity)
      BY <1>4, <3>2 DEF EchoPush
    <3> QED BY <3>1, <3>2
  <2>2. toUI' \o toEcho' = toUI \o toEcho
    BY <2>1 DEF Types, Rings
  <2> QED BY <2>1, <2>2 DEF NothingAsked, EchoesInTheirTime, EchoesLead
<1>5. CASE LeaveEngine
  <2>1. /\ toEcho = <<>> /\ UNCHANGED <<engine, toEcho, republishing>>
        /\ running => UNCHANGED <<main, toEngine, toUI, echoesLost>>
        /\ ~running => DrainEngineEvents
    BY <1>5 DEF LeaveEngine
  <2>2. CASE running
    BY <2>1, <2>2 DEF NothingAsked, EchoesInTheirTime, EchoesLead
  <2>3. CASE ~running
    BY <2>1, <2>3, DrainLeads DEF NothingAsked, EchoesInTheirTime
  <2> QED BY <2>2, <2>3
<1>6. ASSUME NEW slot \in Slot, NEW effect \in Choice, HostSelector(slot, effect)
      PROVE  NothingAsked' /\ EchoesInTheirTime' /\ EchoesLead'
  <2> DEFINE s == [slot |-> slot, effect |-> effect]
  <2>1. /\ audio = "events" /\ toEcho = <<>> /\ toEcho' = <<s>>
        /\ engine' = SetParameter(engine, s.slot, s.effect)
        /\ UNCHANGED <<main, toUI, toEngine, audio, republishing, echoesLost>>
    BY <1>6 DEF HostSelector
  <2>2. s \in Selector
    BY DEF Selector
  <2> HIDE DEF s
  <2>3. toUI \o toEcho = toUI /\ toUI' \o toEcho' = Append(toUI, s)
    BY <2>1, <2>2 DEF Types, Rings
  <2>4. PICK trail : Behind(trail, main, toUI, engine)
    BY <2>3 DEF EchoesLead
  <2>5. \E longer : Behind(longer, main, Append(toUI, s),
                           SetParameter(engine, s.slot, s.effect))
    BY <2>2, <2>4, BehindOneMore DEF Types, Rings
  <2> QED BY <2>1, <2>3, <2>5 DEF NothingAsked, EchoesInTheirTime, EchoesLead
<1>7. ASSUME NEW slot, NEW effect, EditSlot(slot, effect) PROVE FALSE
  BY <1>7 DEF EditSlot
<1>8. ASSUME NEW from, NEW to, EditModuleMove(from, to) PROVE FALSE
  BY <1>8 DEF EditModuleMove
<1>9. ASSUME NEW chain, LoadPreset(chain) PROVE FALSE
  BY <1>9 DEF LoadPreset
<1>10. CASE OnMainThread
  BY <1>10, DrainLeads DEF OnMainThread, NothingAsked, EchoesInTheirTime
<1>11. CASE Activate
  BY <1>11, DrainLeads DEF Activate, NothingAsked, EchoesInTheirTime
<1>12. CASE Deactivate
  BY <1>12 DEF Deactivate, NothingAsked, EchoesInTheirTime, EchoesLead
<1> QED
  BY <1>1, <1>2, <1>3, <1>4, <1>5, <1>6, <1>7, <1>8, <1>9, <1>10, <1>11, <1>12
     DEF Next, Choice

LEMMA InitHostInv == Init => HostInv
<1> SUFFICES ASSUME Init PROVE NothingAsked /\ EchoesInTheirTime /\ EchoesLead
  BY DEF HostInv
<1>1. toUI \o toEcho = <<>> /\ main = engine
  BY DEF Init
<1>2. EchoesLead
  BY <1>1, BehindNothing DEF EchoesLead
<1> QED BY <1>2 DEF Init, NothingAsked, EchoesInTheirTime

LEMMA NextHostInv == Types /\ HostInv /\ [Next]_vars => HostInv'
<1> SUFFICES ASSUME Types, HostInv, [Next]_vars, writers' = {"host"}, ~lossSeen'
             PROVE  NothingAsked' /\ EchoesInTheirTime' /\ EchoesLead'
  BY DEF HostInv
<1>1. writers = {"host"}
  BY DEF Next, vars
<1>2. CASE Next
  BY <1>1, <1>2, HostKept
<1>3. CASE UNCHANGED vars
  BY <1>1, <1>3 DEF vars, HostInv, NothingAsked, EchoesInTheirTime, EchoesLead
<1> QED BY <1>2, <1>3

(* Until an echo is lost, what the engine accepted of a host's selectors,  *)
(* written to the main thread's chain in its order and without the         *)
(* engine's gate, gives the engine's chain, whatever is still to be        *)
(* pushed, read or drained and whenever the plug-in stops.                 *)
THEOREM HostReachesMain == Spec => []HostChainsReachMain
<1>1. Types /\ HostInv => HostChainsReachMain
  <2> SUFFICES ASSUME Types, HostInv, writers = {"host"}, ~lossSeen
               PROVE  ReadEchoes(main, toUI \o toEcho) = engine
    BY DEF HostChainsReachMain
  <2> DEFINE echoes == toUI \o toEcho
  <2>1. PICK trail : Behind(trail, main, echoes, engine)
    BY DEF HostInv, EchoesLead
  <2>2. Len(echoes) \in Nat
    <3>1. echoes \in Seq(Selector)
      BY DEF Types, Rings
    <3> QED BY <3>1, LenProperties
  <2> HIDE DEF echoes
  <2>3. Written(main, echoes) = trail[Len(echoes)]
    BY <2>1, <2>2, WrittenAlong DEF Behind
  <2> QED BY <2>1, <2>3 DEF Behind, ReadEchoes, echoes
<1> QED BY InitTypes, NextTypes, InitHostInv, NextHostInv, <1>1, PTL DEF Spec

-----------------------------------------------------------------------------
(* Undo and redo.  First, programs: what a write to one parameter leaves.    *)

Modules == UNION {[1 .. n -> Module] : n \in 0 .. MaxModules}
ProgramOf(chain, global) == [chain |-> chain, global |-> global]

LEMMA ModulesAre ==
  ASSUME NEW c
  PROVE  c \in Modules <=> c \in Seq(Module) /\ Len(c) <= MaxModules
<1>1. ASSUME c \in Modules PROVE c \in Seq(Module) /\ Len(c) <= MaxModules
  <2> PICK n \in 0 .. MaxModules : c \in [1 .. n -> Module]
    BY <1>1 DEF Modules
  <2>1. n \in Nat /\ n <= MaxModules
    BY MaxModulesAssumption
  <2> QED BY <2>1, SeqDef, LenProperties
<1>2. ASSUME c \in Seq(Module), Len(c) <= MaxModules PROVE c \in Modules
  <2>1. Len(c) \in Nat /\ c \in [1 .. Len(c) -> Module]
    BY <1>2, LenProperties
  <2>2. Len(c) \in 0 .. MaxModules
    BY <1>2, <2>1, MaxModulesAssumption
  <2> QED BY <2>1, <2>2 DEF Modules
<1> QED BY <1>1, <1>2

LEMMA ProgramIs ==
  ASSUME NEW P \in Program
  PROVE  /\ P = ProgramOf(P.chain, P.global)
         /\ P.chain \in Seq(Module) /\ Len(P.chain) \in Nat /\ Len(P.chain) <= MaxModules
         /\ P.global \in [Global -> Value]
<1>1. P \in [chain : Modules, global : [Global -> Value]]
  BY DEF Program, Modules
<1>2. P.chain \in Modules /\ P.global \in [Global -> Value] /\ P = ProgramOf(P.chain, P.global)
  BY <1>1 DEF ProgramOf
<1> QED BY <1>2, ModulesAre, LenProperties

LEMMA ProgramType ==
  ASSUME NEW c \in Seq(Module), Len(c) <= MaxModules, NEW g \in [Global -> Value]
  PROVE  /\ ProgramOf(c, g) \in Program
         /\ ProgramOf(c, g).chain = c /\ ProgramOf(c, g).global = g
<1>1. c \in Modules
  BY ModulesAre
<1> QED BY <1>1 DEF ProgramOf, Program, Modules

\* A write at one place of a function: again, elsewhere, and of what was there.
LEMMA WriteTwice ==
  ASSUME NEW D, NEW T, NEW f \in [D -> T], NEW a \in D, NEW v \in T, NEW w \in T
  PROVE  /\ [f EXCEPT ![a] = v] \in [D -> T]
         /\ [f EXCEPT ![a] = v][a] = v
         /\ [[f EXCEPT ![a] = v] EXCEPT ![a] = w] = [f EXCEPT ![a] = w]
         /\ [f EXCEPT ![a] = f[a]] = f
OBVIOUS

LEMMA WritesCommute ==
  ASSUME NEW D, NEW T, NEW f \in [D -> T], NEW a \in D, NEW b \in D, a # b,
         NEW v \in T, NEW w \in T
  PROVE  /\ [f EXCEPT ![a] = v][b] = f[b]
         /\ [[f EXCEPT ![a] = v] EXCEPT ![b] = w] = [[f EXCEPT ![b] = w] EXCEPT ![a] = v]
OBVIOUS

\* A write to a global parameter, to a module there is, and to none.
Holding(m, v) == [effect |-> m.effect, value |-> v]
LEMMA WriteGlobal ==
  ASSUME NEW P \in Program, NEW p \in Global, NEW v \in Value
  PROVE  /\ WithValue(P, p, v) = ProgramOf(P.chain, [P.global EXCEPT ![p] = v])
         /\ [P.global EXCEPT ![p] = v] \in [Global -> Value]
         /\ WithValue(P, p, v) \in Program
<1>1. [P.global EXCEPT ![p] = v] \in [Global -> Value]
  BY ProgramIs
<1>2. P = ProgramOf(P.chain, P.global)
  BY ProgramIs
<1>3. WithValue(P, p, v) = ProgramOf(P.chain, [P.global EXCEPT ![p] = v])
  BY <1>2 DEF WithValue, ProgramOf
<1> QED BY <1>1, <1>3, ProgramIs, ProgramType

LEMMA WriteSlot ==
  ASSUME NEW P \in Program, NEW p \in Slot, p < Len(P.chain), NEW v \in Value
  PROVE  /\ p \notin Global /\ p + 1 \in 1 .. Len(P.chain) /\ P.chain[p + 1] \in Module
         /\ WithValue(P, p, v)
              = ProgramOf([P.chain EXCEPT ![p + 1] = Holding(@, v)], P.global)
         /\ [P.chain EXCEPT ![p + 1] = Holding(@, v)] \in Seq(Module)
         /\ Len([P.chain EXCEPT ![p + 1] = Holding(@, v)]) = Len(P.chain)
         /\ WithValue(P, p, v) \in Program
<1>1. p \notin Global /\ p \in Nat
  BY GlobalAssumption, MaxModulesAssumption DEF Slot
<1>2. p + 1 \in 1 .. Len(P.chain)
  BY <1>1, ProgramIs
<1> DEFINE c == P.chain
           m == P.chain[p + 1]
           d == [P.chain EXCEPT ![p + 1] = Holding(@, v)]
<1>3. m \in Module /\ Holding(m, v) \in Module
  <2>1. m \in Module
    BY <1>2, ProgramIs, ElementOfSeq
  <2> QED BY <2>1 DEF Module, Holding
<1>4. d = [c EXCEPT ![p + 1] = Holding(m, v)]
  <2>1. c \in [1 .. Len(c) -> Module]
    BY ProgramIs, LenProperties
  <2> QED BY <2>1, <1>2
<1>5. d \in Seq(Module) /\ Len(d) = Len(c)
  BY <1>2, <1>3, <1>4, ProgramIs, ExceptSeq
<1>6. WithValue(P, p, v) = ProgramOf(d, P.global)
  <2>1. P = ProgramOf(P.chain, P.global)
    BY ProgramIs
  <2>2. WithValue(P, p, v) = [P EXCEPT !.chain[p + 1].value = v]
    BY <1>1 DEF WithValue
  <2>3. [m EXCEPT !.value = v] = Holding(m, v)
    BY <1>3 DEF Module, Holding
  <2>4. [P EXCEPT !.chain[p + 1].value = v]
          = [P EXCEPT !.chain = [c EXCEPT ![p + 1] = [m EXCEPT !.value = v]]]
    OBVIOUS
  <2>5. WithValue(P, p, v) = [P EXCEPT !.chain = d]
    BY <2>2, <2>3, <2>4, <1>4, Zenon
  <2> HIDE DEF d
  <2>6. [P EXCEPT !.chain = d] = ProgramOf(d, P.global)
    BY <2>1 DEF ProgramOf
  <2> QED BY <2>5, <2>6
<1>7. ProgramOf(d, P.global) \in Program
  BY <1>5, ProgramIs, ProgramType
<1> QED BY <1>1, <1>2, <1>3, <1>5, <1>6, <1>7

LEMMA WriteNowhere ==
  ASSUME NEW P, NEW p \in Parameter, ~Exists(P, p), NEW v
  PROVE  WithValue(P, p, v) = P
BY DEF Exists, WithValue

LEMMA ParameterIs ==
  ASSUME NEW P, NEW p \in Parameter, Exists(P, p)
  PROVE  p \in Global \/ (p \in Slot /\ p \notin Global /\ p < Len(P.chain))
BY GlobalAssumption DEF Parameter, Exists

LEMMA WriteType ==
  ASSUME NEW P \in Program, NEW p \in Parameter, NEW v \in Value
  PROVE  /\ WithValue(P, p, v) \in Program
         /\ Len(WithValue(P, p, v).chain) = Len(P.chain)
         /\ \A q : Exists(WithValue(P, p, v), q) <=> Exists(P, q)
         /\ p \in Global => WithValue(P, p, v).chain = P.chain
<1>1. CASE p \in Global
  <2>1. WithValue(P, p, v) \in Program /\ WithValue(P, p, v).chain = P.chain
    <3>1. /\ WithValue(P, p, v) \in Program
          /\ WithValue(P, p, v) = ProgramOf(P.chain, [P.global EXCEPT ![p] = v])
      BY <1>1, WriteGlobal
    <3> QED BY <3>1 DEF ProgramOf
  <2> QED BY <2>1 DEF Exists
<1>2. CASE p \in Slot /\ p < Len(P.chain)
  <2> DEFINE d == [P.chain EXCEPT ![p + 1] = Holding(@, v)]
  <2>1. /\ p \notin Global /\ WithValue(P, p, v) = ProgramOf(d, P.global)
        /\ WithValue(P, p, v) \in Program /\ Len(d) = Len(P.chain) /\ d \in Seq(Module)
    BY <1>2, WriteSlot
  <2> HIDE DEF d
  <2>2. WithValue(P, p, v).chain = d
    BY <2>1 DEF ProgramOf
  <2> QED BY <2>1, <2>2 DEF Exists
<1>3. CASE ~Exists(P, p)
  BY <1>3, WriteNowhere DEF Exists
<1> QED BY <1>1, <1>2, <1>3, ParameterIs

LEMMA WriteAgain ==
  ASSUME NEW P \in Program, NEW p \in Parameter, NEW v \in Value, NEW w \in Value
  PROVE  WithValue(WithValue(P, p, v), p, w) = WithValue(P, p, w)
<1> DEFINE Q == WithValue(P, p, v)
<1>0. Q \in Program
  BY WriteType
<1>1. CASE p \in Global
  <2> DEFINE g == P.global
             h == [P.global EXCEPT ![p] = v]
  <2>1. Q = ProgramOf(P.chain, h) /\ WithValue(P, p, w) = ProgramOf(P.chain, [g EXCEPT ![p] = w])
    BY <1>1, WriteGlobal
  <2>2. Q.chain = P.chain /\ Q.global = h
    BY <2>1 DEF ProgramOf
  <2>3. WithValue(Q, p, w) = ProgramOf(Q.chain, [Q.global EXCEPT ![p] = w])
    BY <1>0, <1>1, WriteGlobal
  <2>4. [h EXCEPT ![p] = w] = [g EXCEPT ![p] = w]
    BY <1>1, ProgramIs, WriteTwice
  <2> QED BY <2>1, <2>2, <2>3, <2>4
<1>2. CASE p \in Slot /\ p < Len(P.chain)
  <2> DEFINE c == P.chain
             m == c[p + 1]
             d == [c EXCEPT ![p + 1] = Holding(m, v)]
  <2>1. /\ p + 1 \in 1 .. Len(c) /\ m \in Module /\ c \in [1 .. Len(c) -> Module]
    BY <1>2, WriteSlot, ProgramIs, LenProperties
  <2>2. /\ \A u \in Value : Holding(m, u) \in Module /\ Holding(Holding(m, v), u) = Holding(m, u)
    BY <2>1 DEF Module, Holding
  <2>3. /\ [c EXCEPT ![p + 1] = Holding(@, v)] = d
        /\ [c EXCEPT ![p + 1] = Holding(@, w)] = [c EXCEPT ![p + 1] = Holding(m, w)]
    BY <2>1
  <2>4. /\ Q = ProgramOf(d, P.global) /\ Len(d) = Len(c)
        /\ WithValue(P, p, w) = ProgramOf([c EXCEPT ![p + 1] = Holding(m, w)], P.global)
    BY <1>2, <2>3, WriteSlot
  <2>5. Q.chain = d /\ Q.global = P.global
    BY <2>4 DEF ProgramOf
  <2>6. WithValue(Q, p, w) = ProgramOf([Q.chain EXCEPT ![p + 1] = Holding(@, w)], Q.global)
    BY <1>0, <1>2, <2>4, <2>5, WriteSlot
  <2>7. [d EXCEPT ![p + 1] = Holding(@, w)] = [c EXCEPT ![p + 1] = Holding(m, w)]
    <3>1. d \in [1 .. Len(c) -> Module] /\ d[p + 1] = Holding(m, v)
      BY <2>1, <2>2, WriteTwice
    <3> HIDE DEF d
    <3>2. [d EXCEPT ![p + 1] = Holding(@, w)] = [d EXCEPT ![p + 1] = Holding(Holding(m, v), w)]
      BY <3>1
    <3>3. [d EXCEPT ![p + 1] = Holding(@, w)] = [d EXCEPT ![p + 1] = Holding(m, w)]
      BY <2>2, <3>2
    <3>4. [d EXCEPT ![p + 1] = Holding(m, w)] = [c EXCEPT ![p + 1] = Holding(m, w)]
      BY <2>1, <2>2, WriteTwice DEF d
    <3> QED BY <3>3, <3>4
  <2> QED BY <2>4, <2>5, <2>6, <2>7
<1>3. CASE ~Exists(P, p)
  BY <1>3, WriteNowhere
<1> QED BY <1>1, <1>2, <1>3, ParameterIs

LEMMA WriteBack ==
  ASSUME NEW P \in Program, NEW p \in Parameter, Exists(P, p)
  PROVE  /\ ValueIn(P, p) \in Value
         /\ WithValue(P, p, ValueIn(P, p)) = P
<1>1. CASE p \in Global
  <2>1. ValueIn(P, p) = P.global[p] /\ P.global[p] \in Value
    BY <1>1, ProgramIs DEF ValueIn
  <2>2. WithValue(P, p, P.global[p]) = ProgramOf(P.chain, [P.global EXCEPT ![p] = P.global[p]])
    BY <1>1, <2>1, WriteGlobal
  <2>3. [P.global EXCEPT ![p] = P.global[p]] = P.global
    BY <1>1, ProgramIs
  <2> QED BY <2>1, <2>2, <2>3, ProgramIs
<1>2. CASE p \in Slot /\ p \notin Global /\ p < Len(P.chain)
  <2> DEFINE c == P.chain
             m == c[p + 1]
  <2>1. p + 1 \in 1 .. Len(c) /\ m \in Module /\ c \in [1 .. Len(c) -> Module]
    <3>1. m \in Module /\ p + 1 \in 1 .. Len(c)
      <4>1. \A v \in Value : m \in Module /\ p + 1 \in 1 .. Len(c)
        BY <1>2, WriteSlot
      <4> QED BY <4>1, ValueAssumption
    <3> QED BY <3>1, ProgramIs, LenProperties
  <2>2. ValueIn(P, p) = m.value /\ m.value \in Value /\ Holding(m, m.value) = m
    BY <1>2, <2>1 DEF ValueIn, Module, Holding
  <2>3. WithValue(P, p, m.value) = ProgramOf([c EXCEPT ![p + 1] = Holding(@, m.value)], P.global)
    BY <1>2, <2>2, WriteSlot
  <2>4. [c EXCEPT ![p + 1] = Holding(@, m.value)] = c
    <3>1. [c EXCEPT ![p + 1] = Holding(@, m.value)] = [c EXCEPT ![p + 1] = Holding(m, m.value)]
      BY <2>1
    <3>2. [c EXCEPT ![p + 1] = m] = c
      BY <2>1
    <3> QED BY <2>2, <3>1, <3>2
  <2> QED BY <2>2, <2>3, <2>4, ProgramIs
<1> QED BY <1>1, <1>2, ParameterIs

LEMMA WriteElsewhere ==
  ASSUME NEW P \in Program, NEW p \in Parameter, NEW q \in Parameter, p # q,
         NEW v \in Value, NEW w \in Value
  PROVE  /\ WithValue(WithValue(P, p, v), q, w) = WithValue(WithValue(P, q, w), p, v)
         /\ Exists(P, q) => ValueIn(WithValue(P, p, v), q) = ValueIn(P, q)
<1> DEFINE Q == WithValue(P, p, v)
           R == WithValue(P, q, w)
           c == P.chain
           g == P.global
           At(d, r, u) == [d EXCEPT ![r + 1] = Holding(@, u)]
<1>0. /\ Q \in Program /\ R \in Program
      /\ Exists(Q, p) <=> Exists(P, p)
      /\ Exists(Q, q) <=> Exists(P, q)
      /\ Exists(R, p) <=> Exists(P, p)
      /\ Len(Q.chain) = Len(c) /\ Len(R.chain) = Len(c)
  BY WriteType
<1>1. CASE ~Exists(P, p)
  BY <1>0, <1>1, WriteNowhere
<1>2. CASE ~Exists(P, q)
  BY <1>0, <1>2, WriteNowhere
<1>3. CASE p \in Global /\ q \in Global
  <2>1. /\ Q = ProgramOf(c, [g EXCEPT ![p] = v]) /\ R = ProgramOf(c, [g EXCEPT ![q] = w])
    BY <1>3, WriteGlobal
  <2>2. /\ Q.chain = c /\ Q.global = [g EXCEPT ![p] = v]
        /\ R.chain = c /\ R.global = [g EXCEPT ![q] = w]
    BY <2>1 DEF ProgramOf
  <2>3. /\ WithValue(Q, q, w) = ProgramOf(c, [[g EXCEPT ![p] = v] EXCEPT ![q] = w])
        /\ WithValue(R, p, v) = ProgramOf(c, [[g EXCEPT ![q] = w] EXCEPT ![p] = v])
    BY <1>0, <1>3, <2>2, WriteGlobal
  <2>4. /\ [[g EXCEPT ![p] = v] EXCEPT ![q] = w] = [[g EXCEPT ![q] = w] EXCEPT ![p] = v]
        /\ [g EXCEPT ![p] = v][q] = g[q]
    BY <1>3, ProgramIs, WritesCommute
  <2>5. ValueIn(Q, q) = ValueIn(P, q)
    BY <1>3, <2>2, <2>4 DEF ValueIn
  <2> QED BY <2>3, <2>4, <2>5
<1>4. ASSUME NEW a \in Global, NEW b \in Slot, b < Len(c), NEW x \in Value, NEW y \in Value
      PROVE  /\ WithValue(WithValue(P, a, x), b, y) = WithValue(WithValue(P, b, y), a, x)
             /\ ValueIn(WithValue(P, a, x), b) = ValueIn(P, b)
             /\ ValueIn(WithValue(P, b, y), a) = ValueIn(P, a)
  <2>1. /\ WithValue(P, a, x) = ProgramOf(c, [g EXCEPT ![a] = x])
        /\ WithValue(P, b, y) = ProgramOf(At(c, b, y), g)
        /\ b \notin Global /\ b \in Parameter /\ a \in Parameter
    BY <1>4, WriteGlobal, WriteSlot DEF Parameter
  <2> HIDE DEF At
  <2>2. /\ WithValue(P, a, x).chain = c /\ WithValue(P, a, x).global = [g EXCEPT ![a] = x]
        /\ WithValue(P, b, y).chain = At(c, b, y) /\ WithValue(P, b, y).global = g
    BY <2>1 DEF ProgramOf
  <2>3. WithValue(P, a, x) \in Program /\ WithValue(P, b, y) \in Program
    BY <2>1, WriteType
  <2>4. WithValue(WithValue(P, a, x), b, y) = ProgramOf(At(c, b, y), [g EXCEPT ![a] = x])
    BY <1>4, <2>2, <2>3, WriteSlot DEF At
  <2>5. WithValue(WithValue(P, b, y), a, x) = ProgramOf(At(c, b, y), [g EXCEPT ![a] = x])
    BY <1>4, <2>2, <2>3, WriteGlobal
  <2>6. /\ ValueIn(WithValue(P, a, x), b) = ValueIn(P, b)
        /\ ValueIn(WithValue(P, b, y), a) = ValueIn(P, a)
    BY <2>1, <2>2 DEF ValueIn
  <2> QED BY <2>4, <2>5, <2>6
<1>5. CASE p \in Global /\ q \in Slot /\ q < Len(c)
  BY <1>4, <1>5
<1>6. CASE q \in Global /\ p \in Slot /\ p < Len(c)
  BY <1>4, <1>6
<1>7. CASE p \in Slot /\ q \in Slot /\ p < Len(c) /\ q < Len(c)
  <2> DEFINE m == c[p + 1]
             n == c[q + 1]
  <2>1. /\ p + 1 \in 1 .. Len(c) /\ q + 1 \in 1 .. Len(c) /\ p + 1 # q + 1
        /\ m \in Module /\ n \in Module /\ c \in [1 .. Len(c) -> Module]
        /\ p \notin Global /\ q \notin Global
    <3>1. p + 1 \in 1 .. Len(c) /\ m \in Module /\ p \notin Global
      BY <1>7, WriteSlot
    <3>2. q + 1 \in 1 .. Len(c) /\ n \in Module /\ q \notin Global
      BY <1>7, WriteSlot
    <3>3. p + 1 # q + 1
      BY <1>7, MaxModulesAssumption DEF Slot
    <3>4. c \in [1 .. Len(c) -> Module]
      BY ProgramIs, LenProperties
    <3> QED BY <3>1, <3>2, <3>3, <3>4
  <2>2. /\ Q = ProgramOf(At(c, p, v), g) /\ R = ProgramOf(At(c, q, w), g)
    BY <1>7, WriteSlot
  <2> HIDE DEF At
  <2>3. /\ Q.chain = At(c, p, v) /\ Q.global = g /\ R.chain = At(c, q, w) /\ R.global = g
    BY <2>2 DEF ProgramOf
  <2>4. /\ WithValue(Q, q, w) = ProgramOf(At(At(c, p, v), q, w), g)
        /\ WithValue(R, p, v) = ProgramOf(At(At(c, q, w), p, v), g)
    <3> HIDE DEF Q, R
    <3>1. WithValue(Q, q, w) = ProgramOf(At(Q.chain, q, w), Q.global)
      BY <1>0, <1>7, WriteSlot DEF At
    <3>2. WithValue(R, p, v) = ProgramOf(At(R.chain, p, v), R.global)
      BY <1>0, <1>7, WriteSlot DEF At
    <3> QED BY <2>3, <3>1, <3>2
  <2>5. /\ At(c, p, v) = [c EXCEPT ![p + 1] = Holding(m, v)]
        /\ At(c, q, w) = [c EXCEPT ![q + 1] = Holding(n, w)]
    BY <2>1 DEF At
  <2>6. /\ Holding(m, v) \in Module /\ Holding(n, w) \in Module
    BY <2>1 DEF Module, Holding
  <2>7. /\ At(c, p, v) \in [1 .. Len(c) -> Module] /\ At(c, p, v)[q + 1] = n
        /\ At(c, q, w) \in [1 .. Len(c) -> Module] /\ At(c, q, w)[p + 1] = m
    BY <2>1, <2>5, <2>6, WriteTwice, WritesCommute
  <2>8. /\ At(At(c, p, v), q, w) = [At(c, p, v) EXCEPT ![q + 1] = Holding(n, w)]
        /\ At(At(c, q, w), p, v) = [At(c, q, w) EXCEPT ![p + 1] = Holding(m, v)]
    BY <2>1, <2>7 DEF At
  <2>9. At(At(c, p, v), q, w) = At(At(c, q, w), p, v)
    <3>1. [[c EXCEPT ![p + 1] = Holding(m, v)] EXCEPT ![q + 1] = Holding(n, w)]
            = [[c EXCEPT ![q + 1] = Holding(n, w)] EXCEPT ![p + 1] = Holding(m, v)]
      BY <2>1, <2>6, WritesCommute
    <3> QED BY <2>5, <2>8, <3>1, Zenon
  <2>10. ValueIn(Q, q) = ValueIn(P, q)
    BY <2>1, <2>3, <2>7 DEF ValueIn
  <2> QED BY <2>4, <2>9, <2>10
<1> QED BY <1>1, <1>2, <1>3, <1>5, <1>6, <1>7, ParameterIs

-----------------------------------------------------------------------------
(* The commands that edit a chain, and what takes one back.                *)

EditCommand ==
  [kind : {"slot"}, slot : Slot, effect : Choice, value : Value]
    \cup [kind : {"move"}, from : Slot, to : Slot]

\* A module where there is one or at the end, the last module taken away, or
\* two modules' places exchanged for each other's.
Reversible(chain, c) ==
  \/ c.kind = "move" /\ MoveNamesModules(chain, c.from, c.to)
  \/ c.kind = "slot" /\ c.effect # noModule /\ c.slot <= Len(chain)
  \/ c.kind = "slot" /\ c.effect = noModule /\ c.slot + 1 = Len(chain) /\ c.value = Default

ModuleOf(c) == [effect |-> c.effect, value |-> c.value]
ChainAfter(chain, c) ==
  IF c.kind = "move" THEN MoveModule(chain, c.from, c.to)
  ELSE IF c.effect = noModule THEN RemoveAt(chain, Len(chain))
  ELSE IF c.slot < Len(chain) THEN [chain EXCEPT ![c.slot + 1] = ModuleOf(c)]
  ELSE Append(chain, ModuleOf(c))
InverseFor(chain, c) ==
  IF c.kind = "move" THEN MoveStep(c.to, c.from)
  ELSE IF c.slot < Len(chain)
    THEN SlotState(c.slot, chain[c.slot + 1].effect, chain[c.slot + 1].value)
    ELSE SlotState(c.slot, noModule, Default)

LEMMA CommandIs ==
  ASSUME NEW c \in EditCommand
  PROVE  /\ c.kind \in {"slot", "move"}
         /\ c.kind = "slot" => /\ c.slot \in Slot /\ c.slot \in Nat /\ c.slot < MaxModules
                               /\ c.effect \in Choice /\ c.value \in Value
         /\ c.kind = "move" => c.from \in Nat /\ c.to \in Nat /\ c.from \in Slot /\ c.to \in Slot
<1>1. Slot \subseteq Nat /\ \A s \in Slot : s < MaxModules
  BY MaxModulesAssumption DEF Slot
<1> QED BY <1>1 DEF EditCommand

LEMMA CommandType ==
  /\ \A s \in Slot, e \in Choice, v \in Value : SlotState(s, e, v) \in EditCommand
  /\ \A s, t \in Slot : MoveStep(s, t) \in EditCommand
BY DEF EditCommand, SlotState, MoveStep

LEMMA InverseIs ==
  ASSUME NEW P, NEW c PROVE InverseOf(P, c) = InverseFor(P.chain, c)
BY DEF InverseOf, InverseFor, CurrentSlotState

\* The last of a sequence taken away and put back.
LEMMA LastRemoved ==
  ASSUME NEW E, NEW s \in Seq(E), Len(s) # 0
  PROVE  /\ RemoveAt(s, Len(s)) \in Seq(E) /\ Len(RemoveAt(s, Len(s))) = Len(s) - 1
         /\ s[Len(s)] \in E /\ Append(RemoveAt(s, Len(s)), s[Len(s)]) = s
<1>1. Len(s) \in Nat /\ Len(s) \in 1 .. Len(s)
  BY LenProperties
<1> DEFINE r == RemoveAt(s, Len(s))
           t == Append(r, s[Len(s)])
<1>2. r \in Seq(E) /\ Len(r) = Len(s) - 1 /\ \A k \in 1 .. Len(s) - 1 : r[k] = s[k]
  BY <1>1, Removed
<1>3. s[Len(s)] \in E
  BY <1>1, ElementOfSeq
<1> HIDE DEF r
<1>4. t \in Seq(E) /\ Len(t) = Len(s) /\ \A k \in 1 .. Len(s) : t[k] = s[k]
  BY <1>1, <1>2, <1>3
<1>5. t = s
  BY <1>4, SeqEqual
<1> QED BY <1>2, <1>3, <1>5 DEF r

LEMMA AddedRemoved ==
  ASSUME NEW E, NEW s \in Seq(E), NEW x \in E
  PROVE  /\ Append(s, x) \in Seq(E) /\ Len(Append(s, x)) = Len(s) + 1
         /\ RemoveAt(Append(s, x), Len(Append(s, x))) = s
<1> DEFINE a == Append(s, x)
           r == RemoveAt(a, Len(a))
<1>1. Len(s) \in Nat /\ a \in Seq(E) /\ Len(a) = Len(s) + 1 /\ \A k \in 1 .. Len(s) : a[k] = s[k]
  BY LenProperties
<1>2. Len(a) \in 1 .. Len(a)
  BY <1>1
<1> HIDE DEF a
<1>3. r \in Seq(E) /\ Len(r) = Len(a) - 1 /\ \A k \in 1 .. Len(a) - 1 : r[k] = a[k]
  BY <1>1, <1>2, Removed
<1> HIDE DEF r
<1>4. r = s
  <2>1. Len(r) = Len(s) /\ \A k \in 1 .. Len(s) : r[k] = s[k]
    BY <1>1, <1>3
  <2> QED BY <1>3, <2>1, SeqEqual
<1> QED BY <1>1, <1>4 DEF a, r

LEMMA LastWritten ==
  ASSUME NEW E, NEW s \in Seq(E), NEW x \in E
  PROVE  LET n == Len(s) + 1
             a == Append(s, x)
         IN /\ a \in Seq(E) /\ Len(a) = n /\ a[n] = x /\ a \in [1 .. n -> E] /\ n \in 1 .. n
            /\ \A y \in E : [a EXCEPT ![n] = y] = Append(s, y)
<1> DEFINE n == Len(s) + 1
           a == Append(s, x)
<1>1. Len(s) \in Nat
  BY LenProperties
<1>2. /\ a \in Seq(E) /\ Len(a) = n /\ a[n] = x /\ n \in 1 .. n
      /\ \A k \in 1 .. Len(s) : a[k] = s[k]
  BY <1>1
<1>3. ASSUME NEW y \in E PROVE [a EXCEPT ![n] = y] = Append(s, y)
  <2>1. /\ [a EXCEPT ![n] = y] \in Seq(E) /\ Len([a EXCEPT ![n] = y]) = n
        /\ \A k \in 1 .. n : [a EXCEPT ![n] = y][k] = IF k = n THEN y ELSE a[k]
    <3> HIDE DEF a
    <3> QED BY <1>2, ExceptSeq
  <2>2. /\ Append(s, y) \in Seq(E) /\ Len(Append(s, y)) = n
        /\ \A k \in 1 .. n : Append(s, y)[k] = IF k = n THEN y ELSE s[k]
    BY <1>1
  <2>3. \A k \in 1 .. n : k # n => k \in 1 .. Len(s)
    BY <1>1
  <2>4. \A k \in 1 .. n : [a EXCEPT ![n] = y][k] = Append(s, y)[k]
    <3> HIDE DEF n
    <3> QED BY <1>2, <2>1, <2>2, <2>3
  <2> HIDE DEF a
  <2> QED BY <2>1, <2>2, <2>4, SeqEqual
<1>4. a \in [1 .. n -> E]
  <2> HIDE DEF a
  <2> QED BY <1>2, LenProperties
<1> QED BY <1>2, <1>3, <1>4

\* A command that can be taken back keeps a chain a chain.
LEMMA AfterType ==
  ASSUME NEW chain \in Seq(Module), Len(chain) <= MaxModules,
         NEW c \in EditCommand, Reversible(chain, c)
  PROVE  ChainAfter(chain, c) \in Seq(Module) /\ Len(ChainAfter(chain, c)) <= MaxModules
<1> DEFINE d == ChainAfter(chain, c)
<1>0. Len(chain) \in Nat /\ MaxModules \in Nat
  BY LenProperties, MaxModulesAssumption
<1>1. CASE c.kind = "move"
  <2>1. MoveNamesModules(chain, c.from, c.to) /\ c.from \in Nat /\ c.to \in Nat
    BY <1>1, CommandIs DEF Reversible
  <2>2. d = MoveModule(chain, c.from, c.to)
    BY <1>1 DEF ChainAfter
  <2>3. MoveModule(chain, c.from, c.to) \in Seq(Module) /\ Len(MoveModule(chain, c.from, c.to)) = Len(chain)
    BY <2>1, MoveType
  <2> QED BY <2>2, <2>3
<1>2. CASE c.kind = "slot" /\ c.effect # noModule /\ c.slot < Len(chain)
  <2>1. ModuleOf(c) \in Module /\ c.slot + 1 \in 1 .. Len(chain)
    BY <1>0, <1>2, CommandIs DEF ModuleOf, Module, Choice
  <2>2. d = [chain EXCEPT ![c.slot + 1] = ModuleOf(c)]
    BY <1>2 DEF ChainAfter
  <2>3. [chain EXCEPT ![c.slot + 1] = ModuleOf(c)] \in Seq(Module)
        /\ Len([chain EXCEPT ![c.slot + 1] = ModuleOf(c)]) = Len(chain)
    BY <2>1, ExceptSeq
  <2> QED BY <2>2, <2>3
<1>3. CASE c.kind = "slot" /\ c.effect # noModule /\ ~(c.slot < Len(chain))
  <2>1. ModuleOf(c) \in Module /\ Len(chain) + 1 <= MaxModules
    BY <1>0, <1>3, CommandIs DEF Reversible, ModuleOf, Module, Choice
  <2>2. d = Append(chain, ModuleOf(c))
    BY <1>3 DEF ChainAfter
  <2> QED BY <2>1, <2>2, AddedRemoved
<1>4. CASE c.kind = "slot" /\ c.effect = noModule
  <2>1. Len(chain) # 0
    BY <1>0, <1>4, CommandIs DEF Reversible
  <2>2. d = RemoveAt(chain, Len(chain))
    BY <1>4 DEF ChainAfter
  <2> HIDE DEF d
  <2>3. d \in Seq(Module) /\ Len(d) = Len(chain) - 1
    BY <2>1, <2>2, LastRemoved
  <2> QED BY <1>0, <2>3 DEF d
<1> QED BY <1>1, <1>2, <1>3, <1>4, CommandIs

\* What takes it back can itself be taken back, and leads to the same chain.
LEMMA EditBack ==
  ASSUME NEW chain \in Seq(Module), Len(chain) <= MaxModules,
         NEW c \in EditCommand, Reversible(chain, c)
  PROVE  /\ InverseFor(chain, c) \in EditCommand
         /\ Reversible(ChainAfter(chain, c), InverseFor(chain, c))
         /\ ChainAfter(ChainAfter(chain, c), InverseFor(chain, c)) = chain
<1> DEFINE d == ChainAfter(chain, c)
           i == InverseFor(chain, c)
<1>0. Len(chain) \in Nat /\ MaxModules \in Nat
  BY LenProperties, MaxModulesAssumption
<1>1. CASE c.kind = "move"
  <2>1. MoveNamesModules(chain, c.from, c.to) /\ c.from \in Nat /\ c.to \in Nat
        /\ c.from \in Slot /\ c.to \in Slot
    BY <1>1, CommandIs DEF Reversible
  <2>2. d = MoveModule(chain, c.from, c.to) /\ i = MoveStep(c.to, c.from)
    BY <1>1 DEF ChainAfter, InverseFor
  <2> HIDE DEF d, i
  <2>3. i \in EditCommand /\ i.kind = "move" /\ i.from = c.to /\ i.to = c.from
    BY <2>1, <2>2, CommandType DEF MoveStep
  <2>4. Len(d) = Len(chain) /\ MoveModule(d, c.to, c.from) = chain
    BY <2>1, <2>2, MoveType, MoveUndoesMove
  <2>5. MoveNamesModules(d, c.to, c.from)
    BY <2>1, <2>4 DEF MoveNamesModules
  <2> QED BY <2>3, <2>4, <2>5 DEF d, i, Reversible, ChainAfter
<1>2. CASE c.kind = "slot" /\ c.effect # noModule /\ c.slot < Len(chain)
  <2> DEFINE n == c.slot + 1
             m == chain[n]
  <2>1. /\ ModuleOf(c) \in Module /\ n \in 1 .. Len(chain) /\ c.slot \in Slot
        /\ chain \in [1 .. Len(chain) -> Module]
    <3>1. ModuleOf(c) \in Module /\ n \in 1 .. Len(chain) /\ c.slot \in Slot
      BY <1>0, <1>2, CommandIs DEF ModuleOf, Module, Choice
    <3> QED BY <3>1, LenProperties
  <2>2. d = [chain EXCEPT ![n] = ModuleOf(c)] /\ i = SlotState(c.slot, m.effect, m.value)
    BY <1>2 DEF ChainAfter, InverseFor
  <2> HIDE DEF d, i
  <2>3. m \in Module /\ m.effect \in Effect /\ m.effect # noModule /\ m.value \in Value
    BY <2>1, EffectAssumption DEF Module
  <2>4. /\ i \in EditCommand /\ i.kind = "slot" /\ i.slot = c.slot /\ i.effect = m.effect
        /\ ModuleOf(i) = m
    BY <2>1, <2>2, <2>3, CommandType DEF SlotState, Choice, ModuleOf, Module
  <2>5. Len(d) = Len(chain) /\ [d EXCEPT ![n] = m] = chain
    <3>1. Len(d) = Len(chain)
      BY <2>1, <2>2, ExceptSeq
    <3>3. [chain EXCEPT ![n] = m] = chain
      BY <2>1
    <3>2. [[chain EXCEPT ![n] = ModuleOf(c)] EXCEPT ![n] = m] = [chain EXCEPT ![n] = m]
      <4> HIDE DEF n, m
      <4> QED BY <2>1, <2>3
    <3> QED BY <2>2, <3>1, <3>2, <3>3
  <2>6. Reversible(d, i)
    BY <1>0, <1>2, <2>1, <2>3, <2>4, <2>5 DEF Reversible
  <2>7. ChainAfter(d, i) = [d EXCEPT ![n] = m]
    BY <1>2, <2>3, <2>4, <2>5 DEF ChainAfter
  <2> QED BY <2>4, <2>5, <2>6, <2>7 DEF d, i
<1>3. CASE c.kind = "slot" /\ c.effect # noModule /\ ~(c.slot < Len(chain))
  <2>1. ModuleOf(c) \in Module /\ c.slot = Len(chain) /\ c.slot \in Slot
    BY <1>0, <1>3, CommandIs DEF Reversible, ModuleOf, Module, Choice
  <2>2. d = Append(chain, ModuleOf(c)) /\ i = SlotState(c.slot, noModule, Default)
    BY <1>3 DEF ChainAfter, InverseFor
  <2> HIDE DEF d, i
  <2>3. /\ i \in EditCommand /\ i.kind = "slot" /\ i.slot = c.slot /\ i.effect = noModule
        /\ i.value = Default
    BY <2>1, <2>2, CommandType, ValueAssumption DEF SlotState, Choice
  <2>4. Len(d) = Len(chain) + 1 /\ RemoveAt(d, Len(d)) = chain
    BY <2>1, <2>2, AddedRemoved
  <2>5. Reversible(d, i) /\ ChainAfter(d, i) = RemoveAt(d, Len(d))
    BY <2>1, <2>3, <2>4 DEF Reversible, ChainAfter
  <2> QED BY <2>3, <2>4, <2>5 DEF d, i
<1>4. CASE c.kind = "slot" /\ c.effect = noModule
  <2> DEFINE m == chain[Len(chain)]
  <2>1. /\ Len(chain) # 0 /\ c.slot + 1 = Len(chain) /\ c.slot < Len(chain)
        /\ c.slot \in Slot /\ c.slot \in Nat
    BY <1>0, <1>4, CommandIs DEF Reversible
  <2>2. d = RemoveAt(chain, Len(chain)) /\ i = SlotState(c.slot, m.effect, m.value)
    BY <1>4, <2>1 DEF ChainAfter, InverseFor
  <2> HIDE DEF d, i
  <2>3. m \in Module /\ Len(d) = Len(chain) - 1 /\ Append(d, m) = chain
    BY <2>1, <2>2, LastRemoved
  <2>4. m.effect \in Effect /\ m.effect # noModule /\ m.value \in Value
    BY <2>3, EffectAssumption DEF Module
  <2>5. /\ i \in EditCommand /\ i.kind = "slot" /\ i.slot = c.slot /\ i.effect = m.effect
        /\ ModuleOf(i) = m
    BY <2>1, <2>2, <2>3, <2>4, CommandType DEF SlotState, Choice, ModuleOf, Module
  <2>6. Reversible(d, i) /\ ChainAfter(d, i) = Append(d, m)
    <3>1. i.slot = Len(d) /\ i.kind # "move" /\ i.effect # noModule
      BY <1>0, <2>1, <2>3, <2>4, <2>5
    <3> QED BY <2>1, <2>5, <3>1 DEF Reversible, ChainAfter
  <2> QED BY <2>3, <2>5, <2>6 DEF d, i
<1> QED BY <1>1, <1>2, <1>3, <1>4, CommandIs

\* applyChainEdit() edits the chain and nothing else.
LEMMA CarriedOutIs ==
  ASSUME NEW P \in Program, NEW c \in EditCommand, Reversible(P.chain, c)
  PROVE  CarriedOut(P, c) = ProgramOf(ChainAfter(P.chain, c), P.global)
<1> DEFINE chain == P.chain
           g == P.global
<1>0. /\ P = ProgramOf(chain, g) /\ chain \in Seq(Module) /\ Len(chain) \in Nat
      /\ MaxModules \in Nat
  BY ProgramIs, MaxModulesAssumption
<1>1. CASE c.kind = "move"
  <2>1. Moved(chain, c.from, c.to) = MoveModule(chain, c.from, c.to)
    BY <1>1, CommandIs DEF Reversible, Moved, MoveNamesModules
  <2>2. CarriedOut(P, c) = [P EXCEPT !.chain = Moved(chain, c.from, c.to)]
    BY <1>1 DEF CarriedOut
  <2>3. \A d : [P EXCEPT !.chain = d] = ProgramOf(d, g)
    BY <1>0 DEF ProgramOf
  <2> QED BY <1>1, <2>1, <2>2, <2>3 DEF ChainAfter
<1>2. ASSUME NEW d PROVE [P EXCEPT !.chain = d] = ProgramOf(d, g)
  BY <1>0 DEF ProgramOf
<1>3. CASE c.kind = "slot" /\ c.effect = noModule
  <2>1. c.slot + 1 = Len(chain) /\ c.slot \in Nat /\ c.slot < Len(chain)
    BY <1>0, <1>3, CommandIs DEF Reversible
  <2>2. chain[c.slot + 1] \in Module
    BY <1>0, <2>1, ElementOfSeq
  <2>3. EffectIn(P, c.slot) # noModule
    BY <2>1, <2>2, EffectAssumption DEF EffectIn, Module
  <2>4. CarriedOut(P, c) = [P EXCEPT !.chain = InstallModuleInSlot(chain, c.slot, noModule)]
    BY <1>3, <2>3 DEF CarriedOut, SlotEdited
  <2>5. InstallModuleInSlot(chain, c.slot, noModule) = ChainAfter(chain, c)
    BY <1>3, <2>1 DEF InstallModuleInSlot, ChainAfter
  <2> QED BY <1>2, <2>4, <2>5
<1>4. CASE c.kind = "slot" /\ c.effect # noModule
  <2> DEFINE new == [effect |-> c.effect, value |-> Default]
             Q == SlotEdited(P, c.slot, c.effect)
  <2>1. /\ c.slot \in Slot /\ c.slot \in Nat /\ c.slot <= Len(chain) /\ c.slot < MaxModules
        /\ c.effect \in Effect /\ c.value \in Value
    BY <1>4, CommandIs DEF Reversible, Choice
  <2>2. CarriedOut(P, c) = WithValue(Q, c.slot, c.value)
    BY <1>4 DEF CarriedOut
  <2>3. new \in Module /\ new # noModule
    BY <2>1, ValueAssumption, NothingAssumption DEF Module
  <2>4. EffectIn(P, c.slot) # c.effect
          => Q = ProgramOf(InsertAtAndReplace(chain, c.slot, new), g)
    <3> SUFFICES ASSUME EffectIn(P, c.slot) # c.effect
                 PROVE  Q = ProgramOf(InsertAtAndReplace(chain, c.slot, new), g)
      OBVIOUS
    <3>1. Q = [P EXCEPT !.chain = InstallModuleInSlot(chain, c.slot, new)]
      BY <1>4 DEF SlotEdited
    <3>2. InstallModuleInSlot(chain, c.slot, new) = InsertAtAndReplace(chain, c.slot, new)
      BY <2>3 DEF InstallModuleInSlot
    <3> QED BY <1>2, <3>1, <3>2
  <2>5. EffectIn(P, c.slot) = c.effect => Q = P
    BY DEF SlotEdited
  <2> HIDE DEF Q
  <2>6. CASE c.slot < Len(chain)
    <3> DEFINE n == c.slot + 1
               m == chain[n]
               Put(e, x) == [e EXCEPT ![n] = Holding(@, x)]
    <3>1. /\ n \in 1 .. Len(chain) /\ m \in Module /\ chain \in [1 .. Len(chain) -> Module]
          /\ EffectIn(P, c.slot) = m.effect
      BY <1>0, <2>1, <2>6, ElementOfSeq, LenProperties DEF EffectIn
    <3>2. ChainAfter(chain, c) = [chain EXCEPT ![n] = ModuleOf(c)]
      BY <1>4, <2>6 DEF ChainAfter
    <3>3. \E k \in Module : /\ Q = ProgramOf([chain EXCEPT ![n] = k], g) /\ k.effect = c.effect
      <4>1. CASE EffectIn(P, c.slot) = c.effect
        <5>1. [chain EXCEPT ![n] = m] = chain
          BY <3>1
        <5> QED BY <1>0, <2>5, <3>1, <4>1, <5>1
      <4>2. CASE EffectIn(P, c.slot) # c.effect
        <5>1. InsertAtAndReplace(chain, c.slot, new) = [chain EXCEPT ![n] = new]
          BY <2>6 DEF InsertAtAndReplace
        <5> QED BY <2>3, <2>4, <4>2, <5>1
      <4> QED BY <4>1, <4>2
    <3>4. PICK k \in Module : Q = ProgramOf([chain EXCEPT ![n] = k], g) /\ k.effect = c.effect
      BY <3>3
    <3> DEFINE d == [chain EXCEPT ![n] = k]
    <3>5. d \in Seq(Module) /\ Len(d) = Len(chain) /\ d[n] = k /\ d \in [1 .. Len(chain) -> Module]
      BY <1>0, <3>1, ExceptSeq
    <3>6. Q \in Program /\ Q.chain = d /\ Q.global = g
      <4>1. Len(chain) <= MaxModules /\ g \in [Global -> Value]
        BY ProgramIs
      <4> QED BY <3>4, <3>5, <4>1, ProgramType
    <3>7. [d EXCEPT ![n] = Holding(d[n], c.value)] = [chain EXCEPT ![n] = ModuleOf(c)]
      <4>1. Holding(d[n], c.value) = ModuleOf(c) /\ ModuleOf(c) \in Module
        BY <2>1, <3>4, <3>5 DEF Holding, ModuleOf, Module
      <4> QED BY <3>1, <4>1, WriteTwice
    <3> HIDE DEF d
    <3>8. WithValue(Q, c.slot, c.value) = ProgramOf([d EXCEPT ![n] = Holding(@, c.value)], g)
      BY <2>1, <2>6, <3>5, <3>6, WriteSlot
    <3>9. [d EXCEPT ![n] = Holding(@, c.value)] = [d EXCEPT ![n] = Holding(d[n], c.value)]
      BY <3>1, <3>5
    <3> QED BY <2>2, <3>2, <3>7, <3>8, <3>9
  <2>7. CASE ~(c.slot < Len(chain))
    <3> DEFINE n == c.slot + 1
               d == Append(chain, new)
    <3>1. EffectIn(P, c.slot) = noModule /\ InsertAtAndReplace(chain, c.slot, new) = d
      BY <2>7 DEF EffectIn, InsertAtAndReplace
    <3>2. Q = ProgramOf(d, g)
      BY <1>4, <2>4, <3>1
    <3>3. /\ d \in Seq(Module) /\ Len(d) = n /\ d[n] = new /\ Len(d) <= MaxModules
          /\ d \in [1 .. n -> Module] /\ n \in 1 .. n
          /\ \A y \in Module : [d EXCEPT ![n] = y] = Append(chain, y)
      <4>1. n = Len(chain) + 1 /\ n <= MaxModules
        BY <1>0, <2>1, <2>7
      <4> HIDE DEF new
      <4> DEFINE k == Len(chain) + 1
      <4>2. /\ d \in Seq(Module) /\ Len(d) = k /\ d[k] = new
            /\ d \in [1 .. k -> Module] /\ k \in 1 .. k
            /\ \A y \in Module : [d EXCEPT ![k] = y] = Append(chain, y)
        <5>1. chain \in Seq(Module) /\ new \in Module
          BY <1>0, <2>3
        <5> HIDE DEF chain
        <5> QED BY <5>1, LastWritten
      <4> QED BY <4>1, <4>2
    <3>4. Q \in Program /\ Q.chain = d /\ Q.global = g
      BY <3>2, <3>3, ProgramIs, ProgramType
    <3>5. ModuleOf(c) = Holding(new, c.value)
      BY DEF ModuleOf, Holding
    <3>6. [d EXCEPT ![n] = ModuleOf(c)] = Append(chain, ModuleOf(c))
      <4>1. ModuleOf(c) \in Module
        BY <2>1 DEF ModuleOf, Module
      <4> QED BY <3>3, <4>1
    <3>7. ChainAfter(chain, c) = Append(chain, ModuleOf(c))
      BY <1>4, <2>7 DEF ChainAfter
    <3>8. [d EXCEPT ![n] = Holding(@, c.value)] = [d EXCEPT ![n] = ModuleOf(c)]
      BY <3>3, <3>5
    <3> HIDE DEF d
    <3>9. WithValue(Q, c.slot, c.value) = ProgramOf([d EXCEPT ![n] = Holding(@, c.value)], g)
      <4>1. c.slot < Len(d)
        BY <2>1, <3>3
      <4> QED BY <2>1, <3>4, <4>1, WriteSlot
    <3> QED BY <2>2, <3>6, <3>7, <3>8, <3>9
  <2> QED BY <2>6, <2>7
<1> QED BY <1>1, <1>3, <1>4, CommandIs

-----------------------------------------------------------------------------
(* Several commands, and all of them taken back.                           *)

\* q[i] is the chain after i of them, each of which can be taken back.
Replaying(q, chain, commands) ==
  /\ q[0] = chain
  /\ \A i \in 1 .. Len(commands) :
       /\ Reversible(q[i - 1], commands[i])
       /\ q[i] = ChainAfter(q[i - 1], commands[i])
\* What takes the first n of them back, the last one first.
TakenBack(q, commands, n) ==
  [k \in 1 .. n |-> InverseFor(q[n - k], commands[n - k + 1])]

LEMMA ReplayingType ==
  ASSUME NEW commands \in Seq(EditCommand), NEW chain \in Seq(Module),
         Len(chain) <= MaxModules, NEW q, Replaying(q, chain, commands)
  PROVE  \A n \in 0 .. Len(commands) : q[n] \in Seq(Module) /\ Len(q[n]) <= MaxModules
<1> DEFINE m == Len(commands)
           S == {n \in Nat : n <= m => q[n] \in Seq(Module) /\ Len(q[n]) <= MaxModules}
<1>1. m \in Nat /\ \A i \in 1 .. m : commands[i] \in EditCommand
  BY LenProperties, ElementOfSeq
<1>2. 0 \in S
  BY DEF Replaying
<1>3. ASSUME NEW n \in Nat, n \in S PROVE n + 1 \in S
  <2>1. SUFFICES ASSUME n + 1 <= m
                 PROVE  q[n + 1] \in Seq(Module) /\ Len(q[n + 1]) <= MaxModules
    OBVIOUS
  <2>2. /\ n + 1 \in 1 .. m /\ (n + 1) - 1 = n
        /\ q[n] \in Seq(Module) /\ Len(q[n]) <= MaxModules
    BY <1>1, <1>3, <2>1
  <2>3. Reversible(q[n], commands[n + 1]) /\ q[n + 1] = ChainAfter(q[n], commands[n + 1])
    BY <2>2 DEF Replaying
  <2>4. commands[n + 1] \in EditCommand
    BY <1>1, <2>2
  <2> DEFINE a == q[n]
             b == commands[n + 1]
  <2>5. ChainAfter(a, b) \in Seq(Module) /\ Len(ChainAfter(a, b)) <= MaxModules
    <3>1. a \in Seq(Module) /\ Len(a) <= MaxModules /\ b \in EditCommand /\ Reversible(a, b)
      BY <2>2, <2>3, <2>4
    <3> HIDE DEF a, b
    <3> QED BY <3>1, AfterType
  <2> QED BY <2>3, <2>5
<1> HIDE DEF S
<1>4. \A n \in Nat : n \in S
  BY <1>2, <1>3, NatInd
<1> QED BY <1>1, <1>4 DEF S

\* Each command of a run is taken back where it led.
LEMMA EachTakenBack ==
  ASSUME NEW commands \in Seq(EditCommand), NEW chain \in Seq(Module),
         Len(chain) <= MaxModules, NEW q, Replaying(q, chain, commands),
         NEW i \in 1 .. Len(commands)
  PROVE  /\ InverseFor(q[i - 1], commands[i]) \in EditCommand
         /\ Reversible(q[i], InverseFor(q[i - 1], commands[i]))
         /\ ChainAfter(q[i], InverseFor(q[i - 1], commands[i])) = q[i - 1]
<1> DEFINE a == q[i - 1]
           b == commands[i]
<1>1. i - 1 \in 0 .. Len(commands)
  BY LenProperties
<1>2. a \in Seq(Module) /\ Len(a) <= MaxModules
  BY <1>1, ReplayingType
<1>3. b \in EditCommand /\ Reversible(a, b) /\ q[i] = ChainAfter(a, b)
  BY ElementOfSeq DEF Replaying
<1> HIDE DEF a, b
<1>4. /\ InverseFor(a, b) \in EditCommand
      /\ Reversible(ChainAfter(a, b), InverseFor(a, b))
      /\ ChainAfter(ChainAfter(a, b), InverseFor(a, b)) = a
  BY <1>2, <1>3, EditBack
<1> QED BY <1>3, <1>4 DEF a, b

LEMMA TakenBackType ==
  ASSUME NEW commands \in Seq(EditCommand), NEW chain \in Seq(Module),
         Len(chain) <= MaxModules, NEW q, Replaying(q, chain, commands),
         NEW n \in 0 .. Len(commands)
  PROVE  /\ TakenBack(q, commands, n) \in Seq(EditCommand)
         /\ Len(TakenBack(q, commands, n)) = n
<1>1. n \in Nat /\ Len(commands) \in Nat
  BY LenProperties
<1>2. ASSUME NEW k \in 1 .. n PROVE InverseFor(q[n - k], commands[n - k + 1]) \in EditCommand
  <2>1. n - k + 1 \in 1 .. Len(commands) /\ (n - k + 1) - 1 = n - k
    BY <1>1
  <2> DEFINE i == n - k + 1
  <2>2. InverseFor(q[i - 1], commands[i]) \in EditCommand
    <3>1. i \in 1 .. Len(commands)
      BY <2>1
    <3> HIDE DEF i
    <3> QED BY <3>1, EachTakenBack
  <2> QED BY <2>1, <2>2
<1>3. TakenBack(q, commands, n) \in [1 .. n -> EditCommand]
  BY <1>2 DEF TakenBack
<1> QED BY <1>1, <1>3, SeqDef, LenProperties

\* applyChainEdit()'s loop.
LEMMA ReplayedIs ==
  ASSUME NEW P \in Program, NEW commands \in Seq(EditCommand),
         NEW q, Replaying(q, P.chain, commands)
  PROVE  Replayed(P, commands)
           = [program |-> ProgramOf(q[Len(commands)], P.global),
              inverse |-> TakenBack(q, commands, Len(commands))]
<1> DEFINE m == Len(commands)
           chain == P.chain
           g == P.global
           Step1(before, c) == [program |-> CarriedOut(before.program, c),
                                inverse |-> Before(InverseOf(before.program, c), before.inverse)]
           none == [program |-> P, inverse |-> <<>>]
           F(f) == f = [n \in 0 .. m |-> IF n = 0 THEN none ELSE Step1(f[n - 1], commands[n])]
           done == CHOOSE f : F(f)
           Done(n) == [program |-> ProgramOf(q[n], g), inverse |-> TakenBack(q, commands, n)]
<1>0. /\ m \in Nat /\ chain \in Seq(Module) /\ Len(chain) <= MaxModules
      /\ P = ProgramOf(chain, g) /\ g \in [Global -> Value]
      /\ Replaying(q, chain, commands)
  BY ProgramIs, LenProperties
<1>1. Done(0) = none
  <2>1. q[0] = chain /\ TakenBack(q, commands, 0) = <<>>
    BY <1>0 DEF Replaying, TakenBack
  <2> QED BY <1>0, <2>1
<1>2. ASSUME NEW n \in 1 .. m PROVE Done(n) = Step1(Done(n - 1), commands[n])
  <2> DEFINE a == q[n - 1]
             b == commands[n]
             s == TakenBack(q, commands, n - 1)
  <2>1. /\ n \in Nat /\ n - 1 \in Nat /\ n - 1 \in 0 .. m /\ n \in 0 .. m
    BY <1>0
  <2>2. a \in Seq(Module) /\ Len(a) <= MaxModules /\ b \in EditCommand
        /\ Reversible(a, b) /\ q[n] = ChainAfter(a, b)
    BY <1>0, <2>1, ReplayingType, ElementOfSeq DEF Replaying
  <2> DEFINE Q == ProgramOf(a, g)
  <2>3. Q \in Program /\ Q.chain = a /\ Q.global = g
    <3> HIDE DEF a
    <3> QED BY <1>0, <2>2, ProgramType
  <2>4. CarriedOut(Q, b) = ProgramOf(q[n], g)
    <3> HIDE DEF Q, a, b
    <3> QED BY <2>2, <2>3, CarriedOutIs
  <2>5. InverseOf(Q, b) = InverseFor(a, b)
    <3> HIDE DEF Q, a, b
    <3> QED BY <2>3, InverseIs
  <2>6. Before(InverseFor(a, b), s) = TakenBack(q, commands, n)
    <3> DEFINE x == InverseFor(a, b)
               t == TakenBack(q, commands, n)
    <3>1. x \in EditCommand
      BY <1>0, EachTakenBack
    <3>2. s \in Seq(EditCommand) /\ Len(s) = n - 1
      BY <1>0, <2>1, TakenBackType
    <3>3. t \in Seq(EditCommand) /\ Len(t) = n
      BY <1>0, <2>1, TakenBackType
    <3>4. t[1] = x
      <4>1. 1 \in 1 .. n /\ n - 1 + 1 = n
        BY <2>1
      <4> QED BY <4>1 DEF TakenBack
    <3>5. ASSUME NEW k \in 1 .. n, k # 1 PROVE t[k] = s[k - 1]
      <4>1. k - 1 \in 1 .. n - 1 /\ (n - 1) - (k - 1) = n - k
        BY <2>1, <3>5
      <4>2. t[k] = InverseFor(q[n - k], commands[n - k + 1])
        BY DEF TakenBack
      <4>3. s[k - 1] = InverseFor(q[(n - 1) - (k - 1)], commands[(n - 1) - (k - 1) + 1])
        BY <4>1 DEF TakenBack
      <4> QED BY <4>1, <4>2, <4>3
    <3> HIDE DEF x, s, t
    <3>6. /\ <<x>> \o s \in Seq(EditCommand) /\ Len(<<x>> \o s) = n
          /\ \A k \in 1 .. n : (<<x>> \o s)[k] = IF k = 1 THEN x ELSE s[k - 1]
      BY <2>1, <3>1, <3>2
    <3>7. <<x>> \o s = t
      BY <3>3, <3>4, <3>5, <3>6, SeqEqual
    <3> QED BY <3>7 DEF Before, x, s, t
  <2>7. Done(n - 1).program = Q /\ Done(n - 1).inverse = s
    OBVIOUS
  <2> HIDE DEF Q, s, a, b
  <2>8. Step1(Done(n - 1), commands[n])
          = [program |-> CarriedOut(Q, b), inverse |-> Before(InverseOf(Q, b), s)]
    BY <2>7 DEF b
  <2> QED BY <2>4, <2>5, <2>6, <2>8
<1>3. \E f : F(f)
  <2> DEFINE f == [n \in 0 .. m |-> Done(n)]
  <2> HIDE DEF Done, Step1, none
  <2>1. ASSUME NEW n \in 0 .. m
        PROVE  f[n] = IF n = 0 THEN none ELSE Step1(f[n - 1], commands[n])
    <3>1. CASE n = 0
      BY <1>1, <3>1
    <3>2. CASE n # 0
      <4>1. n \in 1 .. m /\ n - 1 \in 0 .. m
        BY <1>0, <3>2
      <4>2. f[n] = Done(n) /\ f[n - 1] = Done(n - 1)
        BY <4>1
      <4> QED BY <1>2, <3>2, <4>1, <4>2
    <3> QED BY <3>1, <3>2
  <2>2. F(f)
    BY <2>1
  <2> HIDE DEF F
  <2> QED BY <2>2
<1>4. Replayed(P, commands) = done[m]
  BY Zenon DEF Replayed
<1> HIDE DEF F
<1>5. F(done)
  BY <1>3, Zenon
<1> HIDE DEF Step1, none, Done
<1>6. done = [n \in 0 .. m |-> IF n = 0 THEN none ELSE Step1(done[n - 1], commands[n])]
  BY <1>5 DEF F
<1> HIDE DEF done
<1>7. done[0] = none /\ \A n \in 1 .. m : done[n] = Step1(done[n - 1], commands[n])
  BY <1>0, <1>6
<1> DEFINE S == {n \in Nat : n <= m => done[n] = Done(n)}
<1>8. 0 \in S
  BY <1>1, <1>7
<1>9. ASSUME NEW n \in Nat, n \in S PROVE n + 1 \in S
  <2>1. SUFFICES ASSUME n + 1 <= m PROVE done[n + 1] = Done(n + 1)
    OBVIOUS
  <2>2. n + 1 \in 1 .. m /\ (n + 1) - 1 = n /\ done[n] = Done(n)
    BY <1>0, <1>9, <2>1
  <2> QED BY <1>2, <1>7, <2>2
<1> HIDE DEF S
<1>10. \A n \in Nat : n \in S
  BY <1>8, <1>9, NatInd
<1>11. done[m] = Done(m)
  BY <1>0, <1>10 DEF S
<1> QED BY <1>4, <1>11 DEF Done

\* What takes a run back can itself be taken back, and leads to where it began.
LEMMA TakenBackReplays ==
  ASSUME NEW commands \in Seq(EditCommand), NEW chain \in Seq(Module),
         Len(chain) <= MaxModules, NEW q, Replaying(q, chain, commands)
  PROVE  LET m == Len(commands)
             back == TakenBack(q, commands, m)
         IN  \E r : Replaying(r, q[m], back) /\ r[m] = chain
<1> DEFINE m == Len(commands)
           back == TakenBack(q, commands, m)
           r == [n \in 0 .. m |-> q[m - n]]
<1>0. m \in Nat
  BY LenProperties
<1>1. back \in Seq(EditCommand) /\ Len(back) = m
  BY <1>0, TakenBackType
<1>2. r[0] = q[m] /\ r[m] = q[0]
  BY <1>0
<1>3. ASSUME NEW n \in 1 .. m
      PROVE  Reversible(r[n - 1], back[n]) /\ r[n] = ChainAfter(r[n - 1], back[n])
  <2> DEFINE i == m - n + 1
  <2>1. i \in 1 .. m /\ i - 1 = m - n /\ m - (n - 1) = i /\ n \in 0 .. m /\ n - 1 \in 0 .. m
    BY <1>0
  <2>2. r[n - 1] = q[i] /\ r[n] = q[i - 1]
    BY <2>1
  <2>3. back[n] = InverseFor(q[i - 1], commands[i])
    BY <2>1 DEF TakenBack
  <2> HIDE DEF i
  <2>4. /\ Reversible(q[i], InverseFor(q[i - 1], commands[i]))
        /\ ChainAfter(q[i], InverseFor(q[i - 1], commands[i])) = q[i - 1]
    BY <2>1, EachTakenBack
  <2> QED BY <2>2, <2>3, <2>4
<1> HIDE DEF r, back
<1>4. Replaying(r, q[m], back)
  BY <1>1, <1>2, <1>3 DEF Replaying
<1>5. r[m] = chain
  BY <1>2 DEF Replaying
<1> QED BY <1>4, <1>5 DEF back

-----------------------------------------------------------------------------
(* Steps of the history, and taking one back.                              *)

UndoStep ==
  [kind : {"value"}, id : Parameter, value : Value]
    \cup [kind : {"chain"}, commands : Seq(EditCommand)]
    \cup [kind : {"state"}, program : Program]

\* What a step names is there to be put back.
PutsBack(P, r) ==
  /\ r.kind = "value" => Exists(P, r.id)
  /\ r.kind = "chain" => \E q : Replaying(q, P.chain, r.commands)
Leading(P, r) == Applied(P, r).program

LEMMA StepIs ==
  ASSUME NEW r \in UndoStep
  PROVE  /\ r.kind \in {"value", "chain", "state"}
         /\ r.kind = "value" => r.id \in Parameter /\ r.value \in Value
         /\ r.kind = "chain" => r.commands \in Seq(EditCommand)
         /\ r.kind = "state" => r.program \in Program
BY DEF UndoStep

LEMMA StepType ==
  /\ \A p \in Parameter, v \in Value :
       ValueDelta(p, v) \in UndoStep /\ ValueDelta(p, v).kind = "value"
       /\ ValueDelta(p, v).id = p /\ ValueDelta(p, v).value = v
  /\ \A s \in Seq(EditCommand) :
       ChainEdit(s) \in UndoStep /\ ChainEdit(s).kind = "chain" /\ ChainEdit(s).commands = s
  /\ \A P \in Program :
       StateSnapshot(P) \in UndoStep /\ StateSnapshot(P).kind = "state"
       /\ StateSnapshot(P).program = P
BY DEF UndoStep, ValueDelta, ChainEdit, StateSnapshot

LEMMA AppliedIs ==
  ASSUME NEW P, NEW r
  PROVE  /\ r.kind = "value" =>
              Applied(P, r) = [program |-> WithValue(P, r.id, r.value),
                               inverse |-> ValueDelta(r.id, ValueIn(P, r.id))]
         /\ r.kind = "chain" =>
              Applied(P, r) = [program |-> Replayed(P, r.commands).program,
                               inverse |-> ChainEdit(Replayed(P, r.commands).inverse)]
         /\ r.kind = "state" =>
              Applied(P, r) = [program |-> r.program, inverse |-> StateSnapshot(P)]
BY DEF Applied

\* A run of commands that can be taken back, on a program.
LEMMA EditLeads ==
  ASSUME NEW P \in Program, NEW commands \in Seq(EditCommand),
         NEW q, Replaying(q, P.chain, commands)
  PROVE  LET edit == Replayed(P, commands)
         IN  /\ edit.program \in Program /\ edit.inverse \in Seq(EditCommand)
             /\ edit.program.chain = q[Len(commands)] /\ edit.program.global = P.global
             /\ PutsBack(edit.program, ChainEdit(edit.inverse))
             /\ Leading(edit.program, ChainEdit(edit.inverse)) = P
<1> DEFINE m == Len(commands)
           back == TakenBack(q, commands, m)
           Q == ProgramOf(q[m], P.global)
           edit == Replayed(P, commands)
           r == ChainEdit(back)
<1>0. /\ m \in Nat /\ P.chain \in Seq(Module) /\ Len(P.chain) <= MaxModules
      /\ P = ProgramOf(P.chain, P.global) /\ P.global \in [Global -> Value]
  BY ProgramIs, LenProperties
<1>1. edit.program = Q /\ edit.inverse = back
  <2>1. edit = [program |-> Q, inverse |-> back]
    BY ReplayedIs
  <2> HIDE DEF Q, back, edit
  <2> QED BY <2>1
<1>2. back \in Seq(EditCommand) /\ Len(back) = m
  BY <1>0, TakenBackType
<1>3. Q \in Program /\ Q.chain = q[m] /\ Q.global = P.global
  <2>1. q[m] \in Seq(Module) /\ Len(q[m]) <= MaxModules
    BY <1>0, ReplayingType
  <2> DEFINE d == q[m]
  <2> HIDE DEF d
  <2>2. ProgramOf(d, P.global) \in Program /\ ProgramOf(d, P.global).chain = d
        /\ ProgramOf(d, P.global).global = P.global
    BY <1>0, <2>1, ProgramType DEF d
  <2> QED BY <2>2 DEF d
<1>4. PICK t : Replaying(t, q[m], back) /\ t[m] = P.chain
  BY <1>0, TakenBackReplays
<1> HIDE DEF Q, back, edit
<1>5. r.kind = "chain" /\ r.commands = back
  BY <1>2, StepType
<1> HIDE DEF r
<1>6. PutsBack(Q, r)
  BY <1>3, <1>4, <1>5 DEF PutsBack
<1>7. Leading(Q, r) = P
  <2>1. Replayed(Q, back)
          = [program |-> ProgramOf(t[Len(back)], Q.global),
             inverse |-> TakenBack(t, back, Len(back))]
    BY <1>2, <1>3, <1>4, ReplayedIs
  <2>2. Replayed(Q, back).program = ProgramOf(t[m], P.global)
    BY <1>2, <1>3, <2>1
  <2>3. Leading(Q, r) = Replayed(Q, back).program
    BY <1>5, AppliedIs DEF Leading
  <2> QED BY <1>0, <1>4, <2>2, <2>3
<1> QED BY <1>1, <1>2, <1>3, <1>6, <1>7 DEF r, edit

\* Taking a step back gives a step that can be taken back, and that leads to
\* the program it was taken from.
LEMMA StepBack ==
  ASSUME NEW P \in Program, NEW r \in UndoStep, PutsBack(P, r)
  PROVE  LET a == Applied(P, r)
         IN  /\ a.program \in Program /\ a.inverse \in UndoStep
             /\ PutsBack(a.program, a.inverse) /\ Leading(a.program, a.inverse) = P
<1> DEFINE a == Applied(P, r)
           Q == a.program
           i == a.inverse
<1>1. CASE r.kind = "value"
  <2>1. r.id \in Parameter /\ r.value \in Value /\ Exists(P, r.id)
    BY <1>1, StepIs DEF PutsBack
  <2> DEFINE p == r.id
             v == r.value
             w == ValueIn(P, p)
  <2>2. Q = WithValue(P, p, v) /\ i = ValueDelta(p, w)
    BY <1>1, AppliedIs
  <2> HIDE DEF Q, i, a, p, v, w
  <2>3. w \in Value /\ WithValue(P, p, w) = P
    BY <2>1, WriteBack DEF p, w
  <2>4. p \in Parameter /\ v \in Value /\ Exists(P, p)
    BY <2>1 DEF p, v
  <2>5. Q \in Program /\ Exists(Q, p)
    BY <2>2, <2>4, WriteType
  <2>6. i \in UndoStep /\ i.kind = "value" /\ i.id = p /\ i.value = w
    BY <2>2, <2>3, <2>4, StepType
  <2>7. Leading(Q, i) = WithValue(Q, p, w)
    BY <2>6, AppliedIs DEF Leading
  <2>8. WithValue(Q, p, w) = P
    BY <2>2, <2>3, <2>4, WriteAgain
  <2>9. PutsBack(Q, i)
    BY <2>5, <2>6 DEF PutsBack
  <2> QED BY <2>5, <2>6, <2>7, <2>8, <2>9 DEF Q, i, a
<1>2. CASE r.kind = "chain"
  <2> DEFINE s == r.commands
             edit == Replayed(P, s)
  <2>1. s \in Seq(EditCommand) /\ \E q : Replaying(q, P.chain, s)
    BY <1>2, StepIs DEF PutsBack
  <2>2. Q = edit.program /\ i = ChainEdit(edit.inverse)
    BY <1>2, AppliedIs
  <2> HIDE DEF Q, i, a, s
  <2>3. /\ edit.program \in Program /\ edit.inverse \in Seq(EditCommand)
        /\ PutsBack(edit.program, ChainEdit(edit.inverse))
        /\ Leading(edit.program, ChainEdit(edit.inverse)) = P
    BY <2>1, EditLeads
  <2> HIDE DEF edit
  <2>4. i \in UndoStep
    BY <2>2, <2>3, StepType
  <2> QED BY <2>2, <2>3, <2>4 DEF Q, i, a
<1>3. CASE r.kind = "state"
  <2>1. Q = r.program /\ i = StateSnapshot(P) /\ r.program \in Program
    BY <1>3, StepIs, AppliedIs
  <2> HIDE DEF Q, i, a
  <2>2. i \in UndoStep /\ i.kind = "state" /\ i.program = P
    BY <2>1, StepType
  <2>3. PutsBack(Q, i) /\ Leading(Q, i) = P
    BY <2>2, AppliedIs DEF PutsBack, Leading
  <2> QED BY <2>1, <2>2, <2>3 DEF Q, i, a
<1> QED BY <1>1, <1>2, <1>3, StepIs

-----------------------------------------------------------------------------
(* Steps carried out where they were not meant to be: what they leave is a *)
(* program all the same, and so is what takes them back a step.            *)

OneCommand(before, c) ==
  [program |-> CarriedOut(before.program, c),
   inverse |-> Before(InverseOf(before.program, c), before.inverse)]
NotBegun(P) == [program |-> P, inverse |-> <<>>]
CarryingOut(f, P, commands, n) ==
  f[0] = NotBegun(P) /\ \A i \in 1 .. n : f[i] = OneCommand(f[i - 1], commands[i])

LEMMA CarryingOutExists ==
  ASSUME NEW P, NEW commands, NEW m \in Nat
  PROVE  \E f : CarryingOut(f, P, commands, m)
<1> DEFINE S == {n \in Nat : \E f : CarryingOut(f, P, commands, n)}
<1>1. 0 \in S
  <2> DEFINE f == [n \in {0} |-> NotBegun(P)]
  <2>1. CarryingOut(f, P, commands, 0)
    BY DEF CarryingOut
  <2> HIDE DEF f
  <2> QED BY <2>1
<1>2. ASSUME NEW n \in Nat, n \in S PROVE n + 1 \in S
  <2> PICK f : CarryingOut(f, P, commands, n)
    BY <1>2
  <2> DEFINE g == [i \in 0 .. n + 1 |-> IF i <= n THEN f[i] ELSE OneCommand(f[n], commands[n + 1])]
  <2>1. \A i \in 0 .. n : g[i] = f[i]
    OBVIOUS
  <2>2. g[n + 1] = OneCommand(g[n], commands[n + 1])
    OBVIOUS
  <2> HIDE DEF g
  <2>3. ASSUME NEW i \in 1 .. n + 1 PROVE g[i] = OneCommand(g[i - 1], commands[i])
    <3>1. CASE i = n + 1
      BY <3>1, <2>2
    <3>2. CASE i # n + 1
      <4>1. i \in 1 .. n /\ i \in 0 .. n /\ i - 1 \in 0 .. n
        BY <3>2
      <4> QED BY <4>1, <2>1 DEF CarryingOut
    <3> QED BY <3>1, <3>2
  <2>4. CarryingOut(g, P, commands, n + 1)
    BY <2>1, <2>3 DEF CarryingOut
  <2> QED BY <2>4
<1> HIDE DEF S
<1>3. m \in S
  BY <1>1, <1>2, NatInd
<1> QED BY <1>3 DEF S

LEMMA ReplayedAlong ==
  ASSUME NEW P, NEW commands, Len(commands) \in Nat,
         NEW f, CarryingOut(f, P, commands, Len(commands))
  PROVE  Replayed(P, commands) = f[Len(commands)]
<1> DEFINE m == Len(commands)
           F(g) == g = [n \in 0 .. m |-> IF n = 0 THEN NotBegun(P)
                                        ELSE OneCommand(g[n - 1], commands[n])]
           done == CHOOSE g : F(g)
<1>1. \E g : F(g)
  <2> DEFINE g == [n \in 0 .. m |-> f[n]]
  <2>1. ASSUME NEW n \in 0 .. m
        PROVE  g[n] = IF n = 0 THEN NotBegun(P) ELSE OneCommand(g[n - 1], commands[n])
    <3>1. CASE n = 0
      BY <3>1 DEF CarryingOut
    <3>2. CASE n # 0
      <4>1. n \in 1 .. m /\ n - 1 \in 0 .. m
        BY <3>2
      <4>2. g[n] = f[n] /\ g[n - 1] = f[n - 1]
        BY <4>1
      <4> HIDE DEF g
      <4> QED BY <3>2, <4>1, <4>2 DEF CarryingOut
    <3> QED BY <3>1, <3>2
  <2>2. F(g)
    BY <2>1
  <2> HIDE DEF F
  <2> QED BY <2>2
<1>2. Replayed(P, commands) = done[m]
  BY Zenon DEF Replayed, NotBegun, OneCommand
<1> HIDE DEF F
<1>3. F(done)
  BY <1>1, Zenon
<1>4. done = [n \in 0 .. m |-> IF n = 0 THEN NotBegun(P)
                               ELSE OneCommand(done[n - 1], commands[n])]
  BY <1>3 DEF F
<1> HIDE DEF done
<1>5. done[0] = NotBegun(P) /\ \A n \in 1 .. m : done[n] = OneCommand(done[n - 1], commands[n])
  BY <1>4
<1> DEFINE S == {n \in Nat : n <= m => done[n] = f[n]}
<1>6. 0 \in S
  BY <1>5 DEF CarryingOut
<1>7. ASSUME NEW n \in Nat, n \in S PROVE n + 1 \in S
  <2>1. SUFFICES ASSUME n + 1 <= m PROVE done[n + 1] = f[n + 1]
    OBVIOUS
  <2>2. n + 1 \in 1 .. m /\ (n + 1) - 1 = n /\ done[n] = f[n]
    BY <1>7, <2>1
  <2> QED BY <1>5, <2>2 DEF CarryingOut
<1> HIDE DEF S
<1>8. m \in S
  BY <1>6, <1>7, NatInd
<1> QED BY <1>2, <1>8 DEF S

\* One command's replay.
LEMMA OneReplayed ==
  ASSUME NEW P, NEW c
  PROVE  Replayed(P, <<c>>) = [program |-> CarriedOut(P, c), inverse |-> <<InverseOf(P, c)>>]
<1>0. Len(<<c>>) = 1 /\ <<c>>[1] = c
  OBVIOUS
<1> DEFINE s == <<c>>
<1>1. s[1] = c /\ Len(s) = 1
  BY <1>0
<1> HIDE DEF s
<1>2. PICK f : CarryingOut(f, P, s, 1)
  BY CarryingOutExists
<1>3. f[0] = NotBegun(P) /\ f[1] = OneCommand(f[0], c)
  BY <1>1, <1>2 DEF CarryingOut
<1>4. Replayed(P, s) = f[1]
  <2>1. Len(s) \in Nat /\ CarryingOut(f, P, s, Len(s))
    BY <1>1, <1>2
  <2>2. Replayed(P, s) = f[Len(s)]
    BY <2>1, ReplayedAlong
  <2> QED BY <1>1, <2>2
<1>5. Before(InverseOf(P, c), <<>>) = <<InverseOf(P, c)>>
  BY DEF Before
<1> QED BY <1>3, <1>4, <1>5 DEF s, NotBegun, OneCommand

LEMMA EditedType ==
  ASSUME NEW P \in Program, NEW slot \in Slot, NEW e \in Choice
  PROVE  SlotEdited(P, slot, e) \in Program
<1> DEFINE chain == P.chain
           new == IF e = noModule THEN noModule ELSE [effect |-> e, value |-> Default]
           d == InstallModuleInSlot(chain, slot, new)
<1>0. /\ P = ProgramOf(chain, P.global) /\ chain \in Seq(Module) /\ Len(chain) \in Nat
      /\ Len(chain) <= MaxModules /\ MaxModules \in Nat /\ P.global \in [Global -> Value]
      /\ slot \in Nat /\ slot < MaxModules
  BY ProgramIs, MaxModulesAssumption DEF Slot
<1>1. new = noModule \/ (new \in Module /\ new # noModule)
  BY ValueAssumption, NothingAssumption DEF Choice, Module
<1> HIDE DEF new, chain
<1>2. d \in Seq(Module) /\ Len(d) <= MaxModules
  <2>1. CASE new # noModule /\ slot < Len(chain)
    <3>1. [chain EXCEPT ![slot + 1] = new] \in Seq(Module)
          /\ Len([chain EXCEPT ![slot + 1] = new]) = Len(chain)
      BY <1>0, <1>1, <2>1, ExceptSeq
    <3> QED BY <1>0, <2>1, <3>1 DEF InstallModuleInSlot, InsertAtAndReplace
  <2>2. CASE new # noModule /\ ~(slot < Len(chain))
    <3>1. Append(chain, new) \in Seq(Module) /\ Len(Append(chain, new)) = Len(chain) + 1
      BY <1>0, <1>1, <2>2
    <3> QED BY <1>0, <2>2, <3>1 DEF InstallModuleInSlot, InsertAtAndReplace
  <2>3. CASE new = noModule /\ slot < Len(chain)
    <3>1. slot + 1 \in 1 .. Len(chain)
      BY <1>0, <2>3
    <3>2. RemoveAt(chain, slot + 1) \in Seq(Module)
          /\ Len(RemoveAt(chain, slot + 1)) = Len(chain) - 1
      BY <1>0, <3>1, Removed
    <3> QED BY <1>0, <2>3, <3>2 DEF InstallModuleInSlot
  <2>4. CASE new = noModule /\ ~(slot < Len(chain))
    BY <1>0, <2>4 DEF InstallModuleInSlot
  <2> QED BY <2>1, <2>2, <2>3, <2>4
<1>3. SlotEdited(P, slot, e) = P \/ SlotEdited(P, slot, e) = [P EXCEPT !.chain = d]
  BY DEF SlotEdited, new, chain
<1> HIDE DEF d
<1>4. [P EXCEPT !.chain = d] = ProgramOf(d, P.global)
  BY <1>0 DEF ProgramOf
<1> QED BY <1>0, <1>2, <1>3, <1>4, ProgramType

LEMMA MovedType ==
  ASSUME NEW chain \in Seq(Module), NEW from \in Nat, NEW to \in Nat
  PROVE  Moved(chain, from, to) \in Seq(Module) /\ Len(Moved(chain, from, to)) <= Len(chain)
<1>0. Len(chain) \in Nat
  BY LenProperties
<1>1. CASE MoveNamesModules(chain, from, to)
  <2>1. Moved(chain, from, to) = MoveModule(chain, from, to)
    BY <1>1 DEF Moved, MoveNamesModules
  <2> QED BY <1>0, <1>1, <2>1, MoveType
<1>2. CASE from >= Len(chain) /\ to < Len(chain)
  <2> DEFINE a == SubSeq(chain, to + 1, Len(chain))
             b == SubSeq(chain, 1, to)
  <2>1. Moved(chain, from, to) = a \o b
    <3>1. /\ ~MoveNamesModules(chain, from, to)
          /\ ~(from < Len(chain) /\ to >= Len(chain))
      BY <1>0, <1>2 DEF MoveNamesModules
    <3> QED BY <1>2, <3>1 DEF Moved
  <2>2. a \in Seq(Module) /\ Len(a) = Len(chain) - to /\ b \in Seq(Module) /\ Len(b) = to
    BY <1>0, <1>2
  <2> HIDE DEF a, b
  <2>3. a \o b \in Seq(Module) /\ Len(a \o b) = Len(chain)
    BY <1>0, <2>2
  <2> QED BY <1>0, <2>1, <2>3
<1>3. CASE from < Len(chain) /\ to >= Len(chain)
  <2> DEFINE a == <<chain[from + 1]>>
             b == RemoveAt(chain, from + 1)
  <2>1. Moved(chain, from, to) = a \o b
    <3>1. ~MoveNamesModules(chain, from, to) /\ ~(from >= Len(chain) /\ to < Len(chain))
      BY <1>0, <1>3 DEF MoveNamesModules
    <3> QED BY <1>3, <3>1 DEF Moved
  <2>2. from + 1 \in 1 .. Len(chain) /\ chain[from + 1] \in Module
    BY <1>0, <1>3, ElementOfSeq
  <2>3. a \in Seq(Module) /\ Len(a) = 1 /\ b \in Seq(Module) /\ Len(b) = Len(chain) - 1
    BY <2>2, Removed
  <2> HIDE DEF a, b
  <2>4. a \o b \in Seq(Module) /\ Len(a \o b) = Len(chain)
    <3>1. 1 + (Len(chain) - 1) = Len(chain)
      BY <1>0
    <3>2. a \o b \in Seq(Module) /\ Len(a \o b) = Len(a) + Len(b)
      BY <2>3, ConcatProperties
    <3> QED BY <2>3, <3>1, <3>2
  <2> QED BY <1>0, <2>1, <2>4
<1>4. CASE /\ ~MoveNamesModules(chain, from, to)
           /\ ~(from >= Len(chain) /\ to < Len(chain))
           /\ ~(from < Len(chain) /\ to >= Len(chain))
  <2>1. Moved(chain, from, to) = <<>>
    BY <1>4 DEF Moved
  <2> QED BY <1>0, <2>1
<1> QED BY <1>1, <1>2, <1>3, <1>4

LEMMA AnyCommand ==
  ASSUME NEW P \in Program, NEW c \in EditCommand
  PROVE  CarriedOut(P, c) \in Program /\ InverseOf(P, c) \in EditCommand
<1>0. /\ P = ProgramOf(P.chain, P.global) /\ P.chain \in Seq(Module) /\ Len(P.chain) \in Nat
      /\ Len(P.chain) <= MaxModules /\ MaxModules \in Nat /\ P.global \in [Global -> Value]
  BY ProgramIs, MaxModulesAssumption
<1>1. CASE c.kind = "move"
  <2> DEFINE d == Moved(P.chain, c.from, c.to)
  <2>1. c.from \in Nat /\ c.to \in Nat /\ c.from \in Slot /\ c.to \in Slot
    BY <1>1, CommandIs
  <2>2. d \in Seq(Module) /\ Len(d) <= Len(P.chain)
    BY <1>0, <2>1, MovedType
  <2>3. CarriedOut(P, c) = [P EXCEPT !.chain = d]
    BY <1>1 DEF CarriedOut
  <2> HIDE DEF d
  <2>4. [P EXCEPT !.chain = d] = ProgramOf(d, P.global)
    BY <1>0 DEF ProgramOf
  <2>5. Len(d) <= MaxModules
    BY <1>0, <2>2, LenProperties
  <2>6. ProgramOf(d, P.global) \in Program
    BY <1>0, <2>2, <2>5, ProgramType
  <2>7. InverseOf(P, c) = MoveStep(c.to, c.from)
    BY <1>1 DEF InverseOf
  <2> QED BY <2>1, <2>3, <2>4, <2>6, <2>7, CommandType
<1>2. CASE c.kind = "slot"
  <2>1. c.slot \in Slot /\ c.slot \in Nat /\ c.effect \in Choice /\ c.value \in Value
    BY <1>2, CommandIs
  <2>2. SlotEdited(P, c.slot, c.effect) \in Program
    BY <2>1, EditedType
  <2>3. CarriedOut(P, c) \in Program
    <3>1. c.slot \in Parameter
      BY <2>1 DEF Parameter
    <3>2. WithValue(SlotEdited(P, c.slot, c.effect), c.slot, c.value) \in Program
      BY <2>1, <2>2, <3>1, WriteType
    <3>3. CASE c.effect = noModule
      BY <1>2, <2>2, <3>3 DEF CarriedOut
    <3>4. CASE c.effect # noModule
      BY <1>2, <3>2, <3>4 DEF CarriedOut
    <3> QED BY <3>3, <3>4
  <2>4. InverseOf(P, c) = InverseFor(P.chain, c)
    BY InverseIs
  <2>5. CASE c.slot < Len(P.chain)
    <3> DEFINE m == P.chain[c.slot + 1]
    <3>1. m \in Module
      BY <1>0, <2>1, <2>5, ElementOfSeq
    <3>2. m.effect \in Choice /\ m.value \in Value
      BY <3>1 DEF Module, Choice
    <3>3. InverseFor(P.chain, c) = SlotState(c.slot, m.effect, m.value)
      BY <1>2, <2>5 DEF InverseFor
    <3> QED BY <2>1, <2>3, <2>4, <3>2, <3>3, CommandType
  <2>6. CASE ~(c.slot < Len(P.chain))
    <3>1. InverseFor(P.chain, c) = SlotState(c.slot, noModule, Default) /\ noModule \in Choice
      BY <1>2, <2>6 DEF InverseFor, Choice
    <3> QED BY <2>1, <2>3, <2>4, <3>1, CommandType, ValueAssumption
  <2> QED BY <2>5, <2>6
<1> QED BY <1>1, <1>2, CommandIs

LEMMA AnyReplay ==
  ASSUME NEW P \in Program, NEW commands \in Seq(EditCommand)
  PROVE  /\ Replayed(P, commands).program \in Program
         /\ Replayed(P, commands).inverse \in Seq(EditCommand)
<1> DEFINE m == Len(commands)
<1>0. m \in Nat /\ \A i \in 1 .. m : commands[i] \in EditCommand
  BY LenProperties, ElementOfSeq
<1>1. PICK f : CarryingOut(f, P, commands, m)
  BY <1>0, CarryingOutExists
<1> DEFINE Fine(n) == f[n].program \in Program /\ f[n].inverse \in Seq(EditCommand)
           S == {n \in Nat : n <= m => Fine(n)}
<1>2. 0 \in S
  <2>1. f[0] = NotBegun(P)
    BY <1>1 DEF CarryingOut
  <2>2. NotBegun(P).program = P /\ NotBegun(P).inverse = <<>>
    BY DEF NotBegun
  <2>3. Fine(0)
    BY <2>1, <2>2
  <2> QED BY <2>3
<1>3. ASSUME NEW n \in Nat, n \in S PROVE n + 1 \in S
  <2>1. SUFFICES ASSUME n + 1 <= m PROVE Fine(n + 1)
    OBVIOUS
  <2> DEFINE Q == f[n].program
             s == f[n].inverse
             c == commands[n + 1]
  <2>2. n + 1 \in 1 .. m /\ (n + 1) - 1 = n /\ Q \in Program /\ s \in Seq(EditCommand)
    BY <1>0, <1>3, <2>1
  <2>3. c \in EditCommand /\ f[n + 1] = OneCommand(f[n], c)
    BY <1>0, <1>1, <2>2 DEF CarryingOut
  <2>4. /\ f[n + 1].program = CarriedOut(Q, c)
        /\ f[n + 1].inverse = <<InverseOf(Q, c)>> \o s
    BY <2>3 DEF OneCommand, Before
  <2> HIDE DEF Q, s, c
  <2>5. CarriedOut(Q, c) \in Program /\ InverseOf(Q, c) \in EditCommand
    BY <2>2, <2>3, AnyCommand
  <2>6. <<InverseOf(Q, c)>> \o s \in Seq(EditCommand)
    BY <2>2, <2>5
  <2> QED BY <2>4, <2>5, <2>6
<1> HIDE DEF S
<1>4. m \in S
  BY <1>0, <1>2, <1>3, NatInd
<1>5. Fine(m)
  BY <1>0, <1>4 DEF S
<1> QED BY <1>0, <1>1, <1>5, ReplayedAlong

LEMMA AnyStep ==
  ASSUME NEW P \in Program, NEW r \in UndoStep
  PROVE  Applied(P, r).program \in Program /\ Applied(P, r).inverse \in UndoStep
<1>1. CASE r.kind = "value"
  <2>1. r.id \in Parameter /\ r.value \in Value
    BY <1>1, StepIs
  <2>2. ValueIn(P, r.id) \in Value
    <3>1. CASE Exists(P, r.id)
      BY <2>1, <3>1, WriteBack
    <3>2. CASE ~Exists(P, r.id)
      BY <3>2, ValueAssumption DEF Exists, ValueIn
    <3> QED BY <3>1, <3>2
  <2>3. Applied(P, r) = [program |-> WithValue(P, r.id, r.value),
                         inverse |-> ValueDelta(r.id, ValueIn(P, r.id))]
    BY <1>1, AppliedIs
  <2>4. WithValue(P, r.id, r.value) \in Program
    BY <2>1, WriteType
  <2> QED BY <2>1, <2>2, <2>3, <2>4, StepType
<1>2. CASE r.kind = "chain"
  <2> DEFINE edit == Replayed(P, r.commands)
  <2>1. edit.program \in Program /\ edit.inverse \in Seq(EditCommand)
    BY <1>2, StepIs, AnyReplay
  <2>2. Applied(P, r).program = edit.program /\ Applied(P, r).inverse = ChainEdit(edit.inverse)
    BY <1>2, AppliedIs
  <2> HIDE DEF edit
  <2> QED BY <2>1, <2>2, StepType
<1>3. CASE r.kind = "state"
  BY <1>3, StepIs, AppliedIs, StepType
<1> QED BY <1>1, <1>2, <1>3, StepIs

-----------------------------------------------------------------------------
(* Stacks, and the part of one after so many of its oldest steps.          *)

StepsAfter(stack, k) == SubSeq(stack, k + 1, Len(stack))

LEMMA FrontAndLast ==
  ASSUME NEW stack \in Seq(UndoStep), stack # <<>>
  PROVE  /\ Len(stack) \in Nat /\ Len(stack) # 0
         /\ Front(stack) \in Seq(UndoStep) /\ Len(Front(stack)) = Len(stack) - 1
         /\ \A i \in 1 .. Len(stack) - 1 : Front(stack)[i] = stack[i]
         /\ Last(stack) \in UndoStep /\ Last(stack) = stack[Len(stack)]
         /\ Append(Front(stack), Last(stack)) = stack
<1> DEFINE m == Len(stack)
           n == m - 1
           less == Front(stack)
           r == Last(stack)
<1>1. m \in Nat /\ m # 0 /\ n \in Nat /\ m = n + 1
  BY LenProperties, EmptySeq
<1>2. \A i \in 1 .. m : stack[i] \in UndoStep
  BY ElementOfSeq
<1>3. less = SubSeq(stack, 1, n)
  BY DEF Front
<1>4. r = stack[m] /\ r \in UndoStep
  BY <1>1, <1>2 DEF Last
<1> HIDE DEF m, n, less, r
<1>5. \A i \in 1 .. n : stack[i] \in UndoStep
  BY <1>1, <1>2
<1>6. /\ less \in Seq(UndoStep) /\ Len(less) = IF 1 <= n THEN n - 1 + 1 ELSE 0
      /\ \A i \in 1 .. n - 1 + 1 : less[i] = stack[1 + i - 1]
  BY <1>1, <1>3, <1>5, SubSeqProperties
<1>7. \A i \in 1 .. n : i \in 1 .. n - 1 + 1 /\ 1 + i - 1 = i
  BY <1>1
<1>8. Len(less) = n /\ \A i \in 1 .. n : less[i] = stack[i]
  BY <1>1, <1>6, <1>7
<1>9. /\ Append(less, r) \in Seq(UndoStep) /\ Len(Append(less, r)) = m
      /\ \A i \in 1 .. m : Append(less, r)[i] = stack[i]
  BY <1>1, <1>4, <1>6, <1>8
<1>10. Append(less, r) = stack
  BY <1>9, SeqEqual DEF m
<1> QED BY <1>1, <1>4, <1>6, <1>8, <1>10 DEF m, n, less, r

LEMMA AfterIs ==
  ASSUME NEW stack \in Seq(UndoStep), NEW k \in 0 .. Len(stack)
  PROVE  /\ StepsAfter(stack, k) \in Seq(UndoStep)
         /\ Len(StepsAfter(stack, k)) = Len(stack) - k
         /\ \A i \in 1 .. Len(stack) - k : StepsAfter(stack, k)[i] = stack[k + i]
<1> DEFINE m == Len(stack)
           rest == StepsAfter(stack, k)
<1>1. m \in Nat /\ k \in Nat /\ k <= m /\ k + 1 \in Int
  BY LenProperties
<1>2. \A i \in k + 1 .. m : stack[i] \in UndoStep
  <2>1. \A i \in k + 1 .. m : i \in 1 .. m
    BY <1>1
  <2> QED BY <2>1, ElementOfSeq
<1>3. rest = SubSeq(stack, k + 1, m)
  BY DEF StepsAfter
<1> HIDE DEF m, rest
<1>4. /\ rest \in Seq(UndoStep)
      /\ Len(rest) = IF k + 1 <= m THEN m - (k + 1) + 1 ELSE 0
      /\ \A i \in 1 .. m - (k + 1) + 1 : rest[i] = stack[(k + 1) + i - 1]
  BY <1>1, <1>2, <1>3, SubSeqProperties
<1>5. m - (k + 1) + 1 = m - k /\ \A i \in 1 .. m - k : (k + 1) + i - 1 = k + i
  BY <1>1
<1>6. Len(rest) = m - k
  BY <1>1, <1>4, <1>5
<1>7. \A i \in 1 .. m - k : rest[i] = stack[k + i]
  BY <1>4, <1>5
<1> QED BY <1>4, <1>6, <1>7 DEF m, rest

LEMMA AfterAll ==
  ASSUME NEW stack \in Seq(UndoStep)
  PROVE  StepsAfter(stack, Len(stack)) = <<>> /\ StepsAfter(stack, 0) = stack
<1>0. Len(stack) \in Nat /\ 0 \in 0 .. Len(stack) /\ Len(stack) \in 0 .. Len(stack)
  BY LenProperties
<1>1. StepsAfter(stack, Len(stack)) = <<>>
  <2> DEFINE rest == StepsAfter(stack, Len(stack))
  <2>1. rest \in Seq(UndoStep) /\ Len(rest) = 0
    BY <1>0, AfterIs
  <2> HIDE DEF rest
  <2>2. rest = <<>>
    BY <2>1, EmptySeq
  <2> QED BY <2>2 DEF rest
<1>2. StepsAfter(stack, 0) = stack
  <2> DEFINE rest == StepsAfter(stack, 0)
  <2>1. /\ rest \in Seq(UndoStep) /\ Len(rest) = Len(stack) - 0
        /\ \A i \in 1 .. Len(stack) - 0 : rest[i] = stack[0 + i]
    BY <1>0, AfterIs
  <2> HIDE DEF rest
  <2>2. Len(rest) = Len(stack) /\ \A i \in 1 .. Len(stack) : rest[i] = stack[i]
    BY <1>0, <2>1
  <2>3. rest = stack
    BY <2>1, <2>2, SeqEqual
  <2> QED BY <2>3 DEF rest
<1> QED BY <1>1, <1>2

LEMMA AfterAppended ==
  ASSUME NEW stack \in Seq(UndoStep), NEW r \in UndoStep, NEW k \in 0 .. Len(stack)
  PROVE  /\ Append(stack, r) \in Seq(UndoStep) /\ Len(Append(stack, r)) = Len(stack) + 1
         /\ StepsAfter(Append(stack, r), k) = Append(StepsAfter(stack, k), r)
<1> DEFINE m == Len(stack)
           more == Append(stack, r)
           a == StepsAfter(more, k)
           b == StepsAfter(stack, k)
           c == Append(b, r)
<1>1. m \in Nat /\ k \in Nat /\ k <= m
  BY LenProperties
<1>2. /\ more \in Seq(UndoStep) /\ Len(more) = m + 1 /\ more[m + 1] = r
      /\ \A i \in 1 .. m : more[i] = stack[i]
  OBVIOUS
<1> HIDE DEF more
<1>3. k \in 0 .. Len(more)
  BY <1>1, <1>2
<1>4. /\ a \in Seq(UndoStep) /\ Len(a) = (m + 1) - k
      /\ \A i \in 1 .. (m + 1) - k : a[i] = more[k + i]
  BY <1>2, <1>3, AfterIs
<1>5. b \in Seq(UndoStep) /\ Len(b) = m - k /\ \A i \in 1 .. m - k : b[i] = stack[k + i]
  BY AfterIs
<1> HIDE DEF a, b, m
<1>6. /\ c \in Seq(UndoStep) /\ Len(c) = (m - k) + 1 /\ c[(m - k) + 1] = r
      /\ \A i \in 1 .. m - k : c[i] = b[i]
  BY <1>1, <1>5
<1> HIDE DEF c
<1>7. ASSUME NEW i \in 1 .. (m - k) + 1 PROVE a[i] = c[i]
  <2>1. i \in 1 .. (m + 1) - k
    BY <1>1
  <2>2. CASE i = (m - k) + 1
    <3>1. k + i = m + 1
      BY <1>1, <2>2
    <3> QED BY <1>2, <1>4, <1>6, <2>1, <2>2, <3>1
  <2>3. CASE i # (m - k) + 1
    <3>1. i \in 1 .. m - k /\ k + i \in 1 .. m
      BY <1>1, <2>3
    <3> QED BY <1>2, <1>4, <1>5, <1>6, <2>1, <3>1
  <2> QED BY <2>2, <2>3
<1>8. Len(a) = Len(c) /\ Len(c) = (m - k) + 1
  BY <1>1, <1>4, <1>6
<1>9. a = c
  BY <1>4, <1>6, <1>7, <1>8, SeqEqual
<1> QED BY <1>2, <1>9 DEF m, more, a, b, c

LEMMA AfterDropped ==
  ASSUME NEW stack \in Seq(UndoStep), NEW k \in 1 .. Len(stack)
  PROVE  /\ Tail(stack) \in Seq(UndoStep) /\ Len(Tail(stack)) = Len(stack) - 1
         /\ StepsAfter(Tail(stack), k - 1) = StepsAfter(stack, k)
<1> DEFINE m == Len(stack)
           rest == Tail(stack)
           a == StepsAfter(rest, k - 1)
           b == StepsAfter(stack, k)
<1>1. m \in Nat /\ k \in Nat /\ 1 <= k /\ k <= m /\ k - 1 \in 0 .. m - 1 /\ k \in 0 .. m
  BY LenProperties
<1>2. /\ rest \in Seq(UndoStep) /\ Len(rest) = m - 1
      /\ \A i \in 1 .. m - 1 : rest[i] = stack[i + 1]
  <2>1. stack # <<>>
    BY <1>1
  <2> QED BY <1>1, <2>1
<1> HIDE DEF rest
<1>3. /\ a \in Seq(UndoStep) /\ Len(a) = (m - 1) - (k - 1)
      /\ \A i \in 1 .. (m - 1) - (k - 1) : a[i] = rest[(k - 1) + i]
  <2> DEFINE j == k - 1
  <2>1. j \in 0 .. Len(rest)
    BY <1>1, <1>2
  <2> HIDE DEF j, m
  <2>2. /\ StepsAfter(rest, j) \in Seq(UndoStep) /\ Len(StepsAfter(rest, j)) = Len(rest) - j
        /\ \A i \in 1 .. Len(rest) - j : StepsAfter(rest, j)[i] = rest[j + i]
    BY <1>2, <2>1, AfterIs
  <2>3. a = StepsAfter(rest, j)
    BY DEF j
  <2> HIDE DEF a
  <2>4. /\ a \in Seq(UndoStep) /\ Len(a) = (m - 1) - j
        /\ \A i \in 1 .. (m - 1) - j : a[i] = rest[j + i]
    BY <1>2, <2>2, <2>3
  <2> QED BY <2>4 DEF j
<1>4. b \in Seq(UndoStep) /\ Len(b) = m - k /\ \A i \in 1 .. m - k : b[i] = stack[k + i]
  BY <1>1, AfterIs
<1> HIDE DEF a, b, m
<1>5. (m - 1) - (k - 1) = m - k
  BY <1>1
<1>6. ASSUME NEW i \in 1 .. m - k PROVE a[i] = b[i]
  <2>1. (k - 1) + i \in 1 .. m - 1 /\ ((k - 1) + i) + 1 = k + i
    BY <1>1
  <2> QED BY <1>2, <1>3, <1>4, <1>5, <2>1
<1>7. a = b
  BY <1>3, <1>4, <1>5, <1>6, SeqEqual
<1> QED BY <1>2, <1>7 DEF m, rest, a, b

LEMMA AfterTakenBack ==
  ASSUME NEW stack \in Seq(UndoStep), NEW k \in 0 .. Len(stack), k # Len(stack)
  PROVE  /\ stack # <<>> /\ k \in 0 .. Len(Front(stack))
         /\ StepsAfter(stack, k) # <<>> /\ Last(StepsAfter(stack, k)) = Last(stack)
         /\ Front(StepsAfter(stack, k)) = StepsAfter(Front(stack), k)
<1> DEFINE less == Front(stack)
           r == Last(stack)
           a == StepsAfter(stack, k)
           b == StepsAfter(less, k)
<1>1. stack # <<>> /\ Len(stack) \in Nat /\ k \in Nat /\ k < Len(stack)
  BY LenProperties
<1>2. /\ less \in Seq(UndoStep) /\ Len(less) = Len(stack) - 1 /\ r \in UndoStep
      /\ Append(less, r) = stack
  BY <1>1, FrontAndLast
<1> HIDE DEF less, r
<1>3. k \in 0 .. Len(less)
  BY <1>1, <1>2
<1>4. a = Append(b, r) /\ b \in Seq(UndoStep)
  <2>1. StepsAfter(Append(less, r), k) = Append(StepsAfter(less, k), r)
    BY <1>2, <1>3, AfterAppended
  <2> QED BY <1>2, <1>3, <2>1, AfterIs
<1> HIDE DEF a, b
<1>5. /\ a \in Seq(UndoStep) /\ a # <<>> /\ Len(a) = Len(b) + 1 /\ a[Len(a)] = r
      /\ \A i \in 1 .. Len(b) : a[i] = b[i]
  BY <1>2, <1>4
<1>6. /\ Front(a) \in Seq(UndoStep) /\ Len(Front(a)) = Len(a) - 1 /\ Last(a) = a[Len(a)]
      /\ \A i \in 1 .. Len(a) - 1 : Front(a)[i] = a[i]
  BY <1>5, FrontAndLast
<1>7. Len(a) - 1 = Len(b)
  BY <1>4, <1>5, LenProperties
<1>8. Front(a) = b
  BY <1>4, <1>5, <1>6, <1>7, SeqEqual
<1> QED BY <1>1, <1>3, <1>5, <1>6, <1>8 DEF less, r, a, b

-----------------------------------------------------------------------------
(* A stack of steps: the programs it leads through.                        *)

\* t[i] is the program with i steps left to take back.
Unwinding(t, P, stack, O) ==
  /\ t \in [0 .. Len(stack) -> Program]
  /\ t[Len(stack)] = P /\ t[0] = O
  /\ \A i \in 1 .. Len(stack) :
       PutsBack(t[i], stack[i]) /\ t[i - 1] = Leading(t[i], stack[i])
LeadsBack(P, stack, O) == \E t : Unwinding(t, P, stack, O)

LEMMA LeadsTypes ==
  ASSUME NEW stack \in Seq(UndoStep), NEW P, NEW O, LeadsBack(P, stack, O)
  PROVE  P \in Program /\ O \in Program
<1>1. PICK t : Unwinding(t, P, stack, O)
  BY DEF LeadsBack
<1>2. 0 \in 0 .. Len(stack) /\ Len(stack) \in 0 .. Len(stack)
  BY LenProperties
<1> QED BY <1>1, <1>2 DEF Unwinding

LEMMA UnwoundAlong ==
  ASSUME NEW stack \in Seq(UndoStep), NEW P, NEW O, LeadsBack(P, stack, O)
  PROVE  Unwound(P, stack) = O
<1> DEFINE m == Len(stack)
           F(f) == f = [n \in 0 .. m |->
                          IF n = m THEN P ELSE Applied(f[n + 1], stack[n + 1]).program]
           before == CHOOSE f : F(f)
<1>0. m \in Nat
  BY LenProperties
<1>1. PICK t : Unwinding(t, P, stack, O)
  BY DEF LeadsBack
<1>2. /\ t[m] = P /\ t[0] = O
      /\ \A n \in 0 .. m : n # m => t[n] = Applied(t[n + 1], stack[n + 1]).program
  <2>1. ASSUME NEW n \in 0 .. m, n # m PROVE t[n] = Applied(t[n + 1], stack[n + 1]).program
    <3>1. n + 1 \in 1 .. m /\ (n + 1) - 1 = n
      BY <1>0, <2>1
    <3> QED BY <1>1, <3>1 DEF Unwinding, Leading
  <2> QED BY <1>1, <2>1 DEF Unwinding
<1>3. \E f : F(f)
  <2> DEFINE f == [n \in 0 .. m |-> t[n]]
  <2>1. ASSUME NEW n \in 0 .. m
        PROVE  f[n] = IF n = m THEN P ELSE Applied(f[n + 1], stack[n + 1]).program
    <3>1. CASE n = m
      BY <1>2, <3>1
    <3>2. CASE n # m
      <4>1. n + 1 \in 0 .. m
        BY <1>0, <3>2
      <4>2. f[n] = t[n] /\ f[n + 1] = t[n + 1]
        BY <4>1
      <4> QED BY <1>2, <3>2, <4>2
    <3> QED BY <3>1, <3>2
  <2>2. F(f)
    BY <2>1
  <2> HIDE DEF F
  <2> QED BY <2>2
<1>4. Unwound(P, stack) = before[0]
  BY Zenon DEF Unwound
<1> HIDE DEF F
<1>5. F(before)
  BY <1>3, Zenon
<1>6. before = [n \in 0 .. m |->
                  IF n = m THEN P ELSE Applied(before[n + 1], stack[n + 1]).program]
  BY <1>5 DEF F
<1> HIDE DEF before
<1>7. /\ before[m] = P
      /\ \A n \in 0 .. m : n # m => before[n] = Applied(before[n + 1], stack[n + 1]).program
  BY <1>0, <1>6
<1> DEFINE S == {n \in Nat : n <= m => before[m - n] = t[m - n]}
<1>8. 0 \in S
  BY <1>0, <1>2, <1>7
<1>9. ASSUME NEW n \in Nat, n \in S PROVE n + 1 \in S
  <2>1. SUFFICES ASSUME n + 1 <= m PROVE before[m - (n + 1)] = t[m - (n + 1)]
    OBVIOUS
  <2> DEFINE k == m - (n + 1)
  <2>2. k \in 0 .. m /\ k # m /\ k + 1 = m - n /\ before[k + 1] = t[k + 1]
    BY <1>0, <1>9, <2>1
  <2> HIDE DEF k
  <2>3. before[k] = t[k]
    BY <1>2, <1>7, <2>2
  <2> QED BY <2>3 DEF k
<1> HIDE DEF S
<1>10. \A n \in Nat : n \in S
  BY <1>8, <1>9, NatInd
<1>11. before[0] = t[0]
  <2>1. m - m = 0
    BY <1>0
  <2> QED BY <1>0, <1>10, <2>1 DEF S
<1> QED BY <1>2, <1>4, <1>11

LEMMA NothingLeads ==
  ASSUME NEW P \in Program PROVE LeadsBack(P, <<>>, P)
<1> DEFINE t == [n \in {0} |-> P]
<1>1. Len(<<>>) = 0 /\ t[0] = P /\ t \in [0 .. 0 -> Program] /\ 1 .. 0 = {}
  OBVIOUS
<1> HIDE DEF t
<1>2. Unwinding(t, P, <<>>, P)
  BY <1>1 DEF Unwinding
<1> QED BY <1>2 DEF LeadsBack

\* One more step on top of a stack.
LEMMA OneMoreLeads ==
  ASSUME NEW stack \in Seq(UndoStep), NEW P, NEW O, LeadsBack(P, stack, O),
         NEW r \in UndoStep, NEW Q \in Program, PutsBack(Q, r), Leading(Q, r) = P
  PROVE  LeadsBack(Q, Append(stack, r), O)
<1> DEFINE m == Len(stack)
           more == Append(stack, r)
<1>1. PICK t : Unwinding(t, P, stack, O)
  BY DEF LeadsBack
<1> DEFINE u == [n \in 0 .. m + 1 |-> IF n = m + 1 THEN Q ELSE t[n]]
<1>2. /\ m \in Nat /\ Len(more) = m + 1 /\ more[m + 1] = r
      /\ \A i \in 1 .. m : more[i] = stack[i]
  BY LenProperties
<1>3. /\ t \in [0 .. m -> Program] /\ t[m] = P /\ t[0] = O
      /\ \A i \in 1 .. m : PutsBack(t[i], stack[i]) /\ t[i - 1] = Leading(t[i], stack[i])
  BY <1>1 DEF Unwinding
<1>4. u \in [0 .. m + 1 -> Program] /\ u[m + 1] = Q /\ \A n \in 0 .. m : u[n] = t[n]
  <2>1. \A n \in 0 .. m + 1 : n # m + 1 => n \in 0 .. m
    BY <1>2
  <2> QED BY <1>2, <1>3, <2>1
<1> HIDE DEF u, more
<1>5. ASSUME NEW i \in 1 .. m + 1
      PROVE  PutsBack(u[i], more[i]) /\ u[i - 1] = Leading(u[i], more[i])
  <2>1. CASE i = m + 1
    <3>1. i - 1 = m /\ m \in 0 .. m
      BY <1>2, <2>1
    <3> QED BY <1>2, <1>3, <1>4, <2>1, <3>1
  <2>2. CASE i # m + 1
    <3>1. i \in 1 .. m /\ i \in 0 .. m /\ i - 1 \in 0 .. m
      BY <1>2, <2>2
    <3> QED BY <1>2, <1>3, <1>4, <3>1
  <2> QED BY <2>1, <2>2
<1>6. 0 \in 0 .. m
  BY <1>2
<1>7. Unwinding(u, Q, more, O)
  BY <1>2, <1>3, <1>4, <1>5, <1>6 DEF Unwinding
<1> QED BY <1>7 DEF LeadsBack, more

\* The last step taken back, what is left still leads there.
LEMMA OneLessLeads ==
  ASSUME NEW stack \in Seq(UndoStep), NEW P, NEW O, LeadsBack(P, stack, O), stack # <<>>
  PROVE  /\ Last(stack) \in UndoStep /\ Front(stack) \in Seq(UndoStep)
         /\ Len(Front(stack)) = Len(stack) - 1
         /\ PutsBack(P, Last(stack))
         /\ LeadsBack(Leading(P, Last(stack)), Front(stack), O)
<1> DEFINE m == Len(stack)
           less == Front(stack)
<1>1. PICK t : Unwinding(t, P, stack, O)
  BY DEF LeadsBack
<1>2. m \in Nat /\ m # 0
  BY LenProperties, EmptySeq
<1>3. /\ less \in Seq(UndoStep) /\ Len(less) = m - 1 /\ \A i \in 1 .. m - 1 : less[i] = stack[i]
      /\ Last(stack) = stack[m] /\ stack[m] \in UndoStep
  BY FrontAndLast
<1>4. /\ t \in [0 .. m -> Program] /\ t[m] = P /\ t[0] = O
      /\ \A i \in 1 .. m : PutsBack(t[i], stack[i]) /\ t[i - 1] = Leading(t[i], stack[i])
  BY <1>1 DEF Unwinding
<1> DEFINE u == [n \in 0 .. m - 1 |-> t[n]]
<1>5. /\ u \in [0 .. m - 1 -> Program] /\ \A n \in 0 .. m - 1 : u[n] = t[n]
  <2>1. \A n \in 0 .. m - 1 : n \in 0 .. m
    BY <1>2
  <2> QED BY <1>4, <2>1
<1> HIDE DEF u, less
<1>6. ASSUME NEW i \in 1 .. m - 1
      PROVE  PutsBack(u[i], less[i]) /\ u[i - 1] = Leading(u[i], less[i])
  <2>1. i \in 1 .. m /\ i \in 0 .. m - 1 /\ i - 1 \in 0 .. m - 1
    BY <1>2
  <2> QED BY <1>3, <1>4, <1>5, <2>1
<1>7. m \in 1 .. m /\ m - 1 \in 0 .. m - 1 /\ 0 \in 0 .. m - 1
  BY <1>2
<1>8. Unwinding(u, t[m - 1], less, O)
  BY <1>3, <1>4, <1>5, <1>6, <1>7 DEF Unwinding
<1>9. PutsBack(P, stack[m]) /\ t[m - 1] = Leading(P, stack[m])
  BY <1>4, <1>7
<1> QED BY <1>3, <1>8, <1>9 DEF LeadsBack, less

\* The oldest step dropped, the rest leads to where that one was taken.
LEMMA OldestDropped ==
  ASSUME NEW stack \in Seq(UndoStep), NEW P, NEW O, LeadsBack(P, stack, O), stack # <<>>
  PROVE  /\ Tail(stack) \in Seq(UndoStep) /\ Len(Tail(stack)) = Len(stack) - 1
         /\ \E O2 : LeadsBack(P, Tail(stack), O2)
<1> DEFINE m == Len(stack)
           rest == Tail(stack)
<1>1. PICK t : Unwinding(t, P, stack, O)
  BY DEF LeadsBack
<1>2. m \in Nat /\ m # 0
  BY LenProperties, EmptySeq
<1>3. /\ rest \in Seq(UndoStep) /\ Len(rest) = m - 1
      /\ \A i \in 1 .. m - 1 : rest[i] = stack[i + 1]
  BY <1>2
<1>4. /\ t \in [0 .. m -> Program] /\ t[m] = P /\ t[0] = O
      /\ \A i \in 1 .. m : PutsBack(t[i], stack[i]) /\ t[i - 1] = Leading(t[i], stack[i])
  BY <1>1 DEF Unwinding
<1> DEFINE u == [n \in 0 .. m - 1 |-> t[n + 1]]
<1>5. /\ u \in [0 .. m - 1 -> Program] /\ \A n \in 0 .. m - 1 : u[n] = t[n + 1]
  <2>1. \A n \in 0 .. m - 1 : n + 1 \in 0 .. m
    BY <1>2
  <2> QED BY <1>4, <2>1
<1> HIDE DEF u, rest
<1>6. ASSUME NEW i \in 1 .. m - 1
      PROVE  PutsBack(u[i], rest[i]) /\ u[i - 1] = Leading(u[i], rest[i])
  <2>1. /\ i + 1 \in 1 .. m /\ (i + 1) - 1 = i /\ (i - 1) + 1 = i
        /\ i \in 0 .. m - 1 /\ i - 1 \in 0 .. m - 1
    BY <1>2
  <2>2. u[i] = t[i + 1] /\ u[i - 1] = t[i] /\ rest[i] = stack[i + 1]
    <3>1. u[i - 1] = t[(i - 1) + 1]
      BY <1>5, <2>1
    <3> QED BY <1>3, <1>5, <2>1, <3>1
  <2>3. PutsBack(t[i + 1], stack[i + 1]) /\ t[(i + 1) - 1] = Leading(t[i + 1], stack[i + 1])
    BY <1>4, <2>1
  <2> QED BY <2>1, <2>2, <2>3
<1>7. m - 1 \in 0 .. m - 1 /\ 0 \in 0 .. m - 1 /\ (m - 1) + 1 = m
  BY <1>2
<1>8. Unwinding(u, P, rest, u[0])
  <2>1. u[m - 1] = t[(m - 1) + 1]
    BY <1>5, <1>7
  <2> QED BY <1>3, <1>4, <1>5, <1>6, <1>7, <2>1 DEF Unwinding
<1> QED BY <1>3, <1>8 DEF LeadsBack, rest

\* A last step that puts back a parameter leads where it did from whatever value
\* that parameter has since been given.
LEMMA JoinedLeads ==
  ASSUME NEW stack \in Seq(UndoStep), NEW P, NEW O, LeadsBack(P, stack, O), stack # <<>>,
         Last(stack).kind = "value", NEW v \in Value
  PROVE  LeadsBack(WithValue(P, Last(stack).id, v), stack, O)
<1> DEFINE r == Last(stack)
           p == r.id
           less == Front(stack)
           Q == WithValue(P, p, v)
<1>1. /\ r \in UndoStep /\ less \in Seq(UndoStep) /\ PutsBack(P, r) /\ P \in Program
      /\ LeadsBack(Leading(P, r), less, O) /\ Len(less) = Len(stack) - 1
  BY OneLessLeads, LeadsTypes
<1>2. p \in Parameter /\ r.value \in Value /\ Exists(P, p)
  BY <1>1, StepIs DEF PutsBack
<1>3. Q \in Program /\ PutsBack(Q, r)
  BY <1>1, <1>2, WriteType DEF PutsBack
<1>4. Leading(Q, r) = Leading(P, r)
  <2>1. Leading(Q, r) = WithValue(Q, p, r.value) /\ Leading(P, r) = WithValue(P, p, r.value)
    BY AppliedIs DEF Leading
  <2> DEFINE w == r.value
  <2>2. w \in Value /\ p \in Parameter
    BY <1>2
  <2> HIDE DEF p, w
  <2>3. WithValue(WithValue(P, p, v), p, w) = WithValue(P, p, w)
    BY <1>1, <2>2, WriteAgain
  <2> QED BY <2>1, <2>3 DEF w
<1>5. Append(less, r) = stack
  BY FrontAndLast
<1> HIDE DEF r, p, less, Q
<1>6. LeadsBack(Q, Append(less, r), O)
  BY <1>1, <1>3, <1>4, OneMoreLeads
<1> QED BY <1>5, <1>6 DEF Q, p, r

\* A host's write to a global parameter under a step that puts that one back.
StepNames(r, p) == r.kind = "state" \/ (r.kind = "value" /\ r.id = p)
LEMMA WriteUnderIts ==
  ASSUME NEW P \in Program, NEW r \in UndoStep, PutsBack(P, r),
         NEW p \in Global, NEW v \in Value, StepNames(r, p)
  PROVE  /\ PutsBack(WithValue(P, p, v), r)
         /\ Leading(WithValue(P, p, v), r) = Leading(P, r)
<1> DEFINE Q == WithValue(P, p, v)
<1>0. p \in Parameter
  BY DEF Parameter
<1>1. CASE r.kind = "state"
  <2>1. Leading(Q, r) = r.program /\ Leading(P, r) = r.program
    BY <1>1, AppliedIs DEF Leading
  <2> QED BY <1>1, <2>1 DEF PutsBack
<1>2. CASE r.kind = "value" /\ r.id = p
  <2> DEFINE w == r.value
  <2>1. Leading(Q, r) = WithValue(Q, p, w) /\ Leading(P, r) = WithValue(P, p, w) /\ w \in Value
    BY <1>2, AppliedIs, StepIs DEF Leading
  <2> HIDE DEF w
  <2>2. WithValue(WithValue(P, p, v), p, w) = WithValue(P, p, w)
    BY <1>0, <2>1, WriteAgain
  <2>3. PutsBack(Q, r)
    BY <1>2 DEF PutsBack, Exists
  <2> QED BY <2>1, <2>2, <2>3
<1> QED BY <1>1, <1>2 DEF StepNames

\* And under one that does not: the write stays.
LEMMA WriteUnderOther ==
  ASSUME NEW P \in Program, NEW r \in UndoStep, PutsBack(P, r),
         NEW p \in Global, NEW v \in Value, ~StepNames(r, p)
  PROVE  /\ PutsBack(WithValue(P, p, v), r)
         /\ Leading(WithValue(P, p, v), r) = WithValue(Leading(P, r), p, v)
<1> DEFINE Q == WithValue(P, p, v)
           g == [P.global EXCEPT ![p] = v]
<1>0. p \in Parameter
  BY DEF Parameter
<1>1. Q \in Program /\ Q = ProgramOf(P.chain, g) /\ Q.chain = P.chain /\ Q.global = g
  <2>1. Q \in Program /\ Q = ProgramOf(P.chain, g)
    BY WriteGlobal
  <2> QED BY <2>1 DEF ProgramOf
<1>2. CASE r.kind = "value" /\ r.id # p
  <2> DEFINE q == r.id
             w == r.value
  <2>1. q \in Parameter /\ w \in Value /\ Exists(P, q) /\ q # p
    BY <1>2, StepIs DEF PutsBack
  <2>2. Leading(Q, r) = WithValue(Q, q, w) /\ Leading(P, r) = WithValue(P, q, w)
    BY <1>2, AppliedIs DEF Leading
  <2>3. PutsBack(Q, r)
    <3>1. Exists(Q, q)
      BY <1>1, <2>1 DEF Exists
    <3> QED BY <1>2, <3>1 DEF PutsBack
  <2> HIDE DEF q, w
  <2>4. WithValue(WithValue(P, p, v), q, w) = WithValue(WithValue(P, q, w), p, v)
    BY <1>0, <2>1, WriteElsewhere
  <2> QED BY <2>2, <2>3, <2>4
<1>3. CASE r.kind = "chain"
  <2> DEFINE s == r.commands
  <2>1. s \in Seq(EditCommand) /\ \E q : Replaying(q, P.chain, s)
    BY <1>3, StepIs DEF PutsBack
  <2>2. Leading(Q, r) = Replayed(Q, s).program /\ Leading(P, r) = Replayed(P, s).program
    BY <1>3, AppliedIs DEF Leading
  <2> HIDE DEF Q, g
  <2>3. PutsBack(Q, r)
    BY <1>1, <1>3, <2>1 DEF PutsBack
  <2> HIDE DEF s
  <2>4. PICK q : Replaying(q, P.chain, s)
    BY <2>1
  <2> DEFINE d == q[Len(s)]
  <2>5. Replayed(P, s).program = ProgramOf(d, P.global)
    BY <2>1, <2>4, ReplayedIs
  <2>6. Replayed(Q, s).program = ProgramOf(d, g)
    <3>1. Replaying(q, Q.chain, s)
      BY <1>1, <2>4
    <3>2. Replayed(Q, s).program = ProgramOf(d, Q.global)
      BY <1>1, <2>1, <3>1, ReplayedIs
    <3> QED BY <1>1, <3>2
  <2> HIDE DEF d
  <2> DEFINE A == ProgramOf(d, P.global)
  <2>7. A \in Program /\ A.chain = d /\ A.global = P.global
    <3>1. Replayed(P, s).program \in Program
      BY <2>1, <2>4, EditLeads
    <3> QED BY <2>5, <3>1 DEF ProgramOf
  <2> HIDE DEF A
  <2>8. WithValue(A, p, v) = ProgramOf(A.chain, [A.global EXCEPT ![p] = v])
    BY <2>7, WriteGlobal
  <2>9. WithValue(A, p, v) = ProgramOf(d, g)
    BY <2>7, <2>8 DEF g
  <2> QED BY <2>2, <2>3, <2>5, <2>6, <2>9 DEF A, Q
<1> QED BY <1>2, <1>3, StepIs DEF StepNames

\* A host's write under a stack: where the stack leads has it too, unless a step
\* of the stack puts that parameter back.
LEMMA WrittenUnder ==
  ASSUME NEW stack \in Seq(UndoStep), NEW P, NEW O, LeadsBack(P, stack, O),
         NEW p \in Global, NEW v \in Value
  PROVE  LeadsBack(WithValue(P, p, v), stack,
                   IF Names(stack, p) THEN O ELSE WithValue(O, p, v))
<1> DEFINE m == Len(stack)
           Above(i) == \E n \in i + 1 .. m : StepNames(stack[n], p)
<1>0. m \in Nat /\ p \in Parameter
  BY LenProperties DEF Parameter
<1>1. PICK t : Unwinding(t, P, stack, O)
  BY DEF LeadsBack
<1>2. /\ t \in [0 .. m -> Program] /\ t[m] = P /\ t[0] = O
      /\ \A i \in 1 .. m : PutsBack(t[i], stack[i]) /\ t[i - 1] = Leading(t[i], stack[i])
  BY <1>1 DEF Unwinding
<1> DEFINE u == [i \in 0 .. m |-> IF Above(i) THEN t[i] ELSE WithValue(t[i], p, v)]
<1>3. \A i \in 0 .. m : u[i] = IF Above(i) THEN t[i] ELSE WithValue(t[i], p, v)
  OBVIOUS
<1>4. u \in [0 .. m -> Program]
  <2>1. ASSUME NEW i \in 0 .. m
        PROVE  (IF Above(i) THEN t[i] ELSE WithValue(t[i], p, v)) \in Program
    <3>1. t[i] \in Program
      BY <1>2
    <3> DEFINE a == t[i]
    <3> HIDE DEF a
    <3>2. a \in Program /\ WithValue(a, p, v) \in Program
      BY <1>0, <3>1, WriteType DEF a
    <3> QED BY <3>2 DEF a
  <2> HIDE DEF Above
  <2> QED BY <2>1
<1> HIDE DEF u
<1>5. ~Above(m) /\ (Above(0) <=> Names(stack, p))
  BY <1>0 DEF Names, StepNames
<1>6. ASSUME NEW i \in 1 .. m
      PROVE  PutsBack(u[i], stack[i]) /\ u[i - 1] = Leading(u[i], stack[i])
  <2> DEFINE a == t[i]
             b == t[i - 1]
             r == stack[i]
  <2>1. i \in 0 .. m /\ i - 1 \in 0 .. m /\ (i - 1) + 1 = i
    BY <1>0
  <2>2. a \in Program /\ r \in UndoStep /\ PutsBack(a, r) /\ b = Leading(a, r)
    BY <1>2, <2>1, ElementOfSeq
  <2>3. Above(i - 1) <=> StepNames(r, p) \/ Above(i)
    <3>1. \A n : n \in (i - 1) + 1 .. m <=> n = i \/ n \in i + 1 .. m
      BY <1>0
    <3> QED BY <3>1
  <2>4. /\ u[i] = IF Above(i) THEN a ELSE WithValue(a, p, v)
        /\ u[i - 1] = IF Above(i - 1) THEN b ELSE WithValue(b, p, v)
    BY <1>3, <2>1
  <2> HIDE DEF Above, a, b
  <2>5. CASE Above(i)
    BY <2>2, <2>3, <2>4, <2>5
  <2>6. CASE ~Above(i) /\ StepNames(r, p)
    <3>1. PutsBack(WithValue(a, p, v), r) /\ Leading(WithValue(a, p, v), r) = Leading(a, r)
      <4> HIDE DEF r
      <4> QED BY <2>2, <2>6, WriteUnderIts
    <3> QED BY <2>2, <2>3, <2>4, <2>6, <3>1
  <2>7. CASE ~Above(i) /\ ~StepNames(r, p)
    <3>1. /\ PutsBack(WithValue(a, p, v), r)
          /\ Leading(WithValue(a, p, v), r) = WithValue(Leading(a, r), p, v)
      <4> HIDE DEF r
      <4> QED BY <2>2, <2>7, WriteUnderOther
    <3> QED BY <2>2, <2>3, <2>4, <2>7, <3>1
  <2> QED BY <2>5, <2>6, <2>7
<1>7. /\ u[m] = WithValue(P, p, v)
      /\ u[0] = IF Names(stack, p) THEN O ELSE WithValue(O, p, v)
  <2> HIDE DEF Above
  <2>1. 0 \in 0 .. m /\ m \in 0 .. m
    BY <1>0
  <2> QED BY <1>2, <1>3, <1>5, <2>1
<1>8. Unwinding(u, WithValue(P, p, v), stack, IF Names(stack, p) THEN O ELSE WithValue(O, p, v))
  BY <1>4, <1>6, <1>7 DEF Unwinding
<1> QED BY <1>8 DEF LeadsBack

-----------------------------------------------------------------------------
(* A program with as many modules: the same steps can be taken back on it, *)
(* whatever they lead to.                                                  *)

LengthAfter(length, c) ==
  IF c.kind = "move" THEN length
  ELSE IF c.effect = noModule THEN length - 1
  ELSE IF c.slot < length THEN length ELSE length + 1

LEMMA AfterLength ==
  ASSUME NEW chain \in Seq(Module), NEW c \in EditCommand, Reversible(chain, c)
  PROVE  Len(ChainAfter(chain, c)) = LengthAfter(Len(chain), c)
<1> DEFINE d == ChainAfter(chain, c)
<1>0. Len(chain) \in Nat
  BY LenProperties
<1>1. CASE c.kind = "move"
  <2>1. MoveNamesModules(chain, c.from, c.to) /\ c.from \in Nat /\ c.to \in Nat
    BY <1>1, CommandIs DEF Reversible
  <2>2. d = MoveModule(chain, c.from, c.to)
    BY <1>1 DEF ChainAfter
  <2>3. Len(MoveModule(chain, c.from, c.to)) = Len(chain)
    BY <2>1, MoveType
  <2> QED BY <1>1, <2>2, <2>3 DEF LengthAfter
<1>2. CASE c.kind = "slot" /\ c.effect # noModule /\ c.slot < Len(chain)
  <2>1. ModuleOf(c) \in Module /\ c.slot + 1 \in 1 .. Len(chain)
    BY <1>0, <1>2, CommandIs DEF ModuleOf, Module, Choice
  <2>2. d = [chain EXCEPT ![c.slot + 1] = ModuleOf(c)]
    BY <1>2 DEF ChainAfter
  <2>3. Len([chain EXCEPT ![c.slot + 1] = ModuleOf(c)]) = Len(chain)
    BY <2>1, ExceptSeq
  <2> QED BY <1>2, <2>2, <2>3 DEF LengthAfter
<1>3. CASE c.kind = "slot" /\ c.effect # noModule /\ ~(c.slot < Len(chain))
  <2>1. ModuleOf(c) \in Module
    BY <1>3, CommandIs DEF ModuleOf, Module, Choice
  <2>2. d = Append(chain, ModuleOf(c))
    BY <1>3 DEF ChainAfter
  <2>3. Len(Append(chain, ModuleOf(c))) = Len(chain) + 1
    BY <2>1, AddedRemoved
  <2> QED BY <1>3, <2>2, <2>3 DEF LengthAfter
<1>4. CASE c.kind = "slot" /\ c.effect = noModule
  <2>1. Len(chain) # 0
    BY <1>0, <1>4, CommandIs DEF Reversible
  <2>2. d = RemoveAt(chain, Len(chain))
    BY <1>4 DEF ChainAfter
  <2>3. Len(RemoveAt(chain, Len(chain))) = Len(chain) - 1
    BY <2>1, LastRemoved
  <2> QED BY <1>4, <2>2, <2>3 DEF LengthAfter
<1> QED BY <1>1, <1>2, <1>3, <1>4, CommandIs

\* A run of commands goes through chains of the same lengths.
LEMMA ReplaysOver ==
  ASSUME NEW P \in Program, NEW Q \in Program, Len(Q.chain) = Len(P.chain),
         NEW commands \in Seq(EditCommand), NEW q, Replaying(q, P.chain, commands)
  PROVE  \E w : Replaying(w, Q.chain, commands) /\ Len(w[Len(commands)]) = Len(q[Len(commands)])
<1> DEFINE m == Len(commands)
<1>0. m \in Nat /\ \A i \in 1 .. m : commands[i] \in EditCommand
  BY LenProperties, ElementOfSeq
<1>1. PICK f : CarryingOut(f, Q, commands, m)
  BY <1>0, CarryingOutExists
<1>2. \A n \in 0 .. m : q[n] \in Seq(Module) /\ Len(q[n]) <= MaxModules
  BY ProgramIs, ReplayingType
<1> DEFINE Along(n) == f[n].program \in Program /\ Len(f[n].program.chain) = Len(q[n])
           S == {n \in Nat : n <= m => Along(n)}
<1>3. ASSUME NEW n \in Nat, n + 1 <= m, Along(n)
      PROVE  /\ Reversible(f[n].program.chain, commands[n + 1])
             /\ f[n + 1].program.chain = ChainAfter(f[n].program.chain, commands[n + 1])
             /\ Along(n + 1)
  <2> DEFINE A == f[n].program
             c == commands[n + 1]
             a == q[n]
  <2>1. n + 1 \in 1 .. m /\ (n + 1) - 1 = n /\ n \in 0 .. m /\ n + 1 \in 0 .. m
    BY <1>0, <1>3
  <2>2. /\ A \in Program /\ Len(A.chain) = Len(a) /\ c \in EditCommand
        /\ a \in Seq(Module) /\ A.chain \in Seq(Module) /\ Len(A.chain) <= MaxModules
    BY <1>0, <1>2, <1>3, <2>1, ProgramIs
  <2>3. Reversible(a, c) /\ q[n + 1] = ChainAfter(a, c)
    BY <2>1 DEF Replaying
  <2>4. f[n + 1].program = CarriedOut(A, c)
    <3>1. f[n + 1] = OneCommand(f[n], c)
      BY <1>1, <2>1 DEF CarryingOut
    <3> QED BY <3>1 DEF OneCommand
  <2> HIDE DEF A, c, a
  <2>5. Reversible(A.chain, c)
    BY <2>2, <2>3 DEF Reversible, MoveNamesModules
  <2>6. CarriedOut(A, c) = ProgramOf(ChainAfter(A.chain, c), A.global)
    BY <2>2, <2>5, CarriedOutIs
  <2> DEFINE d == ChainAfter(A.chain, c)
  <2>7. d \in Seq(Module) /\ Len(d) <= MaxModules /\ Len(d) = Len(ChainAfter(a, c))
    BY <2>2, <2>3, <2>5, AfterType, AfterLength
  <2> HIDE DEF d
  <2>8. ProgramOf(d, A.global) \in Program /\ ProgramOf(d, A.global).chain = d
    BY <2>2, <2>7, ProgramIs, ProgramType
  <2>9. f[n + 1].program = ProgramOf(d, A.global)
    BY <2>4, <2>6 DEF d
  <2>10. Along(n + 1)
    BY <2>3, <2>7, <2>8, <2>9
  <2>11. Reversible(A.chain, c) /\ f[n + 1].program.chain = ChainAfter(A.chain, c)
    BY <2>5, <2>8, <2>9 DEF d
  <2> QED BY <2>10, <2>11 DEF A, c
<1>4. Along(0)
  <2>1. f[0].program = Q
    BY <1>1 DEF CarryingOut, NotBegun
  <2> QED BY <2>1 DEF Replaying
<1> HIDE DEF Along
<1>5. \A n \in Nat : n \in S
  <2>1. 0 \in S
    BY <1>4
  <2>2. ASSUME NEW n \in Nat, n \in S PROVE n + 1 \in S
    <3>1. n + 1 <= m => n <= m
      BY <1>0
    <3> QED BY <1>3, <2>2, <3>1
  <2> HIDE DEF S
  <2> QED BY <2>1, <2>2, NatInd
<1> DEFINE w == [n \in 0 .. m |-> f[n].program.chain]
<1>6. \A n \in 0 .. m : w[n] = f[n].program.chain
  OBVIOUS
<1> HIDE DEF w
<1>7. w[0] = Q.chain
  <2>1. f[0].program = Q /\ 0 \in 0 .. m
    BY <1>0, <1>1 DEF CarryingOut, NotBegun
  <2> QED BY <1>6, <2>1
<1>8. ASSUME NEW i \in 1 .. m
      PROVE  Reversible(w[i - 1], commands[i]) /\ w[i] = ChainAfter(w[i - 1], commands[i])
  <2> DEFINE n == i - 1
  <2>1. n \in Nat /\ n + 1 = i /\ n + 1 <= m /\ n \in 0 .. m /\ i \in 0 .. m /\ n <= m
    BY <1>0
  <2> HIDE DEF n
  <2>2. Along(n)
    BY <1>5, <2>1
  <2>3. Reversible(w[n], commands[n + 1]) /\ w[n + 1] = ChainAfter(w[n], commands[n + 1])
    BY <1>3, <1>6, <2>1, <2>2
  <2> QED BY <2>1, <2>3 DEF n
<1>9. Len(w[m]) = Len(q[m])
  <2>1. m \in 0 .. m /\ m \in S
    BY <1>0, <1>5
  <2> QED BY <1>6, <2>1 DEF Along
<1>10. Replaying(w, Q.chain, commands)
  BY <1>7, <1>8 DEF Replaying
<1> QED BY <1>9, <1>10

LEMMA StepOver ==
  ASSUME NEW P \in Program, NEW Q \in Program, Len(Q.chain) = Len(P.chain),
         NEW r \in UndoStep, PutsBack(P, r)
  PROVE  /\ PutsBack(Q, r) /\ Leading(P, r) \in Program /\ Leading(Q, r) \in Program
         /\ Len(Leading(Q, r).chain) = Len(Leading(P, r).chain)
<1>1. CASE r.kind = "value"
  <2>1. r.id \in Parameter /\ r.value \in Value /\ Exists(P, r.id)
    BY <1>1, StepIs DEF PutsBack
  <2>2. Leading(P, r) = WithValue(P, r.id, r.value) /\ Leading(Q, r) = WithValue(Q, r.id, r.value)
    BY <1>1, AppliedIs DEF Leading
  <2>3. /\ WithValue(P, r.id, r.value) \in Program /\ WithValue(Q, r.id, r.value) \in Program
        /\ Len(WithValue(P, r.id, r.value).chain) = Len(P.chain)
        /\ Len(WithValue(Q, r.id, r.value).chain) = Len(Q.chain)
    BY <2>1, WriteType
  <2>4. PutsBack(Q, r)
    BY <1>1, <2>1 DEF PutsBack, Exists
  <2> QED BY <2>2, <2>3, <2>4
<1>2. CASE r.kind = "chain"
  <2> DEFINE s == r.commands
             here == Replayed(P, s)
             there == Replayed(Q, s)
  <2>1. s \in Seq(EditCommand) /\ \E q : Replaying(q, P.chain, s)
    BY <1>2, StepIs DEF PutsBack
  <2>2. Leading(P, r) = here.program /\ Leading(Q, r) = there.program
    BY <1>2, AppliedIs DEF Leading
  <2>3. PutsBack(Q, r) <=> \E w : Replaying(w, Q.chain, s)
    BY <1>2 DEF PutsBack
  <2> HIDE DEF s
  <2>4. PICK q : Replaying(q, P.chain, s)
    BY <2>1
  <2>5. PICK w : Replaying(w, Q.chain, s) /\ Len(w[Len(s)]) = Len(q[Len(s)])
    BY <2>1, <2>4, ReplaysOver
  <2>6. here.program \in Program /\ here.program.chain = q[Len(s)]
    BY <2>1, <2>4, EditLeads
  <2>7. there.program \in Program /\ there.program.chain = w[Len(s)]
    BY <2>1, <2>5, EditLeads
  <2> HIDE DEF here, there
  <2> QED BY <2>2, <2>3, <2>5, <2>6, <2>7
<1>3. CASE r.kind = "state"
  <2>1. Leading(P, r) = r.program /\ Leading(Q, r) = r.program /\ r.program \in Program
    BY <1>3, StepIs, AppliedIs DEF Leading
  <2> QED BY <1>3, <2>1 DEF PutsBack
<1> QED BY <1>1, <1>2, <1>3, StepIs

\* A whole stack.
StackOver(n) ==
  \A stack \in Seq(UndoStep), P \in Program, Q \in Program, O \in Program :
    Len(stack) = n /\ LeadsBack(P, stack, O) /\ Len(Q.chain) = Len(P.chain)
      => \E O2 \in Program : LeadsBack(Q, stack, O2)

LEMMA AnyStackOver == \A n \in Nat : StackOver(n)
<1> DEFINE S == {n \in Nat : StackOver(n)}
<1>1. 0 \in S
  <2> SUFFICES ASSUME NEW stack \in Seq(UndoStep), NEW Q \in Program, Len(stack) = 0
               PROVE  \E O2 \in Program : LeadsBack(Q, stack, O2)
    BY DEF StackOver
  <2>1. stack = <<>>
    BY EmptySeq
  <2> QED BY <2>1, NothingLeads
<1>2. ASSUME NEW n \in Nat, n \in S PROVE n + 1 \in S
  <2> SUFFICES ASSUME NEW stack \in Seq(UndoStep), NEW P \in Program, NEW Q \in Program,
                      NEW O \in Program, Len(stack) = n + 1, LeadsBack(P, stack, O),
                      Len(Q.chain) = Len(P.chain)
               PROVE  \E O2 \in Program : LeadsBack(Q, stack, O2)
    BY DEF StackOver
  <2> DEFINE less == Front(stack)
             r == Last(stack)
             A == Leading(P, r)
             B == Leading(Q, r)
  <2>1. stack # <<>>
    BY EmptySeq
  <2>2. /\ less \in Seq(UndoStep) /\ r \in UndoStep /\ Append(less, r) = stack
        /\ Len(less) = Len(stack) - 1
    BY <2>1, FrontAndLast
  <2>3. PutsBack(P, r) /\ LeadsBack(A, less, O)
    BY <2>1, OneLessLeads
  <2> HIDE DEF less, r
  <2>4. /\ PutsBack(Q, r) /\ A \in Program /\ B \in Program /\ Len(B.chain) = Len(A.chain)
    BY <2>2, <2>3, StepOver
  <2>5. Len(less) = n
    BY <2>2
  <2>6. B = Leading(Q, r)
    OBVIOUS
  <2> HIDE DEF A, B
  <2>7. PICK O2 \in Program : LeadsBack(B, less, O2)
    BY <1>2, <2>2, <2>3, <2>4, <2>5 DEF StackOver
  <2>8. LeadsBack(Q, Append(less, r), O2)
    BY <2>2, <2>4, <2>6, <2>7, OneMoreLeads
  <2> QED BY <2>2, <2>8
<1> HIDE DEF S
<1>3. \A n \in Nat : n \in S
  BY <1>1, <1>2, NatInd
<1> QED BY <1>3 DEF S

LEMMA LeadsFromElsewhere ==
  ASSUME NEW stack \in Seq(UndoStep), NEW P \in Program, NEW O, LeadsBack(P, stack, O),
         NEW Q \in Program, Len(Q.chain) = Len(P.chain)
  PROVE  Unwound(Q, stack) \in Program /\ LeadsBack(Q, stack, Unwound(Q, stack))
<1>1. O \in Program /\ Len(stack) \in Nat
  BY LeadsTypes, LenProperties
<1>2. PICK O2 \in Program : LeadsBack(Q, stack, O2)
  BY <1>1, AnyStackOver DEF StackOver
<1> QED BY <1>2, UnwoundAlong

-----------------------------------------------------------------------------
(* What is in hand.                                                        *)

\* The one value set aside, in the first place.
SetAside(p, v) == [NothingHeld EXCEPT ![1] = [id |-> p, value |-> v]]

LEMMA SetAsideIs ==
  ASSUME NEW p \in Parameter, NEW v \in Value
  PROVE  /\ 1 \in 1 .. Places /\ NothingHeld \in [1 .. Places -> Held \cup {vacant}]
         /\ SetAside(p, v) \in [1 .. Places -> Held \cup {vacant}]
         /\ SetAside(p, v)[1].id = p /\ SetAside(p, v)[1].value = v /\ SetAside(p, v)[1] # vacant
         /\ \A n \in 1 .. Places : NothingHeld[n] = vacant
         /\ \A n \in 1 .. Places : n # 1 => SetAside(p, v)[n] = vacant
         /\ [SetAside(p, v) EXCEPT ![1] = vacant] = NothingHeld
<1>1. 1 \in 1 .. Places
  BY PlacesAssumption
<1>2. [id |-> p, value |-> v] \in Held /\ [id |-> p, value |-> v] # vacant
  BY NothingAssumption DEF Held
<1> QED BY <1>1, <1>2 DEF SetAside, NothingHeld

LEMMA ReleasedIs ==
  ASSUME NEW P, NEW held, \A n \in 2 .. Places : held[n] = vacant
  PROVE  Released(P, held) = IF held[1] = vacant THEN P
                             ELSE WithValue(P, held[1].id, held[1].value)
<1> DEFINE Put(prog, n) == IF held[n] = vacant THEN prog
                           ELSE WithValue(prog, held[n].id, held[n].value)
           F(f) == f = [n \in 0 .. Places |-> IF n = 0 THEN P ELSE Put(f[n - 1], n)]
           with == CHOOSE f : F(f)
           R == Put(P, 1)
           W(n) == IF n = 0 THEN P ELSE R
<1>0. Places \in Nat /\ Places >= 2
  BY PlacesAssumption
<1>1. \A n \in 2 .. Places : Put(R, n) = R
  <2> HIDE DEF R
  <2> QED OBVIOUS
<1> HIDE DEF Put
<1>2. \A n \in 1 .. Places : W(n) = Put(W(n - 1), n)
  <2> TAKE n \in 1 .. Places
  <2>1. CASE n = 1
    BY <2>1
  <2>2. CASE n # 1
    <3>1. n \in 2 .. Places /\ n - 1 # 0 /\ n # 0
      BY <1>0, <2>2
    <3> HIDE DEF R
    <3> QED BY <1>1, <3>1
  <2> QED BY <2>1, <2>2
<1> HIDE DEF R
<1>3. \E f : F(f)
  <2> DEFINE f == [n \in 0 .. Places |-> W(n)]
  <2>1. ASSUME NEW n \in 0 .. Places
        PROVE  f[n] = IF n = 0 THEN P ELSE Put(f[n - 1], n)
    <3>1. CASE n = 0
      BY <3>1
    <3>2. CASE n # 0
      <4>1. n \in 1 .. Places /\ n - 1 \in 0 .. Places
        BY <1>0, <3>2
      <4>2. f[n] = W(n) /\ f[n - 1] = W(n - 1)
        BY <4>1
      <4> HIDE DEF W, f
      <4> QED BY <1>2, <3>2, <4>1, <4>2
    <3> QED BY <3>1, <3>2
  <2>2. F(f)
    <3> HIDE DEF W
    <3> QED BY <2>1
  <2> HIDE DEF F
  <2> QED BY <2>2
<1>4. Released(P, held) = with[Places]
  BY Zenon DEF Released, Put
<1> HIDE DEF F
<1>5. F(with)
  BY <1>3, Zenon
<1>6. with = [n \in 0 .. Places |-> IF n = 0 THEN P ELSE Put(with[n - 1], n)]
  BY <1>5 DEF F
<1> HIDE DEF with
<1>7. with[0] = P /\ \A n \in 1 .. Places : with[n] = Put(with[n - 1], n)
  BY <1>0, <1>6
<1> DEFINE S == {n \in Nat : n <= Places => with[n] = W(n)}
<1>8. 0 \in S
  BY <1>7
<1>9. ASSUME NEW n \in Nat, n \in S PROVE n + 1 \in S
  <2>1. SUFFICES ASSUME n + 1 <= Places PROVE with[n + 1] = W(n + 1)
    OBVIOUS
  <2> HIDE DEF W
  <2>2. n + 1 \in 1 .. Places /\ (n + 1) - 1 = n /\ with[n] = W(n)
    BY <1>0, <1>9, <2>1
  <2> QED BY <1>2, <1>7, <2>2
<1> HIDE DEF S
<1>10. \A n \in Nat : n \in S
  BY <1>8, <1>9, NatInd
<1>11. with[Places] = R
  BY <1>0, <1>10 DEF S
<1> QED BY <1>4, <1>11 DEF R, Put

LEMMA NothingReleased ==
  ASSUME NEW P PROVE Released(P, NothingHeld) = P
<1>1. \A n \in 1 .. Places : NothingHeld[n] = vacant
  BY DEF NothingHeld
<1>2. 1 \in 1 .. Places /\ \A n \in 2 .. Places : n \in 1 .. Places
  BY PlacesAssumption
<1> QED BY <1>1, <1>2, ReleasedIs

LEMMA SetAsideReleased ==
  ASSUME NEW P, NEW p \in Parameter, NEW v \in Value
  PROVE  Released(P, SetAside(p, v)) = WithValue(P, p, v)
<1>1. \A n \in 2 .. Places : n \in 1 .. Places /\ n # 1
  BY PlacesAssumption
<1> QED BY <1>1, SetAsideIs, ReleasedIs

-----------------------------------------------------------------------------
(* What every step of the editor and of a host keeps.                      *)

\* The stacks, never more than one may hold between them, and how much of the
\* first one is to be gone through.
StacksHold ==
  /\ program \in Program /\ ahead \in Program
  /\ undo \in Seq(UndoStep) /\ redo \in Seq(UndoStep) /\ Len(undo) + Len(redo) <= Depth
  /\ beyond \in 0 .. Len(undo) /\ astray \in BOOLEAN
\* One control in hand, there to be let go of, and its value from before.
OneInHand == inHand = {} \/ \E p \in Parameter : inHand = {p} /\ Exists(program, p)
OneSetAside == pending = NothingHeld \/ \E p \in inHand, v \in Value : pending = SetAside(p, v)
\* Either way the stacks lead through programs whose steps name what is there.
BackLeads == LeadsBack(Released(program, pending), Reaching, origin)
ForthLeads ==
  ~astray => LeadsBack(IF redo = <<>> THEN program ELSE Released(program, pending), redo, ahead)

HistoryInv == StacksHold /\ OneInHand /\ OneSetAside /\ BackLeads /\ ForthLeads

LEMMA ReachingIs ==
  /\ Reaching = StepsAfter(undo, beyond) /\ Reaching' = StepsAfter(undo', beyond')
  /\ UNCHANGED <<undo, beyond>> => Reaching' = Reaching
BY DEF Reaching, StepsAfter

LEMMA ReachingType ==
  ASSUME HistoryInv
  PROVE  Reaching \in Seq(UndoStep) /\ Len(undo) \in Nat /\ Len(redo) \in Nat
BY ReachingIs, AfterIs, LenProperties DEF HistoryInv, StacksHold

LEMMA NothingInHand ==
  ASSUME HistoryInv, inHand = {}
  PROVE  /\ pending = NothingHeld /\ Released(program, pending) = program
         /\ LeadsBack(program, Reaching, origin)
         /\ ~astray => LeadsBack(program, redo, ahead)
<1>1. pending = NothingHeld
  BY DEF HistoryInv, OneSetAside
<1>2. Released(program, pending) = program
  BY <1>1, NothingReleased
<1> QED BY <1>1, <1>2 DEF HistoryInv, BackLeads, ForthLeads

\* record(): a new step, or the last one left to stand for both, and the oldest
\* forgotten when there is no room.
LEMMA RecordLeads ==
  ASSUME undo \in Seq(UndoStep), Len(undo) <= Depth, beyond \in 0 .. Len(undo),
         NEW R, LeadsBack(R, Reaching, origin),
         NEW under \in 0 .. Len(undo), NEW from, NEW r \in UndoStep,
         NEW Q \in Program, Released(program', pending') = Q,
         PutsBack(Q, r), LeadsBack(Leading(Q, r), StepsAfter(undo, under), from),
         r.kind = "value" => \E v \in Value : Q = WithValue(R, r.id, v),
         RecordOver(r, under, from)
  PROVE  /\ undo' \in Seq(UndoStep) /\ redo' = <<>> /\ Len(undo') <= Depth
         /\ beyond' \in 0 .. Len(undo') /\ LeadsBack(Q, StepsAfter(undo', beyond'), origin')
         /\ ahead' = program' /\ astray' = FALSE
<1>0. /\ Len(undo) \in Nat /\ Depth \in Nat /\ Depth # 0 /\ under \in Nat /\ beyond \in Nat
      /\ Reaching = StepsAfter(undo, beyond)
  BY LenProperties, DepthAssumption, ReachingIs
<1>1. redo' = <<>> /\ ahead' = program' /\ astray' = FALSE
  BY DEF RecordOver, Unreachable
<1>2. \/ /\ undo # <<>> /\ Continues(r, Last(undo)) /\ UNCHANGED <<undo, beyond>>
         /\ origin' = IF beyond = Len(undo) THEN Q ELSE origin
      \/ /\ undo' = PushDropping(undo, r)
         /\ beyond' = IF Len(undo) = Depth /\ under > 0 THEN under - 1 ELSE under
         /\ origin' = IF Len(undo) = Depth /\ under = 0 THEN Unwound(Q, undo') ELSE from
  BY DEF RecordOver
<1>3. CASE /\ undo # <<>> /\ Continues(r, Last(undo)) /\ UNCHANGED <<undo, beyond>>
           /\ origin' = IF beyond = Len(undo) THEN Q ELSE origin
  <2>1. r.kind = "value" /\ Last(undo).kind = "value" /\ r.id = Last(undo).id
    BY <1>3 DEF Continues
  <2>2. PICK v \in Value : Q = WithValue(R, Last(undo).id, v)
    BY <2>1
  <2>3. LeadsBack(Q, StepsAfter(undo, beyond), origin')
    <3>1. CASE beyond = Len(undo)
      BY <1>3, <3>1, AfterAll, NothingLeads
    <3>2. CASE beyond # Len(undo)
      <4>1. /\ Reaching \in Seq(UndoStep) /\ Reaching # <<>>
            /\ Last(Reaching) = Last(undo)
        BY <1>0, <3>2, AfterIs, AfterTakenBack
      <4>2. LeadsBack(WithValue(R, Last(Reaching).id, v), Reaching, origin)
        BY <2>1, <4>1, JoinedLeads
      <4> QED BY <1>0, <1>3, <2>2, <3>2, <4>1, <4>2
    <3> QED BY <3>1, <3>2
  <2> QED BY <1>1, <1>3, <2>3
<1>4. CASE /\ undo' = PushDropping(undo, r)
           /\ beyond' = IF Len(undo) = Depth /\ under > 0 THEN under - 1 ELSE under
           /\ origin' = IF Len(undo) = Depth /\ under = 0 THEN Unwound(Q, undo') ELSE from
  <2>1. CASE Len(undo) # Depth
    <3>1. undo' = Append(undo, r) /\ origin' = from /\ beyond' = under
      BY <1>4, <2>1 DEF PushDropping
    <3>2. /\ Append(undo, r) \in Seq(UndoStep) /\ Len(Append(undo, r)) = Len(undo) + 1
          /\ StepsAfter(Append(undo, r), under) = Append(StepsAfter(undo, under), r)
          /\ StepsAfter(undo, under) \in Seq(UndoStep)
      BY AfterAppended, AfterIs
    <3>3. LeadsBack(Q, Append(StepsAfter(undo, under), r), from)
      BY <3>2, OneMoreLeads
    <3>4. Len(undo) + 1 <= Depth /\ under \in 0 .. Len(undo) + 1
      BY <1>0, <2>1
    <3> QED BY <1>1, <3>1, <3>2, <3>3, <3>4
  <2>2. CASE Len(undo) = Depth /\ under # 0
    <3> DEFINE rest == Tail(undo)
               k == under - 1
               more == Append(rest, r)
    <3>1. undo' = more /\ origin' = from /\ beyond' = k
      BY <1>0, <1>4, <2>2 DEF PushDropping
    <3>2. under \in 1 .. Len(undo)
      BY <1>0, <2>2
    <3>3. /\ rest \in Seq(UndoStep) /\ Len(rest) = Len(undo) - 1
          /\ StepsAfter(rest, k) = StepsAfter(undo, under)
      BY <3>2, AfterDropped
    <3>4. k \in 0 .. Len(rest)
      BY <1>0, <3>2, <3>3
    <3> HIDE DEF rest, k
    <3>5. /\ more \in Seq(UndoStep) /\ Len(more) = Len(rest) + 1
          /\ StepsAfter(more, k) = Append(StepsAfter(rest, k), r)
          /\ StepsAfter(rest, k) \in Seq(UndoStep)
      BY <3>3, <3>4, AfterAppended, AfterIs
    <3>6. LeadsBack(Q, Append(StepsAfter(rest, k), r), from)
      BY <3>3, <3>5, OneMoreLeads
    <3> HIDE DEF more
    <3>7. Len(more) <= Depth /\ k \in 0 .. Len(more)
      BY <1>0, <2>2, <3>3, <3>4, <3>5
    <3> QED BY <1>1, <3>1, <3>5, <3>6, <3>7
  <2>3. CASE Len(undo) = Depth /\ under = 0
    <3>1. undo # <<>>
      BY <1>0, <2>3
    <3>2. undo' = Append(Tail(undo), r) /\ origin' = Unwound(Q, undo') /\ beyond' = 0
      BY <1>4, <2>3 DEF PushDropping
    <3> DEFINE rest == Tail(undo)
               more == Append(rest, r)
    <3>3. LeadsBack(Leading(Q, r), undo, from)
      BY <2>3, AfterAll
    <3>4. /\ rest \in Seq(UndoStep) /\ Len(rest) = Len(undo) - 1
          /\ \E O : LeadsBack(Leading(Q, r), rest, O)
      BY <3>1, <3>3, OldestDropped
    <3> HIDE DEF rest
    <3>5. PICK O : LeadsBack(Leading(Q, r), rest, O)
      BY <3>4
    <3>6. LeadsBack(Q, more, O) /\ more \in Seq(UndoStep) /\ Len(more) = Len(rest) + 1
      BY <3>4, <3>5, OneMoreLeads
    <3>7. undo' = more
      BY <3>2 DEF rest
    <3> HIDE DEF more
    <3>8. origin' = O
      BY <3>2, <3>6, <3>7, UnwoundAlong
    <3>9. Len(more) <= Depth /\ 0 \in 0 .. Len(more) /\ StepsAfter(more, 0) = more
      BY <1>0, <2>3, <3>4, <3>6, AfterAll
    <3> QED BY <1>1, <3>2, <3>6, <3>7, <3>8, <3>9
  <2> QED BY <2>1, <2>2, <2>3
<1> QED BY <1>2, <1>3, <1>4

\* A step recorded over some of those there are.
LEMMA RecordOverKeeps ==
  ASSUME HistoryInv, NEW under \in 0 .. Len(undo), NEW from,
         NEW r \in UndoStep, NEW Q \in Program, Released(program', pending') = Q,
         PutsBack(Q, r), LeadsBack(Leading(Q, r), StepsAfter(undo, under), from),
         r.kind = "value" => \E v \in Value : Q = WithValue(Released(program, pending), r.id, v),
         program' \in Program, OneInHand', OneSetAside', RecordOver(r, under, from)
  PROVE  HistoryInv'
<1> DEFINE R == Released(program, pending)
<1>0. /\ undo \in Seq(UndoStep) /\ Len(undo) \in Nat /\ Len(redo) \in Nat /\ Depth \in Nat
      /\ Len(undo) + Len(redo) <= Depth /\ LeadsBack(R, Reaching, origin)
      /\ beyond \in 0 .. Len(undo)
  BY LenProperties, DepthAssumption DEF HistoryInv, StacksHold, BackLeads
<1>1. Len(undo) <= Depth
  BY <1>0
<1>2. r.kind = "value" => \E v \in Value : Q = WithValue(R, r.id, v)
  OBVIOUS
<1> HIDE DEF R
<1>3. /\ undo' \in Seq(UndoStep) /\ redo' = <<>> /\ Len(undo') <= Depth
      /\ beyond' \in 0 .. Len(undo') /\ LeadsBack(Q, StepsAfter(undo', beyond'), origin')
      /\ ahead' = program' /\ astray' = FALSE
  BY <1>0, <1>1, <1>2, RecordLeads
<1>4. Len(undo') \in Nat /\ Len(redo') = 0 /\ redo' \in Seq(UndoStep)
  BY <1>3, LenProperties
<1>5. StacksHold'
  <2>1. Len(undo') + Len(redo') <= Depth
    BY <1>0, <1>3, <1>4
  <2>2. program' \in Program /\ ahead' \in Program /\ astray' \in BOOLEAN
    BY <1>3
  <2> QED BY <1>3, <1>4, <2>1, <2>2 DEF StacksHold
<1>6. BackLeads'
  BY <1>3, ReachingIs DEF BackLeads
<1>7. ForthLeads'
  BY <1>3, NothingLeads DEF ForthLeads
<1> QED BY <1>5, <1>6, <1>7 DEF HistoryInv

\* A step recorded with nothing in hand, or with another control's value aside.
LEMMA RecordKeeps ==
  ASSUME HistoryInv,
         NEW r \in UndoStep, NEW Q \in Program, Released(program', pending') = Q,
         PutsBack(Q, r), Leading(Q, r) = Released(program, pending),
         r.kind = "value" => \E v \in Value : Q = WithValue(Released(program, pending), r.id, v),
         program' \in Program, OneInHand', OneSetAside', Record(r)
  PROVE  HistoryInv'
<1>1. /\ beyond \in 0 .. Len(undo) /\ RecordOver(r, beyond, origin)
      /\ LeadsBack(Leading(Q, r), StepsAfter(undo, beyond), origin)
  BY ReachingIs DEF HistoryInv, StacksHold, BackLeads, Record
<1> QED BY <1>1, RecordOverKeeps

-----------------------------------------------------------------------------
(* The gestures.                                                           *)

LEMMA BeginKeeps ==
  ASSUME HistoryInv, NEW p \in Parameter, BeginGesture(p)
  PROVE  HistoryInv'
<1>1. pending = NothingHeld
  BY NothingInHand DEF BeginGesture
<1>2. /\ inHand' = {p} /\ Exists(program, p)
      /\ UNCHANGED <<program, undo, redo, pending, origin, beyond, ahead, astray>>
  BY DEF BeginGesture, history, ghosts
<1>3. Reaching' = Reaching
  BY <1>2, ReachingIs
<1> QED BY <1>1, <1>2, <1>3 DEF HistoryInv, StacksHold, OneInHand, OneSetAside,
       BackLeads, ForthLeads

\* What rememberForUndo() makes of an empty set, and of one that has it already.
LEMMA RememberedIs ==
  ASSUME NEW p \in Parameter, NEW v \in Value, NEW w \in Value
  PROVE  /\ Remembered(NothingHeld, p, v) = SetAside(p, v)
         /\ Remembered(SetAside(p, w), p, v) = SetAside(p, w)
<1>1. Remembered(NothingHeld, p, v) = SetAside(p, v)
  <2> DEFINE free == {n \in 1 .. Places : NothingHeld[n] = vacant}
             least == CHOOSE n \in free : \A k \in free : n <= k
  <2>1. free = 1 .. Places /\ 1 \in free /\ free # {}
    BY SetAsideIs
  <2>2. least = 1
    <3>1. 1 \in free /\ \A k \in free : 1 <= k
      BY <2>1, PlacesAssumption
    <3>2. least \in free /\ \A k \in free : least <= k
      BY <3>1
    <3>3. least <= 1 /\ least \in 1 .. Places
      BY <2>1, <3>2
    <3> HIDE DEF least
    <3> QED BY <3>3, PlacesAssumption
  <2>3. ~ \E n \in 1 .. Places : NothingHeld[n] # vacant /\ NothingHeld[n].id = p
    BY SetAsideIs
  <2>4. Remembered(NothingHeld, p, v) = [NothingHeld EXCEPT ![least] = [id |-> p, value |-> v]]
    BY <2>1, <2>3 DEF Remembered
  <2> QED BY <2>2, <2>4 DEF SetAside
<1>2. Remembered(SetAside(p, w), p, v) = SetAside(p, w)
  <2>1. \E n \in 1 .. Places : SetAside(p, w)[n] # vacant /\ SetAside(p, w)[n].id = p
    BY SetAsideIs
  <2> QED BY <2>1 DEF Remembered
<1> QED BY <1>1, <1>2

LEMMA EditKeeps ==
  ASSUME HistoryInv, NEW p \in Parameter, NEW v \in Value, EditParameter(p, v)
  PROVE  HistoryInv'
<1> DEFINE w == ValueIn(program, p)
           Q == WithValue(program, p, v)
<1>0. /\ program \in Program /\ inHand = {p} /\ Exists(program, p) /\ p \in inHand
      /\ inHand' = inHand /\ program' = Q
      /\ UNCHANGED <<undo, redo, origin, beyond, astray>>
      /\ pending' = Remembered(pending, p, w)
      /\ ahead' = IF redo = <<>> \/ astray THEN Q ELSE ahead
  BY DEF EditParameter, HistoryInv, StacksHold, OneInHand, history
<1>1. w \in Value /\ WithValue(program, p, w) = program
  BY <1>0, WriteBack
<1>2. Q \in Program /\ Exists(Q, p)
  BY <1>0, WriteType
<1> HIDE DEF w, Q
<1>3. PICK x \in Value :
        pending' = SetAside(p, x) /\ WithValue(program, p, x) = Released(program, pending)
  <2>1. CASE pending = NothingHeld
    BY <1>0, <1>1, <2>1, RememberedIs, NothingReleased
  <2>2. CASE pending # NothingHeld
    <3>1. PICK x \in Value : pending = SetAside(p, x)
      BY <1>0, <2>2 DEF HistoryInv, OneSetAside
    <3> QED BY <1>0, <1>1, <3>1, RememberedIs, SetAsideReleased
  <2> QED BY <2>1, <2>2
<1>4. Released(program', pending') = Released(program, pending)
  <2>1. Released(program', pending') = WithValue(Q, p, x)
    BY <1>0, <1>3, SetAsideReleased
  <2>2. WithValue(Q, p, x) = WithValue(program, p, x)
    BY <1>0, WriteAgain DEF Q
  <2> QED BY <1>3, <2>1, <2>2
<1>5. Reaching' = Reaching
  BY <1>0, ReachingIs
<1>6. StacksHold'
  BY <1>0, <1>2 DEF HistoryInv, StacksHold
<1>7. OneInHand' /\ OneSetAside'
  BY <1>0, <1>2, <1>3 DEF OneInHand, OneSetAside
<1>8. BackLeads'
  BY <1>0, <1>4, <1>5 DEF HistoryInv, BackLeads
<1>9. ForthLeads'
  <2>1. CASE redo = <<>>
    BY <1>0, <1>2, <2>1, NothingLeads DEF ForthLeads
  <2>2. CASE redo # <<>>
    BY <1>0, <1>4, <2>2 DEF HistoryInv, ForthLeads
  <2> QED BY <2>1, <2>2
<1> QED BY <1>6, <1>7, <1>8, <1>9 DEF HistoryInv

LEMMA EndKeeps ==
  ASSUME HistoryInv, NEW p \in Parameter, EndGesture(p)
  PROVE  HistoryInv'
<1> DEFINE place == {n \in 1 .. Places : pending[n] # vacant /\ pending[n].id = p}
<1>0. /\ program \in Program /\ inHand = {p} /\ Exists(program, p)
      /\ inHand' = {} /\ program' = program
      /\ \/ place = {} /\ UNCHANGED <<history, pending, ghosts>>
         \/ \E n \in place : /\ pending' = [pending EXCEPT ![n] = vacant]
                             /\ Record(ValueDelta(p, pending[n].value))
  BY DEF EndGesture, HistoryInv, StacksHold, OneInHand
<1>1. CASE pending = NothingHeld
  <2>1. place = {}
    BY <1>1, SetAsideIs, ValueAssumption
  <2>2. UNCHANGED <<undo, redo, pending, origin, beyond, ahead, astray>>
    BY <1>0, <2>1 DEF history, ghosts
  <2>3. Reaching' = Reaching
    BY <2>2, ReachingIs
  <2> QED BY <1>0, <1>1, <2>2, <2>3
          DEF HistoryInv, StacksHold, OneInHand, OneSetAside, BackLeads, ForthLeads
<1>2. CASE pending # NothingHeld
  <2>1. PICK v \in Value : pending = SetAside(p, v)
    BY <1>0, <1>2 DEF HistoryInv, OneSetAside
  <2>2. /\ 1 \in place /\ \A n \in place : n = 1
        /\ pending[1].value = v /\ [pending EXCEPT ![1] = vacant] = NothingHeld
    BY <2>1, SetAsideIs
  <2>3. pending' = NothingHeld /\ Record(ValueDelta(p, v))
    BY <1>0, <2>2
  <2> DEFINE r == ValueDelta(p, v)
             w == ValueIn(program, p)
             R == Released(program, pending)
  <2>4. r \in UndoStep /\ r.kind = "value" /\ r.id = p /\ r.value = v
    BY StepType
  <2>5. R = WithValue(program, p, v)
    BY <2>1, SetAsideReleased
  <2>6. Released(program', pending') = program
    BY <1>0, <2>3, NothingReleased
  <2>7. w \in Value /\ program = WithValue(R, p, w)
    BY <1>0, <2>5, WriteBack, WriteAgain
  <2> HIDE DEF r, w
  <2>8. PutsBack(program, r) /\ Leading(program, r) = R
    BY <1>0, <2>4, <2>5, AppliedIs DEF PutsBack, Leading
  <2>9. OneInHand' /\ OneSetAside'
    BY <1>0, <2>3 DEF OneInHand, OneSetAside
  <2>10. Record(r)
    BY <2>3 DEF r
  <2> HIDE DEF R
  <2>11. r.kind = "value" => \E x \in Value : program = WithValue(R, r.id, x)
    BY <2>4, <2>7
  <2> QED BY <1>0, <2>4, <2>6, <2>8, <2>9, <2>10, <2>11, RecordKeeps DEF R
<1> QED BY <1>1, <1>2

LEMMA PublishKeeps ==
  ASSUME HistoryInv, NEW p \in Parameter, NEW v \in Value, PublishValue(p, v)
  PROVE  HistoryInv'
<1> DEFINE w == ValueIn(program, p)
           r == ValueDelta(p, w)
           R == Released(program, pending)
           Q == WithValue(R, p, v)
<1>0. /\ program \in Program /\ p \notin inHand /\ Exists(program, p)
      /\ program' = WithValue(program, p, v) /\ UNCHANGED <<pending, inHand>>
      /\ Record(r)
  BY DEF PublishValue, HistoryInv, StacksHold
<1>1. /\ R \in Program /\ Exists(R, p) /\ ValueIn(R, p) = w
      /\ Released(program', pending') = Q
  <2>1. CASE pending = NothingHeld
    BY <1>0, <2>1, NothingReleased
  <2>2. CASE pending # NothingHeld
    <3>1. PICK q \in inHand, x \in Value : pending = SetAside(q, x)
      BY <2>2 DEF HistoryInv, OneSetAside
    <3>2. q \in Parameter /\ q # p
      BY <1>0, <3>1 DEF HistoryInv, OneInHand
    <3>3. R = WithValue(program, q, x) /\ Released(program', pending') = WithValue(program', q, x)
      BY <1>0, <3>1, <3>2, SetAsideReleased
    <3>4. R \in Program /\ Exists(R, p)
      BY <1>0, <3>2, <3>3, WriteType
    <3>5. /\ ValueIn(WithValue(program, q, x), p) = ValueIn(program, p)
          /\ WithValue(WithValue(program, p, v), q, x) = WithValue(WithValue(program, q, x), p, v)
      BY <1>0, <3>2, WriteElsewhere
    <3> QED BY <1>0, <3>3, <3>4, <3>5
  <2> QED BY <2>1, <2>2
<1>2. w \in Value /\ WithValue(R, p, w) = R
  BY <1>1, WriteBack
<1>3. r \in UndoStep /\ r.kind = "value" /\ r.id = p /\ r.value = w
  BY <1>2, StepType
<1> HIDE DEF w, r, R
<1>4. Q \in Program /\ Exists(Q, p) /\ WithValue(Q, p, w) = R
  BY <1>1, <1>2, WriteType, WriteAgain
<1>5. Q = WithValue(R, r.id, v)
  BY <1>3
<1> HIDE DEF Q
<1>6. PutsBack(Q, r) /\ Leading(Q, r) = R
  BY <1>3, <1>4, AppliedIs DEF PutsBack, Leading
<1>7. program' \in Program /\ \A q : Exists(program', q) <=> Exists(program, q)
  BY <1>0, WriteType
<1>8. OneInHand' /\ OneSetAside'
  BY <1>0, <1>7 DEF HistoryInv, OneInHand, OneSetAside
<1>9. r.kind = "value" => \E x \in Value : Q = WithValue(R, r.id, x)
  BY <1>5
<1> QED BY <1>0, <1>1, <1>3, <1>4, <1>6, <1>7, <1>8, <1>9, RecordKeeps DEF R

LEMMA HostKeeps ==
  ASSUME HistoryInv, NEW p \in Global, NEW v \in Value, HostWrites(p, v)
  PROVE  HistoryInv'
<1> DEFINE held == \E n \in 1 .. Places : pending[n] # vacant /\ pending[n].id = p
           R == Released(program, pending)
           R2 == Released(program', pending')
           Q == WithValue(program, p, v)
           Led(stack, to) == IF Names(stack, p) \/ held THEN to ELSE WithValue(to, p, v)
<1>0. /\ p \in Parameter /\ program \in Program /\ ahead \in Program
      /\ redo \in Seq(UndoStep) /\ Reaching \in Seq(UndoStep)
      /\ program' = Q /\ UNCHANGED <<undo, redo, pending, inHand, beyond, astray>>
      /\ origin' = Led(Reaching, origin)
      /\ ahead' = IF redo = <<>> \/ astray THEN Q ELSE Led(redo, ahead)
  <2>1. p \in Parameter /\ Reaching \in Seq(UndoStep)
    BY ReachingType DEF Parameter
  <2> QED BY <2>1 DEF HostWrites, HistoryInv, StacksHold, history
<1>1. /\ Q \in Program /\ WithValue(ahead, p, v) \in Program
      /\ \A q : Exists(Q, q) <=> Exists(program, q)
  BY <1>0, WriteType
<1>2. StacksHold'
  BY <1>0, <1>1 DEF HistoryInv, StacksHold
<1>3. OneInHand' /\ OneSetAside'
  BY <1>0, <1>1 DEF HistoryInv, OneInHand, OneSetAside
<1>4. R2 = IF held THEN R ELSE WithValue(R, p, v)
  <2>1. CASE pending = NothingHeld
    <3>1. ~held
      BY <2>1, SetAsideIs, ValueAssumption, <1>0
    <3>2. R2 = WithValue(R, p, v)
      BY <1>0, <2>1, NothingReleased
    <3> QED BY <3>1, <3>2
  <2>2. CASE pending # NothingHeld
    <3>1. PICK q \in inHand, x \in Value : pending = SetAside(q, x)
      BY <2>2 DEF HistoryInv, OneSetAside
    <3>2. q \in Parameter
      BY <3>1 DEF HistoryInv, OneInHand
    <3>3. R = WithValue(program, q, x) /\ R2 = WithValue(Q, q, x)
      BY <1>0, <3>1, <3>2, SetAsideReleased
    <3>4. held <=> q = p
      BY <3>1, <3>2, SetAsideIs
    <3>5. CASE q = p
      <4>1. WithValue(Q, q, x) = R
        BY <1>0, <3>2, <3>3, <3>5, WriteAgain
      <4> QED BY <3>3, <3>4, <3>5, <4>1
    <3>6. CASE q # p
      <4>1. WithValue(Q, q, x) = WithValue(R, p, v)
        BY <1>0, <3>2, <3>3, <3>6, WriteElsewhere
      <4> QED BY <3>3, <3>4, <3>6, <4>1
    <3> QED BY <3>5, <3>6
  <2> QED BY <2>1, <2>2
<1> HIDE DEF held, R, R2, Q
<1>5. ASSUME NEW stack \in Seq(UndoStep), NEW to, LeadsBack(R, stack, to)
      PROVE  LeadsBack(R2, stack, Led(stack, to))
  <2>1. CASE held
    BY <1>4, <1>5, <2>1
  <2>2. CASE ~held
    <3>1. LeadsBack(WithValue(R, p, v), stack,
                    IF Names(stack, p) THEN to ELSE WithValue(to, p, v))
      BY <1>5, WrittenUnder
    <3> QED BY <1>4, <2>2, <3>1
  <2> QED BY <2>1, <2>2
<1> HIDE DEF Led
<1>6. BackLeads'
  <2>1. LeadsBack(R, Reaching, origin)
    BY DEF HistoryInv, BackLeads, R
  <2>2. LeadsBack(R2, Reaching, origin') /\ Reaching' = Reaching
    BY <1>0, <1>5, <2>1, ReachingIs
  <2> QED BY <2>2 DEF BackLeads, R2
<1>7. ForthLeads'
  <2>1. CASE redo = <<>>
    BY <1>0, <1>1, <2>1, NothingLeads DEF ForthLeads
  <2>2. CASE redo # <<>>
    <3> SUFFICES ASSUME ~astray PROVE LeadsBack(R2, redo, ahead')
      BY <1>0, <2>2 DEF ForthLeads, R2
    <3>1. LeadsBack(R, redo, ahead)
      BY <2>2 DEF HistoryInv, ForthLeads, R
    <3> QED BY <1>0, <1>5, <2>2, <3>1
  <2> QED BY <2>1, <2>2
<1> QED BY <1>2, <1>3, <1>6, <1>7 DEF HistoryInv

-----------------------------------------------------------------------------
(* The edits of the chain.                                                 *)

LEMMA OneReplays ==
  ASSUME NEW chain, NEW c, Reversible(chain, c)
  PROVE  \E q : Replaying(q, chain, <<c>>)
<1> DEFINE q == [n \in 0 .. 1 |-> IF n = 0 THEN chain ELSE ChainAfter(chain, c)]
<1>1. q[0] = chain /\ q[1] = ChainAfter(chain, c)
  OBVIOUS
<1> HIDE DEF q
<1>2. ASSUME NEW i \in 1 .. Len(<<c>>)
      PROVE  Reversible(q[i - 1], <<c>>[i]) /\ q[i] = ChainAfter(q[i - 1], <<c>>[i])
  <2>1. i = 1 /\ i - 1 = 0 /\ <<c>>[i] = c
    OBVIOUS
  <2> QED BY <1>1, <2>1
<1>3. Replaying(q, chain, <<c>>)
  BY <1>1, <1>2 DEF Replaying
<1> QED BY <1>3

LEMMA TwoReplay ==
  ASSUME NEW chain, NEW c, NEW d, Reversible(chain, c), Reversible(ChainAfter(chain, c), d)
  PROVE  \E q : Replaying(q, chain, <<c, d>>)
<1> DEFINE a == ChainAfter(chain, c)
           q == [n \in 0 .. 2 |-> IF n = 0 THEN chain ELSE IF n = 1 THEN a ELSE ChainAfter(a, d)]
<1>1. q[0] = chain /\ q[1] = a /\ q[2] = ChainAfter(a, d)
  OBVIOUS
<1> HIDE DEF q
<1>2. ASSUME NEW i \in 1 .. Len(<<c, d>>)
      PROVE  Reversible(q[i - 1], <<c, d>>[i]) /\ q[i] = ChainAfter(q[i - 1], <<c, d>>[i])
  <2>1. CASE i = 1
    <3>1. i - 1 = 0 /\ <<c, d>>[i] = c
      BY <2>1
    <3> QED BY <1>1, <2>1, <3>1
  <2>2. CASE i = 2
    <3>1. i - 1 = 1 /\ <<c, d>>[i] = d
      BY <2>2
    <3> HIDE DEF a
    <3>2. Reversible(a, d)
      BY DEF a
    <3> QED BY <1>1, <2>2, <3>1, <3>2
  <2> QED BY <2>1, <2>2
<1> HIDE DEF a
<1>3. Replaying(q, chain, <<c, d>>)
  BY <1>1, <1>2 DEF Replaying
<1> QED BY <1>3

LEMMA ChainKeeps ==
  ASSUME HistoryInv, NEW commands \in Seq(EditCommand),
         \E q : Replaying(q, program.chain, commands), EditChain(commands)
  PROVE  HistoryInv'
<1> DEFINE edit == Replayed(program, commands)
           Q == edit.program
           r == ChainEdit(edit.inverse)
<1>0. /\ program \in Program /\ inHand = {} /\ program' = Q
      /\ UNCHANGED <<pending, inHand>> /\ Record(r)
  BY DEF EditChain, EditChainOver, Record, HistoryInv, StacksHold
<1>1. /\ Q \in Program /\ edit.inverse \in Seq(EditCommand)
      /\ PutsBack(Q, r) /\ Leading(Q, r) = program
  BY <1>0, EditLeads
<1>2. r \in UndoStep /\ r.kind = "chain"
  BY <1>1, StepType
<1> HIDE DEF edit, Q, r
<1>3. /\ pending = NothingHeld /\ Released(program, pending) = program
      /\ Released(program', pending') = Q
  BY <1>0, NothingInHand, NothingReleased
<1>4. OneInHand' /\ OneSetAside'
  BY <1>0, <1>3 DEF OneInHand, OneSetAside
<1>5. r.kind = "value" => \E x \in Value : Q = WithValue(program, r.id, x)
  BY <1>2
<1> QED BY <1>0, <1>1, <1>2, <1>3, <1>4, <1>5, RecordKeeps

LEMMA FilledIs ==
  ASSUME HistoryInv
  PROVE  /\ filled = Len(program.chain) /\ filled \in Nat /\ filled <= MaxModules
         /\ MaxModules \in Nat /\ program \in Program /\ program.chain \in Seq(Module)
         /\ \A s \in Nat : s < MaxModules => s \in Slot
         /\ \A s \in Slot : s \in Nat /\ s < MaxModules
<1>1. program \in Program
  BY DEF HistoryInv, StacksHold
<1>2. MaxModules \in Nat
  BY MaxModulesAssumption
<1> QED BY <1>1, <1>2, ProgramIs DEF filled, Slot

LEMMA FreshIs ==
  ASSUME NEW s \in Slot, NEW e \in Effect
  PROVE  /\ Fresh(s, e) \in EditCommand /\ Fresh(s, e).kind = "slot" /\ Fresh(s, e).slot = s
         /\ Fresh(s, e).effect = e /\ e # noModule
<1>1. e \in Choice /\ e # noModule
  BY EffectAssumption DEF Choice
<1> QED BY <1>1, CommandType, ValueAssumption DEF Fresh, SlotState

LEMMA AddKeeps ==
  ASSUME HistoryInv, NEW e \in Effect, AddModule(e)
  PROVE  HistoryInv'
<1> DEFINE c == Fresh(filled, e)
<1>1. filled < MaxModules /\ EditChain(<<c>>)
  BY DEF AddModule
<1>2. c \in EditCommand /\ c.kind = "slot" /\ c.slot = filled /\ c.effect # noModule
  BY <1>1, FilledIs, FreshIs
<1> HIDE DEF c
<1>3. Reversible(program.chain, c)
  BY <1>2, FilledIs DEF Reversible
<1>4. <<c>> \in Seq(EditCommand)
  BY <1>2
<1> QED BY <1>1, <1>3, <1>4, OneReplays, ChainKeeps

LEMMA ReplaceKeeps ==
  ASSUME HistoryInv, NEW s \in Slot, NEW e \in Effect, ReplaceModule(s, e)
  PROVE  HistoryInv'
<1> DEFINE c == Fresh(s, e)
<1>1. s < filled /\ EditChain(<<c>>)
  BY DEF ReplaceModule
<1>2. c \in EditCommand /\ c.kind = "slot" /\ c.slot = s /\ c.effect # noModule
  BY FreshIs
<1> HIDE DEF c
<1>3. Reversible(program.chain, c)
  BY <1>1, <1>2, FilledIs DEF Reversible
<1>4. <<c>> \in Seq(EditCommand)
  BY <1>2
<1> QED BY <1>1, <1>3, <1>4, OneReplays, ChainKeeps

\* A new module at the end, then moved to where it was dropped.
LEMMA InsertKeeps ==
  ASSUME HistoryInv, NEW s \in Slot, NEW e \in Effect, InsertModule(s, e)
  PROVE  HistoryInv'
<1> DEFINE c == Fresh(filled, e)
           d == MoveStep(filled, s)
           chain == program.chain
<1>1. s < filled /\ filled < MaxModules /\ EditChain(<<c, d>>)
  BY DEF InsertModule
<1>2. c \in EditCommand /\ c.kind = "slot" /\ c.slot = filled /\ c.effect # noModule
      /\ ModuleOf(c) \in Module
  <2>1. c \in EditCommand /\ c.kind = "slot" /\ c.slot = filled /\ c.effect = e /\ e # noModule
    BY <1>1, FilledIs, FreshIs
  <2>2. c.value \in Value
    BY <2>1, CommandIs
  <2> QED BY <2>1, <2>2 DEF ModuleOf, Module
<1>3. d \in EditCommand /\ d.kind = "move" /\ d.from = filled /\ d.to = s
  BY <1>1, FilledIs, CommandType DEF MoveStep
<1> HIDE DEF c, d, chain
<1>4. Reversible(chain, c) /\ ChainAfter(chain, c) = Append(chain, ModuleOf(c))
  BY <1>2, FilledIs DEF Reversible, ChainAfter, chain
<1>5. Len(Append(chain, ModuleOf(c))) = filled + 1
  BY <1>2, FilledIs, AddedRemoved DEF chain
<1>6. Reversible(ChainAfter(chain, c), d)
  BY <1>1, <1>3, <1>4, <1>5, FilledIs DEF Reversible, MoveNamesModules
<1>7. <<c, d>> \in Seq(EditCommand)
  BY <1>2, <1>3
<1>8. \E q : Replaying(q, chain, <<c, d>>)
  BY <1>4, <1>6, TwoReplay
<1> QED BY <1>1, <1>7, <1>8, ChainKeeps DEF chain

\* A module further up removed, and its step taken back: written over the one
\* that has moved into its slot.
LEMMA WrittenOverNext ==
  ASSUME NEW chain \in Seq(Module), NEW s \in Nat, s + 1 < Len(chain)
  PROVE  LET shorter == RemoveAt(chain, s + 1)
         IN  /\ shorter \in Seq(Module) /\ Len(shorter) = Len(chain) - 1
             /\ [shorter EXCEPT ![s + 1] = chain[s + 1]] = RemoveAt(chain, s + 2)
<1> DEFINE m == Len(chain)
           x == chain[s + 1]
           shorter == RemoveAt(chain, s + 1)
           a == [shorter EXCEPT ![s + 1] = x]
           b == RemoveAt(chain, s + 2)
<1>0. m \in Nat /\ s + 1 \in 1 .. m /\ s + 2 \in 1 .. m /\ s + 1 \in 1 .. m - 1
  BY LenProperties
<1>1. x \in Module
  BY <1>0, ElementOfSeq
<1>2. /\ shorter \in Seq(Module) /\ Len(shorter) = m - 1
      /\ \A k \in 1 .. (s + 1) - 1 : shorter[k] = chain[k]
      /\ \A k \in s + 1 .. m - 1 : shorter[k] = chain[k + 1]
  BY <1>0, Removed
<1>3. /\ b \in Seq(Module) /\ Len(b) = m - 1
      /\ \A k \in 1 .. (s + 2) - 1 : b[k] = chain[k]
      /\ \A k \in s + 2 .. m - 1 : b[k] = chain[k + 1]
  BY <1>0, Removed
<1> HIDE DEF shorter, b, x, m
<1>4. s + 1 \in 1 .. Len(shorter)
  BY <1>0, <1>2
<1>5. /\ a \in Seq(Module) /\ Len(a) = m - 1
      /\ \A k \in 1 .. m - 1 : a[k] = IF k = s + 1 THEN x ELSE shorter[k]
  BY <1>1, <1>2, <1>4, ExceptSeq
<1> HIDE DEF a
<1>6. ASSUME NEW k \in 1 .. m - 1 PROVE a[k] = b[k]
  <2>1. CASE k = s + 1
    BY <1>0, <1>3, <1>5, <2>1 DEF x
  <2>2. CASE k < s + 1
    <3>1. k \in 1 .. (s + 1) - 1 /\ k \in 1 .. (s + 2) - 1 /\ k # s + 1
      BY <1>0, <2>2
    <3> QED BY <1>2, <1>3, <1>5, <3>1
  <2>3. CASE k > s + 1
    <3>1. k \in s + 1 .. m - 1 /\ k \in s + 2 .. m - 1 /\ k # s + 1
      BY <1>0, <2>3
    <3> QED BY <1>2, <1>3, <1>5, <3>1
  <2> QED BY <1>0, <2>1, <2>2, <2>3
<1>7. a = b
  BY <1>3, <1>5, <1>6, SeqEqual
<1> QED BY <1>2, <1>7 DEF a, b, x, shorter, m

\* The last module removed is one of the commands that can be taken back; one
\* further up leads back only as far as the chain without the next one.
LEMMA RemoveKeeps ==
  ASSUME HistoryInv, NEW s \in Slot, RemoveModule(s)
  PROVE  HistoryInv'
<1> DEFINE c == SlotState(s, noModule, Default)
           chain == program.chain
           from == [program EXCEPT !.chain = RemoveAt(chain, s + 2)]
<1>1. \/ s + 1 = filled /\ EditChain(<<c>>)
      \/ s + 1 < filled /\ EditChainOver(<<c>>, Len(undo), from)
  BY DEF RemoveModule
<1>2. /\ c \in EditCommand /\ c.kind = "slot" /\ c.slot = s /\ c.effect = noModule
      /\ c.value = Default
  BY CommandType, ValueAssumption DEF SlotState, Choice
<1>3. CASE s + 1 = filled /\ EditChain(<<c>>)
  <2> HIDE DEF c
  <2>1. Reversible(program.chain, c)
    BY <1>2, <1>3, FilledIs DEF Reversible
  <2>2. <<c>> \in Seq(EditCommand)
    BY <1>2
  <2> QED BY <1>3, <2>1, <2>2, OneReplays, ChainKeeps
<1>4. CASE s + 1 < filled /\ EditChainOver(<<c>>, Len(undo), from)
  <2> DEFINE m == chain[s + 1]
             shorter == RemoveAt(chain, s + 1)
             other == RemoveAt(chain, s + 2)
             Q == ProgramOf(shorter, program.global)
             d == SlotState(s, m.effect, m.value)
             r == ChainEdit(<<d>>)
  <2>0. /\ chain \in Seq(Module) /\ Len(chain) \in Nat /\ Len(chain) <= MaxModules
        /\ s \in Nat /\ s + 1 < Len(chain) /\ MaxModules \in Nat
        /\ program \in Program /\ program = ProgramOf(chain, program.global)
        /\ program.global \in [Global -> Value]
    BY <1>4, FilledIs, ProgramIs
  <2>1. m \in Module /\ m = [effect |-> m.effect, value |-> m.value]
        /\ m.effect \in Choice /\ m.effect # noModule /\ m.value \in Value
    <3>1. s + 1 \in 1 .. Len(chain)
      BY <2>0
    <3>2. m \in Module
      BY <2>0, <3>1, ElementOfSeq
    <3> HIDE DEF m
    <3> QED BY <3>2, EffectAssumption DEF Module, Choice
  <2>2. /\ shorter \in Seq(Module) /\ Len(shorter) = Len(chain) - 1
        /\ [shorter EXCEPT ![s + 1] = m] = other
    BY <2>0, WrittenOverNext
  <2>3. other \in Seq(Module) /\ Len(other) = Len(chain) - 1
    <3>1. s + 2 \in 1 .. Len(chain)
      BY <2>0
    <3> QED BY <2>0, <3>1, Removed
  <2>4. CarriedOut(program, c) = Q
    <3>1. CarriedOut(program, c) = SlotEdited(program, s, noModule)
      BY <1>2 DEF CarriedOut
    <3>2. EffectIn(program, s) # noModule
      BY <2>0, <2>1 DEF EffectIn
    <3>3. InstallModuleInSlot(chain, s, noModule) = shorter
      BY <2>0 DEF InstallModuleInSlot
    <3>4. SlotEdited(program, s, noModule) = [program EXCEPT !.chain = shorter]
      BY <3>2, <3>3 DEF SlotEdited
    <3> HIDE DEF shorter
    <3>5. [program EXCEPT !.chain = shorter] = ProgramOf(shorter, program.global)
      BY <2>0 DEF ProgramOf
    <3> QED BY <3>1, <3>4, <3>5
  <2>5. InverseOf(program, c) = d
    <3>1. InverseOf(program, c) = CurrentSlotState(program, s)
      BY <1>2 DEF InverseOf
    <3> QED BY <2>0, <3>1 DEF CurrentSlotState
  <2>6. from = ProgramOf(other, program.global)
    <3> HIDE DEF other
    <3> QED BY <2>0 DEF ProgramOf, other
  <2> HIDE DEF m, shorter, other, c, from
  <2>7. Replayed(program, <<c>>) = [program |-> Q, inverse |-> <<d>>]
    BY <2>4, <2>5, OneReplayed
  <2>8. /\ inHand = {} /\ program' = Q /\ UNCHANGED <<pending, inHand>>
        /\ RecordOver(r, Len(undo), from)
    BY <1>4, <2>7 DEF EditChainOver
  <2>9. /\ d \in EditCommand /\ d.kind = "slot" /\ d.slot = s /\ d.effect # noModule
        /\ ModuleOf(d) = m
    BY <2>1, CommandType DEF SlotState, ModuleOf
  <2> HIDE DEF d
  <2>10. <<d>> \in Seq(EditCommand) /\ Len(<<d>>) = 1
    BY <2>9
  <2>11. Q \in Program /\ Q.chain = shorter /\ Q.global = program.global
    BY <2>0, <2>2, ProgramType
  <2>12. from \in Program
    BY <2>0, <2>3, <2>6, ProgramType
  <2> HIDE DEF Q
  <2>13. Reversible(Q.chain, d) /\ ChainAfter(Q.chain, d) = other
    <3>1. s < Len(shorter)
      BY <2>0, <2>2
    <3>2. Reversible(shorter, d)
      BY <2>9, <3>1, <2>0, <2>2 DEF Reversible
    <3>3. ChainAfter(shorter, d) = [shorter EXCEPT ![s + 1] = m]
      BY <2>9, <3>1 DEF ChainAfter
    <3> QED BY <2>2, <2>11, <3>2, <3>3
  <2>14. r \in UndoStep /\ r.kind = "chain" /\ r.commands = <<d>>
    BY <2>10, StepType
  <2> HIDE DEF r
  <2>15. PutsBack(Q, r)
    BY <2>13, <2>14, OneReplays DEF PutsBack
  <2>16. Leading(Q, r) = from
    <3>1. Leading(Q, r) = Replayed(Q, <<d>>).program
      BY <2>14, AppliedIs DEF Leading
    <3>2. Replayed(Q, <<d>>).program = CarriedOut(Q, d)
      <4>1. Replayed(Q, <<d>>) = [program |-> CarriedOut(Q, d), inverse |-> <<InverseOf(Q, d)>>]
        BY Zenon, OneReplayed
      <4> QED BY <4>1
    <3>3. CarriedOut(Q, d) = ProgramOf(ChainAfter(Q.chain, d), Q.global)
      BY <2>9, <2>11, <2>13, CarriedOutIs
    <3> QED BY <2>6, <2>11, <2>13, <3>1, <3>2, <3>3
  <2>17. /\ undo \in Seq(UndoStep) /\ Len(undo) \in Nat /\ Len(undo) \in 0 .. Len(undo)
    BY LenProperties DEF HistoryInv, StacksHold
  <2>18. LeadsBack(Leading(Q, r), StepsAfter(undo, Len(undo)), from)
    BY <2>12, <2>16, <2>17, AfterAll, NothingLeads
  <2>19. pending = NothingHeld /\ Released(program', pending') = Q
    BY <2>8, NothingInHand, NothingReleased
  <2>20. OneInHand' /\ OneSetAside'
    BY <2>8, <2>19 DEF OneInHand, OneSetAside
  <2>21. r.kind = "value" => \E v \in Value : Q = WithValue(Released(program, pending), r.id, v)
    BY <2>14
  <2> QED BY <2>8, <2>11, <2>14, <2>15, <2>17, <2>18, <2>19, <2>20, <2>21, RecordOverKeeps
<1> HIDE DEF from, c
<1> QED BY <1>1, <1>3, <1>4

LEMMA MoveStepIs ==
  ASSUME HistoryInv, NEW from \in Nat, NEW to \in Nat, from # to, from < filled, to < filled
  PROVE  /\ MoveStep(from, to) \in EditCommand /\ MoveStep(from, to).kind = "move"
         /\ MoveStep(from, to).from = from /\ MoveStep(from, to).to = to
         /\ \A chain : Len(chain) = filled => Reversible(chain, MoveStep(from, to))
         /\ ChainAfter(program.chain, MoveStep(from, to)) \in Seq(Module)
         /\ Len(ChainAfter(program.chain, MoveStep(from, to))) = filled
<1> DEFINE c == MoveStep(from, to)
           chain == program.chain
<1>1. c \in EditCommand /\ c.kind = "move" /\ c.from = from /\ c.to = to
  <2>1. from \in Slot /\ to \in Slot
    BY FilledIs
  <2> QED BY <2>1, CommandType DEF MoveStep
<1> HIDE DEF c, chain
<1>2. \A d : Len(d) = filled => Reversible(d, c)
  BY <1>1 DEF Reversible, MoveNamesModules
<1>3. ChainAfter(chain, c) = MoveModule(chain, from, to)
  BY <1>1 DEF ChainAfter
<1>4. chain \in Seq(Module) /\ MoveNamesModules(chain, from, to) /\ Len(chain) = filled
  BY FilledIs DEF MoveNamesModules, chain
<1>5. MoveModule(chain, from, to) \in Seq(Module)
      /\ Len(MoveModule(chain, from, to)) = Len(chain)
  BY <1>4, MoveType
<1> QED BY <1>1, <1>2, <1>3, <1>4, <1>5 DEF c, chain

LEMMA MoveKeeps ==
  ASSUME HistoryInv, NEW from \in Slot, NEW to \in Slot, MoveModuleSlot(from, to)
  PROVE  HistoryInv'
<1> DEFINE c == MoveStep(from, to)
<1>1. /\ from # to /\ from < filled /\ to < filled /\ EditChain(<<c>>)
      /\ from \in Nat /\ to \in Nat
  BY FilledIs DEF MoveModuleSlot
<1>2. c \in EditCommand /\ Reversible(program.chain, c)
  BY <1>1, MoveStepIs, FilledIs
<1> HIDE DEF c
<1>3. <<c>> \in Seq(EditCommand)
  BY <1>2
<1> QED BY <1>1, <1>2, <1>3, OneReplays, ChainKeeps

LEMMA SwapKeeps ==
  ASSUME HistoryInv, NEW first \in Slot, NEW second \in Slot, SwapModuleSlots(first, second)
  PROVE  HistoryInv'
<1> DEFINE c == MoveStep(first, second)
           d == MoveStep(second - 1, first)
<1>1. /\ first < second /\ second < filled /\ first \in Nat /\ second \in Nat
      /\ EditChain(IF second - 1 = first THEN <<c>> ELSE <<c, d>>)
  BY FilledIs DEF SwapModuleSlots
<1>2. first # second /\ first < filled /\ filled \in Nat
  BY <1>1, FilledIs
<1>3. /\ c \in EditCommand /\ Reversible(program.chain, c)
      /\ Len(ChainAfter(program.chain, c)) = filled
  BY <1>1, <1>2, MoveStepIs, FilledIs
<1>4. CASE second - 1 = first
  <2> HIDE DEF c, d
  <2>1. EditChain(<<c>>) /\ <<c>> \in Seq(EditCommand)
    BY <1>1, <1>3, <1>4
  <2> QED BY <1>3, <2>1, OneReplays, ChainKeeps
<1>5. CASE second - 1 # first
  <2>1. second - 1 \in Nat /\ second - 1 < filled
    BY <1>1, <1>2
  <2>2. d \in EditCommand /\ \A chain : Len(chain) = filled => Reversible(chain, d)
    BY <1>2, <1>5, <1>1, <2>1, MoveStepIs
  <2> HIDE DEF c, d
  <2>3. EditChain(<<c, d>>) /\ <<c, d>> \in Seq(EditCommand)
    BY <1>1, <1>3, <1>5, <2>2
  <2>4. \E q : Replaying(q, program.chain, <<c, d>>)
    BY <1>3, <2>2, TwoReplay
  <2> QED BY <2>3, <2>4, ChainKeeps
<1> QED BY <1>4, <1>5

-----------------------------------------------------------------------------
(* Whole programs, and the steps back and forth.                           *)

LEMMA FilesAre == Files \subseteq Program /\ Empty \in Program
<1>1. MaxModules \in Nat /\ 1 <= MaxModules
  BY MaxModulesAssumption
<1>2. ASSUME NEW f \in Files PROVE f \in Program
  <2>1. PICK e \in Effect, v \in Value : f.chain = <<[effect |-> e, value |-> v]>>
    BY DEF Files
  <2>2. PICK v2 \in Value : f.global = [p \in Global |-> v2]
    BY DEF Files
  <2> DEFINE m == [effect |-> e, value |-> v]
  <2>3. m \in Module
    BY DEF Module
  <2>4. f.chain = <<m>>
    BY <2>1
  <2> HIDE DEF m
  <2>5. f.chain \in Seq(Module) /\ Len(f.chain) = 1 /\ f.global \in [Global -> Value]
    BY <2>2, <2>3, <2>4
  <2>6. f = ProgramOf(f.chain, f.global)
    BY DEF Files, ProgramOf
  <2> QED BY <1>1, <2>5, <2>6, ProgramType
<1>3. Empty \in Program
  <2> DEFINE c == <<>>
             g == [p \in Global |-> Default]
  <2>1. c \in Seq(Module) /\ Len(c) <= MaxModules
    BY <1>1
  <2>2. g \in [Global -> Value]
    BY ValueAssumption
  <2>3. Empty = ProgramOf(c, g)
    BY DEF Empty, ProgramOf
  <2> HIDE DEF c, g
  <2>4. ProgramOf(c, g) \in Program
    BY <2>1, <2>2, ProgramType
  <2> QED BY <2>3, <2>4
<1> QED BY <1>2, <1>3

LEMMA PresetKeeps ==
  ASSUME HistoryInv, NEW loaded \in Files \cup {program}, LoadsPreset(loaded)
  PROVE  HistoryInv'
<1> DEFINE r == StateSnapshot(program)
<1>0. /\ program \in Program /\ inHand = {} /\ program' = loaded /\ inHand' = inHand
      /\ pending' = NothingHeld /\ Record(r)
  BY DEF LoadsPreset, ForgottenAtEnd, HistoryInv, StacksHold
<1>1. loaded \in Program
  BY <1>0, FilesAre
<1>2. r \in UndoStep /\ r.kind = "state" /\ r.program = program
  BY <1>0, StepType
<1> HIDE DEF r
<1>3. PutsBack(loaded, r) /\ Leading(loaded, r) = program
  BY <1>2, AppliedIs DEF PutsBack, Leading
<1>4. /\ Released(program, pending) = program
      /\ Released(program', pending') = loaded
  BY <1>0, NothingInHand, NothingReleased
<1>5. OneInHand' /\ OneSetAside'
  BY <1>0 DEF OneInHand, OneSetAside
<1>6. r.kind = "value" => \E x \in Value : loaded = WithValue(program, r.id, x)
  BY <1>2
<1> QED BY <1>0, <1>1, <1>2, <1>3, <1>4, <1>5, <1>6, RecordKeeps

LEMMA StateKeeps ==
  ASSUME HistoryInv, NEW loaded \in Files, StateLoad(loaded)
  PROVE  HistoryInv'
<1>0. /\ loaded \in Program /\ program' = loaded /\ pending' = NothingHeld
      /\ inHand' = inHand \cap Global /\ undo' = <<>> /\ redo' = <<>>
      /\ origin' = loaded /\ ahead' = loaded /\ beyond' = 0 /\ astray' = FALSE
  BY FilesAre DEF StateLoad
<1>1. StacksHold'
  <2>1. <<>> \in Seq(UndoStep) /\ Len(<<>>) = 0 /\ 0 + 0 <= Depth /\ 0 \in 0 .. 0
    BY DepthAssumption
  <2> QED BY <1>0, <2>1 DEF StacksHold
<1>2. OneInHand'
  <2>1. CASE inHand' = {}
    BY <2>1 DEF OneInHand
  <2>2. CASE inHand' # {}
    <3>1. PICK p \in Parameter : inHand = {p}
      BY <1>0, <2>2 DEF HistoryInv, OneInHand
    <3>2. inHand' = {p} /\ p \in Global
      BY <1>0, <2>2, <3>1
    <3> QED BY <3>2 DEF OneInHand, Exists
  <2> QED BY <2>1, <2>2
<1>3. OneSetAside'
  BY <1>0 DEF OneSetAside
<1>4. LeadsBack(loaded, <<>>, loaded)
  BY <1>0, NothingLeads
<1>5. Released(program', pending') = loaded
  BY <1>0, NothingReleased
<1>6. Reaching' = <<>>
  <2>1. <<>> \in Seq(UndoStep)
    OBVIOUS
  <2>2. StepsAfter(<<>>, 0) = <<>>
    BY <2>1, AfterAll
  <2> QED BY <1>0, <2>2, ReachingIs
<1> QED BY <1>0, <1>1, <1>2, <1>3, <1>4, <1>5, <1>6 DEF HistoryInv, BackLeads, ForthLeads

\* A load that fails: what a drag set aside is gone, and the stacks are left to
\* a program that has as many modules.
LEMMA StateFailsKeeps ==
  ASSUME HistoryInv, StateLoadFails
  PROVE  HistoryInv'
<1> DEFINE R == Released(program, pending)
<1>0. /\ program \in Program /\ pending' = NothingHeld /\ Reaching \in Seq(UndoStep)
      /\ redo \in Seq(UndoStep) /\ ahead \in Program
      /\ UNCHANGED <<program, undo, redo, inHand, beyond, astray>>
      /\ origin' = Unwound(program, Reaching)
      /\ ahead' = IF astray THEN program ELSE Unwound(program, redo)
  <2>1. Reaching \in Seq(UndoStep)
    BY ReachingType
  <2> QED BY <2>1 DEF StateLoadFails, ForgottenAtEnd, HistoryInv, StacksHold, history
<1>1. R \in Program /\ Len(program.chain) = Len(R.chain)
  <2>1. CASE pending = NothingHeld
    BY <1>0, <2>1, NothingReleased
  <2>2. CASE pending # NothingHeld
    <3>1. PICK p \in inHand, v \in Value : pending = SetAside(p, v)
      BY <2>2 DEF HistoryInv, OneSetAside
    <3>2. p \in Parameter
      BY <3>1 DEF HistoryInv, OneInHand
    <3> QED BY <1>0, <3>1, <3>2, SetAsideReleased, WriteType
  <2> QED BY <2>1, <2>2
<1>2. LeadsBack(R, Reaching, origin)
  BY DEF HistoryInv, BackLeads
<1>3. ~astray => IF redo = <<>> THEN ahead = ahead ELSE LeadsBack(R, redo, ahead)
  BY DEF HistoryInv, ForthLeads
<1> HIDE DEF R
<1>4. LeadsBack(program, Reaching, origin')
  BY <1>0, <1>1, <1>2, LeadsFromElsewhere
<1>5. ~astray => ahead' \in Program /\ LeadsBack(program, redo, ahead')
  <2>1. CASE redo = <<>>
    <3>1. LeadsBack(program, redo, program)
      BY <1>0, <2>1, NothingLeads
    <3> QED BY <1>0, <3>1, LeadsFromElsewhere
  <2>2. CASE redo # <<>>
    BY <1>0, <1>1, <1>3, <2>2, LeadsFromElsewhere
  <2> QED BY <2>1, <2>2
<1>6. Released(program', pending') = program /\ Reaching' = Reaching
  BY <1>0, NothingReleased, ReachingIs
<1>7. StacksHold'
  <2>1. ahead' \in Program
    BY <1>0, <1>5
  <2> QED BY <1>0, <2>1 DEF HistoryInv, StacksHold
<1>8. OneInHand' /\ OneSetAside'
  BY <1>0 DEF HistoryInv, OneInHand, OneSetAside
<1>9. BackLeads' /\ ForthLeads'
  BY <1>0, <1>4, <1>5, <1>6 DEF BackLeads, ForthLeads
<1> QED BY <1>7, <1>8, <1>9 DEF HistoryInv

\* A step off one stack, and what takes it back onto the other.
LEMMA StepTaken ==
  ASSUME NEW P \in Program, NEW from \in Seq(UndoStep), NEW to \in Seq(UndoStep),
         Len(from) + Len(to) <= Depth, from # <<>>
  PROVE  LET a == Applied(P, Last(from))
         IN  /\ a.program \in Program /\ a.inverse \in UndoStep
             /\ Front(from) \in Seq(UndoStep) /\ Append(to, a.inverse) \in Seq(UndoStep)
             /\ PushDropping(to, a.inverse) = Append(to, a.inverse)
             /\ Len(Front(from)) + Len(Append(to, a.inverse)) <= Depth
             /\ Len(Append(to, a.inverse)) + Len(Front(from)) <= Depth
<1> DEFINE r == Last(from)
           a == Applied(P, r)
           i == a.inverse
<1>0. Len(from) \in Nat /\ Len(to) \in Nat /\ Depth \in Nat /\ Len(from) # 0
  BY LenProperties, EmptySeq, DepthAssumption
<1>1. r \in UndoStep /\ Front(from) \in Seq(UndoStep) /\ Len(Front(from)) = Len(from) - 1
  BY FrontAndLast
<1>2. a.program \in Program /\ i \in UndoStep
  <2> HIDE DEF r
  <2> QED BY <1>1, AnyStep
<1> HIDE DEF r, a, i
<1>3. PushDropping(to, i) = Append(to, i)
  BY <1>0 DEF PushDropping
<1>4. Append(to, i) \in Seq(UndoStep) /\ Len(Append(to, i)) = Len(to) + 1
  BY <1>2
<1>5. /\ Len(Front(from)) + Len(Append(to, i)) <= Depth
      /\ Len(Append(to, i)) + Len(Front(from)) <= Depth
  BY <1>0, <1>1, <1>4
<1> QED BY <1>1, <1>2, <1>3, <1>4, <1>5 DEF r, a, i

\* What is left of a stack leads where it did, and so does another one with what
\* takes the step back on top.
LEMMA StepLeads ==
  ASSUME NEW P \in Program, NEW path \in Seq(UndoStep), path # <<>>,
         NEW O, LeadsBack(P, path, O)
  PROVE  LET a == Applied(P, Last(path))
         IN  /\ LeadsBack(a.program, Front(path), O)
             /\ \A other, A :
                  other \in Seq(UndoStep) /\ LeadsBack(P, other, A)
                    => LeadsBack(a.program, Append(other, a.inverse), A)
<1> DEFINE r == Last(path)
           a == Applied(P, r)
           Q == a.program
           i == a.inverse
<1>1. r \in UndoStep /\ PutsBack(P, r) /\ LeadsBack(Q, Front(path), O)
  BY OneLessLeads DEF Leading
<1>2. Q \in Program /\ i \in UndoStep /\ PutsBack(Q, i) /\ Leading(Q, i) = P
  <2> HIDE DEF r
  <2> QED BY <1>1, StepBack
<1> HIDE DEF r, a, Q, i
<1>3. ASSUME NEW other \in Seq(UndoStep), NEW A, LeadsBack(P, other, A)
      PROVE  LeadsBack(Q, Append(other, i), A)
  BY <1>2, <1>3, OneMoreLeads
<1> QED BY <1>1, <1>3 DEF r, a, Q, i

\* Gone astray, nothing is left that should lead anywhere.
LEMMA AstrayKeeps ==
  ASSUME program' \in Program, undo' \in Seq(UndoStep), redo' \in Seq(UndoStep),
         Len(undo') + Len(redo') <= Depth, inHand' = {}, pending' = NothingHeld, GoneAstray
  PROVE  HistoryInv'
<1>1. /\ origin' = program' /\ beyond' = Len(undo') /\ ahead' = program' /\ astray' = TRUE
      /\ Len(undo') \in 0 .. Len(undo')
  BY LenProperties DEF GoneAstray
<1>2. Reaching' = <<>>
  BY <1>1, ReachingIs, AfterAll
<1>3. Released(program', pending') = program'
  BY NothingReleased
<1>4. LeadsBack(program', <<>>, program')
  BY NothingLeads
<1>5. StacksHold'
  BY <1>1 DEF StacksHold
<1>6. OneInHand' /\ OneSetAside'
  BY DEF OneInHand, OneSetAside
<1>7. BackLeads' /\ ForthLeads'
  BY <1>1, <1>2, <1>3, <1>4 DEF BackLeads, ForthLeads
<1> QED BY <1>5, <1>6, <1>7 DEF HistoryInv

LEMMA UndoKeeps ==
  ASSUME HistoryInv, Undo
  PROVE  HistoryInv'
<1> DEFINE a == Applied(program, Last(undo))
<1>0. /\ inHand = {} /\ undo # <<>> /\ program' = a.program /\ undo' = Front(undo)
      /\ redo' = PushDropping(redo, a.inverse) /\ UNCHANGED <<pending, inHand>>
      /\ IF beyond < Len(undo) THEN UNCHANGED <<origin, beyond, ahead, astray>> ELSE GoneAstray
  BY DEF Undo, ghosts
<1>1. /\ pending = NothingHeld /\ LeadsBack(program, Reaching, origin)
      /\ ~astray => LeadsBack(program, redo, ahead)
      /\ program \in Program /\ undo \in Seq(UndoStep) /\ redo \in Seq(UndoStep)
      /\ Len(undo) + Len(redo) <= Depth /\ ahead \in Program
      /\ beyond \in 0 .. Len(undo) /\ astray \in BOOLEAN /\ Len(undo) \in Nat
  BY <1>0, NothingInHand, LenProperties DEF HistoryInv, StacksHold
<1>2. /\ program' \in Program /\ undo' \in Seq(UndoStep) /\ redo' \in Seq(UndoStep)
      /\ redo' = Append(redo, a.inverse) /\ Len(undo') + Len(redo') <= Depth
  <2>1. /\ a.program \in Program /\ Front(undo) \in Seq(UndoStep)
        /\ Append(redo, a.inverse) \in Seq(UndoStep)
        /\ PushDropping(redo, a.inverse) = Append(redo, a.inverse)
        /\ Len(Front(undo)) + Len(Append(redo, a.inverse)) <= Depth
    BY <1>0, <1>1, StepTaken
  <2> HIDE DEF a
  <2> QED BY <1>0, <2>1
<1>3. inHand' = {} /\ pending' = NothingHeld
  BY <1>0, <1>1
<1>4. CASE beyond < Len(undo)
  <2>1. /\ beyond \in 0 .. Len(Front(undo)) /\ Reaching \in Seq(UndoStep) /\ Reaching # <<>>
        /\ Last(Reaching) = Last(undo) /\ Front(Reaching) = StepsAfter(Front(undo), beyond)
    BY <1>1, <1>4, ReachingIs, AfterIs, AfterTakenBack
  <2>2. UNCHANGED <<origin, beyond, ahead, astray>>
    BY <1>0, <1>4
  <2>3. Reaching' = Front(Reaching) /\ beyond' \in 0 .. Len(undo')
    BY <1>0, <2>1, <2>2, ReachingIs
  <2>4. /\ LeadsBack(program', Front(Reaching), origin)
        /\ \A other, A :
             other \in Seq(UndoStep) /\ LeadsBack(program, other, A)
               => LeadsBack(program', Append(other, a.inverse), A)
    BY <1>0, <1>1, <2>1, StepLeads
  <2>5. Released(program', pending') = program'
    BY <1>3, NothingReleased
  <2>6. StacksHold'
    BY <1>1, <1>2, <2>2, <2>3 DEF StacksHold
  <2>7. OneInHand' /\ OneSetAside'
    BY <1>3 DEF OneInHand, OneSetAside
  <2>8. BackLeads'
    BY <2>2, <2>3, <2>4, <2>5 DEF BackLeads
  <2>9. ForthLeads'
    <3>1. ~astray => LeadsBack(program', redo', ahead)
      BY <1>1, <1>2, <2>4
    <3> QED BY <2>2, <2>5, <3>1 DEF ForthLeads
  <2> QED BY <2>6, <2>7, <2>8, <2>9 DEF HistoryInv
<1>5. CASE ~(beyond < Len(undo))
  BY <1>0, <1>2, <1>3, <1>5, AstrayKeeps
<1> QED BY <1>4, <1>5

LEMMA RedoKeeps ==
  ASSUME HistoryInv, Redo
  PROVE  HistoryInv'
<1> DEFINE a == Applied(program, Last(redo))
<1>0. /\ inHand = {} /\ redo # <<>> /\ program' = a.program /\ redo' = Front(redo)
      /\ undo' = PushDropping(undo, a.inverse) /\ UNCHANGED <<pending, inHand>>
      /\ IF astray THEN GoneAstray ELSE UNCHANGED <<origin, beyond, ahead, astray>>
  BY DEF Redo, ghosts
<1>1. /\ pending = NothingHeld /\ LeadsBack(program, Reaching, origin)
      /\ ~astray => LeadsBack(program, redo, ahead)
      /\ program \in Program /\ undo \in Seq(UndoStep) /\ redo \in Seq(UndoStep)
      /\ Len(redo) + Len(undo) <= Depth /\ ahead \in Program /\ Len(undo) \in Nat
      /\ beyond \in 0 .. Len(undo) /\ astray \in BOOLEAN /\ Reaching \in Seq(UndoStep)
  <2>1. Len(undo) \in Nat /\ Len(redo) \in Nat /\ Len(undo) + Len(redo) <= Depth
    BY LenProperties DEF HistoryInv, StacksHold
  <2>2. Len(redo) + Len(undo) <= Depth
    BY <2>1, DepthAssumption
  <2> QED BY <1>0, <2>1, <2>2, NothingInHand, ReachingType DEF HistoryInv, StacksHold
<1>2. /\ program' \in Program /\ undo' \in Seq(UndoStep) /\ redo' \in Seq(UndoStep)
      /\ undo' = Append(undo, a.inverse) /\ a.inverse \in UndoStep
      /\ Len(undo') + Len(redo') <= Depth
  <2>1. /\ a.program \in Program /\ Front(redo) \in Seq(UndoStep)
        /\ Append(undo, a.inverse) \in Seq(UndoStep) /\ a.inverse \in UndoStep
        /\ PushDropping(undo, a.inverse) = Append(undo, a.inverse)
        /\ Len(Append(undo, a.inverse)) + Len(Front(redo)) <= Depth
    BY <1>0, <1>1, StepTaken
  <2> HIDE DEF a
  <2> QED BY <1>0, <2>1
<1>3. inHand' = {} /\ pending' = NothingHeld
  BY <1>0, <1>1
<1>4. CASE ~astray
  <2>1. UNCHANGED <<origin, beyond, ahead, astray>>
    BY <1>0, <1>4
  <2>2. /\ Len(Append(undo, a.inverse)) = Len(undo) + 1
        /\ StepsAfter(Append(undo, a.inverse), beyond)
             = Append(StepsAfter(undo, beyond), a.inverse)
    BY <1>1, <1>2, AfterAppended
  <2>3. Reaching' = Append(Reaching, a.inverse)
    BY <1>2, <2>1, <2>2, ReachingIs
  <2>4. beyond' \in 0 .. Len(undo')
    <3>1. beyond \in 0 .. Len(undo) + 1
      BY <1>1
    <3> QED BY <1>2, <2>1, <2>2, <3>1
  <2>5. /\ LeadsBack(program', redo', ahead)
        /\ \A other, A :
             other \in Seq(UndoStep) /\ LeadsBack(program, other, A)
               => LeadsBack(program', Append(other, a.inverse), A)
    BY <1>0, <1>1, <1>4, StepLeads
  <2> HIDE DEF a
  <2>6. LeadsBack(program', Append(Reaching, a.inverse), origin)
    BY <1>1, <2>5
  <2>7. Released(program', pending') = program'
    BY <1>3, NothingReleased
  <2>8. StacksHold'
    BY <1>1, <1>2, <2>1, <2>4 DEF StacksHold
  <2>9. OneInHand' /\ OneSetAside'
    BY <1>3 DEF OneInHand, OneSetAside
  <2>10. BackLeads' /\ ForthLeads'
    BY <2>1, <2>3, <2>5, <2>6, <2>7 DEF BackLeads, ForthLeads
  <2> QED BY <2>8, <2>9, <2>10 DEF HistoryInv
<1>5. CASE astray
  BY <1>0, <1>2, <1>3, <1>5, AstrayKeeps
<1> QED BY <1>4, <1>5

-----------------------------------------------------------------------------
LEMMA InitHistoryInv == HistoryInit => HistoryInv
<1> SUFFICES ASSUME HistoryInit PROVE HistoryInv
  OBVIOUS
<1>1. /\ program = Empty /\ origin = Empty /\ ahead = Empty /\ undo = <<>> /\ redo = <<>>
      /\ beyond = 0 /\ astray = FALSE
      /\ pending = NothingHeld /\ inHand = {} /\ Empty \in Program
  BY FilesAre DEF HistoryInit
<1>2. <<>> \in Seq(UndoStep) /\ Len(<<>>) = 0 /\ 0 + 0 <= Depth /\ 0 \in 0 .. 0
  BY DepthAssumption
<1>3. LeadsBack(Empty, <<>>, Empty) /\ Released(Empty, NothingHeld) = Empty
  BY <1>1, NothingLeads, NothingReleased
<1>4. Reaching = <<>>
  <2>1. StepsAfter(<<>>, 0) = <<>>
    BY <1>2, AfterAll
  <2> QED BY <1>1, <2>1, ReachingIs
<1> QED BY <1>1, <1>2, <1>3, <1>4
        DEF HistoryInv, StacksHold, OneInHand, OneSetAside, BackLeads, ForthLeads

LEMMA NextHistoryInv == HistoryInv /\ [HistoryNext]_historyVars => HistoryInv'
<1> SUFFICES ASSUME HistoryInv, [HistoryNext]_historyVars PROVE HistoryInv'
  OBVIOUS
<1>1. CASE UNCHANGED historyVars
  <2>1. UNCHANGED <<program, undo, redo, pending, inHand, origin, beyond, ahead, astray>>
    BY <1>1 DEF historyVars, history, ghosts
  <2>2. Reaching' = Reaching
    BY <2>1, ReachingIs
  <2> QED BY <2>1, <2>2
          DEF HistoryInv, StacksHold, OneInHand, OneSetAside, BackLeads, ForthLeads
<1>2. ASSUME NEW p \in Parameter, BeginGesture(p) PROVE HistoryInv'
  BY <1>2, BeginKeeps
<1>3. ASSUME NEW p \in Parameter, EndGesture(p) PROVE HistoryInv'
  BY <1>3, EndKeeps
<1>4. ASSUME NEW p \in Parameter, NEW v \in Value, EditParameter(p, v) PROVE HistoryInv'
  BY <1>4, EditKeeps
<1>5. ASSUME NEW p \in Parameter, NEW v \in Value, PublishValue(p, v) PROVE HistoryInv'
  BY <1>5, PublishKeeps
<1>6. ASSUME NEW p \in Global, NEW v \in Value, HostWrites(p, v) PROVE HistoryInv'
  BY <1>6, HostKeeps
<1>7. ASSUME NEW e \in Effect, AddModule(e) PROVE HistoryInv'
  BY <1>7, AddKeeps
<1>8. ASSUME NEW s \in Slot, NEW e \in Effect, ReplaceModule(s, e) PROVE HistoryInv'
  BY <1>8, ReplaceKeeps
<1>9. ASSUME NEW s \in Slot, NEW e \in Effect, InsertModule(s, e) PROVE HistoryInv'
  BY <1>9, InsertKeeps
<1>10. ASSUME NEW s \in Slot, RemoveModule(s) PROVE HistoryInv'
  BY <1>10, RemoveKeeps
<1>11. ASSUME NEW s \in Slot, NEW t \in Slot, MoveModuleSlot(s, t) PROVE HistoryInv'
  BY <1>11, MoveKeeps
<1>12. ASSUME NEW s \in Slot, NEW t \in Slot, SwapModuleSlots(s, t) PROVE HistoryInv'
  BY <1>12, SwapKeeps
<1>13. ASSUME NEW loaded \in Files \cup {program}, LoadsPreset(loaded) PROVE HistoryInv'
  BY <1>13, PresetKeeps
<1>14. ASSUME NEW loaded \in Files, StateLoad(loaded) PROVE HistoryInv'
  BY <1>14, StateKeeps
<1>15. CASE StateLoadFails
  BY <1>15, StateFailsKeeps
<1>16. CASE Undo
  BY <1>16, UndoKeeps
<1>17. CASE Redo
  BY <1>17, RedoKeeps
<1> QED BY <1>1, <1>2, <1>3, <1>4, <1>5, <1>6, <1>7, <1>8, <1>9, <1>10, <1>11, <1>12,
           <1>13, <1>14, <1>15, <1>16, <1>17 DEF HistoryNext

(* A session's history, whatever was dragged, typed, added, removed,       *)
(* moved, loaded, restored in vain and taken back or not, and however many *)
(* steps have been forgotten: taking back the steps there are and putting  *)
(* down what is in hand leads to the program the oldest of them was taken  *)
(* from; steps older than a removal with modules behind it, whose own step *)
(* leads to the chain without the module next to it, are not gone through. *)
THEOREM UndoLeadsBack == HistorySpec => []UndoReachesOrigin
<1>1. HistoryInv => UndoReachesOrigin
  BY UnwoundAlong, ReachingType DEF HistoryInv, BackLeads, UndoReachesOrigin
<1> QED BY InitHistoryInv, NextHistoryInv, <1>1, PTL DEF HistorySpec

(* And with nothing in hand, going forward over every step taken back      *)
(* leads to where the user turned around, but for steps older than such a  *)
(* removal.                                                                *)
THEOREM RedoLeadsForth == HistorySpec => []RedoReachesEnd
<1>1. HistoryInv => RedoReachesEnd
  <2> SUFFICES ASSUME HistoryInv, inHand = {}, ~astray PROVE Unwound(program, redo) = ahead
    BY DEF RedoReachesEnd
  <2>1. LeadsBack(program, redo, ahead) /\ redo \in Seq(UndoStep)
    BY NothingInHand DEF HistoryInv, StacksHold
  <2> QED BY <2>1, UnwoundAlong
<1> QED BY InitHistoryInv, NextHistoryInv, <1>1, PTL DEF HistorySpec

(* The program and what its stacks lead to stay programs whatever is taken *)
(* back, the steps that were recorded for a program the user is no longer  *)
(* in included; the two stacks together stay within their depth, and what  *)
(* is set aside is a value of a parameter.                                 *)
THEOREM HistoryTyped == HistorySpec => []HistoryTypes
<1>1. HistoryInv => HistoryTypes
  <2> SUFFICES ASSUME HistoryInv PROVE HistoryTypes
    OBVIOUS
  <2>1. /\ program \in Program /\ ahead \in Program /\ Len(undo) + Len(redo) <= Depth
        /\ beyond \in 0 .. Len(undo) /\ astray \in BOOLEAN
    BY DEF HistoryInv, StacksHold
  <2>2. origin \in Program
    BY LeadsTypes, ReachingType DEF HistoryInv, BackLeads
  <2>3. inHand \subseteq Parameter
    BY DEF HistoryInv, OneInHand
  <2>4. pending \in [1 .. Places -> Held \cup {vacant}]
    <3>1. CASE pending = NothingHeld
      BY <3>1, SetAsideIs, ValueAssumption DEF NothingHeld
    <3>2. CASE pending # NothingHeld
      <4>1. PICK p \in inHand, v \in Value : pending = SetAside(p, v)
        BY <3>2 DEF HistoryInv, OneSetAside
      <4> QED BY <2>3, <4>1, SetAsideIs
    <3> QED BY <3>1, <3>2
  <2> QED BY <2>1, <2>2, <2>3, <2>4 DEF HistoryTypes
<1> QED BY InitHistoryInv, NextHistoryInv, <1>1, PTL DEF HistorySpec

=============================================================================
