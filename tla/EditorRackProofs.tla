--------------------------- MODULE EditorRackProofs ---------------------------
(***************************************************************************)
(* For chains of every length and any number of edits: no wake-up is lost  *)
(* between the audio thread, the host's callback and the editor, the rack  *)
(* is the chain once it is drawn, an edit takes what was pointed at, and   *)
(* the host ends with the selectors of the chain that is shown and saved.  *)
(***************************************************************************)
EXTENDS EditorRack, SequenceTheorems, FiniteSetTheorems, WellFoundedInduction, TLAPS

(* The flag of the echoes is up with a callback owed or its own clear on   *)
(* the way, a rescan waits with a callback owed or in progress that has    *)
(* still to come to it, and an undo with both its announcements raised.    *)
Flagged ==
  /\ rescan \in BOOLEAN /\ echoDrain \in BOOLEAN /\ asked \in BOOLEAN
  /\ chainChanged \in BOOLEAN /\ undrawn \in BOOLEAN /\ clearing \in BOOLEAN
Draining == thread \in {"drain", "drained"}
EchoOwed == /\ echoDrain => asked \/ clearing
            /\ clearing => Draining
RescanOwed == rescan => asked \/ (thread # "idle" /\ via = "callback")
UndoOwed == undrawn => chainChanged /\ rescan /\ thread # "rescan"
FlushAlone == ~running /\ audio = "events" => thread = "idle"
IInv == Flagged /\ EchoOwed /\ RescanOwed /\ UndoOwed /\ FlushAlone

LEMMA InitIInv == Init => IInv
  BY DEF Init, IInv, Flagged, Draining, EchoOwed, RescanOwed, UndoOwed, FlushAlone

LEMMA IInvCovers == IInv => CallbackOwed
  BY DEF IInv, Flagged, Draining, EchoOwed, RescanOwed, UndoOwed, CallbackOwed

(* What an edit may do to the flags: nothing, or ask for a rescan.         *)
LEMMA UserKeepsIInv == IInv /\ User => IInv'
<1> SUFFICES ASSUME IInv, User PROVE IInv'
  OBVIOUS
<1> USE DEF IInv, Flagged, Draining, EchoOwed, RescanOwed, UndoOwed, FlushAlone,
            flags, block, drain, screen, rings, Untouched
<1>1. CASE \E p \in Places : RemoveModule(p)
  BY <1>1 DEF RemoveModule, Clicked, MainFree
<1>2. CASE \E p \in Places : \E drop \in {SwapAt(s) : s \in Slot} \cup {InsertAtGap(g) : g \in 0 .. MaxModules} :
             ApplyModuleDrop(p, drop)
  BY <1>2 DEF ApplyModuleDrop, Clicked, MainFree
<1>3. CASE \E target \in Targets : ShowEffectMenu(target)
  BY <1>3 DEF ShowEffectMenu
<1>4. CASE \E effect \in Effect : ApplyEffectMenuChoice(effect)
  BY <1>4 DEF ApplyEffectMenuChoice, Clicked, MainFree
<1>5. CASE Undo
  BY <1>5 DEF Undo, Clicked, MainFree, ChainChanged, RequestRescan
<1>6. CASE \E effects \in Presets : LoadPreset(effects)
  <2>1. UNCHANGED <<toUI, chainChanged, echoDrain, clearing, undrawn, running, audio, thread, via>>
    BY <1>6 DEF LoadPreset
  <2>2. \/ UNCHANGED <<rescan, asked>>
        \/ rescan' = TRUE /\ asked' = (asked \/ ~rescan)
    BY <1>6 DEF LoadPreset, RequestRescan
  <2>3. CASE UNCHANGED <<rescan, asked>>
    BY <2>1, <2>3
  <2>4. CASE rescan' = TRUE /\ asked' = (asked \/ ~rescan)
    BY <2>1, <2>4
  <2> QED BY <2>2, <2>3, <2>4
<1> QED BY <1>1, <1>2, <1>3, <1>4, <1>5, <1>6 DEF User

(* The main thread: what it clears it has read, and what it raises it asks *)
(* a callback for.                                                         *)
LEMMA MainKeepsIInv ==
  IInv /\ (\/ RefreshMessage \/ OnMainThread \/ ClearBecomesVisible \/ StateSave
           \/ DrainEcho \/ DrainEchoesDone \/ DrainDone \/ ParamsRescan)
    => IInv'
<1> SUFFICES ASSUME IInv, \/ RefreshMessage \/ OnMainThread \/ ClearBecomesVisible \/ StateSave
                          \/ DrainEcho \/ DrainEchoesDone \/ DrainDone \/ ParamsRescan
             PROVE IInv'
  OBVIOUS
<1> USE DEF IInv, Flagged, Draining, EchoOwed, RescanOwed, UndoOwed, FlushAlone,
            flags, block, drain, screen, rings
<1>1. CASE RefreshMessage
  BY <1>1 DEF RefreshMessage, MainFree, ResyncModuleRack
<1>2. CASE OnMainThread
  BY <1>2 DEF OnMainThread, MainFree
<1>3. CASE StateSave
  BY <1>3 DEF StateSave, MainFree
<1>4. CASE DrainEcho
  BY <1>4 DEF DrainEcho
<1>5. CASE DrainDone
  BY <1>5 DEF DrainDone, RequestRescan, ResyncModuleRack
<1>6. CASE ParamsRescan
  BY <1>6 DEF ParamsRescan
<1>7. CASE ClearBecomesVisible
  BY <1>7 DEF ClearBecomesVisible
<1>8. CASE DrainEchoesDone
  BY <1>8 DEF DrainEchoesDone
<1> QED BY <1>1, <1>2, <1>3, <1>4, <1>5, <1>6, <1>7, <1>8

(* The engine's owner: every flag it raises it asks a callback for, unless *)
(* one was raised that is still to be taken.                               *)
LEMMA EngineKeepsIInv == IInv /\ (EnterEngine \/ Host \/ EventsDone \/ FlushUIEdits) => IInv'
<1> SUFFICES ASSUME IInv, EnterEngine \/ Host \/ EventsDone \/ FlushUIEdits PROVE IInv'
  OBVIOUS
<1> USE DEF IInv, Flagged, Draining, EchoOwed, RescanOwed, UndoOwed, FlushAlone,
            flags, block, drain, screen, rings
<1>1. CASE EnterEngine
  BY <1>1 DEF EnterEngine, ChainChanged, RequestRescan
<1>2. CASE Host
  <2>1. /\ audio = "events" /\ echoDrain' = TRUE /\ asked' = (asked \/ ~echoDrain)
        /\ UNCHANGED <<rescan, chainChanged, clearing, undrawn, running, audio, thread, via>>
    BY <1>2 DEF Host, HandleEvent
  <2> QED BY <2>1
<1>3. CASE EventsDone
  BY <1>3 DEF EventsDone, ChainChanged, RequestRescan
<1>4. CASE FlushUIEdits
  BY <1>4 DEF FlushUIEdits
<1> QED BY <1>1, <1>2, <1>3, <1>4

LEMMA IInvInductive == IInv /\ [Next]_vars => IInv'
<1> SUFFICES ASSUME IInv, [Next]_vars PROVE IInv'
  OBVIOUS
<1>1. CASE Next
  BY <1>1, UserKeepsIInv, MainKeepsIInv, EngineKeepsIInv DEF Next
<1>2. CASE UNCHANGED vars
  BY <1>2 DEF vars, screen, rings, flags, block, drain, IInv, Flagged, Draining,
              EchoOwed, RescanOwed, UndoOwed, FlushAlone
<1> QED BY <1>1, <1>2

(* While the main thread is its own, a rescan asked for, an undo the rack  *)
(* does not show or an echo behind a raised flag has a callback on its way *)
(* from the host, though one callback answers a whole batch, flags are     *)
(* raised on both threads, the drain may overtake the clear of its own     *)
(* flag and a save drains echoes without announcing.                       *)
THEOREM NoWakeUpIsLost == Spec => []CallbackOwed
<1>1. Init => IInv
  BY InitIInv
<1>2. IInv /\ [Next]_vars => IInv'
  BY IInvInductive
<1>3. IInv => CallbackOwed
  BY IInvCovers
<1> QED BY <1>1, <1>2, <1>3, PTL DEF Spec

-----------------------------------------------------------------------------
(* Commands carried out one after the other.                               *)

\* Induction over the naturals, for a set.
Earlier == {ss \in Nat \X Nat : ss[1] < ss[2]}
LEMMA NatInd ==
  ASSUME NEW S, 0 \in S, \A n \in Nat : n \in S => n + 1 \in S
  PROVE  \A n \in Nat : n \in S
<1> DEFINE T == Nat \ S
<1>1. IsWellFoundedOn(Earlier, Nat)
  BY NatLessThanWellFounded DEF OpToRel, Earlier
<1>2. SUFFICES ASSUME T # {} PROVE FALSE
  OBVIOUS
<1>3. PICK x \in T : \A y \in T : ~ (<<y, x>> \in Earlier)
  <2> HIDE DEF T
  <2>1. T \subseteq Nat BY DEF T
  <2> QED BY <1>1, <1>2, <2>1, WFMin
<1>4. x # 0
  OBVIOUS
<1>5. x - 1 \in Nat /\ <<x - 1, x>> \in Earlier
  BY <1>4 DEF Earlier
<1>6. x - 1 \in S
  BY <1>3, <1>5
<1> QED
  BY <1>5, <1>6

\* trail[i] is what the first i commands make of the chain trail[0].
Applying(trail, chain, commands) ==
  /\ trail[0] = chain
  /\ \A i \in 1 .. Len(commands) : trail[i] = Apply(trail[i - 1], commands[i])

\* Any such trail ends where AllApplied() does.
LEMMA AppliedAlong ==
  ASSUME NEW chain, NEW commands, Len(commands) \in Nat,
         NEW trail, Applying(trail, chain, commands)
  PROVE  AllApplied(chain, commands) = trail[Len(commands)]
<1> DEFINE m == Len(commands)
           F(f) == f = [n \in 0 .. m |-> IF n = 0 THEN chain ELSE Apply(f[n - 1], commands[n])]
           after == CHOOSE f : F(f)
<1>1. \E f : F(f)
  <2> DEFINE f == [n \in 0 .. m |-> trail[n]]
  <2>1. ASSUME NEW n \in 0 .. m
        PROVE  f[n] = IF n = 0 THEN chain ELSE Apply(f[n - 1], commands[n])
    <3>1. CASE n = 0
      BY <3>1 DEF Applying
    <3>2. CASE n # 0
      <4>1. n \in 1 .. m /\ n - 1 \in 0 .. m
        BY <3>2
      <4>2. f[n] = trail[n] /\ f[n - 1] = trail[n - 1]
        BY <4>1
      <4> QED BY <3>2, <4>1, <4>2 DEF Applying
    <3> QED BY <3>1, <3>2
  <2>2. F(f)
    BY <2>1
  <2> HIDE DEF F
  <2> QED BY <2>2
<1>2. AllApplied(chain, commands) = after[m]
  BY Zenon DEF AllApplied
<1> HIDE DEF F
<1>3. F(after)
  BY <1>1, Zenon
<1>4. after = [n \in 0 .. m |-> IF n = 0 THEN chain ELSE Apply(after[n - 1], commands[n])]
  BY <1>3 DEF F
<1> HIDE DEF after
<1>5. after[0] = chain /\ \A n \in 1 .. m : after[n] = Apply(after[n - 1], commands[n])
  BY <1>4
<1> DEFINE S == {n \in Nat : n <= m => after[n] = trail[n]}
<1>6. \A n \in Nat : n \in S
  <2>1. 0 \in S
    BY <1>5 DEF Applying
  <2>2. ASSUME NEW n \in Nat, n \in S PROVE n + 1 \in S
    <3>1. SUFFICES ASSUME n + 1 <= m PROVE after[n + 1] = trail[n + 1]
      OBVIOUS
    <3>2. n + 1 \in 1 .. m /\ (n + 1) - 1 = n /\ after[n] = trail[n]
      BY <3>1, <2>2
    <3>3. after[n + 1] = Apply(after[n], commands[n + 1])
      BY <1>5, <3>2
    <3>4. trail[n + 1] = Apply(trail[n], commands[n + 1])
      BY <3>2 DEF Applying
    <3> QED BY <3>2, <3>3, <3>4
  <2> HIDE DEF S
  <2> QED BY <2>1, <2>2, NatInd
<1> QED BY <1>2, <1>6

LEMMA ApplyingExists ==
  ASSUME NEW chain, NEW commands, Len(commands) \in Nat
  PROVE  \E trail : Applying(trail, chain, commands)
<1> DEFINE m == Len(commands)
           Goes(f, n) == f[0] = chain /\ \A i \in 1 .. n : f[i] = Apply(f[i - 1], commands[i])
           S == {n \in Nat : \E f : Goes(f, n)}
<1>1. 0 \in S
  <2> DEFINE f == [n \in {0} |-> chain]
  <2>1. Goes(f, 0)
    OBVIOUS
  <2> HIDE DEF Goes
  <2> QED BY <2>1
<1>2. ASSUME NEW n \in Nat, n \in S PROVE n + 1 \in S
  <2> PICK f : Goes(f, n)
    BY <1>2
  <2> DEFINE next == Apply(f[n], commands[n + 1])
             g == [i \in 0 .. n + 1 |-> IF i <= n THEN f[i] ELSE next]
  <2> HIDE DEF next
  <2>1. (\A i \in 0 .. n : g[i] = f[i]) /\ g[n + 1] = next
    OBVIOUS
  <2> HIDE DEF g
  <2>2. ASSUME NEW i \in 1 .. n + 1 PROVE g[i] = Apply(g[i - 1], commands[i])
    <3>1. CASE i = n + 1
      BY <3>1, <2>1 DEF next
    <3>2. CASE i # n + 1
      <4>1. i \in 1 .. n /\ i \in 0 .. n /\ i - 1 \in 0 .. n
        BY <3>2
      <4> QED BY <4>1, <2>1
    <3> QED BY <3>1, <3>2
  <2>3. Goes(g, n + 1)
    BY <2>1, <2>2
  <2> HIDE DEF Goes
  <2> QED BY <2>3
<1> HIDE DEF S
<1>3. m \in S
  BY <1>1, <1>2, NatInd
<1>4. PICK f : Goes(f, m)
  BY <1>3 DEF S
<1> QED BY <1>4 DEF Applying

LEMMA AppliedNothing ==
  ASSUME NEW chain PROVE AllApplied(chain, <<>>) = chain
<1> DEFINE trail == [n \in {0} |-> chain]
<1>1. Len(<<>>) = 0 /\ trail[0] = chain
  OBVIOUS
<1>2. Applying(trail, chain, <<>>)
  BY <1>1 DEF Applying
<1> HIDE DEF trail
<1>3. AllApplied(chain, <<>>) = trail[0]
  <2>1. AllApplied(chain, <<>>) = trail[Len(<<>>)]
    <3> DEFINE none == <<>>
    <3>1. Len(none) \in Nat /\ Applying(trail, chain, none)
      BY <1>1, <1>2
    <3> HIDE DEF none
    <3>2. AllApplied(chain, none) = trail[Len(none)]
      BY <3>1, AppliedAlong
    <3> QED BY <3>2 DEF none
  <2> QED BY <1>1, <2>1
<1> QED BY <1>1, <1>2, <1>3 DEF Applying

LEMMA AppliedBoth ==
  ASSUME NEW chain, NEW S, NEW first \in Seq(S), NEW rest \in Seq(S)
  PROVE  AllApplied(chain, first \o rest) = AllApplied(AllApplied(chain, first), rest)
<1> DEFINE m == Len(first)
           n == Len(rest)
           all == first \o rest
<1>1. m \in Nat /\ n \in Nat
  BY LenProperties
<1>2. /\ Len(all) = m + n /\ all \in Seq(S)
      /\ \A i \in 1 .. m : all[i] = first[i]
      /\ \A i \in 1 .. n : all[m + i] = rest[i]
  BY <1>1
<1>9. Len(all) \in Nat
  BY <1>1, <1>2
<1> HIDE DEF all
<1>3. PICK trail : Applying(trail, chain, all)
  BY <1>9, ApplyingExists
<1> DEFINE later == [i \in 0 .. n |-> trail[m + i]]
<1>4. \A i \in 0 .. n : later[i] = trail[m + i]
  OBVIOUS
<1> HIDE DEF later
<1>5. AllApplied(chain, first) = trail[m]
  <2>1. \A i \in 1 .. m : i \in 1 .. Len(all)
    BY <1>1, <1>2
  <2>2. Applying(trail, chain, first)
    BY <1>2, <1>3, <2>1 DEF Applying
  <2> QED BY <1>1, <2>2, AppliedAlong
<1>6. AllApplied(trail[m], rest) = later[n]
  <2>1. later[0] = trail[m]
    BY <1>1, <1>4
  <2>2. ASSUME NEW i \in 1 .. n PROVE later[i] = Apply(later[i - 1], rest[i])
    <3>1. /\ m + i \in 1 .. Len(all) /\ (m + i) - 1 = m + (i - 1)
          /\ i \in 0 .. n /\ i - 1 \in 0 .. n
      BY <1>1, <1>2
    <3>2. trail[m + i] = Apply(trail[m + (i - 1)], all[m + i])
      BY <1>3, <3>1 DEF Applying
    <3> QED BY <1>2, <1>4, <3>1, <3>2
  <2>3. Applying(later, trail[m], rest)
    BY <2>1, <2>2 DEF Applying
  <2> QED BY <1>1, <2>3, AppliedAlong
<1>7. later[n] = trail[Len(all)]
  BY <1>1, <1>2, <1>4
<1>8. AllApplied(chain, all) = trail[Len(all)]
  BY <1>9, <1>3, AppliedAlong
<1> QED BY <1>5, <1>6, <1>7, <1>8 DEF all

LEMMA AppliedOne ==
  ASSUME NEW chain, NEW x PROVE AllApplied(chain, <<x>>) = Apply(chain, x)
<1> DEFINE trail == [n \in 0 .. 1 |-> IF n = 0 THEN chain ELSE Apply(chain, x)]
           one == <<x>>
<1>1. Len(one) = 1 /\ one[1] = x /\ trail[0] = chain /\ trail[1] = Apply(chain, x)
  OBVIOUS
<1> HIDE DEF one, trail
<1>2. Applying(trail, chain, one)
  BY <1>1 DEF Applying
<1>3. AllApplied(chain, one) = trail[Len(one)]
  <2>1. Len(one) \in Nat
    BY <1>1
  <2> QED BY <2>1, <1>2, AppliedAlong
<1> QED BY <1>1, <1>3 DEF one

LEMMA AppliedTwo ==
  ASSUME NEW chain, NEW x, NEW y
  PROVE  AllApplied(chain, <<x, y>>) = Apply(Apply(chain, x), y)
<1> DEFINE mid == Apply(chain, x)
           last == Apply(mid, y)
           trail == [n \in 0 .. 2 |-> IF n = 0 THEN chain ELSE IF n = 1 THEN mid ELSE last]
           two == <<x, y>>
<1> HIDE DEF mid, last
<1>1. /\ Len(two) = 2 /\ Len(two) \in Nat /\ two[1] = x /\ two[2] = y
      /\ trail[0] = chain /\ trail[1] = mid /\ trail[2] = last
  OBVIOUS
<1> HIDE DEF two, trail
<1>2. Applying(trail, chain, two)
  <2>1. trail[1] = Apply(trail[0], two[1]) /\ trail[2] = Apply(trail[1], two[2])
    BY <1>1 DEF mid, last
  <2>2. \A i \in 1 .. Len(two) : i = 1 \/ i = 2
    BY <1>1
  <2> QED BY <1>1, <2>1, <2>2 DEF Applying
<1>3. AllApplied(chain, two) = trail[Len(two)]
  BY <1>1, <1>2, AppliedAlong
<1> QED BY <1>1, <1>3 DEF two, mid, last

-----------------------------------------------------------------------------
(* What an edit makes of a sequence.                                       *)

LEMMA Removed ==
  ASSUME NEW S, NEW c \in Seq(S), NEW n \in 1 .. Len(c)
  PROVE  /\ RemoveAt(c, n) \in Seq(S)
         /\ Len(RemoveAt(c, n)) = Len(c) - 1
         /\ \A k \in 1 .. Len(c) - 1 : RemoveAt(c, n)[k] = IF k < n THEN c[k] ELSE c[k + 1]
<1>1. Len(c) \in Nat
  BY LenProperties
<1> DEFINE a == SubSeq(c, 1, n - 1)
           b == SubSeq(c, n + 1, Len(c))
<1>2. a \in Seq(S) /\ Len(a) = n - 1 /\ \A k \in 1 .. n - 1 : a[k] = c[k]
  BY <1>1
<1>3. b \in Seq(S) /\ Len(b) = Len(c) - n /\ \A k \in 1 .. Len(c) - n : b[k] = c[n + k]
  BY <1>1
<1> HIDE DEF a, b
<1>4. a \o b \in Seq(S) /\ Len(a \o b) = Len(c) - 1
  <2>1. a \o b \in Seq(S) /\ Len(a \o b) = Len(a) + Len(b)
    BY <1>2, <1>3, ConcatProperties
  <2> QED BY <1>1, <1>2, <1>3, <2>1
<1>5. ASSUME NEW k \in 1 .. Len(c) - 1
      PROVE  (a \o b)[k] = IF k < n THEN c[k] ELSE c[k + 1]
  <2>1. CASE k < n
    <3>1. (a \o b)[k] = a[k] /\ k \in 1 .. n - 1
      BY <1>1, <1>2, <1>3, <2>1
    <3> QED BY <1>2, <2>1, <3>1
  <2>2. CASE ~(k < n)
    <3>1. (a \o b)[k] = b[k - (n - 1)] /\ k - (n - 1) \in 1 .. Len(c) - n
      BY <1>1, <1>2, <1>3, <2>2
    <3>2. n + (k - (n - 1)) = k + 1
      BY <1>1, <2>2
    <3> QED BY <1>3, <2>2, <3>1, <3>2
  <2> QED BY <2>1, <2>2
<1>6. RemoveAt(c, n) = a \o b
  BY DEF RemoveAt, a, b
<1> QED BY <1>4, <1>5, <1>6

LEMMA Appended ==
  ASSUME NEW S, NEW c \in Seq(S), NEW e \in S
  PROVE  /\ Append(c, e) \in Seq(S) /\ Len(Append(c, e)) = Len(c) + 1
         /\ Append(c, e)[Len(c) + 1] = e
         /\ \A k \in 1 .. Len(c) : Append(c, e)[k] = c[k]
BY LenProperties

LEMMA Excepted ==
  ASSUME NEW S, NEW c \in Seq(S), NEW n \in 1 .. Len(c), NEW e \in S
  PROVE  /\ [c EXCEPT ![n] = e] \in Seq(S) /\ Len([c EXCEPT ![n] = e]) = Len(c)
         /\ \A k \in 1 .. Len(c) : [c EXCEPT ![n] = e][k] = IF k = n THEN e ELSE c[k]
BY ExceptSeq, LenProperties

\* Where a move takes the module in place k from.
Source(i, j, k) ==
  CASE k = j + 1                -> i + 1
    [] k > i /\ k < j + 1       -> k + 1
    [] k > j + 1 /\ k <= i + 1  -> k - 1
    [] OTHER                    -> k

LEMMA SourceIs ==
  ASSUME NEW n \in Nat, NEW i \in 0 .. n - 1, NEW j \in 0 .. n - 1, i # j, NEW k \in 1 .. n
  PROVE  /\ Source(i, j, k) \in 1 .. n
         /\ k = j + 1 => Source(i, j, k) = i + 1
         /\ k # j + 1 /\ k > i /\ k < j + 1 => Source(i, j, k) = k + 1
         /\ k # j + 1 /\ k > j + 1 /\ k <= i + 1 => Source(i, j, k) = k - 1
         /\ k # j + 1 /\ ~(k > i /\ k < j + 1) /\ ~(k > j + 1 /\ k <= i + 1)
              => Source(i, j, k) = k
BY DEF Source

LEMMA SourceInjective ==
  ASSUME NEW n \in Nat, NEW i \in 0 .. n - 1, NEW j \in 0 .. n - 1, i # j,
         NEW k \in 1 .. n, NEW l \in 1 .. n, Source(i, j, k) = Source(i, j, l)
  PROVE  k = l
<1>1. CASE i < j
  <2>1. ASSUME NEW x \in 1 .. n
        PROVE  \/ x = j + 1 /\ Source(i, j, x) = i + 1
               \/ x > i /\ x < j + 1 /\ Source(i, j, x) = x + 1
               \/ (x <= i \/ x > j + 1) /\ Source(i, j, x) = x
    BY <1>1 DEF Source
  <2> QED BY <1>1, <2>1
<1>2. CASE j < i
  <2>1. ASSUME NEW x \in 1 .. n
        PROVE  \/ x = j + 1 /\ Source(i, j, x) = i + 1
               \/ x > j + 1 /\ x <= i + 1 /\ Source(i, j, x) = x - 1
               \/ (x < j + 1 \/ x > i + 1) /\ Source(i, j, x) = x
    BY <1>2 DEF Source
  <2> QED BY <1>2, <2>1
<1> QED BY <1>1, <1>2

LEMMA Moved ==
  ASSUME NEW S, NEW c \in Seq(S),
         NEW i \in 0 .. Len(c) - 1, NEW j \in 0 .. Len(c) - 1, i # j
  PROVE  /\ MoveModule(c, i, j) \in Seq(S) /\ Len(MoveModule(c, i, j)) = Len(c)
         /\ \A k \in 1 .. Len(c) : MoveModule(c, i, j)[k] = c[Source(i, j, k)]
<1> DEFINE moved == MoveModule(c, i, j)
<1>1. Len(c) \in Nat /\ \A k \in 1 .. Len(c) : c[k] \in S
  BY ElementOfSeq, LenProperties
<1>2. ASSUME NEW k \in 1 .. Len(c)
      PROVE  moved[k] = c[Source(i, j, k)]
  BY <1>1 DEF MoveModule, Source
<1>3. ASSUME NEW k \in 1 .. Len(c) PROVE moved[k] \in S
  <2>1. Source(i, j, k) \in 1 .. Len(c)
    BY <1>1, SourceIs
  <2> QED BY <1>1, <1>2, <2>1
<1>4. moved \in [1 .. Len(c) -> S]
  BY <1>3 DEF MoveModule
<1>5. moved \in Seq(S) /\ Len(moved) = Len(c)
  <2> HIDE DEF moved
  <2> QED BY <1>1, <1>4, SeqDef, LenProperties
<1> QED BY <1>2, <1>5

\* Two moves that trade the modules in two places that are not neighbours.
LEMMA Traded ==
  ASSUME NEW S, NEW c \in Seq(S), NEW i \in Nat, NEW j \in Nat, i < j, j < Len(c), j - 1 # i
  PROVE  LET twice == MoveModule(MoveModule(c, i, j), j - 1, i)
         IN  /\ Len(twice) = Len(c)
             /\ \A k \in 1 .. Len(c) :
                  twice[k] = IF k = i + 1 THEN c[j + 1] ELSE IF k = j + 1 THEN c[i + 1] ELSE c[k]
<1> DEFINE once == MoveModule(c, i, j)
           twice == MoveModule(once, j - 1, i)
<1>1. Len(c) \in Nat /\ i \in 0 .. Len(c) - 1 /\ j \in 0 .. Len(c) - 1 /\ i # j
      /\ j - 1 \in 0 .. Len(c) - 1
  BY LenProperties
<1>2. /\ once \in Seq(S) /\ Len(once) = Len(c)
      /\ \A k \in 1 .. Len(c) : once[k] = c[Source(i, j, k)]
  BY <1>1, Moved
<1> HIDE DEF once
<1> DEFINE third == j - 1
<1>7. once \in Seq(S) /\ third \in 0 .. Len(once) - 1 /\ i \in 0 .. Len(once) - 1 /\ third # i
  BY <1>1, <1>2
<1> HIDE DEF third
<1>8. /\ Len(MoveModule(once, third, i)) = Len(once)
      /\ \A k \in 1 .. Len(once) : MoveModule(once, third, i)[k] = once[Source(third, i, k)]
  BY <1>7, Moved
<1>3. /\ Len(twice) = Len(c)
      /\ \A k \in 1 .. Len(c) : twice[k] = once[Source(j - 1, i, k)]
  BY <1>2, <1>8 DEF third
<1> HIDE DEF twice
<1>4. ASSUME NEW k \in 1 .. Len(c)
      PROVE  twice[k] = c[Source(i, j, Source(j - 1, i, k))]
  <2>1. Source(j - 1, i, k) \in 1 .. Len(c)
    BY <1>1, SourceIs
  <2> QED BY <1>2, <1>3, <2>1
<1>5. ASSUME NEW k \in 1 .. Len(c)
      PROVE  Source(i, j, Source(j - 1, i, k))
               = IF k = i + 1 THEN j + 1 ELSE IF k = j + 1 THEN i + 1 ELSE k
  <2>1. CASE k = i + 1
    <3>1. Source(j - 1, i, k) = (j - 1) + 1
      BY <1>1, <2>1, SourceIs
    <3>2. Source(i, j, j) = j + 1
      BY <1>1 DEF Source
    <3> QED BY <1>1, <2>1, <3>1, <3>2
  <2>2. CASE k > i + 1 /\ k <= j
    <3>1. Source(j - 1, i, k) = k - 1
      BY <1>1, <2>2 DEF Source
    <3>2. Source(i, j, k - 1) = k
      BY <1>1, <2>2 DEF Source
    <3> QED BY <1>1, <2>2, <3>1, <3>2
  <2>3. CASE k = j + 1
    <3>1. Source(j - 1, i, k) = k /\ Source(i, j, k) = i + 1
      BY <1>1, <2>3 DEF Source
    <3> QED BY <1>1, <2>3, <3>1
  <2>4. CASE k < i + 1 \/ k > j + 1
    <3>1. Source(j - 1, i, k) = k /\ Source(i, j, k) = k
      BY <1>1, <2>4 DEF Source
    <3> QED BY <1>1, <2>4, <3>1
  <2> QED BY <1>1, <2>1, <2>2, <2>3, <2>4
<1>6. ASSUME NEW k \in 1 .. Len(c)
      PROVE  twice[k] = IF k = i + 1 THEN c[j + 1] ELSE IF k = j + 1 THEN c[i + 1] ELSE c[k]
  BY <1>4, <1>5
<1> QED BY <1>3, <1>6 DEF twice, once

-----------------------------------------------------------------------------
(* Chains of modules, and their effects.                                   *)

Choice == Effect \cup {noModule}
Modules == [id : Ids, effect : Effect]
OwnIds(chain) == \A i, j \in 1 .. Len(chain) : chain[i].id = chain[j].id => i = j
Sound(chain) == chain \in Seq(Modules) /\ Len(chain) <= MaxModules /\ OwnIds(chain)

LEMMA Limits == MaxModules \in Nat /\ MaxModules > 0 /\ Slot = 0 .. MaxModules - 1
BY MaxModulesAssumption DEF Slot

LEMMA EffectsAre ==
  ASSUME NEW c \in Seq(Modules)
  PROVE  /\ Effects(c) \in Seq(Effect) /\ Len(Effects(c)) = Len(c) /\ Len(c) \in Nat
         /\ DOMAIN c = 1 .. Len(c)
         /\ \A k \in 1 .. Len(c) : Effects(c)[k] = c[k].effect /\ c[k] \in Modules
<1>1. Len(c) \in Nat /\ DOMAIN c = 1 .. Len(c) /\ \A k \in 1 .. Len(c) : c[k] \in Modules
  BY LenProperties, ElementOfSeq
<1>2. \A k \in 1 .. Len(c) : c[k].effect \in Effect
  BY <1>1 DEF Modules
<1>3. Effects(c) \in [1 .. Len(c) -> Effect]
  BY <1>1, <1>2 DEF Effects
<1>4. Effects(c) \in Seq(Effect) /\ Len(Effects(c)) = Len(c)
  <2> DEFINE e == Effects(c)
             n == Len(c)
  <2>1. e \in [1 .. n -> Effect] /\ n \in Nat
    BY <1>1, <1>3
  <2> HIDE DEF e, n
  <2>2. e \in Seq(Effect) /\ Len(e) = n
    BY <2>1, SeqDef, LenProperties
  <2> QED BY <2>2 DEF e, n
<1> QED BY <1>1, <1>4 DEF Effects

LEMMA EffectsEqual ==
  ASSUME NEW c \in Seq(Modules), NEW e \in Seq(Effect), Len(e) = Len(c),
         \A k \in 1 .. Len(c) : e[k] = c[k].effect
  PROVE  Effects(c) = e
<1> DEFINE f == Effects(c)
<1>1. f \in Seq(Effect) /\ Len(f) = Len(c) /\ \A k \in 1 .. Len(c) : f[k] = c[k].effect
  BY EffectsAre
<1> HIDE DEF f
<1>2. f = e
  BY <1>1, SeqEqual
<1> QED BY <1>2 DEF f

\* The selector of a slot.
LEMMA EffectAtIs ==
  ASSUME NEW c \in Seq(Modules), NEW slot \in Nat
  PROVE  /\ slot < Len(c) => EffectAt(Effects(c), slot) = c[slot + 1].effect
         /\ ~(slot < Len(c)) => EffectAt(Effects(c), slot) = noModule
         /\ EffectAt(Effects(c), slot) = noModule => ~(slot < Len(c))
<1>1. Len(Effects(c)) = Len(c) /\ Len(c) \in Nat
  BY EffectsAre
<1>2. ASSUME slot < Len(c)
      PROVE  EffectAt(Effects(c), slot) = c[slot + 1].effect /\ c[slot + 1].effect # noModule
  <2>1. slot + 1 \in 1 .. Len(c)
    BY <1>1, <1>2
  <2>2. Effects(c)[slot + 1] = c[slot + 1].effect /\ c[slot + 1] \in Modules
    BY <2>1, EffectsAre
  <2> QED BY <1>1, <1>2, <2>2, EffectAssumption DEF EffectAt, Modules
<1>3. ASSUME ~(slot < Len(c)) PROVE EffectAt(Effects(c), slot) = noModule
  BY <1>1, <1>3 DEF EffectAt
<1> QED BY <1>2, <1>3

LEMMA AppendSound ==
  ASSUME NEW c, Sound(c), Len(c) < MaxModules, NEW m \in Modules,
         \A k \in 1 .. Len(c) : c[k].id # m.id
  PROVE  Sound(Append(c, m)) /\ Effects(Append(c, m)) = Append(Effects(c), m.effect)
<1> DEFINE d == Append(c, m)
<1>1. c \in Seq(Modules) /\ Len(c) \in Nat /\ OwnIds(c)
  BY LenProperties DEF Sound
<1>2. d \in Seq(Modules) /\ Len(d) = Len(c) + 1 /\ d[Len(c) + 1] = m
      /\ \A k \in 1 .. Len(c) : d[k] = c[k]
  BY <1>1, Appended
<1>3. m.effect \in Effect
  BY DEF Modules
<1> DEFINE e == Append(Effects(c), m.effect)
<1>4. /\ e \in Seq(Effect) /\ Len(e) = Len(c) + 1 /\ e[Len(c) + 1] = m.effect
      /\ \A k \in 1 .. Len(c) : e[k] = c[k].effect
  <2>1. Effects(c) \in Seq(Effect) /\ Len(Effects(c)) = Len(c)
        /\ \A k \in 1 .. Len(c) : Effects(c)[k] = c[k].effect
    BY <1>1, EffectsAre
  <2> DEFINE f == Effects(c)
  <2> HIDE DEF f
  <2>2. f \in Seq(Effect) /\ Len(f) = Len(c)
    BY <2>1 DEF f
  <2>3. Append(f, m.effect) \in Seq(Effect) /\ Len(Append(f, m.effect)) = Len(f) + 1
        /\ Append(f, m.effect)[Len(f) + 1] = m.effect
        /\ \A k \in 1 .. Len(f) : Append(f, m.effect)[k] = f[k]
    BY <1>3, <2>2, Appended
  <2> QED BY <2>1, <2>2, <2>3 DEF f
<1> HIDE DEF d, e
<1>5. \A k \in 1 .. Len(c) + 1 : k = Len(c) + 1 \/ k \in 1 .. Len(c)
  BY <1>1
<1>6. OwnIds(d)
  <2> SUFFICES ASSUME NEW i \in 1 .. Len(c) + 1, NEW j \in 1 .. Len(c) + 1, d[i].id = d[j].id
               PROVE  i = j
    BY <1>2 DEF OwnIds
  <2>1. i = Len(c) + 1 \/ i \in 1 .. Len(c)
    BY <1>5
  <2>2. j = Len(c) + 1 \/ j \in 1 .. Len(c)
    BY <1>5
  <2> QED BY <1>1, <1>2, <2>1, <2>2 DEF OwnIds
<1>7. Effects(d) = e
  <2>1. \A k \in 1 .. Len(d) : e[k] = d[k].effect
    BY <1>2, <1>4, <1>5
  <2> QED BY <1>2, <1>4, <2>1, EffectsEqual
<1>8. Len(d) <= MaxModules
  BY <1>1, <1>2, Limits
<1> QED BY <1>2, <1>6, <1>7, <1>8 DEF Sound, d, e

LEMMA ReplaceSound ==
  ASSUME NEW c, Sound(c), NEW n \in 1 .. Len(c), NEW m \in Modules,
         \A k \in 1 .. Len(c) : c[k].id # m.id
  PROVE  /\ Sound([c EXCEPT ![n] = m])
         /\ Effects([c EXCEPT ![n] = m]) = [Effects(c) EXCEPT ![n] = m.effect]
<1> DEFINE d == [c EXCEPT ![n] = m]
           f == Effects(c)
           e == [f EXCEPT ![n] = m.effect]
<1>1. c \in Seq(Modules) /\ Len(c) \in Nat /\ OwnIds(c) /\ Len(c) <= MaxModules
  BY LenProperties DEF Sound
<1>2. /\ d \in Seq(Modules) /\ Len(d) = Len(c)
      /\ \A k \in 1 .. Len(c) : d[k] = IF k = n THEN m ELSE c[k]
  BY <1>1, Excepted
<1>3. f \in Seq(Effect) /\ Len(f) = Len(c) /\ \A k \in 1 .. Len(c) : f[k] = c[k].effect
  BY <1>1, EffectsAre
<1>4. m.effect \in Effect
  BY DEF Modules
<1> HIDE DEF d, f
<1>5. /\ e \in Seq(Effect) /\ Len(e) = Len(c)
      /\ \A k \in 1 .. Len(c) : e[k] = IF k = n THEN m.effect ELSE f[k]
  BY <1>3, <1>4, Excepted
<1> HIDE DEF e
<1>6. OwnIds(d)
  <2> SUFFICES ASSUME NEW i \in 1 .. Len(c), NEW j \in 1 .. Len(c), d[i].id = d[j].id
               PROVE  i = j
    BY <1>2 DEF OwnIds
  <2>1. d[i] = (IF i = n THEN m ELSE c[i]) /\ d[j] = (IF j = n THEN m ELSE c[j])
    BY <1>2
  <2> QED BY <1>1, <2>1 DEF OwnIds
<1>7. Effects(d) = e
  <2>1. \A k \in 1 .. Len(d) : e[k] = d[k].effect
    BY <1>2, <1>3, <1>5
  <2> QED BY <1>2, <1>5, <2>1, EffectsEqual
<1> QED BY <1>1, <1>2, <1>6, <1>7 DEF Sound, d, e, f

LEMMA RemoveSound ==
  ASSUME NEW c, Sound(c), NEW n \in 1 .. Len(c)
  PROVE  Sound(RemoveAt(c, n)) /\ Effects(RemoveAt(c, n)) = RemoveAt(Effects(c), n)
<1> DEFINE d == RemoveAt(c, n)
           f == Effects(c)
           e == RemoveAt(f, n)
<1>1. c \in Seq(Modules) /\ Len(c) \in Nat /\ OwnIds(c) /\ Len(c) <= MaxModules
  BY LenProperties DEF Sound
<1>2. /\ d \in Seq(Modules) /\ Len(d) = Len(c) - 1
      /\ \A k \in 1 .. Len(c) - 1 : d[k] = IF k < n THEN c[k] ELSE c[k + 1]
  BY <1>1, Removed
<1>3. f \in Seq(Effect) /\ Len(f) = Len(c) /\ \A k \in 1 .. Len(c) : f[k] = c[k].effect
  BY <1>1, EffectsAre
<1> HIDE DEF d, f
<1>4. /\ e \in Seq(Effect) /\ Len(e) = Len(c) - 1
      /\ \A k \in 1 .. Len(c) - 1 : e[k] = IF k < n THEN f[k] ELSE f[k + 1]
  BY <1>3, Removed
<1> HIDE DEF e
<1>5. \A k \in 1 .. Len(c) - 1 : k \in 1 .. Len(c) /\ k + 1 \in 1 .. Len(c)
  BY <1>1
<1>6. OwnIds(d)
  <2> SUFFICES ASSUME NEW i \in 1 .. Len(c) - 1, NEW j \in 1 .. Len(c) - 1, d[i].id = d[j].id
               PROVE  i = j
    BY <1>2 DEF OwnIds
  <2> DEFINE a == IF i < n THEN i ELSE i + 1
             b == IF j < n THEN j ELSE j + 1
  <2>1. d[i] = c[a] /\ d[j] = c[b] /\ a \in 1 .. Len(c) /\ b \in 1 .. Len(c)
    BY <1>2, <1>5
  <2>2. a = b
    BY <1>1, <2>1 DEF OwnIds
  <2> QED BY <1>1, <2>2
<1>7. Effects(d) = e
  <2>1. \A k \in 1 .. Len(d) : e[k] = d[k].effect
    BY <1>2, <1>3, <1>4, <1>5
  <2> QED BY <1>2, <1>4, <2>1, EffectsEqual
<1>8. Len(d) <= MaxModules
  BY <1>1, <1>2, Limits
<1> QED BY <1>2, <1>6, <1>7, <1>8 DEF Sound, d, e, f

LEMMA MoveSound ==
  ASSUME NEW c, Sound(c), NEW i \in 0 .. Len(c) - 1, NEW j \in 0 .. Len(c) - 1, i # j
  PROVE  Sound(MoveModule(c, i, j)) /\ Effects(MoveModule(c, i, j)) = MoveModule(Effects(c), i, j)
<1> DEFINE d == MoveModule(c, i, j)
           f == Effects(c)
           e == MoveModule(f, i, j)
<1>1. c \in Seq(Modules) /\ Len(c) \in Nat /\ OwnIds(c) /\ Len(c) <= MaxModules
  BY LenProperties DEF Sound
<1>2. /\ d \in Seq(Modules) /\ Len(d) = Len(c)
      /\ \A k \in 1 .. Len(c) : d[k] = c[Source(i, j, k)]
  BY <1>1, Moved
<1>3. f \in Seq(Effect) /\ Len(f) = Len(c) /\ \A k \in 1 .. Len(c) : f[k] = c[k].effect
  BY <1>1, EffectsAre
<1> HIDE DEF d, f
<1>4. /\ e \in Seq(Effect) /\ Len(e) = Len(c)
      /\ \A k \in 1 .. Len(c) : e[k] = f[Source(i, j, k)]
  BY <1>3, Moved
<1> HIDE DEF e
<1>5. \A k \in 1 .. Len(c) : Source(i, j, k) \in 1 .. Len(c)
  BY <1>1, SourceIs
<1>6. OwnIds(d)
  <2> SUFFICES ASSUME NEW k \in 1 .. Len(c), NEW l \in 1 .. Len(c), d[k].id = d[l].id
               PROVE  k = l
    BY <1>2 DEF OwnIds
  <2>1. Source(i, j, k) = Source(i, j, l)
    BY <1>1, <1>2, <1>5 DEF OwnIds
  <2> QED BY <1>1, <2>1, SourceInjective
<1>7. Effects(d) = e
  <2>1. \A k \in 1 .. Len(d) : e[k] = d[k].effect
    BY <1>2, <1>3, <1>4, <1>5
  <2> QED BY <1>2, <1>4, <2>1, EffectsEqual
<1> QED BY <1>1, <1>2, <1>6, <1>7 DEF Sound, d, e, f

-----------------------------------------------------------------------------
(* Ids for new modules.                                                    *)

\* The n-th smallest number of a set.
LEMMA Nth ==
  ASSUME NEW N \in Nat, NEW F \in SUBSET (1 .. N), NEW n \in 1 .. Cardinality(F)
  PROVE  \E id \in F : Cardinality({j \in F : j <= id}) = n
<1> DEFINE Upto(m) == {j \in F : j <= m}
           S == {m \in Nat : ~(Cardinality(Upto(m)) >= n)}
<1>0. /\ \A j \in F : j \in 1 .. N
      /\ IsFiniteSet(F) /\ Cardinality(F) \in Nat /\ n \in Nat /\ n >= 1
  <2>1. IsFiniteSet(1 .. N)
    BY FS_Interval
  <2>2. IsFiniteSet(F) /\ Cardinality(F) \in Nat
    BY <2>1, FS_Subset, FS_CardinalityType
  <2> QED BY <2>2
<1>1. \A m \in Nat : IsFiniteSet(Upto(m)) /\ Cardinality(Upto(m)) \in Nat
  <2> TAKE m \in Nat
  <2>1. Upto(m) \in SUBSET F
    OBVIOUS
  <2> QED BY <1>0, <2>1, FS_Subset, FS_CardinalityType
<1>2. 0 \in S
  <2>1. \A j \in F : ~(j <= 0)
    BY <1>0
  <2>2. Upto(0) = {}
    BY <2>1
  <2> QED BY <1>0, <2>2, FS_EmptySet
<1>3. N \notin S
  <2>1. \A j \in F : j <= N
    BY <1>0
  <2>2. Upto(N) = F
    BY <2>1
  <2> QED BY <1>0, <2>2
<1>4. PICK m \in Nat : m \in S /\ m + 1 \notin S
  <2> HIDE DEF S
  <2> QED BY <1>2, <1>3, NatInd
<1>5. /\ ~(Cardinality(Upto(m)) >= n) /\ Cardinality(Upto(m + 1)) >= n
      /\ Cardinality(Upto(m)) \in Nat /\ IsFiniteSet(Upto(m))
  BY <1>1, <1>4
<1>6. m + 1 \in F /\ Upto(m + 1) = Upto(m) \cup {m + 1}
  <2>0. \A j \in F : j <= m + 1 <=> j <= m \/ j = m + 1
    BY <1>0
  <2>1. m + 1 \notin F => Upto(m + 1) = Upto(m)
    BY <2>0
  <2>2. m + 1 \in F => Upto(m + 1) = Upto(m) \cup {m + 1}
    BY <2>0
  <2> QED BY <2>1, <2>2, <1>5
<1>7. Cardinality(Upto(m + 1)) = Cardinality(Upto(m)) + 1
  <2>1. m + 1 \notin Upto(m)
    BY <1>4
  <2> QED BY <1>5, <1>6, <2>1, FS_AddElement
<1>8. Cardinality(Upto(m + 1)) = n
  BY <1>0, <1>5, <1>7
<1> QED BY <1>6, <1>8

Strip == [id : Ids, effect : Effect, slot : Slot]
Strips == [Places -> Strip \cup {noStrip}]

LEMMA ImageSize ==
  ASSUME NEW n \in Nat, NEW f
  PROVE  LET image == {f[k] : k \in 1 .. n}
         IN IsFiniteSet(image) /\ Cardinality(image) \in Nat /\ Cardinality(image) <= n
<1> DEFINE image == {f[k] : k \in 1 .. n}
           g == [k \in 1 .. n |-> f[k]]
<1>1. g \in Surjection(1 .. n, image)
  BY DEF Surjection
<1>2. IsFiniteSet(1 .. n) /\ Cardinality(1 .. n) = n
  BY FS_Interval
<1> HIDE DEF image, g
<1>3. IsFiniteSet(image) /\ Cardinality(image) <= n
  BY <1>1, <1>2, FS_Surjection
<1> QED BY <1>3, FS_CardinalityType DEF image

\* There is room for a whole chain of them.
LEMMA FreeIds ==
  ASSUME Sound(main), regions \in Strips
  PROVE  /\ Ids \ InUse \in SUBSET (1 .. 3 * MaxModules)
         /\ Cardinality(Ids \ InUse) \in Nat /\ Cardinality(Ids \ InUse) >= MaxModules
<1> DEFINE f == [k \in 1 .. Len(main) |-> main[k].id]
           g == [p \in Places |-> regions[p].id]
           held == {f[k] : k \in 1 .. Len(main)}
           drawn == {g[p] : p \in 1 .. MaxModules}
<1>1. Len(main) \in Nat /\ DOMAIN main = 1 .. Len(main) /\ Len(main) <= MaxModules
  BY LenProperties DEF Sound
<1>2. InUse = held \cup drawn
  BY <1>1 DEF InUse, Places
<1>3. IsFiniteSet(held) /\ Cardinality(held) \in Nat /\ Cardinality(held) <= MaxModules
  <2> HIDE DEF f
  <2>1. IsFiniteSet(held) /\ Cardinality(held) \in Nat /\ Cardinality(held) <= Len(main)
    BY <1>1, ImageSize
  <2> QED BY <1>1, <2>1, Limits
<1>4. IsFiniteSet(drawn) /\ Cardinality(drawn) \in Nat /\ Cardinality(drawn) <= MaxModules
  <2> HIDE DEF g
  <2> QED BY Limits, ImageSize
<1> HIDE DEF held, drawn
<1>5. IsFiniteSet(InUse) /\ Cardinality(InUse) <= 2 * MaxModules
  <2>1. IsFiniteSet(held \cup drawn) /\ IsFiniteSet(held \cap drawn)
        /\ Cardinality(held \cup drawn)
             = Cardinality(held) + Cardinality(drawn) - Cardinality(held \cap drawn)
    BY <1>3, <1>4, FS_Union, FS_Intersection
  <2>2. Cardinality(held \cap drawn) \in Nat
    BY <2>1, FS_CardinalityType
  <2> QED BY <1>2, <1>3, <1>4, <2>1, <2>2, Limits
<1>6. IsFiniteSet(Ids) /\ Cardinality(Ids) = 3 * MaxModules
  BY FS_Interval, Limits DEF Ids
<1>7. IsFiniteSet(Ids \ InUse) /\ Cardinality(Ids \ InUse) = Cardinality(Ids) - Cardinality(Ids \cap InUse)
  BY <1>6, FS_Difference
<1>8. Cardinality(Ids \cap InUse) \in Nat /\ Cardinality(Ids \cap InUse) <= Cardinality(InUse)
      /\ Cardinality(InUse) \in Nat
  BY <1>5, FS_Intersection, FS_CardinalityType
<1>9. Cardinality(Ids \ InUse) \in Nat
  BY <1>7, FS_CardinalityType
<1> QED BY <1>5, <1>6, <1>7, <1>8, <1>9, Limits DEF Ids

LEMMA NewIs ==
  ASSUME Sound(main), regions \in Strips, NEW n \in 1 .. MaxModules, NEW e \in Effect
  PROVE  /\ New(e, n) \in Modules /\ New(e, n).effect = e /\ New(e, n).id \notin InUse
         /\ Cardinality({j \in Ids \ InUse : j <= New(e, n).id}) = n
<1> DEFINE free == Ids \ InUse
           Fits(id) == Cardinality({j \in free : j <= id}) = n
<1>1. \E id \in free : Fits(id)
  <2>1. n \in 1 .. Cardinality(Ids \ InUse) /\ 3 * MaxModules \in Nat
    BY FreeIds, Limits
  <2>2. Ids \ InUse \in SUBSET (1 .. 3 * MaxModules)
    BY FreeIds
  <2> QED BY <2>1, <2>2, Nth
<1>2. New(e, n) = [id |-> CHOOSE id \in free : Fits(id), effect |-> e]
  BY DEF New
<1> HIDE DEF Fits
<1>3. New(e, n).id \in free /\ Fits(New(e, n).id)
  BY <1>1, <1>2
<1>4. New(e, n) \in Modules /\ New(e, n).effect = e
  BY <1>2, <1>3 DEF Modules
<1> QED BY <1>3, <1>4 DEF Fits

LEMMA NewChainIs ==
  ASSUME Sound(main), regions \in Strips, NEW e \in Chain
  PROVE  /\ Sound(NewChain(e)) /\ Len(NewChain(e)) = Len(e) /\ Effects(NewChain(e)) = e
         /\ \A k \in 1 .. Len(e) : NewChain(e)[k].id \notin InUse
<1>1. PICK n \in 0 .. MaxModules : e \in [1 .. n -> Effect]
  BY DEF Chain
<1>2. e \in Seq(Effect) /\ Len(e) = n /\ n \in Nat /\ n <= MaxModules
  BY <1>1, Limits, SeqDef, LenProperties
<1> DEFINE c == NewChain(e)
<1>3. \A k \in 1 .. n : k \in 1 .. MaxModules /\ e[k] \in Effect
  BY <1>1, <1>2, Limits
<1>4. c = [k \in 1 .. n |-> New(e[k], k)]
  BY <1>1 DEF NewChain
<1>5. ASSUME NEW k \in 1 .. n
      PROVE  /\ c[k] = New(e[k], k) /\ c[k] \in Modules /\ c[k].effect = e[k]
             /\ c[k].id \notin InUse
             /\ Cardinality({j \in Ids \ InUse : j <= c[k].id}) = k
  <2>1. c[k] = New(e[k], k)
    BY <1>4
  <2>2. k \in 1 .. MaxModules /\ e[k] \in Effect
    BY <1>3
  <2> QED BY <2>1, <2>2, NewIs
<1>6. c \in [1 .. n -> Modules]
  <2>1. \A k \in 1 .. n : New(e[k], k) \in Modules
    BY <1>5
  <2> QED BY <1>4, <2>1
<1> HIDE DEF c
<1>7. c \in Seq(Modules) /\ Len(c) = n
  BY <1>2, <1>6, SeqDef, LenProperties
<1>8. OwnIds(c)
  BY <1>5, <1>7 DEF OwnIds
<1>9. Effects(c) = e
  BY <1>2, <1>5, <1>7, EffectsEqual
<1> QED BY <1>2, <1>5, <1>7, <1>8, <1>9 DEF Sound, c

-----------------------------------------------------------------------------
(* One command, on the main thread's chain.                                *)

LEMMA EditedIs ==
  ASSUME NEW c \in Seq(Modules), NEW s \in Slot, NEW e \in Choice
  PROVE  LET d == Edited(c, SetSlot(s, e))
         IN \/ EffectAt(Effects(c), s) = e /\ d = c
            \/ /\ EffectAt(Effects(c), s) # e
               /\ \/ e \in Effect /\ s < Len(c) /\ d = [c EXCEPT ![s + 1] = New(e, 1)]
                  \/ e \in Effect /\ ~(s < Len(c)) /\ d = Append(c, New(e, 1))
                  \/ e = noModule /\ s < Len(c) /\ d = RemoveAt(c, s + 1)
<1> DEFINE command == SetSlot(s, e)
           d == Edited(c, command)
<1>1. command.kind = "slot" /\ command.slot = s /\ command.effect = e
  BY DEF SetSlot
<1> HIDE DEF command
<1>2. EffectAt(Effects(c), s) = e => d = c
  BY <1>1 DEF Edited
<1>3. CASE EffectAt(Effects(c), s) # e /\ e = noModule
  <2>1. d = InstallModuleInSlot(c, s, noModule)
    BY <1>1, <1>3 DEF Edited
  <2>2. s < Len(c)
    BY <1>3, Limits, EffectAtIs
  <2> QED BY <1>3, <2>1, <2>2 DEF InstallModuleInSlot, command, d
<1>4. CASE EffectAt(Effects(c), s) # e /\ e # noModule
  <2>1. d = InsertAtAndReplace(c, s, New(e, 1))
    BY <1>1, <1>4 DEF Edited
  <2> QED BY <1>4, <2>1 DEF InsertAtAndReplace, Choice, command, d
<1> QED BY <1>2, <1>3, <1>4 DEF d, command

\* A slot edited here is the selector written to the effects, and the command
\* carried out on them.
LEMMA EditedSlot ==
  ASSUME Sound(main), regions \in Strips, NEW c, Sound(c),
         \A k \in 1 .. Len(c) : c[k].id \in InUse,
         NEW s \in Slot, NEW e \in Choice
  PROVE  LET d == Edited(c, SetSlot(s, e))
         IN /\ Sound(d)
            /\ Effects(d) = SetParameter(Effects(c), s, e)
            /\ Effects(d) = Apply(Effects(c), SetSlot(s, e))
            /\ \A k \in 1 .. Len(d) : d[k].id \notin InUse \/ \E l \in 1 .. Len(c) : d[k] = c[l]
            /\ Len(d) = IF e = noModule THEN IF s < Len(c) THEN Len(c) - 1 ELSE Len(c)
                        ELSE IF s < Len(c) THEN Len(c) ELSE Len(c) + 1
<1> DEFINE command == SetSlot(s, e)
           d == Edited(c, command)
           f == Effects(c)
           m == New(e, 1)
<1>1. /\ c \in Seq(Modules) /\ Len(c) \in Nat /\ Len(c) <= MaxModules /\ DOMAIN c = 1 .. Len(c)
      /\ f \in Seq(Effect) /\ Len(f) = Len(c)
  BY EffectsAre DEF Sound
<1>2. s \in Nat /\ s < MaxModules /\ MaxModules \in Nat /\ 1 \in 1 .. MaxModules
  BY Limits
<1>3. \/ EffectAt(f, s) = e /\ d = c
      \/ /\ EffectAt(f, s) # e
         /\ \/ e \in Effect /\ s < Len(c) /\ d = [c EXCEPT ![s + 1] = m]
            \/ e \in Effect /\ ~(s < Len(c)) /\ d = Append(c, m)
            \/ e = noModule /\ s < Len(c) /\ d = RemoveAt(c, s + 1)
  BY <1>1, EditedIs
<1>4. e \in Effect => /\ m \in Modules /\ m.effect = e /\ m.id \notin InUse
                      /\ \A k \in 1 .. Len(c) : c[k].id # m.id
  BY <1>2, NewIs
<1>5. e \in Effect => e # noModule
  BY EffectAssumption
<1>6. Apply(f, command) = InstallModuleInSlot(f, s, e)
  BY DEF Apply, SetSlot, command
<1>7. EffectAt(f, s) = e => /\ Len(c) <= s <=> e = noModule
                           /\ InstallModuleInSlot(f, s, e) = f
  <2> SUFFICES ASSUME EffectAt(f, s) = e
               PROVE (Len(c) <= s <=> e = noModule) /\ InstallModuleInSlot(f, s, e) = f
    OBVIOUS
  <2>1. Len(c) <= s <=> e = noModule
    BY <1>1, <1>2, EffectAtIs
  <2>2. CASE Len(c) <= s
    BY <1>1, <1>2, <2>1, <2>2 DEF InstallModuleInSlot
  <2>3. CASE ~(Len(c) <= s)
    <3>1. f[s + 1] = e /\ s + 1 \in 1 .. Len(f) /\ s < Len(f)
      BY <1>1, <1>2, <2>3 DEF EffectAt
    <3>2. InstallModuleInSlot(f, s, e) = [f EXCEPT ![s + 1] = e]
      BY <2>1, <2>3, <3>1 DEF InstallModuleInSlot, InsertAtAndReplace
    <3> QED BY <1>1, <2>1, <3>1, <3>2
  <2> QED BY <2>1, <2>2, <2>3
<1>8. SetParameter(f, s, e) = InstallModuleInSlot(f, s, e)
  BY <1>7 DEF SetParameter
<1> HIDE DEF d, f, m, command
<1>10. CASE EffectAt(f, s) = e
  <2>1. d = c /\ \A k \in 1 .. Len(d) : \E l \in 1 .. Len(c) : d[k] = c[l]
    BY <1>3, <1>10
  <2>2. Effects(d) = f /\ SetParameter(f, s, e) = f /\ Apply(f, command) = f
    BY <1>6, <1>7, <1>8, <1>10, <2>1 DEF f
  <2>3. Len(d) = IF e = noModule THEN IF s < Len(c) THEN Len(c) - 1 ELSE Len(c)
                 ELSE IF s < Len(c) THEN Len(c) ELSE Len(c) + 1
    <3>1. e = noModule <=> ~(s < Len(c))
      BY <1>1, <1>2, <1>7, <1>10
    <3> QED BY <2>1, <3>1
  <2> QED BY <2>1, <2>2, <2>3 DEF f, d, command
<1>11. CASE e \in Effect /\ s < Len(c) /\ d = [c EXCEPT ![s + 1] = m]
  <2>1. s + 1 \in 1 .. Len(c)
    BY <1>1, <1>2, <1>11
  <2>2. Sound(d) /\ Effects(d) = [f EXCEPT ![s + 1] = e]
    <3>1. m \in Modules /\ m.effect = e /\ \A k \in 1 .. Len(c) : c[k].id # m.id
      BY <1>4, <1>11
    <3>2. Sound([c EXCEPT ![s + 1] = m])
          /\ Effects([c EXCEPT ![s + 1] = m]) = [Effects(c) EXCEPT ![s + 1] = m.effect]
      BY <2>1, <3>1, ReplaceSound
    <3> QED BY <1>11, <3>1, <3>2 DEF f
  <2>3. InstallModuleInSlot(f, s, e) = [f EXCEPT ![s + 1] = e]
    BY <1>1, <1>5, <1>11 DEF InstallModuleInSlot, InsertAtAndReplace
  <2>4. Len(d) = Len(c) /\ \A k \in 1 .. Len(c) : d[k] = IF k = s + 1 THEN m ELSE c[k]
    BY <1>1, <1>4, <1>11, <2>1, Excepted
  <2>5. \A k \in 1 .. Len(d) : d[k].id \notin InUse \/ \E l \in 1 .. Len(c) : d[k] = c[l]
    BY <1>4, <1>11, <2>4
  <2> QED BY <1>5, <1>6, <1>8, <1>11, <2>2, <2>3, <2>4, <2>5 DEF d, f, command
<1>12. CASE e \in Effect /\ ~(s < Len(c)) /\ d = Append(c, m)
  <2>1. Len(c) < MaxModules
    BY <1>1, <1>2, <1>12
  <2>2. Sound(d) /\ Effects(d) = Append(f, e)
    BY <1>4, <1>12, <2>1, AppendSound DEF f
  <2>3. InstallModuleInSlot(f, s, e) = Append(f, e)
    BY <1>1, <1>5, <1>12 DEF InstallModuleInSlot, InsertAtAndReplace
  <2>4. Len(d) = Len(c) + 1 /\ d[Len(c) + 1] = m /\ \A k \in 1 .. Len(c) : d[k] = c[k]
    BY <1>1, <1>4, <1>12, Appended
  <2>5. \A k \in 1 .. Len(d) : k = Len(c) + 1 \/ k \in 1 .. Len(c)
    BY <1>1, <2>4
  <2>6. \A k \in 1 .. Len(d) : d[k].id \notin InUse \/ \E l \in 1 .. Len(c) : d[k] = c[l]
    BY <1>4, <1>12, <2>4, <2>5
  <2> QED BY <1>5, <1>6, <1>8, <1>12, <2>2, <2>3, <2>4, <2>6 DEF d, f, command
<1>13. CASE e = noModule /\ s < Len(c) /\ d = RemoveAt(c, s + 1)
  <2>1. s + 1 \in 1 .. Len(c)
    BY <1>1, <1>2, <1>13
  <2>2. Sound(d) /\ Effects(d) = RemoveAt(f, s + 1)
    BY <1>13, <2>1, RemoveSound DEF f
  <2>3. InstallModuleInSlot(f, s, e) = RemoveAt(f, s + 1)
    BY <1>1, <1>13 DEF InstallModuleInSlot
  <2>4. Len(d) = Len(c) - 1
        /\ \A k \in 1 .. Len(c) - 1 : d[k] = IF k < s + 1 THEN c[k] ELSE c[k + 1]
    BY <1>1, <1>13, <2>1, Removed
  <2>5. \A k \in 1 .. Len(d) : k \in 1 .. Len(c) /\ k + 1 \in 1 .. Len(c)
    BY <1>1, <2>4
  <2>6. \A k \in 1 .. Len(d) : \E l \in 1 .. Len(c) : d[k] = c[l]
    BY <2>4, <2>5
  <2> QED BY <1>6, <1>8, <1>13, <2>2, <2>3, <2>4, <2>6 DEF d, f, command
<1> QED BY <1>3, <1>10, <1>11, <1>12, <1>13

LEMMA EditedMove ==
  ASSUME NEW c, Sound(c), NEW i \in 0 .. Len(c) - 1, NEW j \in 0 .. Len(c) - 1, i # j
  PROVE  LET d == Edited(c, Move(i, j))
         IN /\ d = MoveModule(c, i, j) /\ Sound(d) /\ Len(d) = Len(c)
            /\ Effects(d) = Apply(Effects(c), Move(i, j))
            /\ \A k \in 1 .. Len(d) : d[k] = c[Source(i, j, k)] /\ Source(i, j, k) \in 1 .. Len(c)
<1> DEFINE command == Move(i, j)
<1>1. command.kind = "move" /\ command.from = i /\ command.to = j
  BY DEF Move
<1> HIDE DEF command
<1>2. Edited(c, command) = MoveModule(c, i, j)
      /\ Apply(Effects(c), command) = MoveModule(Effects(c), i, j)
  BY <1>1 DEF Edited, Apply
<1>3. c \in Seq(Modules) /\ Len(c) \in Nat
  BY LenProperties DEF Sound
<1>4. \A k \in 1 .. Len(c) : Source(i, j, k) \in 1 .. Len(c)
  BY <1>3, SourceIs
<1>5. /\ Sound(MoveModule(c, i, j)) /\ Effects(MoveModule(c, i, j)) = MoveModule(Effects(c), i, j)
      /\ Len(MoveModule(c, i, j)) = Len(c)
      /\ \A k \in 1 .. Len(c) : MoveModule(c, i, j)[k] = c[Source(i, j, k)]
  BY <1>3, MoveSound, Moved
<1> QED BY <1>2, <1>4, <1>5 DEF command

-----------------------------------------------------------------------------
(* Edits of one command and of two, and what takes them back.              *)

Bare(chain) == [chain |-> chain, undo |-> <<>>]

LEMMA CarriedNothing ==
  ASSUME NEW c PROVE Carried(c, <<>>) = Bare(c)
<1> DEFINE none == <<>>
           F(f) == f = [n \in 0 .. Len(none) |->
                          IF n = 0 THEN [chain |-> c, undo |-> <<>>] ELSE OneMore(f[n - 1], none[n])]
           done == CHOOSE f : F(f)
<1>1. Len(none) = 0
  OBVIOUS
<1> HIDE DEF none
<1>2. \E f : F(f)
  <2> DEFINE f == [n \in {0} |-> Bare(c)]
  <2>1. F(f)
    BY <1>1 DEF Bare
  <2> HIDE DEF F
  <2> QED BY <2>1
<1>3. Carried(c, none) = done[Len(none)]
  BY Zenon DEF Carried
<1> HIDE DEF F
<1>4. F(done)
  BY <1>2, Zenon
<1> HIDE DEF done
<1>5. done[0] = Bare(c)
  BY <1>1, <1>4 DEF F, Bare
<1> QED BY <1>1, <1>3, <1>5 DEF none

LEMMA CarriedOne ==
  ASSUME NEW c, NEW x PROVE Carried(c, <<x>>) = OneMore(Bare(c), x)
<1> DEFINE one == <<x>>
           F(f) == f = [n \in 0 .. Len(one) |->
                          IF n = 0 THEN [chain |-> c, undo |-> <<>>] ELSE OneMore(f[n - 1], one[n])]
           done == CHOOSE f : F(f)
<1>1. Len(one) = 1 /\ one[1] = x
  OBVIOUS
<1> HIDE DEF one
<1>2. \E f : F(f)
  <2> DEFINE last == OneMore(Bare(c), x)
             f == [n \in 0 .. 1 |-> IF n = 0 THEN Bare(c) ELSE last]
  <2>1. f[0] = Bare(c) /\ f[1] = OneMore(f[0], x)
    OBVIOUS
  <2>2. \A n \in 0 .. 1 : f[n] = IF n = 0 THEN Bare(c) ELSE OneMore(f[n - 1], one[n])
    BY <1>1, <2>1
  <2>3. f = [n \in 0 .. 1 |-> f[n]]
    OBVIOUS
  <2> HIDE DEF f
  <2>4. F(f)
    BY <1>1, <2>2, <2>3 DEF Bare
  <2> HIDE DEF F
  <2> QED BY <2>4
<1>3. Carried(c, one) = done[Len(one)]
  BY Zenon DEF Carried
<1> HIDE DEF F
<1>4. F(done)
  BY <1>2, Zenon
<1> HIDE DEF done
<1>5. done[0] = Bare(c) /\ done[1] = OneMore(done[0], x)
  BY <1>1, <1>4 DEF F, Bare
<1> QED BY <1>1, <1>3, <1>5 DEF one

LEMMA CarriedTwo ==
  ASSUME NEW c, NEW x, NEW y
  PROVE  Carried(c, <<x, y>>) = OneMore(OneMore(Bare(c), x), y)
<1> DEFINE two == <<x, y>>
           F(f) == f = [n \in 0 .. Len(two) |->
                          IF n = 0 THEN [chain |-> c, undo |-> <<>>] ELSE OneMore(f[n - 1], two[n])]
           done == CHOOSE f : F(f)
<1>1. Len(two) = 2 /\ two[1] = x /\ two[2] = y
  OBVIOUS
<1> HIDE DEF two
<1>2. \E f : F(f)
  <2> DEFINE mid == OneMore(Bare(c), x)
             last == OneMore(mid, y)
             f == [n \in 0 .. 2 |-> IF n = 0 THEN Bare(c) ELSE IF n = 1 THEN mid ELSE last]
  <2>1. f[0] = Bare(c) /\ f[1] = mid /\ f[2] = last
    OBVIOUS
  <2>2. f[1] = OneMore(f[0], two[1]) /\ f[2] = OneMore(f[1], two[2])
    BY <1>1, <2>1
  <2>3. f = [n \in 0 .. 2 |-> f[n]]
    OBVIOUS
  <2> HIDE DEF f
  <2>4. \A n \in 0 .. 2 : f[n] = IF n = 0 THEN Bare(c) ELSE OneMore(f[n - 1], two[n])
    <3>1. \A n \in 0 .. 2 : n = 0 \/ n = 1 \/ n = 2
      OBVIOUS
    <3> QED BY <2>1, <2>2, <3>1
  <2>5. F(f)
    BY <1>1, <2>3, <2>4 DEF Bare
  <2> HIDE DEF F
  <2> QED BY <2>5
<1>3. Carried(c, two) = done[Len(two)]
  BY Zenon DEF Carried
<1> HIDE DEF F
<1>4. F(done)
  BY <1>2, Zenon
<1> HIDE DEF done
<1>5. done[0] = Bare(c) /\ done[1] = OneMore(done[0], x) /\ done[2] = OneMore(done[1], y)
  BY <1>1, <1>4 DEF F, Bare
<1> QED BY <1>1, <1>3, <1>5 DEF two

LEMMA Chained == ASSUME NEW x, NEW y PROVE <<x>> \o <<>> = <<x>> /\ <<x>> \o <<y>> = <<x, y>>
<1> DEFINE S == {x, y}
           a == <<x>>
           b == <<y>>
           both == <<x, y>>
<1>1. a \in Seq(S) /\ b \in Seq(S) /\ both \in Seq(S)
  OBVIOUS
<1>2. Len(a) = 1 /\ a[1] = x /\ Len(b) = 1 /\ b[1] = y
      /\ Len(both) = 2 /\ both[1] = x /\ both[2] = y
  OBVIOUS
<1> HIDE DEF S, a, b, both
<1>3. a \o <<>> = a
  BY <1>1, ConcatEmptySeq
<1>4. a \o b \in Seq(S) /\ Len(a \o b) = 2 /\ (a \o b)[1] = x /\ (a \o b)[2] = y
  BY <1>1, <1>2, ConcatProperties
<1>5. \A i \in 1 .. 2 : i = 1 \/ i = 2
  OBVIOUS
<1>6. a \o b = both
  BY <1>1, <1>2, <1>4, <1>5, SeqEqual
<1> QED BY <1>3, <1>6 DEF a, b, both

\* The edits of the rack, on a chain of n modules: those a click makes and
\* those that take one back.
Doable(commands, n) ==
  \/ commands = <<>>
  \/ \E s \in Slot, e \in Choice : commands = <<SetSlot(s, e)>>
  \/ \E i, j \in 0 .. n - 1 : i # j /\ commands = <<Move(i, j)>>
  \/ \E i, j, k, l \in 0 .. n - 1 : i # j /\ k # l /\ commands = <<Move(i, j), Move(k, l)>>
  \/ \E e \in Effect, g \in 0 .. n - 1 :
       n < MaxModules /\ commands = <<SetSlot(n, e), Move(n, g)>>
  \/ \E g \in 0 .. n - 2 : commands = <<Move(g, n - 1), SetSlot(n - 1, noModule)>>

SlotCommand == [kind : {"slot"}, slot : Slot, effect : Choice]
MoveCommand == [kind : {"move"}, from : Slot, to : Slot]
ChainCommand == {SwapChain(chain) : chain \in Chain}
Command == SlotCommand \cup MoveCommand \cup ChainCommand

LEMMA CommandsAre ==
  /\ \A s \in Slot, e \in Choice : SetSlot(s, e) \in Command
  /\ \A i, j \in Slot : Move(i, j) \in Command
  /\ \A chain \in Chain : SwapChain(chain) \in Command
BY DEF SetSlot, Move, Command, SlotCommand, MoveCommand, ChainCommand

LEMMA DoableCommands ==
  ASSUME NEW n \in 0 .. MaxModules, NEW commands, Doable(commands, n)
  PROVE  commands \in Seq(Command)
<1>1. \A i \in 0 .. n - 1 : i \in Slot
  BY Limits
<1>2. \A e \in Effect : e \in Choice
  BY DEF Choice
<1>3. noModule \in Choice
  BY DEF Choice
<1>4. CASE commands = <<>>
  BY <1>4
<1>5. CASE \E s \in Slot, e \in Choice : commands = <<SetSlot(s, e)>>
  BY <1>5, CommandsAre
<1>6. CASE \E i, j \in 0 .. n - 1 : i # j /\ commands = <<Move(i, j)>>
  BY <1>1, <1>6, CommandsAre
<1>7. CASE \E i, j, k, l \in 0 .. n - 1 :
             i # j /\ k # l /\ commands = <<Move(i, j), Move(k, l)>>
  BY <1>1, <1>7, CommandsAre
<1>8. CASE \E e \in Effect, g \in 0 .. n - 1 :
             n < MaxModules /\ commands = <<SetSlot(n, e), Move(n, g)>>
  <2>1. PICK e \in Effect, g \in 0 .. n - 1 :
          n < MaxModules /\ commands = <<SetSlot(n, e), Move(n, g)>>
    BY <1>8
  <2>2. n \in Slot /\ g \in Slot /\ e \in Choice
    BY <1>1, <1>2, <2>1, Limits
  <2>3. SetSlot(n, e) \in Command /\ Move(n, g) \in Command
    BY <2>2, CommandsAre
  <2> QED BY <2>1, <2>3
<1>9. CASE \E g \in 0 .. n - 2 : commands = <<Move(g, n - 1), SetSlot(n - 1, noModule)>>
  <2>1. PICK g \in 0 .. n - 2 : commands = <<Move(g, n - 1), SetSlot(n - 1, noModule)>>
    BY <1>9
  <2>2. n - 1 \in Slot /\ g \in Slot
    BY Limits
  <2>3. Move(g, n - 1) \in Command /\ SetSlot(n - 1, noModule) \in Command
    BY <1>3, <2>2, CommandsAre
  <2> QED BY <2>1, <2>3
<1> QED BY <1>4, <1>5, <1>6, <1>7, <1>8, <1>9 DEF Doable

\* What a chain holds is what main held or new.
Descends(chain) ==
  \A k \in 1 .. Len(chain) : chain[k].id \notin InUse \/ \E l \in 1 .. Len(main) : chain[k] = main[l]

LEMMA MainInUse ==
  ASSUME Sound(main) PROVE \A k \in 1 .. Len(main) : main[k].id \in InUse
<1>1. DOMAIN main = 1 .. Len(main)
  BY LenProperties DEF Sound
<1> QED BY <1>1 DEF InUse

LEMMA InverseOfSlot ==
  ASSUME NEW c, NEW s, NEW e
  PROVE  InverseOf(c, SetSlot(s, e)) = SetSlot(s, EffectAt(Effects(c), s))
<1> DEFINE x == SetSlot(s, e)
<1>1. x.kind = "slot" /\ x.slot = s
  BY DEF SetSlot
<1> HIDE DEF x
<1>2. InverseOf(c, x) = SetSlot(s, EffectAt(Effects(c), s))
  BY <1>1 DEF InverseOf
<1> QED BY <1>2 DEF x

LEMMA InverseOfMove ==
  ASSUME NEW c, NEW i, NEW j PROVE InverseOf(c, Move(i, j)) = Move(j, i)
<1> DEFINE x == Move(i, j)
<1>1. x.kind = "move" /\ x.from = i /\ x.to = j
  BY DEF Move
<1> HIDE DEF x
<1>2. InverseOf(c, x) = Move(j, i)
  BY <1>1 DEF InverseOf
<1> QED BY <1>2 DEF x

LEMMA CarriedBoth ==
  ASSUME NEW x, NEW y
  PROVE  /\ Carried(main, <<x>>).chain = Edited(main, x)
         /\ Carried(main, <<x>>).undo = <<InverseOf(main, x)>>
         /\ Carried(main, <<x, y>>).chain = Edited(Edited(main, x), y)
         /\ Carried(main, <<x, y>>).undo = <<InverseOf(Edited(main, x), y), InverseOf(main, x)>>
<1>1. OneMore(Bare(main), x).chain = Edited(main, x)
      /\ OneMore(Bare(main), x).undo = <<InverseOf(main, x)>>
  BY Chained DEF OneMore, Bare
<1> DEFINE once == OneMore(Bare(main), x)
<1> HIDE DEF once
<1>2. OneMore(once, y).chain = Edited(once.chain, y)
      /\ OneMore(once, y).undo = <<InverseOf(once.chain, y)>> \o once.undo
  BY DEF OneMore
<1>3. OneMore(once, y).chain = Edited(Edited(main, x), y)
      /\ OneMore(once, y).undo = <<InverseOf(Edited(main, x), y), InverseOf(main, x)>>
  BY <1>1, <1>2, Chained DEF once
<1> QED BY <1>1, <1>3, CarriedOne, CarriedTwo DEF once

LEMMA MoveHolds ==
  ASSUME NEW c, Sound(c), NEW i \in 0 .. Len(c) - 1, NEW j \in 0 .. Len(c) - 1, i # j
  PROVE  LET d == Edited(c, Move(i, j))
         IN /\ d = MoveModule(c, i, j) /\ Sound(d) /\ Len(d) = Len(c)
            /\ Effects(d) = Apply(Effects(c), Move(i, j))
            /\ \A n \in 1 .. Len(d) : \E m \in 1 .. Len(c) : d[n] = c[m]
<1> DEFINE d == Edited(c, Move(i, j))
<1>1. /\ d = MoveModule(c, i, j) /\ Sound(d) /\ Len(d) = Len(c)
      /\ Effects(d) = Apply(Effects(c), Move(i, j))
      /\ \A n \in 1 .. Len(d) : d[n] = c[Source(i, j, n)] /\ Source(i, j, n) \in 1 .. Len(c)
  BY EditedMove
<1> QED BY <1>1

Carries(commands) ==
  LET carried == Carried(main, commands)
  IN /\ Sound(carried.chain) /\ Doable(carried.undo, Len(carried.chain))
     /\ Effects(carried.chain) = AllApplied(Effects(main), commands)
     /\ Descends(carried.chain)

LEMMA EffectChoice ==
  ASSUME NEW c \in Seq(Modules), NEW s \in Nat PROVE EffectAt(Effects(c), s) \in Choice
<1>1. CASE s < Len(c)
  <2>1. s + 1 \in 1 .. Len(c)
    BY <1>1, LenProperties
  <2>2. c[s + 1] \in Modules /\ EffectAt(Effects(c), s) = c[s + 1].effect
    BY <1>1, <2>1, EffectAtIs, ElementOfSeq
  <2> QED BY <2>2 DEF Modules, Choice
<1>2. CASE ~(s < Len(c))
  BY <1>2, EffectAtIs DEF Choice
<1> QED BY <1>1, <1>2

LEMMA CarrySlot ==
  ASSUME Sound(main), regions \in Strips, NEW s \in Slot, NEW e \in Choice
  PROVE  /\ Carries(<<SetSlot(s, e)>>)
         /\ Carried(main, <<SetSlot(s, e)>>).chain = Edited(main, SetSlot(s, e))
<1> DEFINE x == SetSlot(s, e)
           d == Edited(main, x)
           f == Effects(main)
<1>1. /\ Sound(d) /\ Effects(d) = Apply(f, x)
      /\ \A k \in 1 .. Len(d) : d[k].id \notin InUse \/ \E l \in 1 .. Len(main) : d[k] = main[l]
  BY EditedSlot, MainInUse
<1>2. InverseOf(main, x) = SetSlot(s, EffectAt(f, s)) /\ EffectAt(f, s) \in Choice
  BY InverseOfSlot, EffectChoice, Limits DEF Sound
<1> HIDE DEF x, f, d
<1>3. Carried(main, <<x>>).chain = d /\ Carried(main, <<x>>).undo = <<InverseOf(main, x)>>
  BY CarriedBoth DEF d
<1>4. AllApplied(f, <<x>>) = Apply(f, x)
  BY AppliedOne
<1>5. Doable(<<InverseOf(main, x)>>, Len(d))
  BY <1>2 DEF Doable
<1> QED BY <1>1, <1>3, <1>4, <1>5 DEF Carries, Descends, x, f, d

LEMMA CarryMove ==
  ASSUME Sound(main), NEW i \in 0 .. Len(main) - 1, NEW j \in 0 .. Len(main) - 1, i # j
  PROVE  /\ Carries(<<Move(i, j)>>)
         /\ Carried(main, <<Move(i, j)>>).chain = MoveModule(main, i, j)
<1> DEFINE x == Move(i, j)
           d == Edited(main, x)
           f == Effects(main)
<1>1. /\ d = MoveModule(main, i, j) /\ Sound(d) /\ Effects(d) = Apply(f, x) /\ Len(d) = Len(main)
      /\ \A k \in 1 .. Len(d) : \E l \in 1 .. Len(main) : d[k] = main[l]
  BY EditedMove
<1>2. InverseOf(main, x) = Move(j, i)
  BY InverseOfMove
<1> HIDE DEF x, f, d
<1>3. Carried(main, <<x>>).chain = d /\ Carried(main, <<x>>).undo = <<InverseOf(main, x)>>
  BY CarriedBoth DEF d
<1>4. AllApplied(f, <<x>>) = Apply(f, x)
  BY AppliedOne
<1>5. Doable(<<InverseOf(main, x)>>, Len(d))
  BY <1>1, <1>2 DEF Doable
<1> QED BY <1>1, <1>3, <1>4, <1>5 DEF Carries, Descends, x, f, d

LEMMA CarryMoves ==
  ASSUME Sound(main), NEW i \in 0 .. Len(main) - 1, NEW j \in 0 .. Len(main) - 1, i # j,
         NEW k \in 0 .. Len(main) - 1, NEW l \in 0 .. Len(main) - 1, k # l
  PROVE  /\ Carries(<<Move(i, j), Move(k, l)>>)
         /\ Carried(main, <<Move(i, j), Move(k, l)>>).chain
              = MoveModule(MoveModule(main, i, j), k, l)
<1> DEFINE x == Move(i, j)
           y == Move(k, l)
           d == Edited(main, x)
           b == Edited(d, y)
           f == Effects(main)
<1>1. /\ d = MoveModule(main, i, j) /\ Sound(d) /\ Effects(d) = Apply(f, x) /\ Len(d) = Len(main)
      /\ \A n \in 1 .. Len(d) : \E m \in 1 .. Len(main) : d[n] = main[m]
  BY MoveHolds
<1> HIDE DEF d
<1>2. /\ b = MoveModule(d, k, l) /\ Sound(b) /\ Effects(b) = Apply(Effects(d), y)
      /\ Len(b) = Len(d)
      /\ \A n \in 1 .. Len(b) : \E m \in 1 .. Len(d) : b[n] = d[m]
  <2>1. Sound(d) /\ k \in 0 .. Len(d) - 1 /\ l \in 0 .. Len(d) - 1
    BY <1>1
  <2> QED BY <2>1, MoveHolds
<1>3. InverseOf(main, x) = Move(j, i) /\ InverseOf(d, y) = Move(l, k)
  BY InverseOfMove
<1> HIDE DEF x, y, f, b
<1>4. /\ Carried(main, <<x, y>>).chain = b
      /\ Carried(main, <<x, y>>).undo = <<InverseOf(d, y), InverseOf(main, x)>>
  BY CarriedBoth DEF d, b
<1>5. AllApplied(f, <<x, y>>) = Apply(Apply(f, x), y)
  BY AppliedTwo
<1>6. Doable(<<InverseOf(d, y), InverseOf(main, x)>>, Len(b))
  BY <1>1, <1>2, <1>3 DEF Doable
<1>7. ASSUME NEW n \in 1 .. Len(b) PROVE \E m \in 1 .. Len(main) : b[n] = main[m]
  <2>1. PICK m \in 1 .. Len(d) : b[n] = d[m]
    BY <1>2
  <2> QED BY <1>1, <2>1
<1>8. b = MoveModule(MoveModule(main, i, j), k, l)
  BY <1>1, <1>2
<1>9. Carries(<<x, y>>)
  <2>1. Effects(b) = AllApplied(f, <<x, y>>)
    BY <1>1, <1>2, <1>5
  <2>2. Descends(b)
    BY <1>7 DEF Descends
  <2> QED BY <1>2, <1>4, <1>6, <2>1, <2>2 DEF Carries, f
<1> QED BY <1>4, <1>8, <1>9 DEF x, y

LEMMA CarryInsert ==
  ASSUME Sound(main), regions \in Strips, NEW e \in Effect, Len(main) < MaxModules,
         NEW g \in 0 .. Len(main) - 1
  PROVE  LET commands == <<SetSlot(Len(main), e), Move(Len(main), g)>>
         IN /\ Carries(commands)
            /\ Carried(main, commands).chain
                 = MoveModule(Edited(main, SetSlot(Len(main), e)), Len(main), g)
            /\ Len(Carried(main, commands).chain) = Len(main) + 1
<1> DEFINE n == Len(main)
           x == SetSlot(n, e)
           y == Move(n, g)
           d == Edited(main, x)
           b == Edited(d, y)
           f == Effects(main)
<1>1. n \in Nat /\ n \in Slot /\ e \in Choice /\ e # noModule /\ main \in Seq(Modules)
  BY Limits, EffectAssumption, LenProperties DEF Choice, Sound
<1>2. /\ Sound(d) /\ Effects(d) = Apply(f, x) /\ Len(d) = n + 1
      /\ \A k \in 1 .. Len(d) : d[k].id \notin InUse \/ \E l \in 1 .. n : d[k] = main[l]
  <2> HIDE DEF n
  <2>1. ~(n < Len(main))
    BY <1>1 DEF n
  <2> QED BY <1>1, <2>1, EditedSlot, MainInUse DEF n
<1> HIDE DEF d
<1>3. /\ b = MoveModule(d, n, g) /\ Sound(b) /\ Effects(b) = Apply(Effects(d), y)
      /\ Len(b) = Len(d)
      /\ \A k \in 1 .. Len(b) : \E l \in 1 .. Len(d) : b[k] = d[l]
  <2>1. Sound(d) /\ n \in 0 .. Len(d) - 1 /\ g \in 0 .. Len(d) - 1 /\ n # g
    <3> HIDE DEF n
    <3>1. g \in 0 .. n - 1
      BY DEF n
    <3> QED BY <1>1, <1>2, <3>1
  <2> HIDE DEF n
  <2> QED BY <2>1, MoveHolds
<1>4. InverseOf(main, x) = SetSlot(n, noModule) /\ InverseOf(d, y) = Move(g, n)
  BY <1>1, InverseOfSlot, InverseOfMove, EffectAtIs
<1> HIDE DEF x, y, f, b, n
<1>5. /\ Carried(main, <<x, y>>).chain = b
      /\ Carried(main, <<x, y>>).undo = <<InverseOf(d, y), InverseOf(main, x)>>
  BY CarriedBoth DEF d, b
<1>6. AllApplied(f, <<x, y>>) = Apply(Apply(f, x), y)
  BY AppliedTwo
<1>7. Doable(<<InverseOf(d, y), InverseOf(main, x)>>, Len(b))
  <2>1. (n + 1) - 1 = n /\ g \in 0 .. (n + 1) - 2 /\ Len(b) = n + 1
    BY <1>1, <1>2, <1>3 DEF n
  <2> QED BY <1>4, <2>1 DEF Doable
<1>8. \A k \in 1 .. Len(b) : b[k].id \notin InUse \/ \E l \in 1 .. n : b[k] = main[l]
  BY <1>2, <1>3
<1> QED BY <1>2, <1>3, <1>5, <1>6, <1>7, <1>8 DEF Carries, Descends, x, y, f, n, d

LEMMA CarryUninsert ==
  ASSUME Sound(main), regions \in Strips, NEW g \in 0 .. Len(main) - 2
  PROVE  Carries(<<Move(g, Len(main) - 1), SetSlot(Len(main) - 1, noModule)>>)
<1> DEFINE n == Len(main) - 1
           x == Move(g, n)
           y == SetSlot(n, noModule)
           d == Edited(main, x)
           b == Edited(d, y)
           f == Effects(main)
<1>1. Len(main) \in Nat /\ n \in Nat /\ n \in Slot /\ main \in Seq(Modules) /\ g < n /\ n < MaxModules
      /\ noModule \in Choice
  BY Limits, LenProperties DEF Sound, Choice
<1>2. /\ Sound(d) /\ Effects(d) = Apply(f, x) /\ Len(d) = n + 1
      /\ \A k \in 1 .. Len(d) : \E l \in 1 .. Len(main) : d[k] = main[l]
  <2>1. n \in 0 .. Len(main) - 1 /\ g \in 0 .. Len(main) - 1 /\ g # n /\ Len(main) = n + 1
    BY <1>1
  <2> HIDE DEF n
  <2> QED BY <2>1, MoveHolds
<1> HIDE DEF d
<1>9. \A k \in 1 .. Len(d) : d[k].id \in InUse
  BY <1>2, MainInUse
<1>10. d \in Seq(Modules) /\ n < Len(d)
  BY <1>1, <1>2 DEF Sound
<1> HIDE DEF n
<1>3. /\ Sound(b) /\ Effects(b) = Apply(Effects(d), y) /\ Len(b) = n
      /\ \A k \in 1 .. Len(b) : b[k].id \notin InUse \/ \E l \in 1 .. Len(d) : b[k] = d[l]
  <2>1. /\ Sound(b) /\ Effects(b) = Apply(Effects(d), y)
        /\ \A k \in 1 .. Len(b) : b[k].id \notin InUse \/ \E l \in 1 .. Len(d) : b[k] = d[l]
    BY <1>1, <1>2, <1>9, EditedSlot
  <2>2. Len(b) = Len(d) - 1
    BY <1>1, <1>2, <1>9, <1>10, EditedSlot
  <2> QED BY <1>1, <1>2, <2>1, <2>2
<1>4. InverseOf(main, x) = Move(n, g) /\ InverseOf(d, y) = SetSlot(n, EffectAt(Effects(d), n))
      /\ EffectAt(Effects(d), n) \in Effect
  <2>1. EffectAt(Effects(d), n) \in Choice /\ EffectAt(Effects(d), n) # noModule
    BY <1>1, <1>10, EffectChoice, EffectAtIs
  <2> QED BY <2>1, InverseOfSlot, InverseOfMove DEF Choice
<1> HIDE DEF x, y, f, b
<1>5. /\ Carried(main, <<x, y>>).chain = b
      /\ Carried(main, <<x, y>>).undo = <<InverseOf(d, y), InverseOf(main, x)>>
  BY CarriedBoth DEF d, b
<1>6. AllApplied(f, <<x, y>>) = Apply(Apply(f, x), y)
  BY AppliedTwo
<1>7. Doable(<<InverseOf(d, y), InverseOf(main, x)>>, Len(b))
  <2>1. g \in 0 .. n - 1 /\ n < MaxModules
    BY <1>1
  <2> QED BY <1>3, <1>4, <2>1 DEF Doable
<1>8. \A k \in 1 .. Len(b) : b[k].id \notin InUse \/ \E l \in 1 .. Len(main) : b[k] = main[l]
  BY <1>2, <1>3
<1> QED BY <1>2, <1>3, <1>5, <1>6, <1>7, <1>8 DEF Carries, Descends, x, y, f, n

LEMMA EditDone ==
  ASSUME Sound(main), regions \in Strips, NEW commands, Doable(commands, Len(main))
  PROVE  Carries(commands)
<1>1. Len(main) \in Nat
  BY LenProperties DEF Sound
<1>2. CASE commands = <<>>
  <2>1. Carried(main, <<>>).chain = main /\ Carried(main, <<>>).undo = <<>>
    BY CarriedNothing DEF Bare
  <2>2. Doable(<<>>, Len(main))
    BY DEF Doable
  <2> QED BY <1>2, <2>1, <2>2, AppliedNothing DEF Carries, Descends
<1>3. CASE \E s \in Slot, e \in Choice : commands = <<SetSlot(s, e)>>
  BY <1>3, CarrySlot
<1>4. CASE \E i, j \in 0 .. Len(main) - 1 : i # j /\ commands = <<Move(i, j)>>
  BY <1>4, CarryMove
<1>5. CASE \E i, j, k, l \in 0 .. Len(main) - 1 :
             i # j /\ k # l /\ commands = <<Move(i, j), Move(k, l)>>
  BY <1>5, CarryMoves
<1>6. CASE \E e \in Effect, g \in 0 .. Len(main) - 1 :
             Len(main) < MaxModules /\ commands = <<SetSlot(Len(main), e), Move(Len(main), g)>>
  BY <1>6, CarryInsert
<1>7. CASE \E g \in 0 .. Len(main) - 2 :
             commands = <<Move(g, Len(main) - 1), SetSlot(Len(main) - 1, noModule)>>
  BY <1>7, CarryUninsert
<1> QED BY <1>2, <1>3, <1>4, <1>5, <1>6, <1>7 DEF Doable

-----------------------------------------------------------------------------
(* The rack redrawn.                                                       *)

LEMMA MinIn ==
  ASSUME NEW S \in SUBSET Nat, S # {}
  PROVE  Min(S) \in S /\ \A y \in S : Min(S) <= y
<1>1. IsWellFoundedOn(Earlier, Nat)
  BY NatLessThanWellFounded DEF OpToRel, Earlier
<1>2. PICK x \in S : \A y \in S : ~ (<<y, x>> \in Earlier)
  BY <1>1, WFMin
<1>3. \A y \in S : x <= y
  <2> TAKE y \in S
  <2>1. x \in Nat /\ y \in Nat /\ ~ (<<y, x>> \in Earlier)
    BY <1>2
  <2>2. ~ (y < x)
    BY <2>1 DEF Earlier
  <2> QED BY <2>1, <2>2
<1> QED BY <1>3 DEF Min

StripOf(chain, k) == [id |-> chain[k].id, effect |-> chain[k].effect, slot |-> k - 1]
\* No module has two strips, and the strip of a module says its effect.
OwnStrips(strips) ==
  \A p, q \in Places : strips[p] # noStrip /\ strips[p].id = strips[q].id => p = q
Named(strips, chain) ==
  \A p \in Places, k \in 1 .. Len(chain) :
    strips[p].id = chain[k].id => strips[p].effect = chain[k].effect
Shown(chain, strips) ==
  /\ \A p \in Places :
       strips[p] = noStrip \/ \E k \in 1 .. Len(chain) : strips[p] = StripOf(chain, k)
  /\ \A k \in 1 .. Len(chain) : \E p \in Places : strips[p] = StripOf(chain, k)

LEMMA StripsAre ==
  /\ noStrip.id = 0 /\ 0 \notin Ids /\ noStrip \notin Strip
  /\ \A s \in Strips : \A p \in Places :
       /\ s[p] = noStrip \/ (s[p] \in Strip /\ s[p].id \in Ids)
       /\ s[p].id \in Ids => s[p] # noStrip /\ s[p] \in Strip
BY Limits DEF noStrip, Ids, Strip, Strips

\* The strips of the first k modules stand in their slots.
DrawnUpto(k, s, chain) ==
  /\ s \in Strips /\ OwnStrips(s)
  /\ \A p \in Places : s[p] = noStrip \/ \E l \in 1 .. Len(chain) :
       /\ s[p].id = chain[l].id /\ s[p].effect = chain[l].effect
       /\ l <= k => s[p].slot = l - 1
  /\ \A l \in 1 .. k : \E p \in Places : s[p] = StripOf(chain, l)

LEMMA KeptDrawn ==
  ASSUME NEW shown \in Strips, OwnStrips(shown), NEW chain, Sound(chain), Named(shown, chain)
  PROVE  DrawnUpto(0, [p \in Places |-> IF \E k \in DOMAIN chain : chain[k].id = shown[p].id
                                          THEN shown[p] ELSE noStrip], chain)
<1> DEFINE s == [p \in Places |-> IF \E k \in DOMAIN chain : chain[k].id = shown[p].id
                                   THEN shown[p] ELSE noStrip]
<1>1. DOMAIN chain = 1 .. Len(chain) /\ Len(chain) \in Nat
      /\ \A k \in 1 .. Len(chain) : chain[k] \in Modules
  BY LenProperties, ElementOfSeq DEF Sound
<1>2. ASSUME NEW p \in Places
      PROVE  \/ s[p] = noStrip
             \/ s[p] = shown[p] /\ \E k \in 1 .. Len(chain) : chain[k].id = shown[p].id
  BY <1>1
<1>3. s \in Strips
  <2>1. \A p \in Places : shown[p] \in Strip \cup {noStrip}
    BY DEF Strips
  <2> QED BY <2>1 DEF Strips
<1> HIDE DEF s
<1>4. OwnStrips(s)
  <2> SUFFICES ASSUME NEW p \in Places, NEW q \in Places, s[p] # noStrip, s[p].id = s[q].id
               PROVE  p = q
    BY DEF OwnStrips
  <2>1. s[p] = shown[p] /\ shown[p] # noStrip /\ s[p].id \in Ids
    BY <1>2, <1>3, StripsAre
  <2>2. s[q] = shown[q]
    BY <1>2, <2>1, StripsAre
  <2> QED BY <2>1, <2>2 DEF OwnStrips
<1>5. ASSUME NEW p \in Places, s[p] # noStrip
      PROVE  \E l \in 1 .. Len(chain) :
               /\ s[p].id = chain[l].id /\ s[p].effect = chain[l].effect
               /\ l <= 0 => s[p].slot = l - 1
  <2>1. PICK k \in 1 .. Len(chain) : chain[k].id = shown[p].id /\ s[p] = shown[p]
    BY <1>2, <1>5
  <2>2. shown[p].effect = chain[k].effect /\ ~(k <= 0)
    BY <1>1, <2>1 DEF Named
  <2> QED BY <2>1, <2>2
<1>6. \A l \in 1 .. 0 : FALSE
  OBVIOUS
<1> QED BY <1>3, <1>4, <1>5, <1>6 DEF DrawnUpto, s

\* A module without a strip finds a place: the others have at most one each.
LEMMA PlaceLeft ==
  ASSUME NEW chain, Sound(chain), NEW k \in 0 .. Len(chain) - 1, NEW s, DrawnUpto(k, s, chain),
         \A p \in Places : s[p].id # chain[k + 1].id
  PROVE  \E p \in Places : s[p] = noStrip
<1> SUFFICES ASSUME \A p \in Places : s[p] # noStrip PROVE FALSE
  OBVIOUS
<1>1. Len(chain) \in Nat /\ Len(chain) <= MaxModules
  BY LenProperties DEF Sound
<1> DEFINE rest == (1 .. Len(chain)) \ {k + 1}
           Of(p, l) == s[p].id = chain[l].id
           f == [p \in Places |-> CHOOSE l \in rest : Of(p, l)]
<1>2. \A p \in Places : \E l \in rest : Of(p, l)
  BY DEF DrawnUpto
<1>3. \A p \in Places : f[p] \in rest /\ Of(p, f[p])
  <2> HIDE DEF Of, rest
  <2> QED BY <1>2
<1>4. f \in [Places -> rest]
  <2> HIDE DEF Of, rest
  <2> QED BY <1>2
<1> HIDE DEF f
<1>5. IsFiniteSet(rest) /\ Cardinality(rest) = Len(chain) - 1
  <2>1. k + 1 \in 1 .. Len(chain) /\ 1 \in Int /\ Len(chain) \in Int /\ ~(1 > Len(chain))
    BY <1>1
  <2>2. IsFiniteSet(1 .. Len(chain)) /\ Cardinality(1 .. Len(chain)) = Len(chain) - 1 + 1
    BY <2>1, FS_Interval
  <2>3. Len(chain) - 1 + 1 = Len(chain)
    BY <1>1
  <2> DEFINE all == 1 .. Len(chain)
  <2>4. IsFiniteSet(all) /\ Cardinality(all) = Len(chain) /\ k + 1 \in all
    BY <2>1, <2>2, <2>3
  <2> HIDE DEF all
  <2>5. IsFiniteSet(all \ {k + 1}) /\ Cardinality(all \ {k + 1}) = Cardinality(all) - 1
    BY <2>4, FS_RemoveElement
  <2> QED BY <2>4, <2>5 DEF all
<1>6. IsFiniteSet(Places) /\ Cardinality(Places) = MaxModules
  BY Limits, FS_Interval DEF Places
<1>7. Cardinality(rest) < Cardinality(Places)
  BY <1>1, <1>5, <1>6, Limits
<1>8. PICK p, q \in Places : p # q /\ f[p] = f[q]
  <2> HIDE DEF rest
  <2> QED BY <1>4, <1>5, <1>6, <1>7, FS_PigeonHole
<1>9. s[p].id = s[q].id
  BY <1>3, <1>8
<1> QED BY <1>8, <1>9 DEF DrawnUpto, OwnStrips

\* Place q is free or the module's own, and takes its strip.
Takes(s, chain, k, q, d) ==
  /\ d = [s EXCEPT ![q] = StripOf(chain, k + 1)]
  /\ \A p \in Places : p # q => s[p].id # chain[k + 1].id
  /\ s[q] = noStrip \/ s[q].id = chain[k + 1].id

LEMMA DrawnWith ==
  ASSUME NEW chain, Sound(chain), NEW k \in 0 .. Len(chain) - 1, NEW s, DrawnUpto(k, s, chain),
         NEW q \in Places, NEW d, Takes(s, chain, k, q, d)
  PROVE  DrawnUpto(k + 1, d, chain)
<1> DEFINE m == chain[k + 1]
           new == StripOf(chain, k + 1)
<1>7. /\ d = [s EXCEPT ![q] = new]
      /\ \A p \in Places : p # q => s[p].id # m.id
      /\ s[q] = noStrip \/ s[q].id = m.id
  BY DEF Takes
<1>1. /\ Len(chain) \in Nat /\ Len(chain) <= MaxModules /\ k \in Slot /\ k + 1 \in 1 .. Len(chain)
      /\ \A l \in 1 .. Len(chain) : chain[l] \in Modules
      /\ (k + 1) - 1 = k
  BY Limits, LenProperties, ElementOfSeq DEF Sound
<1>2. m \in Modules /\ m.id \in Ids /\ m.effect \in Effect
      /\ new = [id |-> m.id, effect |-> m.effect, slot |-> k]
  BY <1>1 DEF Modules, StripOf
<1>3. new \in Strip /\ new.id = m.id /\ new.effect = m.effect /\ new.slot = k
  BY <1>1, <1>2 DEF Strip
<1>5. s \in Strips /\ OwnStrips(s)
  BY DEF DrawnUpto
<1> HIDE DEF new
<1>8. DOMAIN s = Places
  BY <1>5 DEF Strips
<1>9. d[q] = new /\ \A p \in Places : p # q => d[p] = s[p]
  BY <1>7, <1>8
<1>10. d \in Strips
  BY <1>3, <1>5, <1>7 DEF Strips
<1>11. OwnStrips(d)
  <2> SUFFICES ASSUME NEW p \in Places, NEW r \in Places, d[p] # noStrip, d[p].id = d[r].id
               PROVE  p = r
    BY DEF OwnStrips
  <2>1. CASE p = q
    BY <1>3, <1>7, <1>9, <2>1
  <2>2. CASE p # q /\ r = q
    BY <1>3, <1>7, <1>9, <2>2
  <2>3. CASE p # q /\ r # q
    BY <1>5, <1>7, <1>9, <2>3 DEF OwnStrips
  <2> QED BY <2>1, <2>2, <2>3
<1>12. ASSUME NEW p \in Places, d[p] # noStrip
       PROVE  \E l \in 1 .. Len(chain) :
                /\ d[p].id = chain[l].id /\ d[p].effect = chain[l].effect
                /\ l <= k + 1 => d[p].slot = l - 1
  <2>1. CASE p = q
    <3> WITNESS k + 1 \in 1 .. Len(chain)
    <3> QED BY <1>1, <1>3, <1>9, <2>1
  <2>2. CASE p # q
    <3>1. s[p] # noStrip /\ d[p] = s[p] /\ s[p].id # m.id
      BY <1>7, <1>9, <1>12, <2>2
    <3>2. PICK l \in 1 .. Len(chain) :
            /\ s[p].id = chain[l].id /\ s[p].effect = chain[l].effect
            /\ l <= k => s[p].slot = l - 1
      BY <3>1 DEF DrawnUpto
    <3>3. l # k + 1
      BY <3>1, <3>2
    <3>4. l <= k + 1 => l <= k
      BY <1>1, <3>3
    <3> QED BY <3>1, <3>2, <3>4
  <2> QED BY <2>1, <2>2
<1>13. ASSUME NEW l \in 1 .. k + 1 PROVE \E p \in Places : d[p] = StripOf(chain, l)
  <2>1. CASE l = k + 1
    BY <1>9, <2>1 DEF new
  <2>2. CASE l # k + 1
    <3>1. l \in 1 .. k /\ l \in 1 .. Len(chain)
      BY <1>1, <2>2
    <3>2. PICK p \in Places : s[p] = StripOf(chain, l)
      BY <3>1 DEF DrawnUpto
    <3>3. s[p].id = chain[l].id /\ chain[l].id \in Ids
      BY <1>1, <3>1, <3>2 DEF StripOf, Modules
    <3>4. chain[l].id # m.id
      BY <1>1, <2>2, <3>1 DEF Sound, OwnIds
    <3>5. p # q
      BY <1>7, <3>3, <3>4, StripsAre
    <3> QED BY <1>9, <3>2, <3>5
  <2> QED BY <2>1, <2>2
<1> QED BY <1>10, <1>11, <1>12, <1>13 DEF DrawnUpto

LEMMA DrawOne ==
  ASSUME NEW chain, Sound(chain), NEW k \in 0 .. Len(chain) - 1, NEW s, DrawnUpto(k, s, chain)
  PROVE  DrawnUpto(k + 1, CreateModuleRegion(s, chain[k + 1], k), chain)
<1> DEFINE m == chain[k + 1]
           existing == {p \in Places : s[p].id = m.id}
           free == {p \in Places : s[p] = noStrip}
           new == [id |-> m.id, effect |-> m.effect, slot |-> k]
           d == CreateModuleRegion(s, m, k)
<1>1. /\ Len(chain) \in Nat /\ Len(chain) <= MaxModules /\ k \in Slot /\ k + 1 \in 1 .. Len(chain)
      /\ \A l \in 1 .. Len(chain) : chain[l] \in Modules
      /\ (k + 1) - 1 = k
  BY Limits, LenProperties, ElementOfSeq DEF Sound
<1>2. m \in Modules /\ m.id \in Ids /\ m.effect \in Effect /\ StripOf(chain, k + 1) = new
  BY <1>1 DEF Modules, StripOf
<1>3. new \in Strip /\ new.id = m.id /\ new.effect = m.effect /\ new.slot = k
  BY <1>1, <1>2 DEF Strip
<1>4. existing \in SUBSET Nat /\ free \in SUBSET Nat
  BY Limits DEF Places
<1>5. s \in Strips /\ OwnStrips(s)
  BY DEF DrawnUpto
<1>6. \E q \in Places :
        /\ d = [s EXCEPT ![q] = new]
        /\ \A p \in Places : p # q => s[p].id # m.id
        /\ s[q] = noStrip \/ s[q].id = m.id
  <2>1. CASE existing # {}
    <3> DEFINE q == Min(existing)
    <3>1. q \in existing
      BY <1>4, <2>1, MinIn
    <3>2. d = [s EXCEPT ![q].slot = k]
      BY <2>1 DEF CreateModuleRegion
    <3> HIDE DEF q
    <3>3. q \in Places /\ s[q].id = m.id /\ s[q] # noStrip /\ s[q] \in Strip
      BY <1>2, <1>5, <3>1, StripsAre
    <3>4. s[q].effect = m.effect
      <4>1. PICK l \in 1 .. Len(chain) : s[q].id = chain[l].id /\ s[q].effect = chain[l].effect
        BY <3>3 DEF DrawnUpto
      <4>2. l = k + 1
        BY <1>1, <3>3, <4>1 DEF Sound, OwnIds
      <4> QED BY <4>1, <4>2
    <3>5. [s[q] EXCEPT !.slot = k] = new
      BY <3>3, <3>4 DEF Strip
    <3>6. d = [s EXCEPT ![q] = new]
      BY <3>2, <3>5
    <3>7. \A p \in Places : p # q => s[p].id # m.id
      BY <1>5, <3>3 DEF OwnStrips
    <3> QED BY <3>3, <3>6, <3>7
  <2>2. CASE existing = {}
    <3> DEFINE q == Min(free)
    <3>1. \A p \in Places : s[p].id # m.id
      BY <2>2
    <3>2. free # {}
      BY <3>1, PlaceLeft
    <3>3. q \in free
      BY <1>4, <3>2, MinIn
    <3>4. d = [s EXCEPT ![q] = new]
      BY <2>2, <3>2 DEF CreateModuleRegion
    <3> HIDE DEF q
    <3> QED BY <3>1, <3>3, <3>4
  <2> QED BY <2>1, <2>2
<1>7. PICK q \in Places : Takes(s, chain, k, q, d)
  BY <1>6, <1>2 DEF Takes
<1> HIDE DEF d
<1>8. DrawnUpto(k + 1, d, chain)
  BY <1>7, DrawnWith
<1> QED BY <1>8 DEF d

\* Once redrawn the rack is the chain.
LEMMA ResyncedIs ==
  ASSUME NEW shown \in Strips, OwnStrips(shown), NEW chain, Sound(chain), Named(shown, chain)
  PROVE  LET s == Resynced(shown, chain)
         IN s \in Strips /\ OwnStrips(s) /\ Shown(chain, s) /\ Named(s, chain)
<1> DEFINE n == Len(chain)
           kept == [p \in Places |-> IF \E k \in DOMAIN chain : chain[k].id = shown[p].id
                                     THEN shown[p] ELSE noStrip]
           F(f) == f = [k \in 0 .. n |-> IF k = 0 THEN kept
                                         ELSE CreateModuleRegion(f[k - 1], chain[k], k - 1)]
           strips == CHOOSE f : F(f)
           Goes(f, m) == /\ f[0] = kept
                         /\ \A k \in 1 .. m : f[k] = CreateModuleRegion(f[k - 1], chain[k], k - 1)
           S == {m \in Nat : \E f : Goes(f, m)}
<1>1. n \in Nat /\ DOMAIN chain = 1 .. n
  BY LenProperties DEF Sound
<1>2. DrawnUpto(0, kept, chain)
  BY KeptDrawn
<1>3. Resynced(shown, chain) = strips[n]
  BY Zenon DEF Resynced
<1> HIDE DEF kept
<1>4. \E f : Goes(f, n)
  <2>1. 0 \in S
    <3> DEFINE f == [m \in {0} |-> kept]
    <3>1. Goes(f, 0)
      OBVIOUS
    <3> HIDE DEF Goes
    <3> QED BY <3>1
  <2>2. ASSUME NEW m \in Nat, m \in S PROVE m + 1 \in S
    <3> PICK f : Goes(f, m)
      BY <2>2
    <3> DEFINE next == CreateModuleRegion(f[m], chain[m + 1], m)
               g == [i \in 0 .. m + 1 |-> IF i <= m THEN f[i] ELSE next]
    <3> HIDE DEF next
    <3>1. (\A i \in 0 .. m : g[i] = f[i]) /\ g[m + 1] = next
      OBVIOUS
    <3> HIDE DEF g
    <3>2. ASSUME NEW i \in 1 .. m + 1
          PROVE  g[i] = CreateModuleRegion(g[i - 1], chain[i], i - 1)
      <4>1. CASE i = m + 1
        <5>1. i - 1 = m /\ g[m] = f[m]
          BY <3>1, <4>1
        <5> QED BY <3>1, <4>1, <5>1 DEF next
      <4>2. CASE i # m + 1
        <5>1. i \in 1 .. m /\ i \in 0 .. m /\ i - 1 \in 0 .. m
          BY <4>2
        <5> QED BY <3>1, <5>1
      <4> QED BY <4>1, <4>2
    <3>3. Goes(g, m + 1)
      BY <3>1, <3>2
    <3> HIDE DEF Goes
    <3> QED BY <3>3
  <2> HIDE DEF S
  <2>3. n \in S
    BY <1>1, <2>1, <2>2, NatInd
  <2> QED BY <2>3 DEF S
<1>5. \E f : F(f)
  <2> PICK g : Goes(g, n)
    BY <1>4
  <2> DEFINE f == [k \in 0 .. n |-> g[k]]
  <2>1. ASSUME NEW k \in 0 .. n
        PROVE  f[k] = IF k = 0 THEN kept ELSE CreateModuleRegion(f[k - 1], chain[k], k - 1)
    <3>1. CASE k = 0
      BY <3>1
    <3>2. CASE k # 0
      <4>1. k \in 1 .. n /\ k - 1 \in 0 .. n
        BY <1>1, <3>2
      <4>2. f[k] = g[k] /\ f[k - 1] = g[k - 1]
        BY <4>1
      <4> QED BY <3>2, <4>1, <4>2
    <3> QED BY <3>1, <3>2
  <2>2. F(f)
    BY <2>1
  <2> HIDE DEF F
  <2> QED BY <2>2
<1> HIDE DEF F
<1>6. F(strips)
  BY <1>5, Zenon
<1> HIDE DEF strips
<1>7. /\ strips[0] = kept
      /\ \A k \in 1 .. n : strips[k] = CreateModuleRegion(strips[k - 1], chain[k], k - 1)
  BY <1>1, <1>6 DEF F
<1> DEFINE T == {k \in Nat : k <= n => DrawnUpto(k, strips[k], chain)}
<1>8. \A k \in Nat : k \in T
  <2>1. 0 \in T
    BY <1>2, <1>7
  <2>2. ASSUME NEW k \in Nat, k \in T PROVE k + 1 \in T
    <3>1. SUFFICES ASSUME k + 1 <= n PROVE DrawnUpto(k + 1, strips[k + 1], chain)
      OBVIOUS
    <3>2. k \in 0 .. Len(chain) - 1 /\ DrawnUpto(k, strips[k], chain)
      BY <1>1, <2>2, <3>1
    <3>3. k + 1 \in 1 .. n /\ (k + 1) - 1 = k
      BY <1>1, <3>1
    <3>4. strips[k + 1] = CreateModuleRegion(strips[k], chain[k + 1], k)
      BY <1>7, <3>3
    <3> HIDE DEF n
    <3> QED BY <3>2, <3>4, DrawOne
  <2> HIDE DEF T
  <2> QED BY <2>1, <2>2, NatInd
<1> DEFINE s == strips[n]
<1>9. DrawnUpto(n, s, chain)
  BY <1>1, <1>8
<1> HIDE DEF s
<1>10. Shown(chain, s)
  <2>1. ASSUME NEW p \in Places, s[p] # noStrip
        PROVE  \E k \in 1 .. Len(chain) : s[p] = StripOf(chain, k)
    <3>1. PICK l \in 1 .. Len(chain) :
            /\ s[p].id = chain[l].id /\ s[p].effect = chain[l].effect
            /\ l <= n => s[p].slot = l - 1
      BY <1>9, <2>1 DEF DrawnUpto
    <3>2. s[p].slot = l - 1
      BY <1>1, <3>1
    <3>3. s[p] \in Strip
      BY <1>9, <2>1, StripsAre DEF DrawnUpto
    <3>4. s[p] = StripOf(chain, l)
      BY <3>1, <3>2, <3>3 DEF Strip, StripOf
    <3> QED BY <3>4
  <2> QED BY <1>9, <2>1 DEF Shown, DrawnUpto
<1>11. Named(s, chain)
  <2> SUFFICES ASSUME NEW p \in Places, NEW k \in 1 .. Len(chain), s[p].id = chain[k].id
               PROVE  s[p].effect = chain[k].effect
    BY DEF Named
  <2>1. chain[k].id \in Ids
    <3>1. chain[k] \in Modules
      BY ElementOfSeq DEF Sound
    <3> QED BY <3>1 DEF Modules
  <2>2. s[p] # noStrip
    BY <2>1, StripsAre
  <2>3. PICK l \in 1 .. Len(chain) : s[p].id = chain[l].id /\ s[p].effect = chain[l].effect
    BY <1>9, <2>2 DEF DrawnUpto
  <2> QED BY <2>3 DEF Sound, OwnIds
<1> QED BY <1>3, <1>9, <1>10, <1>11 DEF DrawnUpto, s

-----------------------------------------------------------------------------
(* What the rack keeps.  The chain is sound and each of its modules, as    *)
(* far as it has a strip, has one that says its effect; an open menu is    *)
(* one that could be opened now; what undo() would carry out can be, on a  *)
(* chain of this length.  But for an undo still to be drawn and an echo    *)
(* still to be announced the add button is after the last module, and with *)
(* no redrawing on its way the strips are the chain.                       *)
MenuOpen == menu = noTarget \/ menu \in Targets
RackInv ==
  /\ Sound(main)
  /\ regions \in Strips /\ OwnStrips(regions) /\ Named(regions, main)
  /\ counter \in 0 .. MaxModules
  /\ MenuOpen
  /\ Doable(inverse, Len(main))
  /\ toUI \in Seq(SlotCommand)
  /\ slotMoved \in BOOLEAN /\ (slotMoved => Draining)
  /\ ~undrawn /\ ~slotMoved => counter = Len(main) /\ (~posted => Shown(main, regions))

\* The strips stay the modules they are, wherever they stand.
SameStrips ==
  /\ regions' \in Strips
  /\ \A p \in Places : regions'[p].id = regions[p].id /\ regions'[p].effect = regions[p].effect
Edits(commands) ==
  /\ Doable(commands, Len(main)) /\ EditChain(commands) /\ SameStrips
  /\ (undrawn' /\ UNCHANGED counter) \/ counter' = Len(main')
Leaves == UNCHANGED <<main, engine, inverse, toEngine, regions, counter>>
\* A redrawing posted, an undo announced, or nothing to draw.
Redrawn == posted' = TRUE \/ undrawn' = TRUE
Undisturbed == Leaves /\ UNCHANGED <<posted, undrawn>>

LEMMA Settled ==
  ASSUME RackInv, Clicked PROVE counter = Len(main) /\ ~slotMoved /\ thread = "idle"
BY DEF RackInv, Draining, Clicked, MainFree

LEMMA SameUnmoved ==
  ASSUME RackInv, UNCHANGED regions PROVE SameStrips
BY DEF RackInv, SameStrips

LEMMA RackStrip ==
  ASSUME RackInv, NEW p \in Places, regions[p] # noStrip
  PROVE  regions[p] \in Strip /\ regions[p].slot \in Slot /\ regions[p].id \in Ids
BY StripsAre DEF RackInv, Strip

LEMMA RemoveEdits ==
  ASSUME RackInv, NEW p \in Places, RemoveModule(p)
  PROVE  Leaves \/ \E commands : Edits(commands)
<1> DEFINE slot == regions[p].slot
           commands == <<SetSlot(slot, noModule)>>
<1>1. /\ Clicked /\ regions[p] # noStrip /\ UNCHANGED regions
      /\ IF slot >= counter
           THEN UNCHANGED <<main, engine, inverse, toEngine, counter>>
           ELSE EditChain(commands) /\ counter' = counter - 1
  BY DEF RemoveModule
<1>2. counter = Len(main) /\ slot \in Slot /\ Sound(main) /\ regions \in Strips /\ Len(main) \in Nat
      /\ slot \in Nat
  BY <1>1, Settled, RackStrip, Limits DEF RackInv
<1> HIDE DEF slot
<1>3. CASE slot >= counter
  BY <1>1, <1>3 DEF Leaves
<1>4. CASE ~(slot >= counter)
  <2>1. noModule \in Choice
    BY DEF Choice
  <2>2. main' = Carried(main, commands).chain
    BY <1>1, <1>4 DEF EditChain
  <2>3. Carried(main, commands).chain = Edited(main, SetSlot(slot, noModule))
    BY <1>2, <2>1, CarrySlot
  <2>4. slot < Len(main) /\ \A k \in 1 .. Len(main) : main[k].id \in InUse
    BY <1>2, <1>4, MainInUse
  <2>5. Len(Edited(main, SetSlot(slot, noModule))) = Len(main) - 1
    BY <1>2, <2>1, <2>4, EditedSlot
  <2>6. counter' = Len(main')
    BY <1>1, <1>2, <1>4, <2>2, <2>3, <2>5
  <2>7. Doable(commands, Len(main))
    BY <1>2, <2>1 DEF Doable
  <2>8. Edits(commands)
    BY <1>1, <1>4, <2>6, <2>7, SameUnmoved DEF Edits
  <2> QED BY <2>8
<1> QED BY <1>3, <1>4

LEMMA TargetsAre ==
  ASSUME RackInv, menu # noTarget
  PROVE  \/ /\ menu.action = "replace" /\ menu.slot \in 0 .. counter - 1
            /\ menu.id = IF StripsIn(menu.slot) = {} THEN 0
                         ELSE regions[RegionInRackSlot(menu.slot)].id
         \/ menu.action = "insert" /\ menu.slot \in 0 .. counter - 1 /\ counter < MaxModules
         \/ menu.action = "append" /\ counter < MaxModules
<1>1. menu \in Targets
  BY DEF RackInv, MenuOpen
<1>2. CASE \E slot \in 0 .. counter - 1 :
             menu = [action |-> "replace", slot |-> slot,
                     id |-> IF StripsIn(slot) = {} THEN 0 ELSE regions[RegionInRackSlot(slot)].id]
  BY <1>2
<1>3. CASE counter < MaxModules /\ \E gap \in 0 .. counter - 1 :
             menu = [action |-> "insert", slot |-> gap]
  BY <1>3
<1>4. CASE counter < MaxModules /\ menu = [action |-> "append"]
  BY <1>4
<1> QED BY <1>1, <1>2, <1>3, <1>4 DEF Targets

LEMMA ChoiceEdits ==
  ASSUME RackInv, NEW effect \in Effect, ApplyEffectMenuChoice(effect)
  PROVE  Undisturbed \/ (Redrawn /\ \E commands : Edits(commands))
<1>1. Clicked /\ UNCHANGED <<regions, undrawn>> /\ menu # noTarget
  BY DEF ApplyEffectMenuChoice
<1>2. /\ counter = Len(main) /\ Sound(main) /\ regions \in Strips /\ Len(main) \in Nat
      /\ Len(main) <= MaxModules /\ main \in Seq(Modules) /\ effect \in Choice /\ effect # noModule
  BY <1>1, Settled, Limits, EffectAssumption, LenProperties DEF RackInv, Sound, Choice
<1>3. SameStrips
  BY <1>1, SameUnmoved
<1>4. \A k \in 1 .. Len(main) : main[k].id \in InUse
  BY <1>2, MainInUse
<1>5. ASSUME NEW slot \in Slot
      PROVE  /\ Doable(<<SetSlot(slot, effect)>>, Len(main))
             /\ Len(Carried(main, <<SetSlot(slot, effect)>>).chain)
                  = IF slot < Len(main) THEN Len(main) ELSE Len(main) + 1
  <2>1. Doable(<<SetSlot(slot, effect)>>, Len(main))
    BY <1>2 DEF Doable
  <2>2. Carried(main, <<SetSlot(slot, effect)>>).chain = Edited(main, SetSlot(slot, effect))
    BY <1>2, CarrySlot
  <2>3. Len(Edited(main, SetSlot(slot, effect)))
          = IF slot < Len(main) THEN Len(main) ELSE Len(main) + 1
    BY <1>2, <1>4, EditedSlot
  <2> QED BY <2>1, <2>2, <2>3
<1>6. CASE menu.action = "replace"
  <2>1. ReplaceModuleInSlot(menu.slot, effect)
    BY <1>6 DEF ApplyEffectMenuChoice
  <2>2. menu.slot \in 0 .. counter - 1
    BY <1>1, <1>6, TargetsAre
  <2> DEFINE slot == menu.slot
  <2>3. slot \in Slot /\ slot < Len(main)
    BY <1>2, <2>2, Limits
  <2>4. \/ Ignored
        \/ EditChain(<<SetSlot(slot, effect)>>) /\ counter' = counter /\ posted' = TRUE
    BY <2>1 DEF ReplaceModuleInSlot, RefreshModuleRackAsync
  <2> HIDE DEF slot
  <2>5. CASE Ignored
    BY <1>1, <2>5 DEF Ignored, Undisturbed, Leaves
  <2>6. CASE EditChain(<<SetSlot(slot, effect)>>) /\ counter' = counter /\ posted' = TRUE
    <3>1. main' = Carried(main, <<SetSlot(slot, effect)>>).chain
      BY <2>6 DEF EditChain
    <3>2. counter' = Len(main')
      BY <1>2, <1>5, <2>3, <2>6, <3>1
    <3> QED BY <1>3, <1>5, <2>3, <2>6, <3>2 DEF Edits, Redrawn
  <2> QED BY <2>4, <2>5, <2>6
<1>7. CASE menu.action = "insert"
  <2>1. InsertModuleAtGap(menu.slot, effect)
    BY <1>7 DEF ApplyEffectMenuChoice
  <2>2. menu.slot \in 0 .. counter - 1 /\ counter < MaxModules
    BY <1>1, <1>7, TargetsAre
  <2> DEFINE gap == menu.slot
             commands == <<SetSlot(Len(main), effect), Move(Len(main), gap)>>
  <2>3. ~(gap >= counter \/ counter >= MaxModules)
    BY <1>2, <2>2, Limits
  <2>4. EditChain(commands) /\ counter' = counter + 1 /\ posted' = TRUE
    BY <1>2, <2>1, <2>3 DEF InsertModuleAtGap, RefreshModuleRackAsync
  <2>5. Doable(commands, Len(main))
    BY <1>2, <2>2 DEF Doable
  <2>6. Len(Carried(main, commands).chain) = Len(main) + 1
    BY <1>2, <2>2, CarryInsert
  <2>7. main' = Carried(main, commands).chain
    BY <2>4 DEF EditChain
  <2> HIDE DEF commands
  <2>8. counter' = Len(main')
    BY <1>2, <2>4, <2>6, <2>7
  <2> QED BY <1>3, <2>4, <2>5, <2>8 DEF Edits, Redrawn
<1>8. CASE menu.action = "append"
  <2>1. AddUserAddedModule(effect)
    BY <1>8 DEF ApplyEffectMenuChoice
  <2>2. counter < MaxModules
    BY <1>1, <1>8, TargetsAre
  <2> DEFINE slot == counter
  <2>3. EditChain(<<SetSlot(slot, effect)>>) /\ counter' = counter + 1 /\ posted' = TRUE
    BY <2>1 DEF AddUserAddedModule, RefreshModuleRackAsync
  <2>4. slot \in Slot /\ ~(slot < Len(main)) /\ slot = Len(main)
    BY <1>2, <2>2, Limits
  <2> HIDE DEF slot
  <2>5. main' = Carried(main, <<SetSlot(slot, effect)>>).chain
    BY <2>3 DEF EditChain
  <2>6. counter' = Len(main')
    BY <1>2, <1>5, <2>3, <2>4, <2>5
  <2> QED BY <1>3, <1>5, <2>3, <2>4, <2>6 DEF Edits, Redrawn
<1> QED BY <1>1, <1>6, <1>7, <1>8, TargetsAre

LEMMA Pair ==
  ASSUME NEW a \in Nat, NEW b \in Nat, a # b
  PROVE  /\ Min({a, b}) = IF a < b THEN a ELSE b
         /\ Max({a, b}) = IF a < b THEN b ELSE a
<1>1. CASE a < b
  <2>1. Min({a, b}) = a
    <3>1. ASSUME NEW x \in {a, b}, \A y \in {a, b} : x <= y PROVE x = a
      BY <1>1, <3>1
    <3>2. a \in {a, b} /\ \A y \in {a, b} : a <= y
      BY <1>1
    <3> QED BY <3>1, <3>2 DEF Min
  <2>2. Max({a, b}) = b
    <3>1. ASSUME NEW x \in {a, b}, \A y \in {a, b} : x >= y PROVE x = b
      BY <1>1, <3>1
    <3>2. b \in {a, b} /\ \A y \in {a, b} : b >= y
      BY <1>1
    <3> QED BY <3>1, <3>2 DEF Max
  <2> QED BY <1>1, <2>1, <2>2
<1>2. CASE b < a
  <2>1. Min({a, b}) = b
    <3>1. ASSUME NEW x \in {a, b}, \A y \in {a, b} : x <= y PROVE x = b
      BY <1>2, <3>1
    <3>2. b \in {a, b} /\ \A y \in {a, b} : b <= y
      BY <1>2
    <3> QED BY <3>1, <3>2 DEF Min
  <2>2. Max({a, b}) = a
    <3>1. ASSUME NEW x \in {a, b}, \A y \in {a, b} : x >= y PROVE x = a
      BY <1>2, <3>1
    <3>2. a \in {a, b} /\ \A y \in {a, b} : a >= y
      BY <1>2
    <3> QED BY <3>1, <3>2 DEF Max
  <2> QED BY <1>2, <2>1, <2>2
<1> QED BY <1>1, <1>2

LEMMA DropsAre ==
  ASSUME counter \in Nat, NEW source \in Nat, NEW drop \in Drops(source)
  PROVE  /\ counter >= 2 /\ source < counter
         /\ \/ drop.action = "swap" /\ drop.slot \in 0 .. counter - 1 /\ drop.slot # source
            \/ /\ drop.action # "swap" /\ drop.slot \in 0 .. counter
               /\ drop.slot # source /\ drop.slot # source + 1
<1>1. ~(counter < 2 \/ source >= counter)
  BY DEF Drops
<1>2. drop \in {SwapAt(slot) : slot \in 0 .. counter - 1 \ {source}}
               \cup {InsertAtGap(gap) : gap \in 0 .. counter \ {source, source + 1}}
  BY <1>1 DEF Drops
<1>3. CASE \E slot \in 0 .. counter - 1 : slot # source /\ drop = SwapAt(slot)
  BY <1>1, <1>3 DEF SwapAt
<1>4. CASE \E gap \in 0 .. counter :
             gap # source /\ gap # source + 1 /\ drop = InsertAtGap(gap)
  BY <1>1, <1>4 DEF InsertAtGap
<1> QED BY <1>2, <1>3, <1>4

\* A strip given another slot is the same strip.
LEMMA Restood ==
  ASSUME NEW x \in Strip, NEW slot \in Slot
  PROVE  /\ [x EXCEPT !.slot = slot] \in Strip
         /\ [x EXCEPT !.slot = slot].id = x.id /\ [x EXCEPT !.slot = slot].effect = x.effect
BY DEF Strip

LEMMA SwapEdits ==
  ASSUME RackInv, Clicked, NEW a \in 0 .. counter - 1, NEW b \in 0 .. counter - 1, a # b,
         SwapModuleSlots(a, b), UNCHANGED counter
  PROVE  Leaves \/ \E commands : Edits(commands)
<1> DEFINE first == Min({a, b})
           second == Max({a, b})
           pFirst == RegionInRackSlot(first)
           pSecond == RegionInRackSlot(second)
           rest == IF second - 1 # first THEN <<Move(second - 1, first)>> ELSE <<>>
           commands == <<Move(first, second)>> \o rest
<1>1. /\ counter = Len(main) /\ Sound(main) /\ regions \in Strips /\ Len(main) \in Nat
      /\ Len(main) <= MaxModules
  BY Settled, LenProperties DEF RackInv, Sound
<1>2. /\ first \in 0 .. counter - 1 /\ second \in 0 .. counter - 1 /\ first < second
      /\ first \in Slot /\ second \in Slot
  <2>1. a \in Nat /\ b \in Nat /\ MaxModules \in Nat /\ Slot = 0 .. MaxModules - 1
    BY <1>1, Limits
  <2>2. first = (IF a < b THEN a ELSE b) /\ second = (IF a < b THEN b ELSE a)
    BY <2>1, Pair
  <2> HIDE DEF first, second
  <2> QED BY <1>1, <2>1, <2>2
<1> HIDE DEF first, second
<1>3. CASE StripsIn(first) = {} \/ StripsIn(second) = {}
  <2>1. UNCHANGED <<main, engine, inverse, toEngine, regions>>
    BY <1>3 DEF SwapModuleSlots, first, second
  <2> QED BY <2>1 DEF Leaves
<1>4. CASE StripsIn(first) # {} /\ StripsIn(second) # {}
  <2>1. /\ regions' = [regions EXCEPT ![pFirst].slot = second, ![pSecond].slot = first]
        /\ EditChain(commands)
    BY <1>4 DEF SwapModuleSlots, first, second
  <2>2. pFirst \in StripsIn(first) /\ pSecond \in StripsIn(second)
    <3>1. StripsIn(first) \in SUBSET Nat /\ StripsIn(second) \in SUBSET Nat
      BY Limits DEF StripsIn, Places
    <3> QED BY <1>4, <3>1, MinIn DEF RegionInRackSlot
  <2> HIDE DEF pFirst, pSecond
  <2>3. /\ pFirst \in Places /\ pSecond \in Places
        /\ regions[pFirst] \in Strip /\ regions[pSecond] \in Strip
        /\ pFirst # pSecond
    BY <1>2, <2>2, RackStrip DEF StripsIn
  <2>4. DOMAIN regions = Places /\ \A p \in Places : regions[p] \in Strip \cup {noStrip}
    BY <1>1 DEF Strips
  <2>5. regions' = [p \in Places |-> IF p = pFirst THEN [regions[p] EXCEPT !.slot = second]
                                     ELSE IF p = pSecond THEN [regions[p] EXCEPT !.slot = first]
                                     ELSE regions[p]]
    BY <2>1, <2>3, <2>4
  <2>6. SameStrips
    <3>1. \A p \in Places : /\ regions'[p] \in Strip \cup {noStrip}
                            /\ regions'[p].id = regions[p].id
                            /\ regions'[p].effect = regions[p].effect
      <4> TAKE p \in Places
      <4>1. CASE p = pFirst
        BY <1>2, <2>3, <2>5, <4>1, Restood
      <4>2. CASE p = pSecond
        BY <1>2, <2>3, <2>5, <4>2, Restood
      <4>3. CASE p # pFirst /\ p # pSecond
        BY <2>4, <2>5, <4>3
      <4> QED BY <4>1, <4>2, <4>3
    <3> QED BY <2>5, <3>1 DEF SameStrips, Strips
  <2>7. Doable(commands, Len(main)) /\ Len(Carried(main, commands).chain) = Len(main)
    <3>1. CASE second - 1 = first
      <4>1. commands = <<Move(first, second)>>
        BY <3>1, Chained
      <4>2. Doable(<<Move(first, second)>>, Len(main))
        BY <1>1, <1>2 DEF Doable
      <4>3. Carried(main, <<Move(first, second)>>).chain = MoveModule(main, first, second)
        BY <1>1, <1>2, CarryMove
      <4>4. Len(MoveModule(main, first, second)) = Len(main)
        <5>1. first \in 0 .. Len(main) - 1 /\ second \in 0 .. Len(main) - 1 /\ first # second
          BY <1>1, <1>2
        <5> QED BY <1>1, <5>1, Moved DEF Sound
      <4> QED BY <4>1, <4>2, <4>3, <4>4
    <3>2. CASE second - 1 # first
      <4>1. commands = <<Move(first, second), Move(second - 1, first)>>
        BY <3>2, Chained
      <4>2. second - 1 \in 0 .. Len(main) - 1 /\ first \in 0 .. Len(main) - 1
            /\ second \in 0 .. Len(main) - 1 /\ first # second
        BY <1>1, <1>2
      <4> DEFINE third == second - 1
      <4>9. third \in 0 .. Len(main) - 1 /\ third # first
        BY <3>2, <4>2
      <4> HIDE DEF third
      <4>3. Doable(<<Move(first, second), Move(third, first)>>, Len(main))
        BY <4>2, <4>9 DEF Doable
      <4>4. Carried(main, <<Move(first, second), Move(third, first)>>).chain
              = MoveModule(MoveModule(main, first, second), third, first)
        BY <1>1, <4>2, <4>9, CarryMoves
      <4>5. MoveModule(main, first, second) \in Seq(Modules)
            /\ Len(MoveModule(main, first, second)) = Len(main)
        BY <1>1, <4>2, Moved DEF Sound
      <4>6. Len(MoveModule(MoveModule(main, first, second), third, first)) = Len(main)
        BY <4>2, <4>5, <4>9, Moved
      <4> QED BY <4>1, <4>3, <4>4, <4>6 DEF third
    <3> QED BY <3>1, <3>2
  <2> HIDE DEF commands
  <2>8. counter' = Len(main')
    BY <1>1, <2>1, <2>7 DEF EditChain
  <2> QED BY <2>1, <2>6, <2>7, <2>8 DEF Edits
<1> QED BY <1>3, <1>4

LEMMA MoveEdits ==
  ASSUME RackInv, Clicked, NEW from \in 0 .. counter - 1, NEW to \in 0 .. counter - 1, from # to,
         MoveModuleSlot(from, to), UNCHANGED counter
  PROVE  \E commands : Edits(commands)
<1> DEFINE step == IF from < to THEN -1 ELSE 1
           between == Min({from, to}) .. Max({from, to})
           commands == <<Move(from, to)>>
<1>1. /\ counter = Len(main) /\ Sound(main) /\ regions \in Strips /\ Len(main) \in Nat
      /\ Len(main) <= MaxModules
  BY Settled, LenProperties DEF RackInv, Sound
<1>2. from \in Slot /\ to \in Slot /\ from \in Nat /\ to \in Nat
  BY <1>1, Limits
<1>3. /\ regions' = [p \in Places |->
            IF regions[p] = noStrip \/ regions[p].slot \notin between THEN regions[p]
            ELSE IF regions[p].slot = from THEN [regions[p] EXCEPT !.slot = to]
            ELSE [regions[p] EXCEPT !.slot = @ + step]]
      /\ EditChain(commands)
  BY DEF MoveModuleSlot
<1>4. between = IF from < to THEN from .. to ELSE to .. from
  BY <1>2, Pair
<1>5. ASSUME NEW x \in between, x # from PROVE x + step \in Slot
  <2>1. from \in 0 .. MaxModules - 1 /\ to \in 0 .. MaxModules - 1 /\ MaxModules \in Nat
    BY <1>2, Limits
  <2>2. x \in (IF from < to THEN from .. to ELSE to .. from)
    BY <1>4, <1>5
  <2> QED BY <1>5, <2>1, <2>2, Limits
<1> HIDE DEF step, between
<1>6. SameStrips
  <2>1. \A p \in Places : /\ regions'[p] \in Strip \cup {noStrip}
                          /\ regions'[p].id = regions[p].id
                          /\ regions'[p].effect = regions[p].effect
    <3> TAKE p \in Places
    <3>1. CASE regions[p] = noStrip \/ regions[p].slot \notin between
      <4>1. regions[p] \in Strip \cup {noStrip}
        BY <1>1 DEF Strips
      <4> QED BY <1>3, <3>1, <4>1
    <3>2. CASE regions[p] # noStrip /\ regions[p].slot \in between
      <4>1. regions[p] \in Strip
        BY <3>2, RackStrip
      <4>2. CASE regions[p].slot = from
        BY <1>2, <1>3, <3>2, <4>1, <4>2, Restood
      <4>3. CASE regions[p].slot # from
        <5> DEFINE slot == regions[p].slot + step
        <5>1. slot \in Slot
          BY <1>5, <3>2, <4>3
        <5>2. regions'[p] = [regions[p] EXCEPT !.slot = slot]
          BY <1>3, <3>2, <4>3
        <5> HIDE DEF slot
        <5> QED BY <4>1, <5>1, <5>2, Restood
      <4> QED BY <4>2, <4>3
    <3> QED BY <3>1, <3>2
  <2> QED BY <1>3, <2>1 DEF SameStrips, Strips
<1>7. Doable(commands, Len(main)) /\ Len(Carried(main, commands).chain) = Len(main)
  <2>1. from \in 0 .. Len(main) - 1 /\ to \in 0 .. Len(main) - 1
    BY <1>1
  <2>2. Doable(commands, Len(main))
    BY <2>1 DEF Doable
  <2>3. Carried(main, commands).chain = MoveModule(main, from, to)
    BY <1>1, <2>1, CarryMove
  <2>4. Len(MoveModule(main, from, to)) = Len(main)
    BY <1>1, <2>1, Moved DEF Sound
  <2> QED BY <2>2, <2>3, <2>4
<1> HIDE DEF commands
<1>8. counter' = Len(main')
  BY <1>1, <1>3, <1>7 DEF EditChain
<1> QED BY <1>3, <1>6, <1>7, <1>8 DEF Edits

LEMMA DropEdits ==
  ASSUME RackInv, NEW p \in Places, NEW drop, ApplyModuleDrop(p, drop)
  PROVE  Leaves \/ \E commands : Edits(commands)
<1> DEFINE source == regions[p].slot
           to == IF drop.slot > source THEN drop.slot - 1 ELSE drop.slot
<1>1. /\ Clicked /\ regions[p] # noStrip /\ drop \in Drops(source) /\ UNCHANGED counter
      /\ IF drop.action = "swap" THEN SwapModuleSlots(source, drop.slot)
                                 ELSE MoveModuleSlot(source, to)
  BY DEF ApplyModuleDrop
<1>2. counter \in Nat /\ source \in Nat
  BY <1>1, RackStrip, Limits DEF RackInv
<1> HIDE DEF source
<1>3. /\ counter >= 2 /\ source < counter
      /\ \/ drop.action = "swap" /\ drop.slot \in 0 .. counter - 1 /\ drop.slot # source
         \/ /\ drop.action # "swap" /\ drop.slot \in 0 .. counter
            /\ drop.slot # source /\ drop.slot # source + 1
  BY <1>1, <1>2, DropsAre
<1>4. source \in 0 .. counter - 1
  BY <1>2, <1>3
<1>5. CASE drop.action = "swap"
  BY <1>1, <1>3, <1>4, <1>5, SwapEdits
<1>6. CASE drop.action # "swap"
  <2>1. to \in 0 .. counter - 1 /\ to # source
    BY <1>2, <1>3, <1>6
  <2> HIDE DEF to
  <2> QED BY <1>1, <1>4, <1>6, <2>1, MoveEdits
<1> QED BY <1>5, <1>6

\* Every step of the user's but opening the menu and loading.
LEMMA EditSteps ==
  ASSUME RackInv, User
  PROVE  \/ \E target \in Targets : ShowEffectMenu(target)
         \/ \E effects \in Presets : LoadPreset(effects)
         \/ /\ Clicked /\ menu' = noTarget /\ UNCHANGED <<running, told, toUI, slotMoved, thread>>
            /\ \/ Undisturbed
               \/ Redrawn /\ (Leaves \/ \E commands : Edits(commands))
<1>1. CASE \E p \in Places : RemoveModule(p)
  <2>1. PICK p \in Places : RemoveModule(p)
    BY <1>1
  <2>2. /\ Clicked /\ menu' = noTarget /\ posted' = TRUE /\ UNCHANGED <<running, told, toUI, slotMoved, thread>>
    BY <2>1 DEF RemoveModule, RefreshModuleRackAsync, Untouched, drain
  <2> QED BY <2>1, <2>2, RemoveEdits DEF Redrawn
<1>2. CASE \E p \in Places : \E drop \in
             {SwapAt(s) : s \in Slot} \cup {InsertAtGap(g) : g \in 0 .. MaxModules} :
               ApplyModuleDrop(p, drop)
  <2>1. PICK p \in Places, drop \in
               {SwapAt(s) : s \in Slot} \cup {InsertAtGap(g) : g \in 0 .. MaxModules} :
                 ApplyModuleDrop(p, drop)
    BY <1>2
  <2>2. /\ Clicked /\ menu' = noTarget /\ posted' = TRUE /\ UNCHANGED <<running, told, toUI, slotMoved, thread>>
    BY <2>1 DEF ApplyModuleDrop, RefreshModuleRackAsync, Untouched, drain
  <2> QED BY <2>1, <2>2, DropEdits DEF Redrawn
<1>3. CASE \E effect \in Effect : ApplyEffectMenuChoice(effect)
  <2>1. PICK effect \in Effect : ApplyEffectMenuChoice(effect)
    BY <1>3
  <2>2. /\ Clicked /\ menu' = noTarget /\ UNCHANGED <<running, told, toUI, slotMoved, thread>>
    BY <2>1 DEF ApplyEffectMenuChoice, Untouched, drain
  <2> QED BY <2>1, <2>2, ChoiceEdits
<1>4. CASE Undo
  <2>1. /\ Clicked /\ menu' = noTarget /\ undrawn' = TRUE /\ UNCHANGED <<running, told, toUI, slotMoved, thread>>
        /\ EditChain(inverse) /\ UNCHANGED <<regions, counter>>
    BY <1>4 DEF Undo, Untouched, drain
  <2>2. Doable(inverse, Len(main))
    BY DEF RackInv
  <2>3. Edits(inverse)
    BY <2>1, <2>2, SameUnmoved DEF Edits
  <2> QED BY <2>1, <2>3 DEF Redrawn
<1> QED BY <1>1, <1>2, <1>3, <1>4 DEF User

LEMMA OwnKept ==
  ASSUME RackInv, SameStrips
  PROVE  /\ OwnStrips(regions')
         /\ \A p \in Places : regions[p].id \in Ids <=> regions'[p] # noStrip
<1>1. \A p \in Places : regions[p].id \in Ids <=> regions'[p] # noStrip
  BY StripsAre DEF RackInv, SameStrips
<1>2. \A p \in Places : regions[p].id \in Ids => regions[p] # noStrip
  BY StripsAre
<1> QED BY <1>1, <1>2 DEF RackInv, SameStrips, OwnStrips

\* A chain of what main held and of new modules has the strips that say its
\* effects.
LEMMA NamedKept ==
  ASSUME RackInv, SameStrips, NEW chain, Descends(chain)
  PROVE  Named(regions', chain)
<1> SUFFICES ASSUME NEW p \in Places, NEW k \in 1 .. Len(chain), regions'[p].id = chain[k].id
             PROVE  regions'[p].effect = chain[k].effect
  BY DEF Named
<1>1. regions[p].id = chain[k].id /\ regions'[p].effect = regions[p].effect
  BY DEF SameStrips
<1>2. chain[k].id \in InUse
  BY <1>1 DEF InUse
<1>3. PICK l \in 1 .. Len(main) : chain[k] = main[l]
  BY <1>2 DEF Descends
<1> QED BY <1>1, <1>3 DEF RackInv, Named

LEMMA EditsKeepRack ==
  ASSUME RackInv, Clicked, menu' = noTarget, UNCHANGED <<toUI, slotMoved, thread>>,
         Redrawn, NEW commands, Edits(commands)
  PROVE  RackInv'
<1> DEFINE carried == Carried(main, commands)
<1>1. Carries(commands)
  BY EditDone DEF RackInv, Edits
<1>2. main' = carried.chain /\ inverse' = carried.undo
  BY DEF Edits, EditChain
<1> HIDE DEF carried
<1>3. Sound(main') /\ Doable(inverse', Len(main')) /\ Descends(main')
  BY <1>1, <1>2 DEF Carries, carried
<1>4. SameStrips /\ ((undrawn' /\ UNCHANGED counter) \/ counter' = Len(main'))
  BY DEF Edits
<1>5. regions' \in Strips /\ OwnStrips(regions') /\ Named(regions', main')
  BY <1>3, <1>4, OwnKept, NamedKept DEF SameStrips
<1>6. counter' \in 0 .. MaxModules
  BY <1>3, <1>4, Limits, LenProperties DEF RackInv, Sound
<1> QED BY <1>3, <1>4, <1>5, <1>6 DEF RackInv, MenuOpen, Draining, Redrawn

LEMMA LeavesKeepRack ==
  ASSUME RackInv, Clicked, menu' = noTarget, UNCHANGED <<toUI, slotMoved, thread>>,
         Undisturbed \/ (Redrawn /\ Leaves)
  PROVE  RackInv'
BY Settled DEF RackInv, Undisturbed, Leaves, MenuOpen, Draining, Redrawn

LEMMA TargetsKept ==
  ASSUME UNCHANGED <<regions, counter>> PROVE Targets' = Targets
<1> DEFINE T(r, n) ==
      LET in(slot) == {p \in Places : r[p].slot = slot /\ r[p] # noStrip}
      IN {[action |-> "replace", slot |-> slot, id |-> IF in(slot) = {} THEN 0
                                                      ELSE r[Min(in(slot))].id] :
            slot \in 0 .. n - 1}
         \cup (IF n < MaxModules
                 THEN {[action |-> "insert", slot |-> gap] : gap \in 0 .. n - 1}
                        \cup {[action |-> "append"]}
                 ELSE {})
<1>1. Targets = T(regions, counter)
  BY Zenon DEF Targets, StripsIn, RegionInRackSlot
<1>2. Targets' = T(regions', counter')
  BY Zenon DEF Targets, StripsIn, RegionInRackSlot
<1> HIDE DEF T
<1> QED BY <1>1, <1>2

LEMMA ShowKeepsRack ==
  ASSUME RackInv, NEW target \in Targets, ShowEffectMenu(target)
  PROVE  RackInv'
<1>1. /\ UNCHANGED <<main, regions, counter, posted, undrawn, inverse, toUI, slotMoved, thread>>
      /\ menu' = target
  BY DEF ShowEffectMenu, rings, drain
<1>2. MenuOpen'
  BY <1>1, TargetsKept DEF MenuOpen
<1> QED BY <1>1, <1>2 DEF RackInv, Draining

LEMMA LoadKeepsRack ==
  ASSUME RackInv, NEW effects \in Presets, LoadPreset(effects)
  PROVE  RackInv'
<1>1. effects \in Chain
  BY ChainsAssumption
<1>2. /\ main' = NewChain(effects) /\ inverse' = <<>> /\ counter' = Len(effects)
      /\ menu' = noTarget /\ posted' = TRUE /\ UNCHANGED <<regions, toUI, slotMoved, thread>>
  BY DEF LoadPreset, RefreshModuleRackAsync, Untouched, drain
<1>3. /\ Sound(main') /\ Len(main') = Len(effects)
      /\ \A k \in 1 .. Len(effects) : main'[k].id \notin InUse
  BY <1>1, <1>2, NewChainIs DEF RackInv
<1>4. Named(regions', main')
  <2>1. \A p \in Places : regions[p].id \in InUse
    BY DEF InUse
  <2> QED BY <1>2, <1>3, <2>1 DEF Named
<1>5. counter' \in 0 .. MaxModules
  BY <1>2, <1>3, Limits, LenProperties DEF Sound
<1>6. Doable(inverse', Len(main'))
  BY <1>2 DEF Doable
<1> QED BY <1>2, <1>3, <1>4, <1>5, <1>6 DEF RackInv, Draining, MenuOpen

LEMMA ResyncKeepsRack ==
  ASSUME RackInv, ResyncModuleRack(main), UNCHANGED <<main, inverse, toUI>>,
         slotMoved' \in BOOLEAN, slotMoved' => Draining'
  PROVE  RackInv'
<1>1. /\ regions' \in Strips /\ OwnStrips(regions') /\ Shown(main, regions')
      /\ Named(regions', main)
  BY ResyncedIs DEF RackInv, ResyncModuleRack
<1>2. counter' = Len(main) /\ menu' = noTarget /\ Len(main) \in 0 .. MaxModules
  BY Limits, LenProperties DEF ResyncModuleRack, RackInv, Sound
<1> QED BY <1>1, <1>2 DEF RackInv, MenuOpen

\* Steps that leave the chain and the rack alone.
LEMMA RackUnchanged ==
  ASSUME RackInv, UNCHANGED <<main, regions, counter, posted, menu, undrawn, inverse, toUI>>,
         slotMoved' \in BOOLEAN, slotMoved' => Draining',
         slotMoved' \/ UNCHANGED slotMoved
  PROVE  RackInv'
<1>1. MenuOpen'
  BY TargetsKept DEF RackInv, MenuOpen
<1> QED BY <1>1 DEF RackInv

\* The selectors say the effects.
LEMMA SelectorsSay ==
  ASSUME NEW c, Sound(c), NEW d, Sound(d), SelectorsOf(c) = SelectorsOf(d)
  PROVE  Len(c) = Len(d) /\ Effects(c) = Effects(d)
<1>1. /\ c \in Seq(Modules) /\ Len(c) \in Nat /\ Len(c) <= MaxModules
      /\ d \in Seq(Modules) /\ Len(d) \in Nat /\ Len(d) <= MaxModules
  BY LenProperties DEF Sound
<1>2. \A slot \in Slot : EffectAt(Effects(c), slot) = EffectAt(Effects(d), slot)
  <2> DEFINE f == SelectorsOf(c)
             g == SelectorsOf(d)
  <2>1. \A slot \in Slot : f[slot] = EffectAt(Effects(c), slot)
    BY DEF SelectorsOf
  <2>2. \A slot \in Slot : g[slot] = EffectAt(Effects(d), slot)
    BY DEF SelectorsOf
  <2> HIDE DEF f, g
  <2>3. f = g
    BY DEF f, g
  <2> QED BY <2>1, <2>2, <2>3
<1>3. \A slot \in Slot : slot \in Nat /\ (slot < Len(c) <=> slot < Len(d))
  BY <1>1, <1>2, EffectAtIs, Limits
<1>4. Len(c) = Len(d)
  <2>1. CASE Len(c) < Len(d)
    <3>1. Len(c) \in Slot
      BY <1>1, <2>1, Limits
    <3> QED BY <1>1, <1>3, <2>1, <3>1
  <2>2. CASE Len(d) < Len(c)
    <3>1. Len(d) \in Slot
      BY <1>1, <2>2, Limits
    <3> QED BY <1>1, <1>3, <2>2, <3>1
  <2> QED BY <1>1, <2>1, <2>2
<1>5. ASSUME NEW k \in 1 .. Len(c) PROVE Effects(d)[k] = c[k].effect
  <2>1. k - 1 \in Slot /\ k - 1 \in Nat /\ k - 1 < Len(c) /\ (k - 1) + 1 = k /\ k \in 1 .. Len(d)
    BY <1>1, <1>4, Limits
  <2> DEFINE slot == k - 1
  <2> HIDE DEF slot
  <2>2. EffectAt(Effects(c), slot) = c[slot + 1].effect
        /\ EffectAt(Effects(d), slot) = d[slot + 1].effect
    BY <1>1, <1>4, <2>1, EffectAtIs DEF slot
  <2>3. EffectAt(Effects(c), slot) = EffectAt(Effects(d), slot) /\ slot + 1 = k
    BY <1>2, <2>1 DEF slot
  <2>4. Effects(d)[k] = d[k].effect
    BY <1>1, <2>1, EffectsAre
  <2> QED BY <2>2, <2>3, <2>4
<1>6. Effects(d) \in Seq(Effect) /\ Len(Effects(d)) = Len(c)
  BY <1>1, <1>4, EffectsAre
<1>7. Effects(c) = Effects(d)
  BY <1>1, <1>5, <1>6, EffectsEqual
<1> QED BY <1>4, <1>7

\* A selector that another effect is written to moves the chain.
LEMMA EditedMovesSlots ==
  ASSUME Sound(main), regions \in Strips, NEW s \in Slot, NEW e \in Choice
  PROVE  LET d == Edited(main, SetSlot(s, e))
         IN \/ EffectAt(Effects(main), s) = e /\ d = main
            \/ EffectAt(Effects(main), s) # e /\ SelectorsOf(d) # SelectorsOf(main)
<1> DEFINE d == Edited(main, SetSlot(s, e))
           m == New(e, 1)
<1>1. /\ main \in Seq(Modules) /\ Len(main) \in Nat /\ Sound(d)
      /\ \A k \in 1 .. Len(main) : main[k].id \in InUse
  BY LenProperties, MainInUse, EditedSlot DEF Sound
<1>2. \/ EffectAt(Effects(main), s) = e /\ d = main
      \/ /\ EffectAt(Effects(main), s) # e
         /\ \/ e \in Effect /\ s < Len(main) /\ d = [main EXCEPT ![s + 1] = m]
            \/ e \in Effect /\ ~(s < Len(main)) /\ d = Append(main, m)
            \/ e = noModule /\ s < Len(main) /\ d = RemoveAt(main, s + 1)
  BY <1>1, EditedIs
<1>3. e \in Effect => m \in Modules /\ m.effect = e
  <2>1. 1 \in 1 .. MaxModules
    BY Limits
  <2> QED BY <2>1, NewIs
<1> HIDE DEF d, m
<1>4. s \in Nat
  BY Limits
<1>5. ASSUME EffectAt(Effects(main), s) # e, SelectorsOf(d) = SelectorsOf(main) PROVE FALSE
  <2>1. Len(d) = Len(main) /\ Effects(d) = Effects(main)
    BY <1>1, <1>5, SelectorsSay
  <2>2. CASE e \in Effect /\ s < Len(main) /\ d = [main EXCEPT ![s + 1] = m]
    <3>1. s + 1 \in 1 .. Len(main) /\ d[s + 1] = m
      BY <1>1, <1>4, <2>2
    <3>2. EffectAt(Effects(d), s) = d[s + 1].effect
      BY <1>1, <1>4, <2>1, <2>2, EffectAtIs DEF Sound
    <3> QED BY <1>3, <1>5, <2>1, <2>2, <3>1, <3>2
  <2>3. CASE e \in Effect /\ ~(s < Len(main)) /\ d = Append(main, m)
    <3>1. Len(d) = Len(main) + 1
      BY <1>1, <1>3, <2>3, Appended
    <3> QED BY <1>1, <2>1, <3>1
  <2>4. CASE e = noModule /\ s < Len(main) /\ d = RemoveAt(main, s + 1)
    <3>1. Len(d) = Len(main) - 1 /\ s + 1 \in 1 .. Len(main)
      BY <1>1, <1>4, <2>4, Removed
    <3> QED BY <1>1, <2>1, <3>1
  <2> QED BY <1>2, <1>5, <2>2, <2>3, <2>4
<1> QED BY <1>2, <1>5 DEF d

LEMMA EchoIs ==
  ASSUME NEW x \in SlotCommand
  PROVE  x.slot \in Slot /\ x.effect \in Choice /\ x = SetSlot(x.slot, x.effect)
BY DEF SlotCommand, SetSlot

LEMMA EchoKeepsRack ==
  ASSUME RackInv, DrainEcho PROVE RackInv'
<1> DEFINE x == Head(toUI)
<1>1. /\ toUI # <<>> /\ toUI' = Tail(toUI) /\ main' = Edited(main, x)
      /\ slotMoved' = (slotMoved \/ SelectorsOf(main') # SelectorsOf(main))
      /\ inverse' = (IF SelectorsOf(main') # SelectorsOf(main) THEN <<>> ELSE inverse)
      /\ UNCHANGED <<regions, counter, posted, menu, undrawn, thread>>
      /\ thread = "drain"
  BY DEF DrainEcho, screen
<1>2. x \in SlotCommand /\ toUI' \in Seq(SlotCommand)
  BY <1>1, HeadTailProperties DEF RackInv
<1> DEFINE s == x.slot
           e == x.effect
<1>3. s \in Slot /\ e \in Choice /\ x = SetSlot(s, e)
  BY <1>2, EchoIs
<1> HIDE DEF x, s, e
<1>4. Sound(main) /\ regions \in Strips /\ \A k \in 1 .. Len(main) : main[k].id \in InUse
  BY MainInUse DEF RackInv
<1>5. Sound(main') /\ Descends(main')
  <2> DEFINE d == Edited(main, SetSlot(s, e))
  <2>1. /\ Sound(d)
        /\ \A k \in 1 .. Len(d) : d[k].id \notin InUse \/ \E l \in 1 .. Len(main) : d[k] = main[l]
    BY <1>3, <1>4, EditedSlot
  <2> QED BY <1>1, <1>3, <2>1 DEF Descends
<1>6. Named(regions', main')
  BY <1>1, <1>5, NamedKept, SameUnmoved
<1>7. MenuOpen'
  BY <1>1, TargetsKept DEF RackInv, MenuOpen
<1>8. CASE SelectorsOf(main') # SelectorsOf(main)
  <2>1. slotMoved' = TRUE /\ inverse' = <<>>
    BY <1>1, <1>8
  <2>2. Doable(inverse', Len(main'))
    BY <2>1 DEF Doable
  <2> QED BY <1>1, <1>2, <1>5, <1>6, <1>7, <2>1, <2>2 DEF RackInv, Draining
<1>9. CASE SelectorsOf(main') = SelectorsOf(main)
  <2>1. main' = main
    BY <1>1, <1>3, <1>4, <1>9, EditedMovesSlots
  <2>2. UNCHANGED <<inverse, slotMoved>>
    BY <1>1, <1>9 DEF RackInv
  <2> QED BY <1>1, <1>2, <1>7, <2>1, <2>2 DEF RackInv, Draining
<1> QED BY <1>8, <1>9

LEMMA InitRackInv == Init => RackInv
<1> SUFFICES ASSUME Init PROVE RackInv
  OBVIOUS
<1>1. PICK n \in 0 .. MaxModules : engine \in [1 .. n -> Effect]
  <2>1. engine \in Chain
    BY ChainsAssumption DEF Init
  <2> QED BY <2>1 DEF Chain
<1>2. n \in Nat /\ n <= MaxModules /\ Len(engine) = n /\ DOMAIN engine = 1 .. n
  BY <1>1, Limits, SeqDef, LenProperties
<1>3. main = [k \in 1 .. n |-> [id |-> k, effect |-> engine[k]]]
  BY <1>2 DEF Init
<1>4. \A k \in 1 .. n : k \in Ids /\ k \in Places /\ k - 1 \in Slot /\ engine[k] \in Effect
  BY <1>1, <1>2, Limits DEF Ids, Places
<1>5. main \in [1 .. n -> Modules]
  BY <1>3, <1>4 DEF Modules
<1>6. main \in Seq(Modules) /\ Len(main) = n
  BY <1>2, <1>5, SeqDef, LenProperties
<1>7. \A k \in 1 .. n : main[k] = [id |-> k, effect |-> engine[k]]
  BY <1>3
<1>8. Sound(main)
  BY <1>2, <1>6, <1>7 DEF Sound, OwnIds
<1>9. regions = [p \in Places |-> IF p <= n
                  THEN [id |-> p, effect |-> engine[p], slot |-> p - 1] ELSE noStrip]
  BY <1>2 DEF Init
<1>10. \A p \in Places : p <= n => p \in 1 .. n
  BY <1>2, Limits DEF Places
<1>11. ASSUME NEW p \in Places, p <= n
       PROVE  /\ regions[p] = StripOf(main, p) /\ regions[p] \in Strip
              /\ regions[p].id = p /\ regions[p].effect = main[p].effect /\ p \in Ids
              /\ p \in 1 .. n
  <2>1. p \in 1 .. n
    BY <1>10, <1>11
  <2>2. p \in Ids /\ p - 1 \in Slot /\ engine[p] \in Effect
    BY <1>4, <2>1
  <2>3. regions[p] = [id |-> p, effect |-> engine[p], slot |-> p - 1]
    BY <1>9, <1>11
  <2>4. main[p] = [id |-> p, effect |-> engine[p]]
    BY <1>7, <2>1
  <2> QED BY <2>1, <2>2, <2>3, <2>4 DEF StripOf, Strip
<1>12. ASSUME NEW p \in Places, ~(p <= n) PROVE regions[p] = noStrip
  BY <1>9, <1>12
<1>13. \A p \in Places : regions[p] # noStrip => p <= n
  BY <1>12
<1>17. regions \in Strips
  <2>1. \A p \in Places : regions[p] \in Strip \cup {noStrip}
    BY <1>11, <1>12
  <2> QED BY <1>9, <2>1 DEF Strips
<1>14. OwnStrips(regions)
  <2> SUFFICES ASSUME NEW p \in Places, NEW q \in Places, regions[p] # noStrip,
                      regions[p].id = regions[q].id
               PROVE  p = q
    BY DEF OwnStrips
  <2>1. regions[p].id = p /\ p \in Ids
    BY <1>11, <1>13
  <2>2. regions[q] # noStrip
    BY <2>1, StripsAre
  <2> QED BY <1>11, <1>13, <2>1, <2>2
<1>15. Shown(main, regions)
  <2>1. \A p \in Places : regions[p] = noStrip \/ \E k \in 1 .. n : regions[p] = StripOf(main, k)
    BY <1>11, <1>13
  <2>2. \A k \in 1 .. n : k \in Places /\ k <= n
    BY <1>2, <1>4
  <2>3. \A k \in 1 .. n : \E p \in Places : regions[p] = StripOf(main, k)
    BY <1>11, <2>2
  <2> QED BY <1>6, <2>1, <2>3 DEF Shown
<1>16. Named(regions, main)
  <2> SUFFICES ASSUME NEW p \in Places, NEW k \in 1 .. n, regions[p].id = main[k].id
               PROVE  regions[p].effect = main[k].effect
    BY <1>6 DEF Named
  <2>1. k \in Ids
    BY <1>4
  <2>2. main[k].id = k
    <3>1. main[k] = [id |-> k, effect |-> engine[k]]
      BY <1>7
    <3> QED BY <3>1
  <2>3. regions[p] # noStrip
    BY <2>1, <2>2, StripsAre
  <2>4. regions[p].id = p /\ regions[p].effect = main[p].effect
    BY <1>11, <1>13, <2>3
  <2> QED BY <2>2, <2>4
<1>18. Doable(<<>>, Len(main)) /\ <<>> \in Seq(SlotCommand)
  BY DEF Doable
<1>19. counter = n /\ n \in 0 .. MaxModules
  BY <1>2 DEF Init
<1>20. menu = noTarget /\ inverse = <<>> /\ toUI = <<>> /\ slotMoved = FALSE /\ thread = "idle"
  BY DEF Init
<1> QED BY <1>6, <1>8, <1>14, <1>15, <1>16, <1>17, <1>18, <1>19, <1>20 DEF RackInv, MenuOpen

LEMMA RackInvInductive == IInv /\ RackInv /\ [Next]_vars => RackInv'
<1> SUFFICES ASSUME IInv, RackInv, [Next]_vars PROVE RackInv'
  OBVIOUS
<1>1. CASE User
  <2>1. CASE \E target \in Targets : ShowEffectMenu(target)
    BY <2>1, ShowKeepsRack
  <2>2. CASE \E effects \in Presets : LoadPreset(effects)
    BY <2>2, LoadKeepsRack
  <2>3. CASE /\ Clicked /\ menu' = noTarget /\ UNCHANGED <<running, told, toUI, slotMoved, thread>>
             /\ \/ Undisturbed
                \/ Redrawn /\ (Leaves \/ \E commands : Edits(commands))
    BY <2>3, LeavesKeepRack, EditsKeepRack
  <2> QED BY <1>1, <2>1, <2>2, <2>3, EditSteps
<1>2. CASE Host
  <2>1. PICK slot \in Slot, effect \in Effect \cup {noModule} : HandleEvent(slot, effect)
    BY <1>2 DEF Host
  <2>2. /\ UNCHANGED <<main, regions, counter, posted, menu, undrawn, inverse, slotMoved, thread>>
        /\ toUI' = Append(toUI, SetSlot(slot, effect))
    BY <2>1 DEF HandleEvent, screen, drain
  <2>3. SetSlot(slot, effect) \in SlotCommand
    BY DEF SetSlot, SlotCommand, Choice
  <2>4. toUI' \in Seq(SlotCommand)
    BY <2>2, <2>3 DEF RackInv
  <2>5. MenuOpen'
    BY <2>2, TargetsKept DEF RackInv, MenuOpen
  <2> QED BY <2>2, <2>4, <2>5 DEF RackInv, Draining
<1>3. CASE RefreshMessage
  <2>1. /\ ResyncModuleRack(main) /\ UNCHANGED <<main, inverse, toUI, slotMoved, thread>>
    BY <1>3 DEF RefreshMessage, rings, drain
  <2> QED BY <2>1, ResyncKeepsRack DEF RackInv, Draining
<1>4. CASE OnMainThread \/ StateSave \/ DrainEchoesDone
  <2>1. /\ UNCHANGED <<main, regions, counter, posted, menu, undrawn, inverse, toUI, slotMoved>>
        /\ thread' \in {"drain", "drained"}
    BY <1>4 DEF OnMainThread, StateSave, DrainEchoesDone, screen, rings
  <2> QED BY <2>1, RackUnchanged DEF RackInv, Draining
<1>5. CASE DrainEcho
  BY <1>5, EchoKeepsRack
<1>6. CASE DrainDone
  <2>1. /\ slotMoved' = FALSE /\ UNCHANGED <<main, posted, inverse, toUI>>
        /\ IF chainChanged \/ slotMoved THEN ResyncModuleRack(main)
                                        ELSE UNCHANGED <<regions, counter, menu, undrawn>>
    BY <1>6 DEF DrainDone, rings
  <2>2. CASE chainChanged \/ slotMoved
    BY <2>1, <2>2, ResyncKeepsRack
  <2>3. CASE ~(chainChanged \/ slotMoved)
    <3>1. UNCHANGED slotMoved
      BY <2>1, <2>3 DEF RackInv
    <3> QED BY <2>1, <2>3, <3>1, RackUnchanged
  <2> QED BY <2>2, <2>3
<1>7. CASE ParamsRescan
  <2>1. /\ UNCHANGED <<main, regions, counter, posted, menu, undrawn, inverse, toUI, slotMoved>>
        /\ thread = "rescan"
    BY <1>7 DEF ParamsRescan, screen, rings
  <2> QED BY <2>1, RackUnchanged DEF RackInv, Draining
<1>8. CASE EnterEngine \/ FlushUIEdits \/ ClearBecomesVisible
  <2>1. UNCHANGED <<main, regions, counter, posted, menu, undrawn, inverse, toUI, slotMoved, thread>>
    BY <1>8 DEF EnterEngine, FlushUIEdits, ClearBecomesVisible, rings, screen, drain
  <2> QED BY <2>1, RackUnchanged DEF RackInv, Draining
<1>9. CASE EventsDone
  <2>1. /\ UNCHANGED <<main, regions, counter, posted, menu, undrawn, inverse, toUI, slotMoved>>
        /\ UNCHANGED thread \/ thread' = "drain"
    BY <1>9 DEF EventsDone, screen, rings
  <2> QED BY <2>1, RackUnchanged DEF RackInv, Draining
<1>10. CASE UNCHANGED vars
  <2>1. UNCHANGED <<main, regions, counter, posted, menu, undrawn, inverse, toUI, slotMoved, thread>>
    BY <1>10 DEF vars, screen, rings, drain
  <2> QED BY <2>1, RackUnchanged DEF RackInv, Draining
<1> QED BY <1>1, <1>2, <1>3, <1>4, <1>5, <1>6, <1>7, <1>8, <1>9, <1>10 DEF Next

LEMMA RackInvCovers == RackInv => RackIsDrawn
<1> SUFFICES ASSUME RackInv, thread \notin {"drain", "drained"} /\ ~undrawn
             PROVE  /\ counter = Len(main)
                    /\ ~posted => /\ {regions[p] : p \in Places} \ {noStrip} = Drawn
                                  /\ Cardinality({p \in Places : regions[p] # noStrip}) = Len(main)
  BY DEF RackIsDrawn
<1>1. counter = Len(main) /\ (~posted => Shown(main, regions))
  BY DEF RackInv, Draining
<1>2. /\ Sound(main) /\ DOMAIN main = 1 .. Len(main) /\ Len(main) \in Nat
      /\ \A k \in 1 .. Len(main) : main[k].id \in Ids
  <2>1. Sound(main) /\ DOMAIN main = 1 .. Len(main) /\ Len(main) \in Nat
    BY LenProperties DEF RackInv, Sound
  <2>2. \A k \in 1 .. Len(main) : main[k] \in Modules
    BY <2>1, ElementOfSeq DEF Sound
  <2> QED BY <2>1, <2>2 DEF Modules
<1>3. ASSUME Shown(main, regions)
      PROVE  {regions[p] : p \in Places} \ {noStrip} = Drawn
  <2>1. \A k \in 1 .. Len(main) : StripOf(main, k).id = main[k].id /\ StripOf(main, k) # noStrip
    BY <1>2, StripsAre DEF StripOf
  <2>2. Drawn = {StripOf(main, k) : k \in 1 .. Len(main)}
    BY <1>2 DEF Drawn, StripOf
  <2> QED BY <1>3, <2>1, <2>2 DEF Shown
<1>4. ASSUME Shown(main, regions)
      PROVE  Cardinality({p \in Places : regions[p] # noStrip}) = Len(main)
  <2> DEFINE n == Len(main)
             D == {p \in Places : regions[p] # noStrip}
             f == [k \in 1 .. n |-> CHOOSE p \in Places : regions[p] = StripOf(main, k)]
  <2>1. ASSUME NEW k \in 1 .. n
        PROVE  f[k] \in Places /\ regions[f[k]] = StripOf(main, k) /\ regions[f[k]].id = main[k].id
               /\ f[k] \in D
    <3>1. f[k] \in Places /\ regions[f[k]] = StripOf(main, k)
      BY <1>4 DEF Shown
    <3>2. regions[f[k]].id = main[k].id /\ main[k].id \in Ids
      BY <1>2, <3>1 DEF StripOf
    <3>3. regions[f[k]] # noStrip
      BY <3>2, StripsAre
    <3> QED BY <3>1, <3>2, <3>3
  <2> HIDE DEF f
  <2>2. \A i, j \in 1 .. n : f[i] = f[j] => i = j
    <3> SUFFICES ASSUME NEW i \in 1 .. n, NEW j \in 1 .. n, f[i] = f[j] PROVE i = j
      OBVIOUS
    <3>1. main[i].id = main[j].id
      BY <2>1
    <3> QED BY <1>2, <3>1 DEF Sound, OwnIds
  <2>3. \A p \in D : \E k \in 1 .. n : f[k] = p
    <3> TAKE p \in D
    <3>1. PICK k \in 1 .. n : regions[p] = StripOf(main, k)
      BY <1>4 DEF Shown
    <3>2. regions[p].id = regions[f[k]].id /\ f[k] \in Places
      BY <2>1, <3>1 DEF StripOf
    <3>3. f[k] = p
      BY <3>2 DEF RackInv, OwnStrips
    <3> QED BY <3>3
  <2>4. f \in [1 .. n -> D]
    <3>1. f = [k \in 1 .. n |-> f[k]]
      BY DEF f
    <3> QED BY <2>1, <3>1
  <2> HIDE DEF D
  <2>5. f \in Bijection(1 .. n, D)
    BY <2>2, <2>3, <2>4 DEF Bijection, Injection, IsInjective, Surjection
  <2>6. ExistsBijection(1 .. n, D)
    BY <2>5 DEF ExistsBijection
  <2>7. Cardinality(D) = n
    BY <1>2, <2>6, FS_CountingElements
  <2> QED BY <2>7 DEF D
<1> QED BY <1>1, <1>3, <1>4

(* With no redrawing on its way the rack is the main thread's chain, a     *)
(* strip for every module in its slot and the add button after the last,   *)
(* for chains, presets and runs of edits of any length: an edit moves      *)
(* strips and chain alike or posts the redrawing, an undo is announced     *)
(* before the rack is clicked again, and a redrawing matches every module  *)
(* with its own strip or finds it a place.                                 *)
THEOREM RackDrawn == Spec => []RackIsDrawn
<1>1. Init => IInv /\ RackInv
  BY InitIInv, InitRackInv
<1>2. (IInv /\ RackInv) /\ [Next]_vars => (IInv /\ RackInv)'
  BY IInvInductive, RackInvInductive
<1>3. IInv /\ RackInv => RackIsDrawn
  BY RackInvCovers
<1> QED BY <1>1, <1>2, <1>3, PTL DEF Spec

-----------------------------------------------------------------------------
(* The two copies of the chain.                                            *)

\* Echoes that each change the chain, one after the other.
Echoing(trail, chain, echoes) ==
  /\ trail[0] = chain
  /\ \A i \in 1 .. Len(echoes) :
       /\ EffectAt(trail[i - 1], echoes[i].slot) # echoes[i].effect
       /\ trail[i] = SetParameter(trail[i - 1], echoes[i].slot, echoes[i].effect)
Answered(chain, echoes, last) ==
  \E trail : Echoing(trail, chain, echoes) /\ trail[Len(echoes)] = last

LEMMA AnsweredNothing ==
  ASSUME NEW c, NEW d PROVE Answered(c, <<>>, d) <=> c = d
<1> DEFINE none == <<>>
<1>1. Len(none) = 0
  OBVIOUS
<1> HIDE DEF none
<1>2. ASSUME Answered(c, none, d) PROVE c = d
  BY <1>1, <1>2 DEF Answered, Echoing
<1>3. ASSUME c = d PROVE Answered(c, none, d)
  <2> DEFINE trail == [n \in {0} |-> c]
  <2>1. trail[0] = c
    OBVIOUS
  <2> HIDE DEF trail
  <2>2. Echoing(trail, c, none) /\ trail[Len(none)] = d
    BY <1>1, <1>3, <2>1 DEF Echoing
  <2> QED BY <2>2 DEF Answered
<1> QED BY <1>2, <1>3 DEF none

LEMMA AnsweredHead ==
  ASSUME NEW c, NEW d, NEW S, NEW echoes \in Seq(S), echoes # <<>>, Answered(c, echoes, d)
  PROVE  LET x == Head(echoes)
         IN /\ EffectAt(c, x.slot) # x.effect
            /\ Answered(SetParameter(c, x.slot, x.effect), Tail(echoes), d)
<1> DEFINE x == Head(echoes)
           rest == Tail(echoes)
           m == Len(rest)
<1>1. /\ Len(echoes) = m + 1 /\ m \in Nat /\ echoes[1] = x
      /\ \A i \in 1 .. m : rest[i] = echoes[i + 1]
  <2>1. Len(echoes) \in Nat /\ Len(echoes) # 0
    BY LenProperties, EmptySeq
  <2> QED BY <2>1, HeadTailProperties
<1> HIDE DEF x, rest
<1>2. PICK trail : Echoing(trail, c, echoes) /\ trail[Len(echoes)] = d
  BY DEF Answered
<1> DEFINE later == [i \in 0 .. m |-> trail[i + 1]]
<1>3. \A i \in 0 .. m : later[i] = trail[i + 1]
  OBVIOUS
<1> HIDE DEF later
<1>4. EffectAt(c, x.slot) # x.effect /\ trail[1] = SetParameter(c, x.slot, x.effect)
  <2>1. 1 \in 1 .. Len(echoes) /\ 1 - 1 = 0
    BY <1>1
  <2>2. EffectAt(trail[1 - 1], echoes[1].slot) # echoes[1].effect
        /\ trail[1] = SetParameter(trail[1 - 1], echoes[1].slot, echoes[1].effect)
    BY <1>2, <2>1 DEF Echoing
  <2>3. trail[0] = c
    BY <1>2 DEF Echoing
  <2> QED BY <1>1, <2>1, <2>2, <2>3
<1>5. later[0] = SetParameter(c, x.slot, x.effect) /\ later[m] = d
  <2>1. 0 \in 0 .. m /\ m \in 0 .. m /\ 0 + 1 = 1
    BY <1>1
  <2> QED BY <1>1, <1>2, <1>3, <1>4, <2>1
<1>6. ASSUME NEW i \in 1 .. m
      PROVE  /\ EffectAt(later[i - 1], rest[i].slot) # rest[i].effect
             /\ later[i] = SetParameter(later[i - 1], rest[i].slot, rest[i].effect)
  <2>1. i + 1 \in 1 .. Len(echoes) /\ (i + 1) - 1 = i /\ i \in 0 .. m /\ i - 1 \in 0 .. m
        /\ (i - 1) + 1 = i
    BY <1>1
  <2>2. EffectAt(trail[i], echoes[i + 1].slot) # echoes[i + 1].effect
        /\ trail[i + 1] = SetParameter(trail[i], echoes[i + 1].slot, echoes[i + 1].effect)
    <3>1. EffectAt(trail[(i + 1) - 1], echoes[i + 1].slot) # echoes[i + 1].effect
          /\ trail[i + 1] = SetParameter(trail[(i + 1) - 1], echoes[i + 1].slot, echoes[i + 1].effect)
      BY <1>2, <2>1 DEF Echoing
    <3> QED BY <2>1, <3>1
  <2>3. later[i] = trail[i + 1] /\ later[i - 1] = trail[i] /\ rest[i] = echoes[i + 1]
    <3>1. later[i - 1] = trail[(i - 1) + 1]
      BY <1>3, <2>1
    <3> QED BY <1>1, <1>3, <2>1, <3>1
  <2> QED BY <2>2, <2>3
<1>7. Answered(SetParameter(c, x.slot, x.effect), rest, d)
  <2>1. Echoing(later, SetParameter(c, x.slot, x.effect), rest)
    BY <1>5, <1>6 DEF Echoing
  <2> QED BY <1>5, <2>1 DEF Answered
<1> QED BY <1>4, <1>7 DEF x, rest

LEMMA AnsweredMore ==
  ASSUME NEW c, NEW d, NEW S, NEW echoes \in Seq(S), Answered(c, echoes, d),
         NEW x \in S, EffectAt(d, x.slot) # x.effect
  PROVE  Answered(c, Append(echoes, x), SetParameter(d, x.slot, x.effect))
<1> DEFINE all == Append(echoes, x)
           m == Len(echoes)
           next == SetParameter(d, x.slot, x.effect)
<1>1. m \in Nat /\ Len(all) = m + 1 /\ all[m + 1] = x /\ \A i \in 1 .. m : all[i] = echoes[i]
  BY LenProperties, Appended
<1> HIDE DEF all, next
<1>2. PICK trail : Echoing(trail, c, echoes) /\ trail[m] = d
  BY DEF Answered
<1> DEFINE longer == [i \in 0 .. m + 1 |-> IF i <= m THEN trail[i] ELSE next]
<1>3. (\A i \in 0 .. m : longer[i] = trail[i]) /\ longer[m + 1] = next
  BY <1>1
<1> HIDE DEF longer
<1>4. longer[0] = c
  <2>1. 0 \in 0 .. m
    BY <1>1
  <2> QED BY <1>2, <1>3, <2>1 DEF Echoing
<1>5. ASSUME NEW i \in 1 .. m + 1
      PROVE  /\ EffectAt(longer[i - 1], all[i].slot) # all[i].effect
             /\ longer[i] = SetParameter(longer[i - 1], all[i].slot, all[i].effect)
  <2>1. CASE i = m + 1
    <3>1. i - 1 = m /\ m \in 0 .. m
      BY <1>1, <2>1
    <3>2. longer[i - 1] = d
      BY <1>2, <1>3, <3>1
    <3> QED BY <1>1, <1>3, <2>1, <3>2 DEF next
  <2>2. CASE i # m + 1
    <3>1. i \in 1 .. m /\ i \in 0 .. m /\ i - 1 \in 0 .. m
      BY <1>1, <2>2
    <3>2. longer[i - 1] = trail[i - 1] /\ longer[i] = trail[i] /\ all[i] = echoes[i]
      BY <1>1, <1>3, <3>1
    <3> QED BY <1>2, <3>1, <3>2 DEF Echoing
  <2> QED BY <2>1, <2>2
<1>6. Echoing(longer, c, all)
  BY <1>1, <1>4, <1>5 DEF Echoing
<1>7. longer[Len(all)] = next
  BY <1>1, <1>3
<1> QED BY <1>6, <1>7 DEF Answered, all, next

(* What is under way goes one way at a time.  The edits queued for the     *)
(* engine make its chain the main thread's, and the echoes queued for the  *)
(* main thread make its chain the engine's, each a change of it.           *)
Linked ==
  /\ toEngine \in Seq(Command)
  /\ toEngine = <<>> \/ toUI = <<>>
  /\ toUI = <<>> => AllApplied(engine, toEngine) = Effects(main)
  /\ toEngine = <<>> => Answered(Effects(main), toUI, engine)
  /\ running \in BOOLEAN /\ (~running => toEngine = <<>>)

LEMMA LinkedAlone ==
  ASSUME NEW c, NEW e, AllApplied(e, <<>>) = c PROVE Answered(c, <<>>, e)
BY AppliedNothing, AnsweredNothing

LEMMA PublishLinks ==
  ASSUME Linked, toUI = <<>>, UNCHANGED <<toUI, running>>, NEW commands \in Seq(Command),
         Publish(commands), AllApplied(Effects(main), commands) = Effects(main')
  PROVE  Linked'
<1>1. toEngine \in Seq(Command) /\ AllApplied(engine, toEngine) = Effects(main)
  BY DEF Linked
<1>2. CASE running
  <2>1. toEngine' = toEngine \o commands /\ UNCHANGED engine
    BY <1>2 DEF Publish
  <2>2. toEngine' \in Seq(Command)
    BY <1>1, <2>1, ConcatProperties
  <2>3. AllApplied(engine, toEngine \o commands) = AllApplied(AllApplied(engine, toEngine), commands)
    BY <1>1, AppliedBoth
  <2>4. AllApplied(engine', toEngine') = Effects(main')
    BY <1>1, <2>1, <2>3
  <2>5. toEngine' = <<>> => Answered(Effects(main'), <<>>, engine')
    BY <2>4, LinkedAlone
  <2> QED BY <1>2, <2>2, <2>4, <2>5 DEF Linked
<1>3. CASE ~running
  <2>1. engine' = AllApplied(engine, commands) /\ toEngine' = <<>> /\ toEngine = <<>>
    BY <1>3 DEF Publish, Linked
  <2>2. engine' = Effects(main')
    BY <1>1, <2>1, AppliedNothing
  <2>3. AllApplied(engine', <<>>) = Effects(main') /\ Answered(Effects(main'), <<>>, engine')
    BY <2>2, AppliedNothing, AnsweredNothing
  <2> QED BY <1>1, <1>3, <2>1, <2>3 DEF Linked
<1> QED BY <1>2, <1>3

LEMMA EditsKeepLinked ==
  ASSUME RackInv, Linked, Clicked, UNCHANGED <<toUI, running>>, NEW commands, Edits(commands)
  PROVE  Linked'
<1>1. Carries(commands) /\ commands \in Seq(Command)
  <2>1. Len(main) \in 0 .. MaxModules
    BY Limits, LenProperties DEF RackInv, Sound
  <2> QED BY <2>1, EditDone, DoableCommands DEF RackInv, Edits
<1>2. main' = Carried(main, commands).chain /\ Publish(commands)
  BY DEF Edits, EditChain
<1>3. AllApplied(Effects(main), commands) = Effects(main')
  BY <1>1, <1>2 DEF Carries
<1>4. toUI = <<>>
  BY DEF Clicked
<1> QED BY <1>1, <1>2, <1>3, <1>4, PublishLinks

LEMMA LoadKeepsLinked ==
  ASSUME RackInv, Linked, NEW effects \in Presets, LoadPreset(effects)
  PROVE  Linked'
<1>1. effects \in Chain
  BY ChainsAssumption
<1>2. /\ main' = NewChain(effects) /\ Publish(<<SwapChain(effects)>>) /\ toUI = <<>>
      /\ UNCHANGED <<toUI, running>>
  BY DEF LoadPreset, Clicked, Untouched
<1>3. Effects(main') = effects
  BY <1>1, <1>2, NewChainIs DEF RackInv
<1> DEFINE x == SwapChain(effects)
<1>4. x.kind = "chain" /\ x.chain = effects /\ x \in Command
  BY <1>1, CommandsAre DEF SwapChain
<1> HIDE DEF x
<1>5. AllApplied(Effects(main), <<x>>) = Apply(Effects(main), x)
  BY AppliedOne
<1>6. Apply(Effects(main), x) = effects
  BY <1>4 DEF Apply
<1>7. <<x>> \in Seq(Command)
  BY <1>4
<1>8. Publish(<<x>>)
  BY <1>2 DEF x
<1> QED BY <1>2, <1>3, <1>5, <1>6, <1>7, <1>8, PublishLinks

LEMMA EventKeepsLinked ==
  ASSUME RackInv, Linked, NEW slot \in Slot, NEW effect \in Choice, HandleEvent(slot, effect)
  PROVE  Linked'
<1> DEFINE x == SetSlot(slot, effect)
<1>1. /\ toEngine = <<>> /\ EffectAt(engine, slot) # effect
      /\ engine' = SetParameter(engine, slot, effect) /\ toUI' = Append(toUI, x)
      /\ UNCHANGED <<main, running, toEngine>>
  BY DEF HandleEvent
<1>2. x \in SlotCommand /\ x.slot = slot /\ x.effect = effect
  BY DEF SetSlot, SlotCommand
<1> HIDE DEF x
<1>3. toUI \in Seq(SlotCommand) /\ Answered(Effects(main), toUI, engine)
  BY <1>1 DEF RackInv, Linked
<1>4. Answered(Effects(main), Append(toUI, x), SetParameter(engine, slot, effect))
  BY <1>1, <1>2, <1>3, AnsweredMore
<1>5. Append(toUI, x) # <<>>
  <2>1. Len(Append(toUI, x)) = Len(toUI) + 1 /\ Len(toUI) \in Nat
    BY <1>2, <1>3, Appended, LenProperties
  <2> QED BY <2>1
<1> QED BY <1>1, <1>4, <1>5 DEF Linked

LEMMA EchoKeepsLinked ==
  ASSUME RackInv, Linked, DrainEcho
  PROVE  Linked' /\ slotMoved'
<1> DEFINE x == Head(toUI)
<1>1. /\ toUI # <<>> /\ toUI' = Tail(toUI) /\ main' = Edited(main, x)
      /\ slotMoved' = (slotMoved \/ SelectorsOf(main') # SelectorsOf(main))
      /\ UNCHANGED <<engine, running, toEngine>>
  BY DEF DrainEcho
<1>2. /\ toEngine = <<>> /\ toUI \in Seq(SlotCommand) /\ x \in SlotCommand
      /\ Answered(Effects(main), toUI, engine)
  BY <1>1, HeadTailProperties DEF RackInv, Linked
<1> DEFINE s == x.slot
           e == x.effect
<1>3. s \in Slot /\ e \in Choice /\ x = SetSlot(s, e)
  BY <1>2, EchoIs
<1>4. EffectAt(Effects(main), s) # e /\ Answered(SetParameter(Effects(main), s, e), toUI', engine)
  BY <1>1, <1>2, AnsweredHead
<1> HIDE DEF x, s, e
<1>5. Sound(main) /\ regions \in Strips /\ \A k \in 1 .. Len(main) : main[k].id \in InUse
  BY MainInUse DEF RackInv
<1>6. Effects(main') = SetParameter(Effects(main), s, e)
  BY <1>1, <1>3, <1>5, EditedSlot
<1>7. SelectorsOf(main') # SelectorsOf(main)
  BY <1>1, <1>3, <1>4, <1>5, EditedMovesSlots
<1>8. Answered(Effects(main'), toUI', engine')
  BY <1>1, <1>4, <1>6
<1>9. toUI' = <<>> => AllApplied(engine', <<>>) = Effects(main')
  BY <1>8, AnsweredNothing, AppliedNothing
<1> QED BY <1>1, <1>2, <1>7, <1>8, <1>9 DEF Linked, RackInv

LEMMA InitLinked == Init => Linked
<1> SUFFICES ASSUME Init PROVE Linked
  OBVIOUS
<1>1. /\ engine \in Starts /\ toEngine = <<>> /\ toUI = <<>> /\ running \in BOOLEAN
      /\ main = [k \in DOMAIN engine |-> [id |-> k, effect |-> engine[k]]]
  BY DEF Init
<1>2. PICK n \in 0 .. MaxModules : engine \in [1 .. n -> Effect]
  BY <1>1, ChainsAssumption DEF Chain
<1>3. Effects(main) = engine
  <2>1. Effects(main) = [k \in 1 .. n |-> engine[k]]
    BY <1>1, <1>2 DEF Effects
  <2> QED BY <1>2, <2>1
<1>4. AllApplied(engine, <<>>) = Effects(main) /\ Answered(Effects(main), <<>>, engine)
  BY <1>3, AppliedNothing, AnsweredNothing
<1> QED BY <1>1, <1>4 DEF Linked

LEMMA LinkedInductive == RackInv /\ Linked /\ [Next]_vars => Linked'
<1> SUFFICES ASSUME RackInv, Linked, [Next]_vars PROVE Linked'
  OBVIOUS
<1>0. ASSUME UNCHANGED <<main, engine, running, toEngine, toUI>> PROVE Linked'
  <2>1. Effects(main') = Effects(main)
    BY <1>0
  <2> QED BY <1>0, <2>1 DEF Linked
<1>1. CASE User
  <2>1. CASE \E target \in Targets : ShowEffectMenu(target)
    BY <1>0, <2>1 DEF ShowEffectMenu, rings
  <2>2. CASE \E effects \in Presets : LoadPreset(effects)
    BY <2>2, LoadKeepsLinked
  <2>3. CASE /\ Clicked /\ UNCHANGED <<running, told, toUI, slotMoved, thread>>
             /\ Undisturbed \/ (Redrawn /\ (Leaves \/ \E commands : Edits(commands)))
    <3>1. CASE Leaves
      BY <1>0, <2>3, <3>1 DEF Leaves
    <3>2. CASE \E commands : Edits(commands)
      BY <2>3, <3>2, EditsKeepLinked
    <3> QED BY <2>3, <3>1, <3>2 DEF Undisturbed
  <2> QED BY <1>1, <2>1, <2>2, <2>3, EditSteps
<1>2. CASE Host
  BY <1>2, EventKeepsLinked DEF Host, Choice
<1>3. CASE DrainEcho
  BY <1>3, EchoKeepsLinked
<1>4. CASE EnterEngine
  <2>1. /\ engine' = AllApplied(engine, toEngine) /\ toEngine' = <<>>
        /\ UNCHANGED <<main, running, toUI>>
    BY <1>4 DEF EnterEngine
  <2>2. CASE toUI = <<>>
    <3>1. engine' = Effects(main')
      BY <2>1, <2>2 DEF Linked
    <3>2. AllApplied(engine', <<>>) = Effects(main') /\ Answered(Effects(main'), <<>>, engine')
      BY <3>1, AppliedNothing, AnsweredNothing
    <3> QED BY <2>1, <2>2, <3>2 DEF Linked
  <2>3. CASE toUI # <<>>
    <3>1. toEngine = <<>>
      BY <2>3 DEF Linked
    <3>2. engine' = engine
      BY <2>1, <3>1, AppliedNothing
    <3> QED BY <1>0, <2>1, <3>1, <3>2
  <2> QED BY <2>2, <2>3
<1>5. CASE \/ RefreshMessage \/ OnMainThread \/ ClearBecomesVisible \/ StateSave
           \/ DrainEchoesDone \/ DrainDone \/ ParamsRescan \/ EventsDone \/ FlushUIEdits \/ UNCHANGED vars
  <2>1. UNCHANGED <<main, engine, running, toEngine, toUI>>
    BY <1>5 DEF RefreshMessage, OnMainThread, ClearBecomesVisible, StateSave, DrainEchoesDone,
                DrainDone, ParamsRescan, EventsDone, FlushUIEdits, vars, rings
  <2> QED BY <1>0, <2>1
<1> QED BY <1>1, <1>2, <1>3, <1>4, <1>5 DEF Next

-----------------------------------------------------------------------------
(* What a drawn rack says of the chain.                                    *)

Says(chain, slot) == EffectAt(Effects(chain), slot)

LEMMA SaysIs ==
  ASSUME NEW c, Sound(c), NEW slot \in Nat
  PROVE  Says(c, slot) = IF slot < Len(c) THEN c[slot + 1].effect ELSE noModule
BY EffectAtIs DEF Says, Sound

LEMMA StripSays ==
  ASSUME NEW c, Sound(c), NEW strips \in Strips, Shown(c, strips), NEW slot \in Nat,
         NEW P, P = {p \in Places : strips[p].slot = slot /\ strips[p] # noStrip}
  PROVE  /\ slot < Len(c) => /\ P # {} /\ Min(P) \in P /\ Min(P) \in Places
                             /\ strips[Min(P)] = StripOf(c, slot + 1)
         /\ ~(slot < Len(c)) => P = {}
         /\ (IF P = {} THEN noModule ELSE strips[Min(P)].effect) = Says(c, slot)
<1>1. /\ Len(c) \in Nat /\ \A k \in 1 .. Len(c) : c[k].id \in Ids
  <2>1. Len(c) \in Nat /\ \A k \in 1 .. Len(c) : c[k] \in Modules
    BY LenProperties, ElementOfSeq DEF Sound
  <2> QED BY <2>1 DEF Modules
<1>2. \A k \in 1 .. Len(c) : StripOf(c, k).slot = k - 1 /\ StripOf(c, k).id = c[k].id
                             /\ StripOf(c, k).effect = c[k].effect
  BY DEF StripOf
<1>3. ASSUME NEW p \in P PROVE slot < Len(c) /\ p \in Places /\ strips[p] = StripOf(c, slot + 1)
  <2>1. p \in Places /\ strips[p] # noStrip /\ strips[p].slot = slot
    OBVIOUS
  <2>2. PICK k \in 1 .. Len(c) : strips[p] = StripOf(c, k)
    BY <2>1 DEF Shown
  <2>3. slot = k - 1
    BY <1>2, <2>1, <2>2
  <2> QED BY <1>1, <2>1, <2>2, <2>3
<1>4. ASSUME slot < Len(c) PROVE P # {}
  <2>1. slot + 1 \in 1 .. Len(c) /\ (slot + 1) - 1 = slot
    BY <1>1, <1>4
  <2>2. PICK p \in Places : strips[p] = StripOf(c, slot + 1)
    BY <2>1 DEF Shown
  <2>3. strips[p].slot = slot /\ strips[p].id \in Ids
    BY <1>1, <1>2, <2>1, <2>2
  <2>4. strips[p] # noStrip
    BY <2>3, StripsAre
  <2> QED BY <2>3, <2>4
<1>5. P # {} => Min(P) \in P
  <2>1. P \in SUBSET Nat
    BY Limits DEF Places
  <2> QED BY <2>1, MinIn
<1>6. P # {} => slot < Len(c) /\ Min(P) \in Places /\ strips[Min(P)] = StripOf(c, slot + 1)
  BY <1>3, <1>5
<1>7. (IF P = {} THEN noModule ELSE strips[Min(P)].effect) = Says(c, slot)
  <2>1. Says(c, slot) = IF slot < Len(c) THEN c[slot + 1].effect ELSE noModule
    BY SaysIs
  <2>2. StripOf(c, slot + 1).effect = c[slot + 1].effect
    BY DEF StripOf
  <2> QED BY <1>4, <1>6, <2>1, <2>2
<1> QED BY <1>4, <1>5, <1>6, <1>7

LEMMA RemoveSays ==
  ASSUME NEW c, Sound(c), NEW n \in 1 .. Len(c), NEW t \in Nat
  PROVE  Says(RemoveAt(c, n), t) = IF t < n - 1 THEN Says(c, t) ELSE Says(c, t + 1)
<1> DEFINE d == RemoveAt(c, n)
<1> SUFFICES Says(d, t) = IF t < n - 1 THEN Says(c, t) ELSE Says(c, t + 1)
  OBVIOUS
<1>1. c \in Seq(Modules) /\ Len(c) \in Nat /\ Sound(d)
  BY RemoveSound, LenProperties DEF Sound
<1>2. Len(d) = Len(c) - 1 /\ \A k \in 1 .. Len(c) - 1 : d[k] = IF k < n THEN c[k] ELSE c[k + 1]
  BY <1>1, Removed
<1> HIDE DEF d
<1>3. /\ Says(d, t) = IF t < Len(d) THEN d[t + 1].effect ELSE noModule
      /\ Says(c, t) = IF t < Len(c) THEN c[t + 1].effect ELSE noModule
  BY <1>1, SaysIs
<1>4. t + 1 \in Nat /\ Says(c, t + 1) = IF t + 1 < Len(c) THEN c[(t + 1) + 1].effect ELSE noModule
  BY SaysIs
<1>5. CASE t < Len(d)
  <2>1. t + 1 \in 1 .. Len(c) - 1 /\ t < Len(c) /\ t + 1 < Len(c) /\ (t + 1 < n <=> t < n - 1)
    BY <1>1, <1>2, <1>5
  <2>2. d[t + 1] = IF t + 1 < n THEN c[t + 1] ELSE c[(t + 1) + 1]
    BY <1>2, <2>1
  <2>3. /\ Says(d, t) = d[t + 1].effect /\ Says(c, t) = c[t + 1].effect
        /\ Says(c, t + 1) = c[(t + 1) + 1].effect
    BY <1>3, <1>4, <1>5, <2>1
  <2> QED BY <2>1, <2>2, <2>3
<1>6. CASE ~(t < Len(d))
  <2>1. ~(t + 1 < Len(c)) /\ ~(t < n - 1)
    BY <1>1, <1>2, <1>6
  <2>2. Says(d, t) = noModule /\ Says(c, t + 1) = noModule
    BY <1>3, <1>4, <1>6, <2>1
  <2> QED BY <2>1, <2>2
<1> QED BY <1>5, <1>6 DEF d

LEMMA SlotSays ==
  ASSUME Sound(main), regions \in Strips, NEW s \in Slot, s <= Len(main), NEW e \in Effect,
         NEW t \in Nat
  PROVE  Says(Edited(main, SetSlot(s, e)), t) = IF t = s THEN e ELSE Says(main, t)
<1> DEFINE d == Edited(main, SetSlot(s, e))
           m == New(e, 1)
<1> SUFFICES Says(d, t) = IF t = s THEN e ELSE Says(main, t)
  OBVIOUS
<1>1. /\ main \in Seq(Modules) /\ Len(main) \in Nat /\ s \in Nat /\ e \in Choice /\ e # noModule
      /\ 1 \in 1 .. MaxModules
  BY Limits, EffectAssumption, LenProperties DEF Sound, Choice
<1>2. m \in Modules /\ m.effect = e
  BY <1>1, NewIs
<1>3. Sound(d)
  BY <1>1, MainInUse, EditedSlot
<1>4. \/ Says(main, s) = e /\ d = main
      \/ s < Len(main) /\ d = [main EXCEPT ![s + 1] = m]
      \/ ~(s < Len(main)) /\ d = Append(main, m)
  BY <1>1, EditedIs DEF Says
<1> HIDE DEF d, m
<1>5. /\ Says(d, t) = IF t < Len(d) THEN d[t + 1].effect ELSE noModule
      /\ Says(main, t) = IF t < Len(main) THEN main[t + 1].effect ELSE noModule
  BY <1>3, SaysIs
<1>6. CASE Says(main, s) = e /\ d = main
  BY <1>6
<1>7. CASE s < Len(main) /\ d = [main EXCEPT ![s + 1] = m]
  <2>1. s + 1 \in 1 .. Len(main)
    BY <1>1, <1>7
  <2>2. Len(d) = Len(main) /\ \A k \in 1 .. Len(main) : d[k] = IF k = s + 1 THEN m ELSE main[k]
    BY <1>1, <1>2, <1>7, <2>1, Excepted
  <2>3. CASE t < Len(main)
    <3>1. t + 1 \in 1 .. Len(main) /\ (t + 1 = s + 1 <=> t = s) /\ t < Len(d)
      BY <1>1, <2>2, <2>3
    <3>2. Says(d, t) = d[t + 1].effect /\ Says(main, t) = main[t + 1].effect
      BY <1>5, <2>3, <3>1
    <3> QED BY <1>2, <2>2, <3>1, <3>2
  <2>4. CASE ~(t < Len(main))
    <3>1. t # s /\ ~(t < Len(d))
      BY <1>1, <1>7, <2>2, <2>4
    <3> QED BY <1>5, <2>4, <3>1
  <2> QED BY <2>3, <2>4
<1>8. CASE ~(s < Len(main)) /\ d = Append(main, m)
  <2>1. /\ Len(d) = Len(main) + 1 /\ d[Len(main) + 1] = m
        /\ \A k \in 1 .. Len(main) : d[k] = main[k]
    BY <1>1, <1>2, <1>8, Appended
  <2>2. s = Len(main)
    BY <1>1, <1>8
  <2>3. CASE t < Len(main)
    <3>1. t + 1 \in 1 .. Len(main) /\ t # s /\ t < Len(d)
      BY <1>1, <2>1, <2>2, <2>3
    <3>2. Says(d, t) = d[t + 1].effect /\ Says(main, t) = main[t + 1].effect
      BY <1>5, <2>3, <3>1
    <3> QED BY <2>1, <3>1, <3>2
  <2>4. CASE t = s
    <3>1. t < Len(d) /\ t + 1 = Len(main) + 1
      BY <1>1, <2>1, <2>2, <2>4
    <3>2. Says(d, t) = d[t + 1].effect
      BY <1>5, <3>1
    <3> QED BY <1>2, <2>1, <2>4, <3>1, <3>2
  <2>5. CASE ~(t < Len(main)) /\ t # s
    <3>1. ~(t < Len(d))
      BY <1>1, <2>1, <2>2, <2>5
    <3> QED BY <1>5, <2>5, <3>1
  <2> QED BY <2>3, <2>4, <2>5
<1> QED BY <1>4, <1>6, <1>7, <1>8 DEF d

LEMMA MoveSays ==
  ASSUME NEW c, Sound(c), NEW i \in 0 .. Len(c) - 1, NEW j \in 0 .. Len(c) - 1, i # j,
         NEW t \in Nat
  PROVE  Says(MoveModule(c, i, j), t)
           = IF t < Len(c) THEN c[Source(i, j, t + 1)].effect ELSE noModule
<1> DEFINE d == MoveModule(c, i, j)
<1>1. /\ c \in Seq(Modules) /\ Len(c) \in Nat /\ Sound(d)
  BY MoveSound, LenProperties DEF Sound
<1>2. Len(d) = Len(c) /\ \A k \in 1 .. Len(c) : d[k] = c[Source(i, j, k)]
  BY <1>1, Moved
<1> HIDE DEF d
<1>3. Says(d, t) = IF t < Len(d) THEN d[t + 1].effect ELSE noModule
  BY <1>1, SaysIs
<1>4. t < Len(c) => t + 1 \in 1 .. Len(c)
  BY <1>1
<1> QED BY <1>2, <1>3, <1>4 DEF d

\* The modules in two places, traded by one move or by two.
LEMMA SwapIs ==
  ASSUME NEW c \in Seq(Modules), NEW i \in Nat, NEW j \in Nat, i < j, j < Len(c)
  PROVE  LET d == IF j - 1 = i THEN MoveModule(c, i, j)
                  ELSE MoveModule(MoveModule(c, i, j), j - 1, i)
         IN /\ Len(d) = Len(c)
            /\ \A k \in 1 .. Len(c) :
                 d[k] = IF k = i + 1 THEN c[j + 1] ELSE IF k = j + 1 THEN c[i + 1] ELSE c[k]
<1>1. CASE j - 1 = i
  <2>1. Len(c) \in Nat /\ i \in 0 .. Len(c) - 1 /\ j \in 0 .. Len(c) - 1 /\ i # j
    BY LenProperties
  <2>2. Len(MoveModule(c, i, j)) = Len(c)
        /\ \A k \in 1 .. Len(c) : MoveModule(c, i, j)[k] = c[Source(i, j, k)]
    BY <2>1, Moved
  <2>3. \A k \in 1 .. Len(c) : Source(i, j, k) = IF k = i + 1 THEN j + 1
                               ELSE IF k = j + 1 THEN i + 1 ELSE k
    BY <1>1, <2>1 DEF Source
  <2> QED BY <1>1, <2>2, <2>3
<1>2. CASE j - 1 # i
  BY <1>2, Traded
<1> QED BY <1>1, <1>2

LEMMA Inserted ==
  ASSUME NEW S, NEW c \in Seq(S), NEW n \in 1 .. Len(c), NEW e \in S
  PROVE  /\ InsertAt(c, n, e) \in Seq(S) /\ Len(InsertAt(c, n, e)) = Len(c) + 1
         /\ \A k \in 1 .. Len(c) + 1 :
              InsertAt(c, n, e)[k] = IF k < n THEN c[k] ELSE IF k = n THEN e ELSE c[k - 1]
<1> DEFINE a == SubSeq(c, 1, n - 1)
           b == SubSeq(c, n, Len(c))
           m == <<e>>
           l == a \o m
<1>1. Len(c) \in Nat
  BY LenProperties
<1>2. a \in Seq(S) /\ Len(a) = n - 1 /\ \A k \in 1 .. n - 1 : a[k] = c[k]
  BY <1>1
<1>3. /\ b \in Seq(S) /\ Len(b) = (Len(c) - n) + 1
      /\ \A k \in 1 .. (Len(c) - n) + 1 : b[k] = c[(n + k) - 1]
  BY <1>1
<1>4. m \in Seq(S) /\ Len(m) = 1 /\ m[1] = e
  OBVIOUS
<1> HIDE DEF a, b, m
<1>5. l \in Seq(S) /\ Len(l) = n /\ \A k \in 1 .. n : l[k] = IF k < n THEN c[k] ELSE e
  <2>1. l \in Seq(S) /\ Len(l) = Len(a) + Len(m)
        /\ \A k \in 1 .. Len(a) + Len(m) : l[k] = IF k <= Len(a) THEN a[k] ELSE m[k - Len(a)]
    BY <1>2, <1>4, ConcatProperties
  <2> HIDE DEF l
  <2>2. ASSUME NEW k \in 1 .. n PROVE l[k] = IF k < n THEN c[k] ELSE e
    <3>1. CASE k < n
      BY <1>1, <1>2, <1>4, <2>1, <3>1
    <3>2. CASE ~(k < n)
      <4>1. k = n /\ k - Len(a) = 1 /\ ~(k <= Len(a)) /\ k \in 1 .. Len(a) + Len(m)
        BY <1>1, <1>2, <1>4, <3>2
      <4> QED BY <1>4, <2>1, <3>2, <4>1
    <3> QED BY <3>1, <3>2
  <2> QED BY <1>1, <1>2, <1>4, <2>1, <2>2
<1> HIDE DEF l
<1>6. l \o b \in Seq(S) /\ Len(l \o b) = Len(c) + 1
  <2>1. l \o b \in Seq(S) /\ Len(l \o b) = Len(l) + Len(b)
    BY <1>3, <1>5, ConcatProperties
  <2> QED BY <1>1, <1>3, <1>5, <2>1
<1>7. ASSUME NEW k \in 1 .. Len(c) + 1
      PROVE  (l \o b)[k] = IF k < n THEN c[k] ELSE IF k = n THEN e ELSE c[k - 1]
  <2>1. CASE k <= n
    <3>1. (l \o b)[k] = l[k] /\ k \in 1 .. n
      BY <1>1, <1>3, <1>5, <2>1
    <3> QED BY <1>1, <1>5, <2>1, <3>1
  <2>2. CASE ~(k <= n)
    <3>1. (l \o b)[k] = b[k - n] /\ k - n \in 1 .. (Len(c) - n) + 1
      BY <1>1, <1>3, <1>5, <2>2
    <3>2. (n + (k - n)) - 1 = k - 1
      BY <1>1, <2>2
    <3> QED BY <1>1, <1>3, <2>2, <3>1, <3>2
  <2> QED BY <2>1, <2>2
<1>8. InsertAt(c, n, e) = l \o b
  BY DEF InsertAt, l, a, b, m
<1> QED BY <1>6, <1>7, <1>8

-----------------------------------------------------------------------------
(* Each edit of a drawn rack: what it takes, and what the host is told.    *)

\* What a click that hurries nothing finds.
LEMMA Unhurried ==
  ASSUME RackInv, Clicked, ~hurried'
  PROVE  /\ Shown(main, regions) /\ counter = Len(main) /\ Sound(main) /\ regions \in Strips
         /\ main \in Seq(Modules) /\ Len(main) \in Nat /\ Len(main) <= MaxModules
         /\ DOMAIN main = 1 .. Len(main) /\ Slot = 0 .. MaxModules - 1 /\ MaxModules \in Nat
         /\ \A k \in 1 .. Len(main) : main[k].id \in InUse
<1>1. ~posted /\ ~undrawn /\ ~slotMoved
  BY Settled DEF Clicked
<1>2. Shown(main, regions) /\ counter = Len(main) /\ Sound(main) /\ regions \in Strips
  BY <1>1 DEF RackInv
<1> QED BY <1>2, MainInUse, Limits, LenProperties DEF Sound

LEMMA RackSays ==
  ASSUME Shown(main, regions), Sound(main), regions \in Strips, NEW slot \in Nat
  PROVE  /\ slot < Len(main) => /\ StripsIn(slot) # {}
                                /\ RegionInRackSlot(slot) \in Places
                                /\ regions[RegionInRackSlot(slot)] = StripOf(main, slot + 1)
         /\ EffectInRackSlot(slot) = Says(main, slot)
<1> DEFINE P == StripsIn(slot)
<1>1. P = {p \in Places : regions[p].slot = slot /\ regions[p] # noStrip}
  BY DEF StripsIn
<1> HIDE DEF P
<1>2. /\ slot < Len(main) => /\ P # {} /\ Min(P) \in Places
                             /\ regions[Min(P)] = StripOf(main, slot + 1)
      /\ (IF P = {} THEN noModule ELSE regions[Min(P)].effect) = Says(main, slot)
  BY <1>1, StripSays
<1> QED BY <1>2 DEF P, EffectInRackSlot, RegionInRackSlot

\* The strip clicked is a module of the chain's.
LEMMA StripIs ==
  ASSUME Shown(main, regions), Sound(main), NEW p \in Places, regions[p] # noStrip
  PROVE  LET slot == regions[p].slot
         IN /\ slot \in 0 .. Len(main) - 1 /\ slot \in Nat /\ slot + 1 \in 1 .. Len(main)
            /\ regions[p] = StripOf(main, slot + 1) /\ main[slot + 1].id = regions[p].id
<1>1. PICK k \in 1 .. Len(main) : regions[p] = StripOf(main, k)
  BY DEF Shown
<1>2. Len(main) \in Nat
  BY LenProperties DEF Sound
<1>3. regions[p].slot = k - 1 /\ regions[p].id = main[k].id
  BY <1>1 DEF StripOf
<1>4. (k - 1) + 1 = k /\ k - 1 \in 0 .. Len(main) - 1 /\ k - 1 \in Nat
  BY <1>2
<1> QED BY <1>1, <1>3, <1>4

\* The selectors queued are those the edit changed, as they now are.
Tells(news) ==
  /\ DOMAIN news \subseteq Slot
  /\ \A s \in Slot : Says(main', s) = IF s \in DOMAIN news THEN news[s] ELSE Says(main, s)
Announced ==
  (NoneChangedByUser /\ UNCHANGED main) \/ \E news : ModulesChangedByUser(news) /\ Tells(news)

LEMMA RemoveTakes ==
  ASSUME RackInv, ~hurried', NEW p \in Places, RemoveModule(p)
  PROVE  /\ \E k \in DOMAIN main : main[k].id = regions[p].id /\ main' = RemoveAt(main, k)
         /\ Announced
<1> DEFINE slot == regions[p].slot
           commands == <<SetSlot(slot, noModule)>>
           news == [s \in slot .. counter - 1 |-> EffectInRackSlot(s + 1)]
<1>1. /\ Clicked /\ regions[p] # noStrip
      /\ IF slot >= counter
           THEN NoneChangedByUser /\ UNCHANGED <<main, engine, inverse, toEngine, counter>>
           ELSE EditChain(commands) /\ ModulesChangedByUser(news)
  BY DEF RemoveModule
<1>2. /\ Shown(main, regions) /\ counter = Len(main) /\ Sound(main) /\ regions \in Strips
      /\ main \in Seq(Modules) /\ Len(main) \in Nat /\ Len(main) <= MaxModules
      /\ DOMAIN main = 1 .. Len(main) /\ Slot = 0 .. MaxModules - 1 /\ MaxModules \in Nat
  BY <1>1, Unhurried
<1>3. /\ slot \in 0 .. Len(main) - 1 /\ slot \in Nat /\ slot + 1 \in 1 .. Len(main)
      /\ main[slot + 1].id = regions[p].id
  BY <1>1, <1>2, StripIs
<1> HIDE DEF slot
<1>4. slot \in Slot /\ noModule \in Choice /\ ~(slot >= counter)
  BY <1>2, <1>3 DEF Choice
<1>5. EditChain(commands) /\ ModulesChangedByUser(news)
  BY <1>1, <1>4
<1>6. main' = Edited(main, SetSlot(slot, noModule))
  <2>1. Carried(main, commands).chain = Edited(main, SetSlot(slot, noModule))
    BY <1>2, <1>4, CarrySlot
  <2> QED BY <1>5, <2>1 DEF EditChain
<1>7. main' = RemoveAt(main, slot + 1)
  <2>1. EffectAt(Effects(main), slot) # noModule
    BY <1>2, <1>3, EffectAtIs
  <2> QED BY <1>2, <1>4, <1>6, <2>1, EditedIs, EffectAssumption
<1>8. Tells(news)
  <2>1. DOMAIN news = slot .. counter - 1
    OBVIOUS
  <2>2. \A s \in slot .. counter - 1 : news[s] = EffectInRackSlot(s + 1)
    OBVIOUS
  <2> HIDE DEF news
  <2>3. ASSUME NEW s \in Slot
        PROVE  Says(main', s) = IF s \in slot .. counter - 1 THEN news[s] ELSE Says(main, s)
    <3>1. s \in Nat /\ s + 1 \in Nat /\ (slot + 1) - 1 = slot
      BY <1>2, <1>3
    <3>2. Says(main', s) = IF s < slot THEN Says(main, s) ELSE Says(main, s + 1)
      BY <1>2, <1>3, <1>7, <3>1, RemoveSays
    <3>3. CASE s \in slot .. counter - 1
      <4>1. news[s] = EffectInRackSlot(s + 1) /\ ~(s < slot)
        BY <1>2, <1>3, <2>2, <3>1, <3>3
      <4>2. EffectInRackSlot(s + 1) = Says(main, s + 1)
        BY <1>2, <3>1, RackSays
      <4> QED BY <3>2, <3>3, <4>1, <4>2
    <3>4. CASE s \notin slot .. counter - 1
      <4>1. s < slot \/ (~(s < Len(main)) /\ ~(s + 1 < Len(main)))
        BY <1>2, <1>3, <3>1, <3>4
      <4>2. ~(s < Len(main)) => Says(main, s) = noModule
        BY <1>2, <3>1, SaysIs
      <4>3. ~(s + 1 < Len(main)) => Says(main, s + 1) = noModule
        BY <1>2, <3>1, SaysIs
      <4> QED BY <3>2, <3>4, <4>1, <4>2, <4>3
    <3> QED BY <3>3, <3>4
  <2>4. slot .. counter - 1 \subseteq Slot
    BY <1>2, <1>3
  <2> QED BY <2>1, <2>3, <2>4 DEF Tells
<1>9. Announced
  <2> HIDE DEF news
  <2> QED BY <1>5, <1>8 DEF Announced
<1> QED BY <1>2, <1>3, <1>7, <1>9

\* An effect put in a slot.
LEMMA SlotTells ==
  ASSUME Sound(main), regions \in Strips, NEW s \in Slot, s <= Len(main), NEW e \in Effect,
         EditChain(<<SetSlot(s, e)>>), ModulesChangedByUser([t \in {s} |-> e])
  PROVE  main' = Edited(main, SetSlot(s, e)) /\ Announced
<1> DEFINE news == [t \in {s} |-> e]
           commands == <<SetSlot(s, e)>>
<1>1. e \in Choice
  BY DEF Choice
<1>2. main' = Edited(main, SetSlot(s, e))
  <2>1. Carried(main, commands).chain = Edited(main, SetSlot(s, e))
    BY <1>1, CarrySlot
  <2> QED BY <2>1 DEF EditChain
<1>3. DOMAIN news = {s} /\ news[s] = e
  OBVIOUS
<1>4. ModulesChangedByUser(news)
  OBVIOUS
<1> HIDE DEF news, commands
<1>5. ASSUME NEW t \in Slot
      PROVE  Says(main', t) = IF t \in DOMAIN news THEN news[t] ELSE Says(main, t)
  <2>1. Says(main', t) = IF t = s THEN e ELSE Says(main, t)
    BY <1>2, SlotSays, Limits
  <2> QED BY <1>3, <2>1
<1>6. Tells(news)
  BY <1>3, <1>5 DEF Tells
<1> QED BY <1>2, <1>4, <1>6 DEF Announced

LEMMA ReplaceTakes ==
  ASSUME RackInv, Clicked, ~hurried', menu # noTarget, menu.action = "replace",
         NEW effect \in Effect, ReplaceModuleInSlot(menu.slot, effect)
  PROVE  /\ \E k \in DOMAIN main : /\ main[k].id = menu.id /\ main'[k].effect = effect
                                   /\ main' = [main EXCEPT ![k] = main'[k]]
         /\ Announced
<1> DEFINE slot == menu.slot
           k == slot + 1
<1>1. /\ Shown(main, regions) /\ counter = Len(main) /\ Sound(main) /\ regions \in Strips
      /\ main \in Seq(Modules) /\ Len(main) \in Nat /\ Len(main) <= MaxModules
      /\ DOMAIN main = 1 .. Len(main) /\ Slot = 0 .. MaxModules - 1 /\ MaxModules \in Nat
  BY Unhurried
<1>2. /\ slot \in 0 .. counter - 1
      /\ menu.id = IF StripsIn(slot) = {} THEN 0 ELSE regions[RegionInRackSlot(slot)].id
  BY TargetsAre
<1>3. \/ /\ EditChain(<<SetSlot(slot, effect)>>)
         /\ ModulesChangedByUser([s \in {slot} |-> effect])
      \/ /\ slot >= counter \/ EffectInRackSlot(slot) = effect
         /\ NoneChangedByUser /\ UNCHANGED main
  BY DEF ReplaceModuleInSlot, Ignored
<1> HIDE DEF slot
<1>4. /\ slot \in Nat /\ slot \in Slot /\ slot < Len(main) /\ slot <= Len(main)
      /\ k \in 1 .. Len(main) /\ ~(slot >= counter)
  BY <1>1, <1>2
<1>5. main[k].id = menu.id
  <2>1. StripsIn(slot) # {} /\ regions[RegionInRackSlot(slot)] = StripOf(main, k)
    BY <1>1, <1>4, RackSays
  <2>2. StripOf(main, k).id = main[k].id
    BY DEF StripOf
  <2> QED BY <1>2, <2>1, <2>2
<1>6. Says(main, slot) = main[k].effect
  BY <1>1, <1>4, SaysIs
<1>7. CASE EditChain(<<SetSlot(slot, effect)>>) /\ ModulesChangedByUser([s \in {slot} |-> effect])
  <2>1. main' = Edited(main, SetSlot(slot, effect)) /\ Announced
    BY <1>1, <1>4, <1>7, SlotTells
  <2> DEFINE m == New(effect, 1)
  <2>2. m.effect = effect
    <3>1. 1 \in 1 .. MaxModules
      BY Limits
    <3> QED BY <1>1, <3>1, NewIs
  <2>3. \/ Says(main, slot) = effect /\ main' = main
        \/ main' = [main EXCEPT ![k] = m]
    <3>1. effect \in Choice /\ effect # noModule
      BY EffectAssumption DEF Choice
    <3> QED BY <1>1, <1>4, <2>1, <3>1, EditedIs DEF Says
  <2> HIDE DEF m, k
  <2>4. main'[k].effect = effect /\ main' = [main EXCEPT ![k] = main'[k]]
    BY <1>1, <1>4, <1>6, <2>2, <2>3
  <2> QED BY <1>1, <1>4, <1>5, <2>1, <2>4
<1>8. CASE EffectInRackSlot(slot) = effect /\ NoneChangedByUser /\ UNCHANGED main
  <2>1. EffectInRackSlot(slot) = Says(main, slot)
    BY <1>1, <1>4, RackSays
  <2> HIDE DEF k
  <2>2. main'[k].effect = effect /\ main' = [main EXCEPT ![k] = main'[k]]
    BY <1>1, <1>4, <1>6, <1>8, <2>1
  <2>3. Announced
    BY <1>8 DEF Announced
  <2> QED BY <1>1, <1>4, <1>5, <2>2, <2>3
<1> QED BY <1>3, <1>4, <1>7, <1>8

LEMMA AppendTakes ==
  ASSUME RackInv, Clicked, ~hurried', menu # noTarget, menu.action = "append",
         NEW effect \in Effect, AddUserAddedModule(effect)
  PROVE  Effects(main') = Append(Effects(main), effect) /\ Announced
<1> DEFINE s == counter
           m == New(effect, 1)
<1>1. /\ counter = Len(main) /\ Sound(main) /\ regions \in Strips /\ main \in Seq(Modules)
      /\ Len(main) \in Nat /\ Slot = 0 .. MaxModules - 1 /\ MaxModules \in Nat
      /\ \A k \in 1 .. Len(main) : main[k].id \in InUse
  BY Unhurried
<1>2. counter < MaxModules
  BY TargetsAre
<1>3. s \in Slot /\ s <= Len(main) /\ s \in Nat /\ ~(s < Len(main))
  BY <1>1, <1>2
<1>4. EditChain(<<SetSlot(s, effect)>>) /\ ModulesChangedByUser([t \in {s} |-> effect])
  BY DEF AddUserAddedModule
<1> HIDE DEF s
<1>5. main' = Edited(main, SetSlot(s, effect)) /\ Announced
  BY <1>1, <1>3, <1>4, SlotTells
<1>6. effect \in Choice /\ effect # noModule /\ 1 \in 1 .. MaxModules
  BY EffectAssumption, Limits DEF Choice
<1>7. m \in Modules /\ m.effect = effect /\ m.id \notin InUse
  BY <1>1, <1>6, NewIs
<1> HIDE DEF m
<1>8. main' = Append(main, m)
  <2>1. EffectAt(Effects(main), s) = noModule
    BY <1>1, <1>3, EffectAtIs
  <2> QED BY <1>1, <1>3, <1>5, <1>6, <2>1, EditedIs DEF m
<1>9. Effects(main') = Append(Effects(main), effect)
  BY <1>1, <1>2, <1>7, <1>8, AppendSound
<1> QED BY <1>5, <1>9

LEMMA InsertTakes ==
  ASSUME RackInv, Clicked, ~hurried', menu # noTarget, menu.action = "insert",
         NEW effect \in Effect, InsertModuleAtGap(menu.slot, effect)
  PROVE  Effects(main') = InsertAt(Effects(main), menu.slot + 1, effect) /\ Announced
<1> DEFINE gap == menu.slot
           n == Len(main)
           m == New(effect, 1)
           longer == Append(main, m)
           commands == <<SetSlot(n, effect), Move(n, gap)>>
           news == [s \in gap .. counter |-> IF s = gap THEN effect ELSE EffectInRackSlot(s - 1)]
<1>1. /\ Shown(main, regions) /\ counter = n /\ Sound(main) /\ regions \in Strips
      /\ main \in Seq(Modules) /\ n \in Nat /\ n <= MaxModules
      /\ Slot = 0 .. MaxModules - 1 /\ MaxModules \in Nat
      /\ \A k \in 1 .. n : main[k].id \in InUse
  BY Unhurried
<1>2. gap \in 0 .. counter - 1 /\ counter < MaxModules
  BY TargetsAre
<1>3. EditChain(commands) /\ ModulesChangedByUser(news)
  <2>1. ~(gap >= counter \/ counter >= MaxModules)
    BY <1>1, <1>2
  <2>2. EditChain(<<SetSlot(counter, effect), Move(counter, gap)>>) /\ ModulesChangedByUser(news)
    BY <2>1 DEF InsertModuleAtGap
  <2> QED BY <1>1, <2>2
<1> SUFFICES Effects(main') = InsertAt(Effects(main), gap + 1, effect) /\ Announced
  OBVIOUS
<1> HIDE DEF gap
<1>4. main' = MoveModule(Edited(main, SetSlot(n, effect)), n, gap)
  <2>1. Carried(main, commands).chain = MoveModule(Edited(main, SetSlot(n, effect)), n, gap)
    BY <1>1, <1>2, CarryInsert
  <2> QED BY <1>3, <2>1 DEF EditChain
<1>5. /\ gap \in Nat /\ n \in Slot /\ ~(n < n) /\ effect \in Choice /\ effect # noModule
      /\ 1 \in 1 .. MaxModules
  BY <1>1, <1>2, EffectAssumption DEF Choice
<1>6. m \in Modules /\ m.effect = effect /\ m.id \notin InUse
  BY <1>1, <1>5, NewIs
<1>7. Edited(main, SetSlot(n, effect)) = longer
  <2>1. EffectAt(Effects(main), n) = noModule
    BY <1>1, <1>5, EffectAtIs
  <2> QED BY <1>1, <1>5, <2>1, EditedIs
<1> HIDE DEF m
<1>8. /\ Len(longer) = n + 1 /\ longer[n + 1] = m /\ \A k \in 1 .. n : longer[k] = main[k]
  BY <1>1, <1>6, Appended
<1>9. Sound(longer)
  BY <1>1, <1>2, <1>6, AppendSound
<1> HIDE DEF longer
<1>10. /\ n \in 0 .. Len(longer) - 1 /\ gap \in 0 .. Len(longer) - 1 /\ n # gap
       /\ main' = MoveModule(longer, n, gap)
  BY <1>1, <1>2, <1>4, <1>7, <1>8
<1>11. \A k \in 1 .. n + 1 : Source(n, gap, k) = IF k < gap + 1 THEN k
                             ELSE IF k = gap + 1 THEN n + 1 ELSE k - 1
  <2> HIDE DEF n
  <2> QED BY <1>1, <1>2, <1>5 DEF Source
<1>12. /\ Sound(main') /\ Len(main') = n + 1
       /\ \A k \in 1 .. n + 1 : main'[k] = IF k < gap + 1 THEN main[k]
                                ELSE IF k = gap + 1 THEN m ELSE main[k - 1]
  <2>1. longer \in Seq(Modules)
    BY <1>9 DEF Sound
  <2>2. Len(main') = n + 1 /\ \A k \in 1 .. n + 1 : main'[k] = longer[Source(n, gap, k)]
    BY <1>8, <1>10, <2>1, Moved
  <2>3. Sound(main')
    BY <1>9, <1>10, MoveSound
  <2> HIDE DEF n
  <2>4. ASSUME NEW k \in 1 .. n + 1
        PROVE  main'[k] = IF k < gap + 1 THEN main[k] ELSE IF k = gap + 1 THEN m ELSE main[k - 1]
    <3>1. main'[k] = longer[Source(n, gap, k)]
      BY <2>2
    <3>2. CASE k < gap + 1
      <4>1. k \in 1 .. n /\ Source(n, gap, k) = k
        BY <1>1, <1>2, <1>11, <3>2
      <4> QED BY <1>8, <3>1, <3>2, <4>1
    <3>3. CASE k = gap + 1
      <4>1. Source(n, gap, k) = n + 1 /\ ~(k < gap + 1)
        BY <1>1, <1>2, <1>11, <3>3
      <4> QED BY <1>8, <3>1, <3>3, <4>1
    <3>4. CASE k > gap + 1
      <4>1. Source(n, gap, k) = k - 1 /\ k - 1 \in 1 .. n /\ ~(k < gap + 1) /\ k # gap + 1
        BY <1>1, <1>2, <1>11, <3>4
      <4> QED BY <1>8, <3>1, <4>1
    <3> QED BY <1>1, <1>5, <3>2, <3>3, <3>4
  <2> QED BY <2>2, <2>3, <2>4
<1>13. Effects(main') = InsertAt(Effects(main), gap + 1, effect)
  <2> DEFINE f == Effects(main)
             g == InsertAt(f, gap + 1, effect)
  <2>1. f \in Seq(Effect) /\ Len(f) = n /\ \A k \in 1 .. n : f[k] = main[k].effect
    BY <1>1, EffectsAre
  <2> HIDE DEF f, n
  <2> DEFINE place == gap + 1
  <2>2. place \in 1 .. Len(f) /\ g = InsertAt(f, place, effect)
    BY <1>1, <1>2, <2>1
  <2> HIDE DEF place, g
  <2>7. f \in Seq(Effect) /\ effect \in Effect /\ place \in 1 .. Len(f)
    BY <2>1, <2>2
  <2>8. /\ InsertAt(f, place, effect) \in Seq(Effect)
        /\ Len(InsertAt(f, place, effect)) = Len(f) + 1
    BY <2>7, Inserted
  <2>9. \A k \in 1 .. Len(f) + 1 : InsertAt(f, place, effect)[k]
          = IF k < place THEN f[k] ELSE IF k = place THEN effect ELSE f[k - 1]
    BY <2>7, Inserted
  <2>6. /\ g \in Seq(Effect) /\ Len(g) = Len(f) + 1
        /\ \A k \in 1 .. Len(f) + 1 :
             g[k] = IF k < place THEN f[k] ELSE IF k = place THEN effect ELSE f[k - 1]
    BY <2>2, <2>8, <2>9
  <2>3. /\ g \in Seq(Effect) /\ Len(g) = n + 1
        /\ \A k \in 1 .. n + 1 :
             g[k] = IF k < gap + 1 THEN f[k] ELSE IF k = gap + 1 THEN effect ELSE f[k - 1]
    BY <2>1, <2>6 DEF place
  <2>4. ASSUME NEW k \in 1 .. n + 1 PROVE g[k] = main'[k].effect
    <3>1. CASE k < gap + 1
      <4>1. k \in 1 .. n
        BY <1>1, <1>2, <3>1
      <4> QED BY <1>12, <2>1, <2>3, <3>1, <4>1
    <3>2. CASE k = gap + 1
      <4>1. ~(k < gap + 1)
        BY <1>5, <3>2
      <4> QED BY <1>6, <1>12, <2>3, <3>2, <4>1
    <3>3. CASE k > gap + 1
      <4>1. k - 1 \in 1 .. n /\ ~(k < gap + 1) /\ k # gap + 1
        BY <1>1, <1>5, <3>3
      <4> QED BY <1>12, <2>1, <2>3, <4>1
    <3> QED BY <1>1, <1>5, <3>1, <3>2, <3>3
  <2>5. main' \in Seq(Modules) /\ \A k \in 1 .. Len(main') : g[k] = main'[k].effect
    BY <1>12, <2>4 DEF Sound
  <2> QED BY <1>12, <2>3, <2>5, EffectsEqual DEF g, f
<1>14. Tells(news)
  <2>1. /\ DOMAIN news = gap .. counter
        /\ \A s \in gap .. counter : news[s] = IF s = gap THEN effect ELSE EffectInRackSlot(s - 1)
    OBVIOUS
  <2> HIDE DEF news
  <2>2. ASSUME NEW s \in Slot
        PROVE  Says(main', s) = IF s \in gap .. counter THEN news[s] ELSE Says(main, s)
    <3>1. s \in Nat
      BY <1>1
    <3>2. /\ Says(main', s) = IF s < n + 1 THEN main'[s + 1].effect ELSE noModule
          /\ Says(main, s) = IF s < n THEN main[s + 1].effect ELSE noModule
      BY <1>1, <1>12, <3>1, SaysIs
    <3> HIDE DEF n
    <3>3. CASE s < gap
      <4>1. s + 1 \in 1 .. n + 1 /\ s + 1 < gap + 1 /\ s < n + 1 /\ s < n /\ s \notin gap .. counter
        BY <1>1, <1>2, <3>1, <3>3
      <4>2. main'[s + 1] = main[s + 1]
        BY <1>12, <4>1
      <4> QED BY <3>2, <4>1, <4>2
    <3>4. CASE s = gap
      <4>1. s + 1 \in 1 .. n + 1 /\ s + 1 = gap + 1 /\ ~(s + 1 < gap + 1) /\ s < n + 1
            /\ s \in gap .. counter
        BY <1>1, <1>2, <3>1, <3>4
      <4>2. main'[s + 1] = m
        BY <1>12, <4>1
      <4> QED BY <1>6, <2>1, <3>2, <3>4, <4>1, <4>2
    <3>5. CASE s > gap /\ s <= n
      <4>1. s + 1 \in 1 .. n + 1 /\ s + 1 # gap + 1 /\ ~(s + 1 < gap + 1) /\ s < n + 1
            /\ s \in gap .. counter /\ s # gap /\ s - 1 \in Nat /\ s - 1 < n
            /\ (s + 1) - 1 = s /\ (s - 1) + 1 = s
        BY <1>1, <1>2, <3>1, <3>5
      <4>2. main'[s + 1] = main[(s + 1) - 1]
        BY <1>12, <4>1
      <4>3. news[s] = EffectInRackSlot(s - 1)
        BY <2>1, <4>1
      <4>4. EffectInRackSlot(s - 1) = Says(main, s - 1)
        BY <1>1, <4>1, RackSays
      <4>5. Says(main, s - 1) = main[(s - 1) + 1].effect
        BY <1>1, <4>1, SaysIs DEF n
      <4> QED BY <3>2, <4>1, <4>2, <4>3, <4>4, <4>5
    <3>6. CASE s > n
      <4>1. ~(s < n + 1) /\ ~(s < n) /\ s \notin gap .. counter
        BY <1>1, <1>2, <3>1, <3>6
      <4> QED BY <3>2, <4>1
    <3> QED BY <1>1, <1>5, <3>1, <3>3, <3>4, <3>5, <3>6
  <2>3. gap .. counter \subseteq Slot
    BY <1>1, <1>2
  <2> QED BY <2>1, <2>2, <2>3 DEF Tells
<1>15. Announced
  <2> HIDE DEF news
  <2> QED BY <1>3, <1>14 DEF Announced
<1> QED BY <1>13, <1>15

\* Modules and strips trade places.
LEMMA SwapTakes ==
  ASSUME RackInv, Clicked, ~hurried', NEW a \in 0 .. counter - 1, NEW b \in 0 .. counter - 1,
         a # b, SwapModuleSlots(a, b)
  PROVE  /\ main' = [k \in DOMAIN main |-> IF k = a + 1 THEN main[b + 1]
                                           ELSE IF k = b + 1 THEN main[a + 1] ELSE main[k]]
         /\ Announced
<1> DEFINE first == Min({a, b})
           second == Max({a, b})
           pFirst == RegionInRackSlot(first)
           pSecond == RegionInRackSlot(second)
           rest == IF second - 1 # first THEN <<Move(second - 1, first)>> ELSE <<>>
           commands == <<Move(first, second)>> \o rest
           news == [s \in {first, second} |-> regions[IF s = first THEN pSecond ELSE pFirst].effect]
           swapped == IF second - 1 = first THEN MoveModule(main, first, second)
                      ELSE MoveModule(MoveModule(main, first, second), second - 1, first)
<1>1. /\ Shown(main, regions) /\ counter = Len(main) /\ Sound(main) /\ regions \in Strips
      /\ main \in Seq(Modules) /\ Len(main) \in Nat /\ Len(main) <= MaxModules
      /\ DOMAIN main = 1 .. Len(main) /\ Slot = 0 .. MaxModules - 1 /\ MaxModules \in Nat
  BY Unhurried
<1>2. first = (IF a < b THEN a ELSE b) /\ second = (IF a < b THEN b ELSE a)
  <2>1. a \in Nat /\ b \in Nat
    BY <1>1
  <2> HIDE DEF first, second
  <2> QED BY <2>1, Pair DEF first, second
<1> HIDE DEF first, second
<1>3. /\ first \in 0 .. Len(main) - 1 /\ second \in 0 .. Len(main) - 1 /\ first < second
      /\ first \in Nat /\ second \in Nat /\ second < Len(main) /\ first < Len(main)
      /\ first # second /\ (second - 1 # first => second - 1 \in 0 .. Len(main) - 1)
  BY <1>1, <1>2
<1>4. /\ StripsIn(first) # {} /\ StripsIn(second) # {}
      /\ regions[pFirst] = StripOf(main, first + 1) /\ regions[pSecond] = StripOf(main, second + 1)
  BY <1>1, <1>3, RackSays
<1>5. EditChain(commands) /\ ModulesChangedByUser(news)
  BY <1>4 DEF SwapModuleSlots, first, second
<1> HIDE DEF pFirst, pSecond
<1>6. main' = swapped /\ swapped \in Seq(Modules) /\ Sound(swapped)
  <2>1. Carried(main, commands).chain = swapped /\ Sound(Carried(main, commands).chain)
    <3>1. CASE second - 1 = first
      <4>1. commands = <<Move(first, second)>>
        BY <3>1, Chained
      <4>2. /\ Carries(<<Move(first, second)>>)
            /\ Carried(main, <<Move(first, second)>>).chain = MoveModule(main, first, second)
        BY <1>1, <1>3, CarryMove
      <4> QED BY <3>1, <4>1, <4>2 DEF Carries
    <3>2. CASE second - 1 # first
      <4> DEFINE third == second - 1
      <4>1. commands = <<Move(first, second), Move(third, first)>>
        BY <3>2, Chained
      <4>2. third \in 0 .. Len(main) - 1 /\ third # first
        BY <1>3, <3>2
      <4>3. swapped = MoveModule(MoveModule(main, first, second), third, first)
        BY <3>2
      <4> HIDE DEF third, commands, swapped
      <4>4. /\ Carries(<<Move(first, second), Move(third, first)>>)
            /\ Carried(main, <<Move(first, second), Move(third, first)>>).chain
                 = MoveModule(MoveModule(main, first, second), third, first)
        BY <1>1, <1>3, <4>2, CarryMoves
      <4> QED BY <4>1, <4>3, <4>4 DEF Carries
    <3> QED BY <3>1, <3>2
  <2> HIDE DEF commands, swapped
  <2>2. main' = swapped
    BY <1>5, <2>1 DEF EditChain
  <2> QED BY <2>1, <2>2 DEF Sound
<1>7. /\ Len(swapped) = Len(main)
      /\ \A k \in 1 .. Len(main) : swapped[k] = IF k = first + 1 THEN main[second + 1]
                                   ELSE IF k = second + 1 THEN main[first + 1] ELSE main[k]
  BY <1>1, <1>3, SwapIs
<1> HIDE DEF swapped
<1>8. main' = [k \in DOMAIN main |-> IF k = a + 1 THEN main[b + 1]
                                     ELSE IF k = b + 1 THEN main[a + 1] ELSE main[k]]
  <2>1. \A k \in 1 .. Len(main) : swapped[k] = IF k = a + 1 THEN main[b + 1]
                                  ELSE IF k = b + 1 THEN main[a + 1] ELSE main[k]
    <3>1. CASE a < b
      BY <1>2, <1>7, <3>1
    <3>2. CASE ~(a < b)
      <4>1. first = b /\ second = a /\ a + 1 # b + 1
        BY <1>1, <1>2, <3>2
      <4> QED BY <1>7, <4>1
    <3> QED BY <3>1, <3>2
  <2>2. swapped = [k \in 1 .. Len(main) |-> swapped[k]]
    BY <1>6, <1>7
  <2> QED BY <1>1, <1>6, <2>1, <2>2
<1>9. Tells(news)
  <2>1. /\ DOMAIN news = {first, second} /\ news[first] = regions[pSecond].effect
        /\ news[second] = regions[pFirst].effect
    BY <1>3
  <2> HIDE DEF news
  <2>2. news[first] = main[second + 1].effect /\ news[second] = main[first + 1].effect
    BY <1>4, <2>1 DEF StripOf
  <2>3. ASSUME NEW s \in Slot
        PROVE  Says(main', s) = IF s \in {first, second} THEN news[s] ELSE Says(main, s)
    <3>1. s \in Nat
      BY <1>1
    <3>2. /\ Says(main', s) = IF s < Len(main) THEN swapped[s + 1].effect ELSE noModule
          /\ Says(main, s) = IF s < Len(main) THEN main[s + 1].effect ELSE noModule
      BY <1>1, <1>6, <1>7, <3>1, SaysIs
    <3>3. CASE s = first
      <4>1. s < Len(main) /\ s + 1 \in 1 .. Len(main)
        BY <1>1, <1>3, <3>3
      <4>2. swapped[s + 1] = main[second + 1]
        BY <1>7, <3>3, <4>1
      <4> QED BY <2>2, <3>2, <3>3, <4>1, <4>2
    <3>4. CASE s = second
      <4>1. s < Len(main) /\ s + 1 \in 1 .. Len(main) /\ s + 1 # first + 1
        BY <1>1, <1>3, <3>4
      <4>2. swapped[s + 1] = main[first + 1]
        BY <1>7, <3>4, <4>1
      <4> QED BY <2>2, <3>2, <3>4, <4>1, <4>2
    <3>5. CASE s \notin {first, second}
      <4>1. CASE s < Len(main)
        <5>1. s + 1 \in 1 .. Len(main) /\ s + 1 # first + 1 /\ s + 1 # second + 1
          BY <1>1, <1>3, <3>1, <3>5, <4>1
        <5>2. swapped[s + 1] = main[s + 1]
          BY <1>7, <5>1
        <5> QED BY <3>2, <3>5, <4>1, <5>2
      <4>2. CASE ~(s < Len(main))
        BY <3>2, <3>5, <4>2
      <4> QED BY <4>1, <4>2
    <3> QED BY <3>3, <3>4, <3>5
  <2>4. {first, second} \subseteq Slot
    BY <1>1, <1>3
  <2> QED BY <2>1, <2>3, <2>4 DEF Tells
<1>10. Announced
  <2> HIDE DEF news
  <2> QED BY <1>5, <1>9 DEF Announced
<1> QED BY <1>8, <1>10

\* Where a move takes the strip of slot k - 1, and what it leaves alone.
Span(i, j) == IF i < j THEN i .. j ELSE j .. i
Step(i, j) == IF i < j THEN -1 ELSE 1
LEMMA SlotAfter ==
  ASSUME NEW n \in Nat, NEW i \in 0 .. n - 1, NEW j \in 0 .. n - 1, i # j, NEW k \in 1 .. n
  PROVE  /\ Source(j, i, k) \in 1 .. n /\ Source(i, j, Source(j, i, k)) = k
         /\ k - 1 \notin Span(i, j) => Source(j, i, k) = k /\ Source(i, j, k) = k
         /\ k - 1 = i => Source(j, i, k) = j + 1
         /\ k - 1 \in Span(i, j) /\ k - 1 # i => Source(j, i, k) - 1 = (k - 1) + Step(i, j)
<1> USE DEF Span, Step
<1>1. CASE i < j
  <2>1. /\ k = i + 1 => Source(j, i, k) = j + 1
        /\ k > i + 1 /\ k <= j + 1 => Source(j, i, k) = k - 1
        /\ k < i + 1 \/ k > j + 1 => Source(j, i, k) = k
    BY <1>1 DEF Source
  <2>2. /\ k = i + 1 => Source(i, j, j + 1) = k
        /\ k > i + 1 /\ k <= j + 1 => Source(i, j, k - 1) = k
        /\ k < i + 1 \/ k > j + 1 => Source(i, j, k) = k
    BY <1>1 DEF Source
  <2>3. k = i + 1 \/ (k > i + 1 /\ k <= j + 1) \/ k < i + 1 \/ k > j + 1
    OBVIOUS
  <2> QED BY <1>1, <2>1, <2>2, <2>3
<1>2. CASE j < i
  <2>1. /\ k = i + 1 => Source(j, i, k) = j + 1
        /\ k > j /\ k < i + 1 => Source(j, i, k) = k + 1
        /\ k < j + 1 \/ k > i + 1 => Source(j, i, k) = k
    BY <1>2 DEF Source
  <2>2. /\ k = i + 1 => Source(i, j, j + 1) = k
        /\ k > j /\ k < i + 1 => Source(i, j, k + 1) = k
        /\ k < j + 1 \/ k > i + 1 => Source(i, j, k) = k
    BY <1>2 DEF Source
  <2>3. k = i + 1 \/ (k > j /\ k < i + 1) \/ k < j + 1 \/ k > i + 1
    OBVIOUS
  <2> QED BY <1>2, <2>1, <2>2, <2>3
<1> QED BY <1>1, <1>2

\* Strips moved with the chain show it still.
LEMMA MovedShown ==
  ASSUME NEW c, Sound(c), NEW strips \in Strips, Shown(c, strips), Len(c) \in Nat,
         NEW i \in 0 .. Len(c) - 1, NEW j \in 0 .. Len(c) - 1, i # j,
         NEW moved,
         moved = [p \in Places |->
                    IF strips[p] = noStrip \/ strips[p].slot \notin Span(i, j) THEN strips[p]
                    ELSE IF strips[p].slot = i THEN [strips[p] EXCEPT !.slot = j]
                    ELSE [strips[p] EXCEPT !.slot = @ + Step(i, j)]]
  PROVE  Shown(MoveModule(c, i, j), moved)
<1> DEFINE d == MoveModule(c, i, j)
           Goes(k) == Source(j, i, k)
           Comes(k) == Source(i, j, k)
<1>1. /\ c \in Seq(Modules) /\ Len(d) = Len(c)
      /\ \A k \in 1 .. Len(c) : d[k] = c[Source(i, j, k)] /\ c[k].id \in Ids
  <2>1. c \in Seq(Modules)
    BY DEF Sound
  <2>2. \A k \in 1 .. Len(c) : c[k].id \in Ids
    <3>1. \A k \in 1 .. Len(c) : c[k] \in Modules
      BY <2>1, ElementOfSeq
    <3> QED BY <3>1 DEF Modules
  <2>3. Len(d) = Len(c) /\ \A k \in 1 .. Len(c) : d[k] = c[Source(i, j, k)]
    BY <2>1, Moved
  <2> HIDE DEF d
  <2> QED BY <2>1, <2>2, <2>3
<1> HIDE DEF d
<1>2. ASSUME NEW p \in Places, NEW k \in 1 .. Len(c), strips[p] = StripOf(c, k)
      PROVE  Goes(k) \in 1 .. Len(d) /\ moved[p] = StripOf(d, Goes(k))
  <2>1. /\ Goes(k) \in 1 .. Len(c) /\ Comes(Goes(k)) = k
        /\ k - 1 \notin Span(i, j) => Goes(k) = k
        /\ k - 1 = i => Goes(k) = j + 1
        /\ k - 1 \in Span(i, j) /\ k - 1 # i => Goes(k) - 1 = (k - 1) + Step(i, j)
    BY SlotAfter
  <2> DEFINE l == Goes(k)
             x == strips[p]
  <2>2. d[l] = c[k]
    BY <1>1, <2>1
  <2>3. StripOf(d, l) = [id |-> c[k].id, effect |-> c[k].effect, slot |-> l - 1]
    BY <2>2 DEF StripOf
  <2>4. x = [id |-> c[k].id, effect |-> c[k].effect, slot |-> k - 1]
    BY <1>2 DEF StripOf
  <2>5. x # noStrip /\ x.slot = k - 1
    <3>1. x.id \in Ids /\ x.slot = k - 1
      BY <1>1, <2>4
    <3> QED BY <3>1, StripsAre
  <2>6. moved[p] = IF x.slot \notin Span(i, j) THEN x
                   ELSE IF x.slot = i THEN [x EXCEPT !.slot = j]
                   ELSE [x EXCEPT !.slot = @ + Step(i, j)]
    BY <2>5
  <2> HIDE DEF l, x
  <2>7. CASE k - 1 \notin Span(i, j)
    BY <1>1, <2>1, <2>3, <2>4, <2>5, <2>6, <2>7 DEF l
  <2>8. CASE k - 1 \in Span(i, j) /\ k - 1 = i
    <3>1. l - 1 = j /\ moved[p] = [x EXCEPT !.slot = j]
      BY <2>1, <2>5, <2>6, <2>8 DEF l
    <3>2. moved[p] = [id |-> c[k].id, effect |-> c[k].effect, slot |-> j]
      BY <2>4, <3>1
    <3> QED BY <1>1, <2>1, <2>3, <3>1, <3>2 DEF l
  <2>9. CASE k - 1 \in Span(i, j) /\ k - 1 # i
    <3> DEFINE next == (k - 1) + Step(i, j)
    <3>1. l - 1 = next /\ moved[p] = [x EXCEPT !.slot = next]
      BY <2>1, <2>5, <2>6, <2>9 DEF l
    <3> HIDE DEF next
    <3>2. moved[p] = [id |-> c[k].id, effect |-> c[k].effect, slot |-> next]
      BY <2>4, <3>1
    <3> QED BY <1>1, <2>1, <2>3, <3>1, <3>2 DEF l
  <2> QED BY <2>7, <2>8, <2>9
<1>3. \A p \in Places : moved[p] = noStrip \/ \E l \in 1 .. Len(d) : moved[p] = StripOf(d, l)
  <2> TAKE p \in Places
  <2>1. CASE strips[p] = noStrip
    BY <2>1
  <2>2. CASE \E k \in 1 .. Len(c) : strips[p] = StripOf(c, k)
    <3>1. PICK k \in 1 .. Len(c) : strips[p] = StripOf(c, k)
      BY <2>2
    <3>2. Goes(k) \in 1 .. Len(d) /\ moved[p] = StripOf(d, Goes(k))
      BY <1>2, <3>1
    <3> QED BY <3>2
  <2> QED BY <2>1, <2>2 DEF Shown
<1>4. ASSUME NEW l \in 1 .. Len(d) PROVE \E p \in Places : moved[p] = StripOf(d, l)
  <2>1. l \in 1 .. Len(c)
    BY <1>1
  <2>2. Comes(l) \in 1 .. Len(c) /\ Goes(Comes(l)) = l
    BY <2>1, SlotAfter
  <2> DEFINE k == Comes(l)
  <2> HIDE DEF k
  <2>3. k \in 1 .. Len(c) /\ Goes(k) = l
    BY <2>2 DEF k
  <2>4. PICK p \in Places : strips[p] = StripOf(c, k)
    BY <2>3 DEF Shown
  <2>5. moved[p] = StripOf(d, Goes(k))
    BY <1>2, <2>3, <2>4
  <2> QED BY <2>3, <2>5
<1>5. Shown(d, moved)
  BY <1>3, <1>4 DEF Shown
<1> QED BY <1>5 DEF d

LEMMA MoveTakes ==
  ASSUME RackInv, Clicked, ~hurried', NEW from \in 0 .. counter - 1, NEW to \in 0 .. counter - 1,
         from # to, MoveModuleSlot(from, to), UNCHANGED counter
  PROVE  Announced
<1> DEFINE between == Min({from, to}) .. Max({from, to})
           step == IF from < to THEN -1 ELSE 1
           moved == [p \in Places |->
                       IF regions[p] = noStrip \/ regions[p].slot \notin between THEN regions[p]
                       ELSE IF regions[p].slot = from THEN [regions[p] EXCEPT !.slot = to]
                       ELSE [regions[p] EXCEPT !.slot = @ + step]]
           In(slot) == {p \in Places : moved[p] # noStrip /\ moved[p].slot = slot}
           news == [slot \in between |->
                      IF In(slot) = {} THEN noModule ELSE moved[Min(In(slot))].effect]
           commands == <<Move(from, to)>>
           d == MoveModule(main, from, to)
<1>1. /\ Shown(main, regions) /\ counter = Len(main) /\ Sound(main) /\ regions \in Strips
      /\ main \in Seq(Modules) /\ Len(main) \in Nat /\ Len(main) <= MaxModules
      /\ Slot = 0 .. MaxModules - 1 /\ MaxModules \in Nat
  BY Unhurried
<1>2. regions' = moved /\ EditChain(commands) /\ ModulesChangedByUser(news)
  BY DEF MoveModuleSlot
<1>3. from \in 0 .. Len(main) - 1 /\ to \in 0 .. Len(main) - 1 /\ from \in Nat /\ to \in Nat
  BY <1>1
<1>4. between = Span(from, to) /\ step = Step(from, to)
  <2>1. between = IF from < to THEN from .. to ELSE to .. from
    BY <1>3, Pair
  <2> QED BY <2>1 DEF Span, Step
<1> HIDE DEF between, step
<1>5. main' = d
  <2>1. Carried(main, commands).chain = d
    BY <1>1, <1>3, CarryMove
  <2> QED BY <1>2, <2>1 DEF EditChain
<1>6. moved \in Strips
  <2> HIDE DEF moved, news, commands
  <2>1. SameStrips
    BY MoveEdits DEF Edits
  <2> QED BY <1>2, <2>1 DEF SameStrips
<1>7. Shown(d, moved)
  <2>1. moved = [p \in Places |->
                   IF regions[p] = noStrip \/ regions[p].slot \notin Span(from, to) THEN regions[p]
                   ELSE IF regions[p].slot = from THEN [regions[p] EXCEPT !.slot = to]
                   ELSE [regions[p] EXCEPT !.slot = @ + Step(from, to)]]
    BY <1>4
  <2> HIDE DEF moved
  <2> QED BY <1>1, <1>3, <2>1, MovedShown
<1>8. Sound(d) /\ Len(d) = Len(main)
  <2>1. Sound(d)
    BY <1>1, <1>3, MoveSound
  <2>2. Len(d) = Len(main)
    BY <1>1, <1>3, Moved
  <2> QED BY <2>1, <2>2
<1> HIDE DEF moved, d
<1>9. ASSUME NEW s \in between PROVE news[s] = Says(d, s) /\ s \in Slot
  <2>1. s \in Nat /\ s \in Slot
    BY <1>1, <1>3, <1>4, <1>9 DEF Span
  <2> DEFINE P == In(s)
  <2>2. P = {p \in Places : moved[p].slot = s /\ moved[p] # noStrip}
    OBVIOUS
  <2>3. news[s] = IF P = {} THEN noModule ELSE moved[Min(P)].effect
    BY <1>9
  <2> HIDE DEF P
  <2>4. (IF P = {} THEN noModule ELSE moved[Min(P)].effect) = Says(d, s)
    BY <1>6, <1>7, <1>8, <2>1, <2>2, StripSays
  <2> QED BY <2>1, <2>3, <2>4
<1>10. DOMAIN news = between
  OBVIOUS
<1> HIDE DEF news
<1>11. ASSUME NEW s \in Slot, s \notin between PROVE Says(d, s) = Says(main, s)
  <2>1. s \in Nat
    BY <1>1
  <2>2. /\ Says(d, s) = IF s < Len(main) THEN main[Source(from, to, s + 1)].effect ELSE noModule
        /\ Says(main, s) = IF s < Len(main) THEN main[s + 1].effect ELSE noModule
    BY <1>1, <1>3, <2>1, MoveSays, SaysIs DEF d
  <2>3. CASE s < Len(main)
    <3> DEFINE k == s + 1
    <3>1. k \in 1 .. Len(main) /\ k - 1 \notin Span(from, to)
      BY <1>1, <1>4, <1>11, <2>1, <2>3
    <3> HIDE DEF k
    <3>2. Source(from, to, k) = k
      BY <1>1, <1>3, <3>1, SlotAfter
    <3> QED BY <2>2, <3>2 DEF k
  <2>4. CASE ~(s < Len(main))
    BY <2>2, <2>4
  <2> QED BY <2>3, <2>4
<1>12. Tells(news)
  BY <1>5, <1>9, <1>10, <1>11 DEF Tells
<1> QED BY <1>2, <1>12 DEF Announced

LEMMA DropTakes ==
  ASSUME RackInv, ~hurried', NEW p \in Places, NEW drop, ApplyModuleDrop(p, drop)
  PROVE  /\ Announced
         /\ \A q \in Places : regions[q] # noStrip /\ drop = SwapAt(regions[q].slot) =>
              main' = [k \in DOMAIN main |->
                         CASE main[k].id = regions[p].id -> main[regions[q].slot + 1]
                           [] main[k].id = regions[q].id -> main[regions[p].slot + 1]
                           [] OTHER -> main[k]]
<1> DEFINE source == regions[p].slot
           to == IF drop.slot > source THEN drop.slot - 1 ELSE drop.slot
<1>1. /\ Clicked /\ regions[p] # noStrip /\ drop \in Drops(source) /\ UNCHANGED counter
      /\ IF drop.action = "swap" THEN SwapModuleSlots(source, drop.slot)
                                 ELSE MoveModuleSlot(source, to)
  BY DEF ApplyModuleDrop
<1>2. /\ Shown(main, regions) /\ counter = Len(main) /\ Sound(main) /\ Len(main) \in Nat
      /\ DOMAIN main = 1 .. Len(main)
  BY <1>1, Unhurried
<1>3. /\ source \in 0 .. counter - 1 /\ source \in Nat /\ source + 1 \in 1 .. Len(main)
      /\ main[source + 1].id = regions[p].id
  BY <1>1, <1>2, StripIs
<1>4. /\ counter \in Nat
      /\ \/ drop.action = "swap" /\ drop.slot \in 0 .. counter - 1 /\ drop.slot # source
         \/ /\ drop.action # "swap" /\ drop.slot \in 0 .. counter
            /\ drop.slot # source /\ drop.slot # source + 1
  BY <1>1, <1>2, <1>3, DropsAre
<1> HIDE DEF source
<1>5. CASE drop.action # "swap"
  <2>1. to \in 0 .. counter - 1 /\ to # source
    BY <1>3, <1>4, <1>5
  <2>2. MoveModuleSlot(source, to)
    BY <1>1, <1>5
  <2> HIDE DEF to
  <2>3. Announced
    BY <1>1, <1>3, <2>1, <2>2, MoveTakes
  <2>4. \A q \in Places : drop # SwapAt(regions[q].slot)
    BY <1>5 DEF SwapAt
  <2> QED BY <2>3, <2>4
<1>6. CASE drop.action = "swap"
  <2> DEFINE b == drop.slot
  <2>1. b \in 0 .. counter - 1 /\ b # source /\ SwapModuleSlots(source, b)
    BY <1>1, <1>4, <1>6
  <2> HIDE DEF b
  <2>2. /\ main' = [k \in DOMAIN main |-> IF k = source + 1 THEN main[b + 1]
                                          ELSE IF k = b + 1 THEN main[source + 1] ELSE main[k]]
        /\ Announced
    BY <1>1, <1>3, <2>1, SwapTakes
  <2>3. ASSUME NEW q \in Places, regions[q] # noStrip, drop = SwapAt(regions[q].slot)
        PROVE  main' = [k \in DOMAIN main |->
                          CASE main[k].id = regions[p].id -> main[regions[q].slot + 1]
                            [] main[k].id = regions[q].id -> main[regions[p].slot + 1]
                            [] OTHER -> main[k]]
    <3>1. /\ regions[q].slot = b /\ b \in Nat /\ b + 1 \in 1 .. Len(main)
          /\ main[b + 1].id = regions[q].id
      <4>1. regions[q].slot = b
        BY <2>3 DEF b, SwapAt
      <4> QED BY <1>2, <2>3, <4>1, StripIs
    <3>2. ASSUME NEW k \in DOMAIN main
          PROVE  /\ main[k].id = regions[p].id <=> k = source + 1
                 /\ main[k].id = regions[q].id <=> k = b + 1
      BY <1>2, <1>3, <3>1 DEF Sound, OwnIds
    <3>3. ASSUME NEW k \in DOMAIN main
          PROVE  (IF k = source + 1 THEN main[b + 1]
                  ELSE IF k = b + 1 THEN main[source + 1] ELSE main[k])
                 = (CASE main[k].id = regions[p].id -> main[b + 1]
                      [] main[k].id = regions[q].id -> main[source + 1]
                      [] OTHER -> main[k])
      <4>1. source + 1 # b + 1
        BY <1>2, <1>3, <2>1, <3>1
      <4> DEFINE mine == main[k].id = regions[p].id
                 other == main[k].id = regions[q].id
      <4>2. (mine <=> k = source + 1) /\ (other <=> k = b + 1)
        BY <3>2
      <4> HIDE DEF mine, other
      <4>3. (IF k = source + 1 THEN main[b + 1]
             ELSE IF k = b + 1 THEN main[source + 1] ELSE main[k])
            = (CASE mine -> main[b + 1] [] other -> main[source + 1] [] OTHER -> main[k])
        BY <4>1, <4>2
      <4> QED BY <4>3 DEF mine, other
    <3> QED BY <2>2, <3>1, <3>3 DEF source
  <2> QED BY <2>2, <2>3
<1> QED BY <1>5, <1>6

LEMMA ChoiceTakes ==
  ASSUME RackInv, ~hurried', NEW effect \in Effect, ApplyEffectMenuChoice(effect)
  PROVE  /\ Announced
         /\ menu.action = "replace" =>
              \E k \in DOMAIN main : /\ main[k].id = menu.id /\ main'[k].effect = effect
                                     /\ main' = [main EXCEPT ![k] = main'[k]]
         /\ menu.action = "insert" =>
              Effects(main') = InsertAt(Effects(main), menu.slot + 1, effect)
         /\ menu.action = "append" => Effects(main') = Append(Effects(main), effect)
         /\ menu.action \in {"replace", "insert", "append"}
<1>1. Clicked /\ menu # noTarget
  BY DEF ApplyEffectMenuChoice
<1>2. CASE menu.action = "replace"
  <2>1. ReplaceModuleInSlot(menu.slot, effect)
    BY <1>2 DEF ApplyEffectMenuChoice
  <2> QED BY <1>1, <1>2, <2>1, ReplaceTakes
<1>3. CASE menu.action = "insert"
  <2>1. InsertModuleAtGap(menu.slot, effect)
    BY <1>3 DEF ApplyEffectMenuChoice
  <2> QED BY <1>1, <1>3, <2>1, InsertTakes
<1>4. CASE menu.action = "append"
  <2>1. AddUserAddedModule(effect)
    BY <1>4 DEF ApplyEffectMenuChoice
  <2> QED BY <1>1, <1>4, <2>1, AppendTakes
<1> QED BY <1>1, <1>2, <1>3, <1>4, TargetsAre

(* On a rack that is drawn an edit is one change of the chain, of what was *)
(* pointed at, for chains of any length: the strip clicked goes, the one a *)
(* menu was opened over is replaced though the menu stayed open while the  *)
(* host wrote, an effect goes in at its gap, and two strips trade places   *)
(* by one move or by two that meet in no place but theirs.                 *)
THEOREM EditsTake == Spec => EditsTakeWhatWasPointedAt
<1> DEFINE Pointed ==
      ~hurried' =>
      /\ \A p \in Places : RemoveModule(p) =>
           \E k \in DOMAIN main : main[k].id = regions[p].id /\ main' = RemoveAt(main, k)
      /\ \A effect \in Effect : ApplyEffectMenuChoice(effect) =>
           CASE menu.action = "replace" ->
                  \E k \in DOMAIN main :
                    /\ main[k].id = menu.id /\ main'[k].effect = effect
                    /\ main' = [main EXCEPT ![k] = main'[k]]
             [] menu.action = "insert" ->
                  Effects(main') = InsertAt(Effects(main), menu.slot + 1, effect)
             [] menu.action = "append" -> Effects(main') = Append(Effects(main), effect)
      /\ \A p, q \in Places :
           regions[q] # noStrip /\ ApplyModuleDrop(p, SwapAt(regions[q].slot)) =>
             main' = [k \in DOMAIN main |->
                        CASE main[k].id = regions[p].id -> main[regions[q].slot + 1]
                          [] main[k].id = regions[q].id -> main[regions[p].slot + 1]
                          [] OTHER -> main[k]]
<1>1. Init => IInv /\ RackInv
  BY InitIInv, InitRackInv
<1>2. (IInv /\ RackInv) /\ [Next]_vars => (IInv /\ RackInv)'
  BY IInvInductive, RackInvInductive
<1>3. RackInv => Pointed
  <2> SUFFICES ASSUME RackInv, ~hurried' PROVE Pointed
    OBVIOUS
  <2>1. ASSUME NEW p \in Places, RemoveModule(p)
        PROVE  \E k \in DOMAIN main : main[k].id = regions[p].id /\ main' = RemoveAt(main, k)
    BY <2>1, RemoveTakes
  <2>2. ASSUME NEW effect \in Effect, ApplyEffectMenuChoice(effect)
        PROVE  CASE menu.action = "replace" ->
                      \E k \in DOMAIN main :
                        /\ main[k].id = menu.id /\ main'[k].effect = effect
                        /\ main' = [main EXCEPT ![k] = main'[k]]
                 [] menu.action = "insert" ->
                      Effects(main') = InsertAt(Effects(main), menu.slot + 1, effect)
                 [] menu.action = "append" -> Effects(main') = Append(Effects(main), effect)
    <3> DEFINE Replaced == \E k \in DOMAIN main :
                             /\ main[k].id = menu.id /\ main'[k].effect = effect
                             /\ main' = [main EXCEPT ![k] = main'[k]]
               Put == Effects(main') = InsertAt(Effects(main), menu.slot + 1, effect)
               Ended == Effects(main') = Append(Effects(main), effect)
    <3>1. /\ menu.action = "replace" => Replaced
          /\ menu.action = "insert" => Put
          /\ menu.action = "append" => Ended
          /\ menu.action \in {"replace", "insert", "append"}
      BY <2>2, ChoiceTakes
    <3> HIDE DEF Replaced, Put, Ended
    <3>2. "replace" # "insert" /\ "replace" # "append" /\ "insert" # "append"
      OBVIOUS
    <3>3. (CASE menu.action = "replace" -> Replaced
             [] menu.action = "insert" -> Put
             [] menu.action = "append" -> Ended)
      BY <3>1, <3>2
    <3> QED BY <3>3 DEF Replaced, Put, Ended
  <2>3. ASSUME NEW p \in Places, NEW q \in Places, regions[q] # noStrip,
               ApplyModuleDrop(p, SwapAt(regions[q].slot))
        PROVE  main' = [k \in DOMAIN main |->
                          CASE main[k].id = regions[p].id -> main[regions[q].slot + 1]
                            [] main[k].id = regions[q].id -> main[regions[p].slot + 1]
                            [] OTHER -> main[k]]
    BY <2>3, DropTakes
  <2> QED BY <2>1, <2>2, <2>3
<1>4. RackInv /\ [Next]_vars => [Pointed]_vars
  BY <1>3
<1>5. IInv /\ RackInv /\ [Next]_vars => [Pointed]_vars
  BY <1>4
<1>6. Spec => [][Pointed]_vars
  <2> HIDE DEF Pointed
  <2> QED BY <1>1, <1>2, <1>5, PTL DEF Spec
<1> QED BY <1>6, PTL DEF EditsTakeWhatWasPointedAt

-----------------------------------------------------------------------------
(* What the host will have been told.  Until an edit is made in a hurry, a *)
(* selector queued is the chain's own unless an undo or a load came after  *)
(* it, none waits behind an echo, and a selector that is not queued is     *)
(* known already unless something on its way still ends in a rescan.       *)
TellInv ==
  /\ hurried \in BOOLEAN
  /\ ~hurried =>
       /\ told = [slot \in Slot |-> told[slot]]
       /\ DOMAIN uiEdits \subseteq Slot
       /\ DOMAIN uiEdits # {} => toUI = <<>>
       /\ \A slot \in DOMAIN uiEdits \ stale : uiEdits[slot] = Says(main, slot)
       /\ \/ rescan \/ slotMoved \/ toUI # <<>> \/ toEngine # <<>>
          \/ \A slot \in Slot \ (DOMAIN uiEdits \cup stale) : told[slot] = Says(main, slot)

LEMMA InitTellInv == Init => TellInv
<1> SUFFICES ASSUME Init PROVE TellInv
  OBVIOUS
<1>1. /\ engine \in Starts /\ toEngine = <<>> /\ toUI = <<>> /\ uiEdits = <<>> /\ hurried = FALSE
      /\ stale = {}
      /\ main = [k \in DOMAIN engine |-> [id |-> k, effect |-> engine[k]]]
      /\ told = [slot \in Slot |-> EffectAt(engine, slot)]
  BY DEF Init
<1>2. PICK n \in 0 .. MaxModules : engine \in [1 .. n -> Effect]
  BY <1>1, ChainsAssumption DEF Chain
<1>3. Effects(main) = engine
  <2>1. Effects(main) = [k \in 1 .. n |-> engine[k]]
    BY <1>1, <1>2 DEF Effects
  <2> QED BY <1>2, <2>1
<1>4. DOMAIN uiEdits = {}
  BY <1>1
<1>5. told = [slot \in Slot |-> told[slot]]
  BY <1>1
<1>6. \A slot \in Slot : told[slot] = Says(main, slot)
  BY <1>1, <1>3 DEF Says
<1> QED BY <1>1, <1>4, <1>5, <1>6 DEF TellInv

\* Steps that change neither the chain nor what is queued or known.
LEMMA TellUnchanged ==
  ASSUME TellInv, UNCHANGED <<main, hurried, stale, told, uiEdits, toUI>>,
         rescan \/ slotMoved \/ toUI # <<>> \/ toEngine # <<>> =>
           rescan' \/ slotMoved' \/ toUI' # <<>> \/ toEngine' # <<>>
  PROVE  TellInv'
<1>1. \A slot : Says(main', slot) = Says(main, slot)
  OBVIOUS
<1> QED BY <1>1 DEF TellInv

LEMMA EditsTell ==
  ASSUME RackInv, Linked, TellInv, Clicked, UNCHANGED <<running, told, toUI, slotMoved, rescan>>,
         Leaves \/ \E commands : Edits(commands), ~hurried' => Announced
  PROVE  TellInv'
<1>1. toUI = <<>> /\ hurried' = (hurried \/ posted)
  BY DEF Clicked
<1>2. hurried' \in BOOLEAN
  BY <1>1 DEF TellInv
<1> SUFFICES ASSUME ~hurried' PROVE TellInv'
  BY <1>2 DEF TellInv
<1>3. /\ ~hurried /\ told = [slot \in Slot |-> told[slot]]
      /\ DOMAIN uiEdits \subseteq Slot
      /\ \A slot \in DOMAIN uiEdits \ stale : uiEdits[slot] = Says(main, slot)
      /\ \/ rescan \/ slotMoved \/ toEngine # <<>>
         \/ \A slot \in Slot \ (DOMAIN uiEdits \cup stale) : told[slot] = Says(main, slot)
  BY <1>1 DEF TellInv
<1>6. toEngine # <<>> => toEngine' # <<>>
  <2>1. CASE Leaves
    BY <2>1 DEF Leaves
  <2>2. ASSUME toEngine # <<>>, NEW commands, Edits(commands) PROVE toEngine' # <<>>
    <3>1. commands \in Seq(Command)
      <4>1. Len(main) \in 0 .. MaxModules
        BY Limits, LenProperties DEF RackInv, Sound
      <4> QED BY <2>2, <4>1, DoableCommands DEF Edits
    <3>2. toEngine' = toEngine \o commands
      BY <2>2 DEF Edits, EditChain, Publish, Linked
    <3>3. toEngine \in Seq(Command) /\ Len(toEngine) \in Nat /\ Len(toEngine) # 0
      BY <2>2, LenProperties, EmptySeq DEF Linked
    <3>4. Len(toEngine') = Len(toEngine) + Len(commands) /\ Len(commands) \in Nat
      BY <3>1, <3>2, <3>3, ConcatProperties, LenProperties
    <3> QED BY <3>3, <3>4
  <2> QED BY <2>1, <2>2
<1>4. CASE NoneChangedByUser /\ UNCHANGED main
  <2>1. UNCHANGED <<hurried, stale, uiEdits>>
    BY <1>2, <1>3, <1>4 DEF TellInv, NoneChangedByUser
  <2> QED BY <1>4, <1>6, <2>1, TellUnchanged
<1>5. CASE \E news : ModulesChangedByUser(news) /\ Tells(news)
  <2>1. PICK news : ModulesChangedByUser(news) /\ Tells(news)
    BY <1>5
  <2>2. /\ DOMAIN uiEdits' = DOMAIN news \cup DOMAIN uiEdits
        /\ \A s \in DOMAIN uiEdits' :
             uiEdits'[s] = IF s \in DOMAIN news THEN news[s] ELSE uiEdits[s]
        /\ stale' = stale \ DOMAIN news
    <3>1. uiEdits' = Over(news, uiEdits)
      BY <2>1 DEF ModulesChangedByUser
    <3> QED BY <2>1, <3>1 DEF Over, ModulesChangedByUser
  <2>3. /\ DOMAIN news \subseteq Slot
        /\ \A s \in Slot : Says(main', s) = IF s \in DOMAIN news THEN news[s] ELSE Says(main, s)
    BY <2>1 DEF Tells
  <2>4. DOMAIN uiEdits' \subseteq Slot
    BY <1>3, <2>2, <2>3
  <2>5. \A s \in DOMAIN uiEdits' \ stale' : uiEdits'[s] = Says(main', s)
    BY <1>3, <2>2, <2>3
  <2>7. \/ rescan' \/ slotMoved' \/ toEngine' # <<>>
        \/ \A s \in Slot \ (DOMAIN uiEdits' \cup stale') : told'[s] = Says(main', s)
    <3>1. CASE rescan \/ slotMoved \/ toEngine # <<>>
      BY <1>6, <3>1
    <3>2. CASE \A s \in Slot \ (DOMAIN uiEdits \cup stale) : told[s] = Says(main, s)
      BY <2>2, <2>3, <3>2
    <3> QED BY <1>3, <3>1, <3>2
  <2>8. toUI' = <<>> /\ told' = [slot \in Slot |-> told'[slot]]
    BY <1>1, <1>3
  <2> QED BY <1>1, <1>2, <2>4, <2>5, <2>7, <2>8 DEF TellInv
<1> QED BY <1>4, <1>5 DEF Announced

LEMMA UserTells ==
  ASSUME RackInv, Linked, TellInv, User PROVE TellInv'
<1>1. CASE \E target \in Targets : ShowEffectMenu(target)
  <2>1. UNCHANGED <<main, hurried, stale, told, uiEdits, toUI, toEngine, rescan, slotMoved>>
    BY <1>1 DEF ShowEffectMenu, marks, rings, flags, drain
  <2> QED BY <2>1, TellUnchanged
<1>2. CASE \E effects \in Presets : LoadPreset(effects)
  <2>1. PICK effects \in Presets : LoadPreset(effects)
    BY <1>2
  <2>2. /\ toUI = <<>> /\ UNCHANGED <<told, uiEdits, toUI>> /\ hurried' = (hurried \/ posted)
        /\ stale' = stale \cup DOMAIN uiEdits /\ Publish(<<SwapChain(effects)>>)
        /\ IF running THEN UNCHANGED <<rescan, asked>> ELSE RequestRescan
    BY <2>1 DEF LoadPreset, Clicked, Overtakes, Untouched
  <2>3. rescan' \/ toEngine' # <<>>
    <3>1. CASE running
      <4> DEFINE c == SwapChain(effects)
                 x == <<c>>
      <4>1. toEngine' = toEngine \o x
        BY <2>2, <3>1 DEF Publish
      <4>2. c \in Command
        BY <2>1, ChainsAssumption, CommandsAre DEF SwapChain
      <4> HIDE DEF c
      <4>3. x \in Seq(Command) /\ Len(x) = 1
        BY <4>2
      <4>4. toEngine \in Seq(Command)
        BY DEF Linked
      <4> HIDE DEF x
      <4>5. Len(toEngine') = Len(toEngine) + Len(x) /\ Len(toEngine) \in Nat
        BY <4>1, <4>3, <4>4, LenProperties, ConcatProperties
      <4>6. Len(toEngine') # 0
        BY <4>3, <4>5
      <4> QED BY <4>6
    <3>2. CASE ~running
      BY <2>2, <3>2 DEF RequestRescan
    <3> QED BY <3>1, <3>2
  <2>4. hurried' \in BOOLEAN /\ (~hurried' => ~hurried)
    BY <2>2 DEF TellInv
  <2> QED BY <2>2, <2>3, <2>4 DEF TellInv
<1>3. CASE Undo
  <2>1. /\ toUI = <<>> /\ UNCHANGED <<told, uiEdits, toUI>> /\ hurried' = (hurried \/ posted)
        /\ stale' = stale \cup DOMAIN uiEdits /\ rescan' = TRUE
    BY <1>3 DEF Undo, Clicked, Overtakes, Untouched, ChainChanged, RequestRescan
  <2>2. hurried' \in BOOLEAN /\ (~hurried' => ~hurried)
    BY <2>1 DEF TellInv
  <2> QED BY <2>1, <2>2 DEF TellInv
<1>4. CASE \/ \E p \in Places : RemoveModule(p)
           \/ \E p \in Places, drop \in
                {SwapAt(s) : s \in Slot} \cup {InsertAtGap(g) : g \in 0 .. MaxModules} :
                  ApplyModuleDrop(p, drop)
           \/ \E effect \in Effect : ApplyEffectMenuChoice(effect)
  <2>1. Clicked /\ UNCHANGED <<running, told, toUI, slotMoved, rescan>>
    BY <1>4 DEF RemoveModule, ApplyModuleDrop, ApplyEffectMenuChoice, Untouched, drain, flags
  <2>2. ~hurried' => Announced
    BY <1>4, RemoveTakes, DropTakes, ChoiceTakes
  <2>3. Leaves \/ \E commands : Edits(commands)
    BY <1>4, RemoveEdits, DropEdits, ChoiceEdits DEF Undisturbed
  <2> QED BY <2>1, <2>2, <2>3, EditsTell
<1> QED BY <1>1, <1>2, <1>3, <1>4 DEF User

LEMMA TellInductive == RackInv /\ Linked /\ TellInv /\ [Next]_vars => TellInv'
<1> SUFFICES ASSUME RackInv, Linked, TellInv, [Next]_vars PROVE TellInv'
  OBVIOUS
<1>1. CASE User
  BY <1>1, UserTells
<1>2. CASE Host
  <2>1. PICK slot \in Slot, effect \in Choice : HandleEvent(slot, effect)
    BY <1>2 DEF Host, Choice
  <2> DEFINE x == SetSlot(slot, effect)
  <2>2. /\ DOMAIN uiEdits = {} /\ UNCHANGED <<main, hurried, stale, uiEdits>>
        /\ told' = [told EXCEPT ![slot] = effect] /\ toUI' = Append(toUI, x)
    BY <2>1 DEF HandleEvent, marks
  <2>3. x \in SlotCommand
    BY DEF SetSlot, SlotCommand
  <2> HIDE DEF x
  <2>4. toUI' # <<>>
    <3>1. toUI \in Seq(SlotCommand)
      BY DEF RackInv
    <3>2. Len(Append(toUI, x)) = Len(toUI) + 1 /\ Len(toUI) \in Nat
      BY <2>3, <3>1, Appended, LenProperties
    <3> QED BY <2>2, <3>2
  <2>5. told = [s \in Slot |-> told[s]] => told' = [s \in Slot |-> told'[s]]
    BY <2>2
  <2> QED BY <2>2, <2>4, <2>5 DEF TellInv
<1>3. CASE RefreshMessage \/ OnMainThread \/ ClearBecomesVisible \/ StateSave \/ DrainEchoesDone
  <2>1. UNCHANGED <<main, hurried, stale, told, uiEdits, toUI, toEngine, rescan, slotMoved>>
    BY <1>3 DEF RefreshMessage, OnMainThread, ClearBecomesVisible, StateSave, DrainEchoesDone, marks, rings, flags,
                drain
  <2> QED BY <2>1, TellUnchanged
<1>4. CASE DrainEcho
  <2>1. /\ toUI # <<>> /\ UNCHANGED <<hurried, stale, told, uiEdits>>
    BY <1>4 DEF DrainEcho, marks
  <2>2. slotMoved'
    BY <1>4, EchoKeepsLinked
  <2> QED BY <2>1, <2>2 DEF TellInv
<1>5. CASE DrainDone
  <2>1. /\ UNCHANGED <<main, hurried, stale, told, uiEdits, toUI, toEngine>>
        /\ IF slotMoved THEN RequestRescan ELSE UNCHANGED <<rescan, asked>>
    BY <1>5 DEF DrainDone, marks, rings
  <2>2. rescan \/ slotMoved => rescan'
    BY <2>1 DEF RequestRescan
  <2> QED BY <2>1, <2>2, TellUnchanged
<1>6. CASE ParamsRescan
  <2>1. /\ IF rescan THEN told' = SelectorsOf(main) /\ stale' = stale \cap DOMAIN uiEdits
                     ELSE UNCHANGED <<told, stale>>
        /\ rescan' = FALSE
        /\ UNCHANGED <<main, hurried, uiEdits, toUI, toEngine, slotMoved>>
    BY <1>6 DEF ParamsRescan, rings
  <2>2. \A s \in Slot : SelectorsOf(main)[s] = Says(main, s)
    BY DEF SelectorsOf, Says
  <2>3. SelectorsOf(main) = [s \in Slot |-> SelectorsOf(main)[s]]
    BY DEF SelectorsOf
  <2>4. CASE rescan
    BY <2>1, <2>2, <2>3, <2>4 DEF TellInv
  <2>5. CASE ~rescan
    BY <2>1, <2>5, TellUnchanged
  <2> QED BY <2>4, <2>5
<1>7. CASE EnterEngine
  <2>1. /\ UNCHANGED <<main, hurried, stale, told, uiEdits, toUI, slotMoved>>
        /\ IF toEngine # <<>> THEN ChainChanged ELSE UNCHANGED <<chainChanged, rescan, asked>>
    BY <1>7 DEF EnterEngine, marks, drain
  <2>2. rescan \/ toEngine # <<>> => rescan'
    BY <2>1 DEF ChainChanged, RequestRescan
  <2> QED BY <2>1, <2>2, TellUnchanged
<1>8. CASE EventsDone
  <2>1. /\ UNCHANGED <<main, hurried, stale, told, uiEdits, toUI, toEngine, slotMoved>>
        /\ IF effectChanged THEN ChainChanged ELSE UNCHANGED <<chainChanged, rescan, asked>>
    BY <1>8 DEF EventsDone, marks, rings
  <2>2. rescan => rescan'
    BY <2>1 DEF ChainChanged, RequestRescan
  <2> QED BY <2>1, <2>2, TellUnchanged
<1>9. CASE FlushUIEdits
  <2>1. /\ told' = Over(uiEdits, told) /\ uiEdits' = <<>>
        /\ UNCHANGED <<main, hurried, stale, toUI, toEngine, slotMoved, rescan>>
    BY <1>9 DEF FlushUIEdits, marks, flags, drain
  <2>2. DOMAIN uiEdits' = {}
    BY <2>1
  <2> SUFFICES ASSUME ~hurried PROVE TellInv'
    BY <2>1 DEF TellInv
  <2>3. /\ told = [s \in Slot |-> told[s]] /\ DOMAIN uiEdits \subseteq Slot
        /\ \A s \in DOMAIN uiEdits \ stale : uiEdits[s] = Says(main, s)
        /\ \/ rescan \/ slotMoved \/ toUI # <<>> \/ toEngine # <<>>
           \/ \A s \in Slot \ (DOMAIN uiEdits \cup stale) : told[s] = Says(main, s)
    BY DEF TellInv
  <2>4. DOMAIN uiEdits \cup DOMAIN told = Slot
    BY <2>3
  <2>5. told' = [s \in Slot |-> IF s \in DOMAIN uiEdits THEN uiEdits[s] ELSE told[s]]
    BY <2>1, <2>4 DEF Over
  <2>6. told' = [s \in Slot |-> told'[s]]
    BY <2>5
  <2>7. \/ rescan \/ slotMoved \/ toUI # <<>> \/ toEngine # <<>>
        \/ \A s \in Slot \ stale : told'[s] = Says(main, s)
    BY <2>3, <2>5
  <2> QED BY <2>1, <2>2, <2>6, <2>7 DEF TellInv
<1>10. CASE UNCHANGED vars
  <2>1. UNCHANGED <<main, hurried, stale, told, uiEdits, toUI, toEngine, rescan, slotMoved>>
    BY <1>10 DEF vars, marks, rings, flags, drain
  <2> QED BY <2>1, TellUnchanged
<1> QED BY <1>1, <1>2, <1>3, <1>4, <1>5, <1>6, <1>7, <1>8, <1>9, <1>10 DEF Next

(* When everything on its way has arrived the engine's chain is the one    *)
(* shown and saved, and the host knows its selector in every slot but      *)
(* those an undo or a load left queued behind it, for chains, presets and  *)
(* runs of edits of any length, if no edit was made in a hurry: the        *)
(* engine's copy follows by edits and the main thread's by echoes, never   *)
(* both at once, and whatever is not queued for the host ends in a rescan. *)
THEOREM HostKnows == Spec => []HostKnowsSlots
<1> DEFINE All == IInv /\ RackInv /\ Linked /\ TellInv
<1>1. Init => All
  BY InitIInv, InitRackInv, InitLinked, InitTellInv
<1>2. All /\ [Next]_vars => All'
  BY IInvInductive, RackInvInductive, LinkedInductive, TellInductive
<1>3. All => HostKnowsSlots
  <2> SUFFICES ASSUME All, AtRest, ~hurried
               PROVE  /\ engine = Effects(main)
                      /\ \A slot \in Slot \ stale : told[slot] = SelectorsOf(main)[slot]
    BY DEF HostKnowsSlots
  <2>1. ~rescan /\ toUI = <<>> /\ ~slotMoved /\ toEngine = <<>> /\ DOMAIN uiEdits = {}
    <3>1. /\ CallbackOwed /\ thread = "idle" /\ ~asked /\ toUI = <<>> /\ toEngine = <<>>
          /\ DOMAIN uiEdits = {}
      BY IInvCovers DEF AtRest
    <3> QED BY <3>1 DEF CallbackOwed, RackInv, Draining
  <2>2. \A s \in Slot \ stale : told[s] = Says(main, s)
    BY <2>1 DEF TellInv
  <2>3. \A s \in Slot : SelectorsOf(main)[s] = Says(main, s)
    BY DEF SelectorsOf, Says
  <2>4. engine = Effects(main)
    BY <2>1, AppliedNothing DEF Linked
  <2> QED BY <2>2, <2>3, <2>4
<1> HIDE DEF All
<1> QED BY <1>1, <1>2, <1>3, PTL DEF Spec

=============================================================================
