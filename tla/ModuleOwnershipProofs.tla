----------------------- MODULE ModuleOwnershipProofs ------------------------
(***************************************************************************)
(* ModuleOwnership, for every number of objects, every length of a chain   *)
(* and of the two rings: each count is the number of those who hold the    *)
(* object, nothing dangles, the audio thread destroys nothing, and nothing *)
(* but what a full ring refused is left when the plug-in is gone.          *)
(***************************************************************************)
EXTENDS ModuleOwnership, FiniteSetTheorems, SequenceTheorems, WellFoundedInduction, TLAPS

-----------------------------------------------------------------------------
(* Counting the places of a sequence that hold an object.                  *)

Times(s, x) == Cardinality({i \in DOMAIN s : s[i] = x})

LEMMA TimesAre ==
  ASSUME NEW S, NEW s \in Seq(S), NEW x
  PROVE  /\ IsFiniteSet({i \in DOMAIN s : s[i] = x})
         /\ Times(s, x) \in Nat
         /\ Times(s, x) = 0 <=> \A i \in 1 .. Len(s) : s[i] # x
<1> DEFINE at == {i \in DOMAIN s : s[i] = x}
<1>1. DOMAIN s = 1 .. Len(s) /\ Len(s) \in Nat
  BY LenProperties
<1>2. IsFiniteSet(1 .. Len(s))
  BY <1>1, FS_Interval
<1>3. at \in SUBSET (1 .. Len(s))
  BY <1>1
<1> QED BY <1>1, <1>2, <1>3, FS_Subset, FS_CardinalityType, FS_EmptySet DEF Times

LEMMA TimesAppend ==
  ASSUME NEW S, NEW s \in Seq(S), NEW e \in S, NEW x
  PROVE  Times(Append(s, e), x) = Times(s, x) + One(e = x)
<1> DEFINE at == {i \in DOMAIN s : s[i] = x}
           t == Append(s, e)
           after == {i \in DOMAIN t : t[i] = x}
           n == Len(s)
<1>1. n \in Nat /\ DOMAIN s = 1 .. n /\ DOMAIN t = 1 .. n + 1
      /\ (\A i \in 1 .. n : t[i] = s[i]) /\ t[n + 1] = e
  BY AppendProperties, LenProperties
<1>2. IsFiniteSet(at) /\ Cardinality(at) = Times(s, x)
  BY TimesAre DEF Times
<1>6. n + 1 \notin at
  BY <1>1
<1>3. Times(s, x) \in Nat
  BY TimesAre
<1> HIDE DEF t
<1>4. CASE e = x
  <2>1. after = at \cup {n + 1}
    BY <1>1, <1>4
  <2>2. Cardinality(at \cup {n + 1}) = Cardinality(at) + 1
    BY <1>2, <1>6, FS_AddElement
  <2>3. Times(t, x) = Cardinality(at \cup {n + 1})
    BY <2>1, Zenon DEF Times
  <2> HIDE DEF at
  <2> QED BY <1>2, <1>4, <2>2, <2>3 DEF One, t
<1>5. CASE e # x
  <2>1. after = at
    BY <1>1, <1>5
  <2>3. Times(t, x) = Cardinality(at)
    BY <2>1, Zenon DEF Times
  <2> HIDE DEF at
  <2> QED BY <1>2, <1>3, <1>5, <2>3 DEF One, t
<1> QED BY <1>4, <1>5

LEMMA TimesTail ==
  ASSUME NEW S, NEW s \in Seq(S), s # <<>>, NEW x
  PROVE  Times(Tail(s), x) = Times(s, x) - One(Head(s) = x)
<1> DEFINE at == {i \in DOMAIN s : s[i] = x}
           t == Tail(s)
           after == {i \in DOMAIN t : t[i] = x}
           n == Len(s)
<1>1. /\ n \in Nat \ {0} /\ DOMAIN s = 1 .. n /\ Head(s) = s[1] /\ t \in Seq(S) /\ Len(t) = n - 1
      /\ DOMAIN t = 1 .. n - 1 /\ \A i \in 1 .. n - 1 : t[i] = s[i + 1]
  BY HeadTailProperties, LenProperties, EmptySeq
<1>0. IsFiniteSet(at) /\ Cardinality(at) = Times(s, x)
  BY TimesAre DEF Times
<1>2. IsFiniteSet(at \ {1})
      /\ Cardinality(at \ {1}) = IF 1 \in at THEN Cardinality(at) - 1 ELSE Cardinality(at)
  BY <1>0, FS_RemoveElement
<1>3. Times(s, x) \in Nat
  BY TimesAre
<1> HIDE DEF t
<1> DEFINE shift == [i \in at \ {1} |-> i - 1]
<1>4. shift \in [at \ {1} -> after]
  BY <1>1
<1>5. \A i, j \in at \ {1} : shift[i] = shift[j] => i = j
  BY <1>1
<1>6. \A j \in after : \E i \in at \ {1} : shift[i] = j
  <2> TAKE j \in after
  <2>1. j \in 1 .. n - 1 /\ s[j + 1] = x
    BY <1>1
  <2>2. j + 1 \in at \ {1} /\ shift[j + 1] = j
    BY <1>1, <2>1
  <2> QED BY <2>2
<1>7. shift \in Bijection(at \ {1}, after)
  BY <1>4, <1>5, <1>6, Zenon DEF Bijection, Injection, Surjection, IsInjective
<1>8. Cardinality(after) = Cardinality(at \ {1})
  BY <1>2, <1>7, FS_Bijection DEF ExistsBijection
<1>9. 1 \in at <=> Head(s) = x
  BY <1>1
<1>10. Times(t, x) = Cardinality(after) /\ Times(s, x) = Cardinality(at)
  BY DEF Times
<1> HIDE DEF after, at
<1> QED BY <1>2, <1>3, <1>8, <1>9, <1>10 DEF One, t

\* What is put in front counts once.
LEMMA TimesPush ==
  ASSUME NEW S, NEW s \in Seq(S), NEW e \in S, NEW x
  PROVE  /\ <<e>> \o s \in Seq(S)
         /\ Times(<<e>> \o s, x) = One(e = x) + Times(s, x)
<1> DEFINE t == <<e>> \o s
<1>1. <<e>> \in Seq(S) /\ Len(<<e>>) = 1
  OBVIOUS
<1>2. t \in Seq(S) /\ Len(t) = 1 + Len(s) /\ Len(s) \in Nat
      /\ \A i \in 1 .. 1 + Len(s) : t[i] = IF i <= 1 THEN e ELSE s[i - 1]
  BY <1>1, ConcatProperties, LenProperties
<1> HIDE DEF t
<1>3. t # <<>> /\ Head(t) = e
  BY <1>2, HeadTailProperties
<1>4. Tail(t) \in Seq(S) /\ Len(Tail(t)) = Len(s) /\ \A i \in 1 .. Len(s) : Tail(t)[i] = s[i]
  BY <1>2, <1>3, HeadTailProperties
<1>5. Tail(t) = s
  BY <1>4, SeqEqual
<1>6. Times(s, x) = Times(t, x) - One(e = x)
  BY <1>2, <1>3, <1>5, TimesTail
<1>7. Times(s, x) \in Nat /\ Times(t, x) \in Nat /\ One(e = x) \in Nat
  BY <1>2, TimesAre DEF One
<1> QED BY <1>2, <1>6, <1>7 DEF t

-----------------------------------------------------------------------------
(* The same of what a command carries.                                     *)

Command ==
  [kind : {"slot"}, slot : Slots, object : Module \cup {none}]
    \cup [kind : {"chain"}, slot : {0}, object : Chain]
    \cup [kind : {"sample"}, slot : {0}, object : Sample \cup {none}]
Carries(s) == [i \in DOMAIN s |-> s[i].object]
SentIn(s, x) == Cardinality({i \in DOMAIN s : s[i].object = x})
Carriable == Module \cup Chain \cup Sample \cup {none}

LEMMA CommandsAre ==
  /\ \A k \in Slots, m \in Module \cup {none} : Setting(k, m) \in Command /\ Setting(k, m).object = m
  /\ \A c \in Chain : Swapping(c) \in Command /\ Swapping(c).object = c
  /\ \A s \in Sample \cup {none} : Sampling(s) \in Command /\ Sampling(s).object = s
  /\ \A c \in Command :
       /\ c.object \in Carriable
       /\ c.kind = "slot" => c.slot \in Slots /\ c.object \in Module \cup {none}
       /\ c.kind = "chain" => c.object \in Chain
       /\ c.kind = "sample" => c.object \in Sample \cup {none}
BY DEF Setting, Swapping, Sampling, Command, Carriable

LEMMA CarriesAre ==
  ASSUME NEW s \in Seq(Command), NEW x
  PROVE  /\ Carries(s) \in Seq(Carriable) /\ Len(Carries(s)) = Len(s)
         /\ \A i \in 1 .. Len(s) : Carries(s)[i] = s[i].object
         /\ SentIn(s, x) = Times(Carries(s), x)
<1>1. Len(s) \in Nat /\ DOMAIN s = 1 .. Len(s) /\ \A i \in 1 .. Len(s) : s[i] \in Command
  BY LenProperties, ElementOfSeq
<1>2. \A i \in 1 .. Len(s) : s[i].object \in Carriable
  BY <1>1, CommandsAre
<1>3. Carries(s) = [i \in 1 .. Len(s) |-> s[i].object]
  BY <1>1 DEF Carries
<1>4. Carries(s) \in Seq(Carriable) /\ Len(Carries(s)) = Len(s)
  BY <1>1, <1>2, <1>3
<1>5. {i \in DOMAIN s : s[i].object = x} = {i \in DOMAIN Carries(s) : Carries(s)[i] = x}
  BY <1>1, <1>3
<1> QED BY <1>3, <1>4, <1>5 DEF SentIn, Times

LEMMA SentAre ==
  ASSUME NEW s \in Seq(Command), NEW x
  PROVE  /\ SentIn(s, x) \in Nat
         /\ SentIn(s, x) = 0 <=> \A i \in 1 .. Len(s) : s[i].object # x
<1> DEFINE u == Carries(s)
<1>1. /\ u \in Seq(Carriable) /\ Len(u) = Len(s) /\ SentIn(s, x) = Times(u, x)
      /\ \A i \in 1 .. Len(s) : u[i] = s[i].object
  BY CarriesAre
<1> HIDE DEF u
<1>2. Times(u, x) \in Nat /\ (Times(u, x) = 0 <=> \A i \in 1 .. Len(u) : u[i] # x)
  BY <1>1, TimesAre
<1> QED BY <1>1, <1>2

LEMMA SentAppend ==
  ASSUME NEW s \in Seq(Command), NEW c \in Command, NEW x
  PROVE  SentIn(Append(s, c), x) = SentIn(s, x) + One(c.object = x)
<1>1. Len(s) \in Nat /\ Append(s, c) \in Seq(Command) /\ Len(Append(s, c)) = Len(s) + 1
      /\ (\A i \in 1 .. Len(s) : Append(s, c)[i] = s[i]) /\ Append(s, c)[Len(s) + 1] = c
  BY AppendProperties, LenProperties
<1>2. c.object \in Carriable
  BY CommandsAre
<1> DEFINE u == Carries(Append(s, c))
           v == Append(Carries(s), c.object)
<1>3. /\ u \in Seq(Carriable) /\ Len(u) = Len(s) + 1
      /\ \A i \in 1 .. Len(s) + 1 : u[i] = Append(s, c)[i].object
  BY <1>1, CarriesAre
<1>4. /\ v \in Seq(Carriable) /\ Len(v) = Len(s) + 1 /\ v[Len(s) + 1] = c.object
      /\ \A i \in 1 .. Len(s) : v[i] = s[i].object
  BY <1>2, CarriesAre, AppendProperties
<1> HIDE DEF u, v
<1>5. \A i \in 1 .. Len(s) + 1 : u[i] = v[i]
  BY <1>1, <1>3, <1>4
<1>6. u = v
  BY <1>3, <1>4, <1>5, SeqEqual
<1>7. SentIn(Append(s, c), x) = Times(v, x)
  BY <1>1, <1>6, CarriesAre DEF u
<1>8. Times(v, x) = Times(Carries(s), x) + One(c.object = x)
  BY <1>2, CarriesAre, TimesAppend DEF v
<1> QED BY <1>7, <1>8, CarriesAre

LEMMA SentTail ==
  ASSUME NEW s \in Seq(Command), s # <<>>, NEW x
  PROVE  SentIn(Tail(s), x) = SentIn(s, x) - One(Head(s).object = x)
<1>1. /\ Len(s) \in Nat \ {0} /\ Tail(s) \in Seq(Command) /\ Len(Tail(s)) = Len(s) - 1
      /\ Head(s) = s[1] /\ \A i \in 1 .. Len(s) - 1 : Tail(s)[i] = s[i + 1]
  BY HeadTailProperties, LenProperties, EmptySeq
<1> DEFINE u == Carries(Tail(s))
           w == Carries(s)
<1>2. u \in Seq(Carriable) /\ Len(u) = Len(s) - 1
      /\ \A i \in 1 .. Len(s) - 1 : u[i] = Tail(s)[i].object
  BY <1>1, CarriesAre
<1>3. w \in Seq(Carriable) /\ Len(w) = Len(s) /\ \A i \in 1 .. Len(s) : w[i] = s[i].object
  BY CarriesAre
<1> HIDE DEF u, w
<1>4. w # <<>>
  BY <1>1, <1>3
<1>5. /\ Tail(w) \in Seq(Carriable) /\ Len(Tail(w)) = Len(s) - 1 /\ Head(w) = Head(s).object
      /\ \A i \in 1 .. Len(s) - 1 : Tail(w)[i] = s[i + 1].object
  BY <1>1, <1>3, <1>4, HeadTailProperties
<1>6. \A i \in 1 .. Len(s) - 1 : u[i] = Tail(w)[i]
  BY <1>1, <1>2, <1>5
<1>7. u = Tail(w)
  BY <1>2, <1>5, <1>6, SeqEqual
<1>8. Times(u, x) = Times(w, x) - One(Head(s).object = x)
  BY <1>3, <1>4, <1>5, <1>7, TimesTail
<1> QED BY <1>1, <1>8, CarriesAre DEF u, w

-----------------------------------------------------------------------------
(* The links to an object.                                                 *)

LEMMA LinksAre ==
  ASSUME NEW lists, NEW kept, NEW x
  PROVE  /\ Links(lists, kept, x) \in Nat
         /\ Links(lists, kept, x) = 0 <=>
              /\ ~\E r \in Root : x \in Range(lists[r])
              /\ \A m \in Module : kept[m].prev # x /\ kept[m].next # x
         /\ (\E r \in Root : x \in Range(lists[r])) => Links(lists, kept, x) >= 2
<1> DEFINE before == {m \in Module : kept[m].prev = x}
           behind == {m \in Module : kept[m].next = x}
           listed == \E r \in Root : x \in Range(lists[r])
<1>1. before \in SUBSET Module /\ behind \in SUBSET Module /\ IsFiniteSet(Module)
  BY ObjectsAssumption
<1>2. IsFiniteSet(before) /\ IsFiniteSet(behind)
  BY <1>1, FS_Subset
<1>3. Cardinality(before) \in Nat /\ Cardinality(behind) \in Nat
      /\ (Cardinality(before) = 0 <=> before = {}) /\ (Cardinality(behind) = 0 <=> behind = {})
  BY <1>2, FS_CardinalityType, FS_EmptySet
<1>4. Links(lists, kept, x) = (IF listed THEN 2 ELSE 0) + Cardinality(before) + Cardinality(behind)
  BY DEF Links
<1>5. before = {} /\ behind = {} <=> \A m \in Module : kept[m].prev # x /\ kept[m].next # x
  OBVIOUS
<1> HIDE DEF before, behind, listed
<1>6. Links(lists, kept, x) \in Nat /\ (Links(lists, kept, x) = 0 <=> ~listed /\ before = {} /\ behind = {})
      /\ (listed => Links(lists, kept, x) >= 2)
  BY <1>3, <1>4
<1> QED BY <1>5, <1>6 DEF listed

-----------------------------------------------------------------------------
(* What the counts, and those who hold them, are at every point.           *)

Linkable == Module \cup {engine}
Link == [prev : Linkable, next : Linkable]
Retirable == Module \cup Chain \cup Sample

\* A module that has a link to an old neighbour has both of them.
Typed ==
  /\ list \in [Root -> Seq(Module)]
  /\ left \in [Module -> Link \cup {Unlinked}]
  /\ refs \in [Object -> Nat] /\ live \subseteq Object
  /\ sample \in Sample \cup {none}
  /\ toEngine \in Seq(Command)
  /\ retired \in Seq(Retirable) /\ leaked \subseteq Retirable
  /\ toRelease \in Seq(Module \cup {engine} \cup Sample)
  /\ deleting \in Root \cup {none}
  /\ phase \in {"stopped", "running", "stopping", "destroying", "gone"}

\* The rings an object is in, the refused and the released counted as two.
Waits(x) ==
  One(x \in leaked) + SentIn(toEngine, x) + Times(retired, x) + Times(toRelease, x)
Balance ==
  /\ \A m \in Module : refs[m] = Links(list, left, m) + Waits(m)
  /\ \A s \in Sample : refs[s] = One(s = sample) + Waits(s)
  /\ \A c \in Chain : refs[c] = 3 * One(c \in live)
  /\ engine \in live => refs[engine] = Links(list, left, engine) + 3 + Waits(engine)

\* An object is there as long as it is counted.
Alive == \A x \in Object : x \in live <=> refs[x] # 0

Listed(lists, x) == \E r \in Root : x \in Range(lists[r])

\* A module is in one place of one chain.
Once ==
  \A r, q \in Root : \A i \in 1 .. Len(list[r]), j \in 1 .. Len(list[q]) :
    list[r][i] = list[q][j] => r = q /\ i = j

\* A module in a chain was never taken out of one.
Unmoved == \A x \in Module : Listed(list, x) =>
             left[x] = Unlinked /\ x \notin leaked /\ Times(retired, x) = 0
LinksLive == \A m \in Module : left[m] # Unlinked => m \in live

\* What is queued, and a sample, has one owner.
Alone ==
  /\ \A m \in Module : SentIn(toEngine, m) # 0 => refs[m] = 1 /\ left[m] = Unlinked
  /\ \A s \in Sample : refs[s] \in {0, 1}

\* A chain is in one ring, or leaked, or being deleted.
Carried ==
  /\ \A c \in Chain : One(c = deleting) + Waits(c) = One(c \in live)
  /\ \A c \in Chain \ live : list[c] = <<>>

Life ==
  /\ phase \notin {"running", "stopping"} => toEngine = <<>>
  /\ phase # "gone" => engine \in live /\ deleting # engine
  /\ phase = "gone" =>
       /\ retired = <<>> /\ sample = none /\ toRelease \in Seq(Sample)
       /\ deleting \in {engine, none} /\ (deleting = engine <=> engine \in live)
       /\ engine \notin live => toRelease = <<>> /\ list[engine] = <<>>

\* Links lead from what was taken out earlier to what was taken out later.
Older(age) == \A m, x \in Module :
                x \in {left[m].prev, left[m].next} /\ ~Listed(list, x) => age[m] < age[x]
Aged == \E top \in Nat : \E age \in [Module -> 0 .. top] : Older(age)

IInv == Typed /\ Balance /\ Alive /\ Once /\ Unmoved /\ LinksLive /\ Alone
          /\ Carried /\ Life /\ Aged

-----------------------------------------------------------------------------
(* A chain's list.                                                         *)

LEMMA InRange ==
  ASSUME NEW S, NEW s \in Seq(S), NEW x
  PROVE  x \in Range(s) <=> \E i \in 1 .. Len(s) : s[i] = x
<1>1. DOMAIN s = 1 .. Len(s)
  BY LenProperties
<1> QED BY <1>1 DEF Range

LEMMA RemoveAtIs ==
  ASSUME NEW S, NEW s \in Seq(S), NEW k \in 1 .. Len(s)
  PROVE  /\ RemoveAt(s, k) \in Seq(S) /\ Len(RemoveAt(s, k)) = Len(s) - 1
         /\ \A i \in 1 .. Len(s) - 1 : RemoveAt(s, k)[i] = IF i < k THEN s[i] ELSE s[i + 1]
<1> DEFINE a == SubSeq(s, 1, k - 1)
           b == SubSeq(s, k + 1, Len(s))
<1>1. Len(s) \in Nat /\ k \in Int /\ k >= 1 /\ k <= Len(s)
  BY LenProperties
<1>2. \A i \in 1 .. Len(s) : s[i] \in S
  BY ElementOfSeq
<1>3. a \in Seq(S) /\ Len(a) = k - 1 /\ \A i \in 1 .. k - 1 : a[i] = s[i]
  BY <1>1, <1>2, SubSeqProperties
<1>4. b \in Seq(S) /\ Len(b) = Len(s) - k /\ \A i \in 1 .. Len(s) - k : b[i] = s[k + i]
  <2>1. \A i \in k + 1 .. Len(s) : s[i] \in S
    BY <1>1, <1>2
  <2>2. k + 1 \in Int /\ Len(s) \in Int
    BY <1>1
  <2>3. b \in Seq(S) /\ Len(b) = (IF k + 1 <= Len(s) THEN Len(s) - (k + 1) + 1 ELSE 0)
        /\ \A i \in 1 .. Len(s) - (k + 1) + 1 : b[i] = s[(k + 1) + i - 1]
    BY <2>1, <2>2, SubSeqProperties
  <2> HIDE DEF b
  <2>4. Len(b) = Len(s) - k
    <3>1. CASE k + 1 <= Len(s)
      BY <1>1, <2>3, <3>1
    <3>2. CASE ~(k + 1 <= Len(s))
      <4>1. Len(b) = 0 /\ k = Len(s)
        BY <1>1, <2>3, <3>2
      <4> QED BY <1>1, <4>1
    <3> QED BY <3>1, <3>2
  <2>5. \A i \in 1 .. Len(s) - k : b[i] = s[k + i]
    <3> TAKE i \in 1 .. Len(s) - k
    <3>1. i \in 1 .. Len(s) - (k + 1) + 1 /\ (k + 1) + i - 1 = k + i
      BY <1>1
    <3> QED BY <2>3, <3>1
  <2> QED BY <2>3, <2>4, <2>5
<1> HIDE DEF a, b
<1>5. a \o b \in Seq(S) /\ Len(a \o b) = Len(a) + Len(b)
      /\ \A i \in 1 .. Len(a) + Len(b) : (a \o b)[i] = IF i <= Len(a) THEN a[i] ELSE b[i - Len(a)]
  BY <1>3, <1>4, ConcatProperties
<1>6. RemoveAt(s, k) = a \o b
  BY DEF RemoveAt, a, b
<1>7. Len(a) + Len(b) = Len(s) - 1
  BY <1>1, <1>3, <1>4
<1>8. \A i \in 1 .. Len(s) - 1 : (a \o b)[i] = IF i < k THEN s[i] ELSE s[i + 1]
  <2> TAKE i \in 1 .. Len(s) - 1
  <2>1. CASE i < k
    BY <1>1, <1>3, <1>5, <1>7, <2>1
  <2>2. CASE ~(i < k)
    <3>1. i - (k - 1) \in 1 .. Len(s) - k /\ k + (i - (k - 1)) = i + 1
      BY <1>1, <2>2
    <3>2. b[i - (k - 1)] = s[i + 1]
      BY <1>4, <3>1
    <3>3. (a \o b)[i] = b[i - (k - 1)]
      BY <1>1, <1>3, <1>5, <1>7, <2>2
    <3> QED BY <2>2, <3>2, <3>3
  <2> QED BY <2>1, <2>2
<1> QED BY <1>5, <1>6, <1>7, <1>8

\* The engine's chain after its slot k was given m, or nothing.
Slotted(s, k, m) ==
  IF k > Len(s) THEN IF m = none THEN s ELSE Append(s, m)
  ELSE IF m = none THEN RemoveAt(s, k) ELSE ReplaceAt(s, k, m)
Out(s, k) == IF k <= Len(s) THEN s[k] ELSE none

LEMMA SlottedIs ==
  ASSUME NEW s \in Seq(Module), NEW k \in Nat \ {0}, NEW m \in Module \cup {none},
         \A i, j \in 1 .. Len(s) : s[i] = s[j] => i = j,
         \A i \in 1 .. Len(s) : s[i] # m
  PROVE  LET t == Slotted(s, k, m)
         IN /\ t \in Seq(Module)
            /\ \A i, j \in 1 .. Len(t) : t[i] = t[j] => i = j
            /\ \A x \in Module : (\E i \in 1 .. Len(t) : t[i] = x)
                 <=> ((\E i \in 1 .. Len(s) : s[i] = x) /\ x # Out(s, k)) \/ x = m
<1> DEFINE t == Slotted(s, k, m)
<1>1. Len(s) \in Nat /\ \A i \in 1 .. Len(s) : s[i] \in Module
  BY LenProperties, ElementOfSeq
<1>2. none \notin Module
  BY ObjectsAssumption
<1>3. CASE k > Len(s) /\ m = none
  <2>1. t = s /\ Out(s, k) = none
    BY <1>1, <1>3 DEF Slotted, Out
  <2> HIDE DEF t
  <2> QED BY <1>2, <1>3, <2>1 DEF t
<1>4. CASE k > Len(s) /\ m # none
  <2>1. t = Append(s, m) /\ Out(s, k) = none /\ m \in Module
    BY <1>1, <1>4 DEF Slotted, Out
  <2>2. t \in Seq(Module) /\ Len(t) = Len(s) + 1 /\ (\A i \in 1 .. Len(s) : t[i] = s[i])
        /\ t[Len(s) + 1] = m
    BY <2>1, AppendProperties
  <2> HIDE DEF t
  <2>3. \A i, j \in 1 .. Len(t) : t[i] = t[j] => i = j
    BY <1>1, <2>2
  <2>4. \A x \in Module : (\E i \in 1 .. Len(t) : t[i] = x) <=> (\E i \in 1 .. Len(s) : s[i] = x) \/ x = m
    <3> TAKE x \in Module
    <3>1. ASSUME NEW i \in 1 .. Len(t), t[i] = x PROVE (\E j \in 1 .. Len(s) : s[j] = x) \/ x = m
      <4>1. CASE i = Len(s) + 1
        BY <2>2, <3>1, <4>1
      <4>2. CASE i \in 1 .. Len(s)
        BY <2>2, <3>1, <4>2
      <4> QED BY <1>1, <2>2, <4>1, <4>2
    <3>2. ASSUME NEW i \in 1 .. Len(s), s[i] = x PROVE \E j \in 1 .. Len(t) : t[j] = x
      <4>1. i \in 1 .. Len(t)
        BY <1>1, <2>2
      <4> QED BY <2>2, <3>2, <4>1
    <3>3. ASSUME x = m PROVE \E j \in 1 .. Len(t) : t[j] = x
      <4>1. Len(s) + 1 \in 1 .. Len(t)
        BY <1>1, <2>2
      <4> QED BY <2>2, <3>3, <4>1
    <3> QED BY <3>1, <3>2, <3>3
  <2> QED BY <1>2, <2>1, <2>2, <2>3, <2>4 DEF t
<1>5. CASE k <= Len(s) /\ m = none
  <2>1. t = RemoveAt(s, k) /\ Out(s, k) = s[k] /\ k \in 1 .. Len(s)
    BY <1>1, <1>5 DEF Slotted, Out
  <2>2. t \in Seq(Module) /\ Len(t) = Len(s) - 1
        /\ \A i \in 1 .. Len(s) - 1 : t[i] = IF i < k THEN s[i] ELSE s[i + 1]
    BY <2>1, RemoveAtIs
  <2> HIDE DEF t
  <2>3. ASSUME NEW i \in 1 .. Len(t), NEW j \in 1 .. Len(t), t[i] = t[j] PROVE i = j
    <3> DEFINE a == IF i < k THEN i ELSE i + 1
               b == IF j < k THEN j ELSE j + 1
    <3>1. a \in 1 .. Len(s) /\ b \in 1 .. Len(s) /\ t[i] = s[a] /\ t[j] = s[b]
      BY <1>1, <2>1, <2>2
    <3>2. a = b
      BY <2>3, <3>1
    <3> QED BY <1>1, <2>1, <3>2
  <2>4. \A x \in Module : (\E i \in 1 .. Len(t) : t[i] = x) <=> (\E i \in 1 .. Len(s) : s[i] = x) /\ x # s[k]
    <3> TAKE x \in Module
    <3>1. ASSUME NEW i \in 1 .. Len(t), t[i] = x PROVE (\E j \in 1 .. Len(s) : s[j] = x) /\ x # s[k]
      <4> DEFINE a == IF i < k THEN i ELSE i + 1
      <4>1. a \in 1 .. Len(s) /\ s[a] = x /\ a # k
        BY <1>1, <2>1, <2>2, <3>1
      <4> HIDE DEF a
      <4> QED BY <2>1, <4>1
    <3>2. ASSUME NEW i \in 1 .. Len(s), s[i] = x, x # s[k] PROVE \E j \in 1 .. Len(t) : t[j] = x
      <4> DEFINE a == IF i < k THEN i ELSE i - 1
      <4>1. i # k
        BY <3>2
      <4>2. a \in 1 .. Len(s) - 1 /\ (IF a < k THEN a ELSE a + 1) = i
        BY <1>1, <2>1, <4>1
      <4> HIDE DEF a
      <4>3. t[a] = x /\ a \in 1 .. Len(t)
        BY <2>2, <3>2, <4>2
      <4> QED BY <4>3
    <3> QED BY <3>1, <3>2
  <2> QED BY <1>2, <1>5, <2>1, <2>2, <2>3, <2>4 DEF t
<1>6. CASE k <= Len(s) /\ m # none
  <2>1. t = [s EXCEPT ![k] = m] /\ Out(s, k) = s[k] /\ k \in 1 .. Len(s) /\ m \in Module
    BY <1>1, <1>6 DEF Slotted, Out, ReplaceAt
  <2>2. t \in Seq(Module) /\ Len(t) = Len(s) /\ \A i \in 1 .. Len(s) : t[i] = IF i = k THEN m ELSE s[i]
    BY <2>1, ExceptSeq
  <2> HIDE DEF t
  <2>3. \A i, j \in 1 .. Len(t) : t[i] = t[j] => i = j
    BY <2>2
  <2>4. \A x \in Module : (\E i \in 1 .. Len(t) : t[i] = x)
          <=> ((\E i \in 1 .. Len(s) : s[i] = x) /\ x # s[k]) \/ x = m
    <3> TAKE x \in Module
    <3>1. ASSUME NEW i \in 1 .. Len(t), t[i] = x
          PROVE  ((\E j \in 1 .. Len(s) : s[j] = x) /\ x # s[k]) \/ x = m
      BY <2>1, <2>2, <3>1
    <3>2. ASSUME NEW i \in 1 .. Len(s), s[i] = x, x # s[k] PROVE \E j \in 1 .. Len(t) : t[j] = x
      BY <2>2, <3>2
    <3>3. ASSUME x = m PROVE \E j \in 1 .. Len(t) : t[j] = x
      BY <2>1, <2>2, <3>3
    <3> QED BY <3>1, <3>2, <3>3
  <2> QED BY <2>1, <2>2, <2>3, <2>4 DEF t
<1> QED BY <1>1, <1>3, <1>4, <1>5, <1>6

-----------------------------------------------------------------------------
(* Taking a module out of the engine's chain, and putting one in.          *)

LEMMA Facts ==
  ASSUME Typed
  PROVE  /\ \A r \in Root : list[r] \in Seq(Module)
         /\ \A x : Listed(list, x) <=> \E r \in Root : \E i \in 1 .. Len(list[r]) : list[r][i] = x
         /\ none \notin Object /\ Slots \subseteq Nat \ {0}
<1>1. \A r \in Root : list[r] \in Seq(Module)
  BY DEF Typed
<1>2. \A x : Listed(list, x) <=> \E r \in Root : \E i \in 1 .. Len(list[r]) : list[r][i] = x
  BY <1>1, InRange DEF Listed
<1> QED BY <1>1, <1>2, ObjectsAssumption, BoundsAssumption DEF Object, Root, Slots

LEMMA RelinkIs ==
  ASSUME Typed, Once, Unmoved, NEW k \in Slots, NEW m \in Module \cup {none}, Relink(k, m),
         m \in Module => ~Listed(list, m)
  PROVE  /\ list' \in [Root -> Seq(Module)] /\ \A c \in Chain : list'[c] = list[c]
         /\ Once'
         /\ Displaced(k) \in Module \cup {none}
         /\ Displaced(k) \in Module => Listed(list, Displaced(k)) /\ left[Displaced(k)] = Unlinked
         /\ \A x \in Module : Listed(list', x) <=> (Listed(list, x) /\ x # Displaced(k)) \/ x = m
         /\ Displaced(k) = none => left' = left
         /\ Displaced(k) \in Module =>
              \E link \in Link : left' = [left EXCEPT ![Displaced(k)] = link]
                 /\ \A x \in {link.prev, link.next} : x = engine \/ Listed(list', x)
<1> DEFINE s == list[engine]
           t == list'[engine]
           d == Displaced(k)
<1>1. s \in Seq(Module) /\ Len(s) \in Nat /\ engine \in Root /\ engine \notin Chain /\ k \in Nat \ {0}
      /\ none \notin Module
  BY Facts, LenProperties, ObjectsAssumption DEF Root, Object
<1>2. list' = [list EXCEPT ![engine] = Slotted(s, k, m)] /\ d = Out(s, k)
  <2>1. d = Out(s, k)
    BY DEF Displaced, Out
  <2>2. k > Len(s) <=> ~(k <= Len(s))
    BY <1>1
  <2>3. list' = [list EXCEPT ![engine] =
                    IF ~(k <= Len(s)) THEN IF m = none THEN s ELSE Append(s, m)
                    ELSE IF m = none THEN RemoveAt(s, k) ELSE ReplaceAt(s, k, m)]
    BY Zenon DEF Relink
  <2>4. Slotted(s, k, m) = IF ~(k <= Len(s)) THEN IF m = none THEN s ELSE Append(s, m)
                    ELSE IF m = none THEN RemoveAt(s, k) ELSE ReplaceAt(s, k, m)
    BY <2>2, Zenon DEF Slotted
  <2> QED BY <2>1, <2>3, <2>4
<1>3. t = Slotted(s, k, m) /\ list' = [list EXCEPT ![engine] = t] /\ DOMAIN list = Root
  BY <1>1, <1>2 DEF Typed
<1>4. \A i, j \in 1 .. Len(s) : s[i] = s[j] => i = j
  BY <1>1 DEF Once
<1>5. \A i \in 1 .. Len(s) : s[i] \in Module /\ s[i] # m
  <2>1. \A i \in 1 .. Len(s) : s[i] \in Module /\ Listed(list, s[i])
    BY <1>1, Facts, ElementOfSeq
  <2> QED BY <1>1, <2>1
<1>6. /\ t \in Seq(Module)
      /\ \A i, j \in 1 .. Len(t) : t[i] = t[j] => i = j
      /\ \A x \in Module : (\E i \in 1 .. Len(t) : t[i] = x)
           <=> ((\E i \in 1 .. Len(s) : s[i] = x) /\ x # d) \/ x = m
  <2> HIDE DEF s, t, d
  <2>1. \A i \in 1 .. Len(s) : s[i] # m
    BY <1>5
  <2>2. s \in Seq(Module) /\ k \in Nat \ {0}
    BY <1>1
  <2> DEFINE u == Slotted(s, k, m)
  <2>3. /\ u \in Seq(Module)
        /\ \A i, j \in 1 .. Len(u) : u[i] = u[j] => i = j
        /\ \A x \in Module : (\E i \in 1 .. Len(u) : u[i] = x)
             <=> ((\E i \in 1 .. Len(s) : s[i] = x) /\ x # Out(s, k)) \/ x = m
    BY <1>4, <2>1, <2>2, SlottedIs
  <2>4. t = u /\ d = Out(s, k)
    BY <1>2, <1>3
  <2> HIDE DEF u
  <2> QED BY <2>3, <2>4
<1>7. d \in Module \cup {none} /\ (d \in Module => k \in 1 .. Len(s) /\ d = s[k])
  BY <1>1, <1>2, <1>5 DEF Out
<1> HIDE DEF t, d
<1>8. list' \in [Root -> Seq(Module)] /\ \A c \in Root \ {engine} : list'[c] = list[c]
  BY <1>1, <1>3, <1>6 DEF Typed
<1>9. \A c \in Chain : list'[c] = list[c]
  BY <1>1, <1>8 DEF Root
<1>10. list'[engine] = t
  BY DEF t
<1>11. d \in Module => Listed(list, d) /\ left[d] = Unlinked
  BY <1>1, <1>7, Facts DEF Unmoved
<1>12. \A x : Listed(list', x) <=> \E r \in Root : \E i \in 1 .. Len(list'[r]) : list'[r][i] = x
  <2>1. \A r \in Root : list'[r] \in Seq(Module)
    BY <1>8
  <2> QED BY <2>1, InRange DEF Listed
<1>13. \A x \in Module : Listed(list', x) <=> (Listed(list, x) /\ x # d) \/ x = m
  <2> TAKE x \in Module
  <2>1. ASSUME Listed(list', x) PROVE (Listed(list, x) /\ x # d) \/ x = m
    <3>0. PICK r \in Root : \E i \in 1 .. Len(list'[r]) : list'[r][i] = x
      BY <1>12, <2>1
    <3>1. PICK i \in 1 .. Len(list'[r]) : list'[r][i] = x
      BY <3>0
    <3>2. CASE r = engine
      <4>1. ((\E j \in 1 .. Len(s) : s[j] = x) /\ x # d) \/ x = m
        BY <1>6, <1>10, <3>1, <3>2
      <4> QED BY <1>1, <4>1, Facts
    <3>3. CASE r # engine
      <4>1. list[r][i] = x /\ i \in 1 .. Len(list[r])
        BY <1>8, <3>1, <3>3
      <4>2. x # d
        BY <1>1, <1>7, <3>3, <4>1 DEF Once
      <4> QED BY <4>1, <4>2, Facts
    <3> QED BY <3>2, <3>3
  <2>2. ASSUME Listed(list, x), x # d PROVE Listed(list', x)
    <3>0. PICK r \in Root : \E i \in 1 .. Len(list[r]) : list[r][i] = x
      BY <2>2, Facts
    <3>1. PICK i \in 1 .. Len(list[r]) : list[r][i] = x
      BY <3>0
    <3>2. CASE r = engine
      <4>1. \E j \in 1 .. Len(t) : t[j] = x
        BY <1>6, <2>2, <3>1, <3>2
      <4> QED BY <1>1, <1>10, <1>12, <4>1
    <3>3. CASE r # engine
      <4>1. list'[r][i] = x /\ i \in 1 .. Len(list'[r])
        BY <1>8, <3>1, <3>3
      <4> QED BY <1>12, <4>1
    <3> QED BY <3>2, <3>3
  <2>3. ASSUME x = m PROVE Listed(list', x)
    <3>1. \E j \in 1 .. Len(t) : t[j] = x
      BY <1>6, <2>3
    <3> QED BY <1>1, <1>10, <1>12, <3>1
  <2> QED BY <2>1, <2>2, <2>3
<1>14. Once'
  <2> SUFFICES ASSUME NEW r \in Root, NEW q \in Root, NEW i \in 1 .. Len(list'[r]),
                      NEW j \in 1 .. Len(list'[q]), list'[r][i] = list'[q][j]
               PROVE  r = q /\ i = j
    BY DEF Once
  <2>1. CASE r = engine /\ q = engine
    BY <1>6, <1>10, <2>1
  <2>2. CASE r # engine /\ q # engine
    BY <1>8, <2>2 DEF Once
  <2>3. ASSUME NEW u \in Root, u # engine, NEW a \in 1 .. Len(list'[u]), NEW b \in 1 .. Len(t),
               list'[u][a] = t[b]
        PROVE  FALSE
    <3>1. list[u][a] = t[b] /\ a \in 1 .. Len(list[u]) /\ t[b] \in Module
      BY <1>6, <1>8, <2>3, ElementOfSeq
    <3>2. Listed(list, t[b])
      BY <2>3, <3>1, Facts
    <3>3. t[b] # m
      BY <3>1, <3>2
    <3>4. \E e \in 1 .. Len(s) : s[e] = t[b]
      BY <1>6, <3>1, <3>3
    <3> QED BY <1>1, <2>3, <3>1, <3>4 DEF Once
  <2> QED BY <1>10, <2>1, <2>2, <2>3
<1>15. d = none => left' = left
  <2>1. ASSUME d = none PROVE ~(k <= Len(s))
    BY <1>1, <1>2, <1>5, <2>1 DEF Out
  <2> QED BY <2>1 DEF Relink
<1>16. ASSUME d \in Module
       PROVE  \E link \in Link : left' = [left EXCEPT ![d] = link]
                 /\ \A x \in {link.prev, link.next} : x = engine \/ Listed(list', x)
  <2> DEFINE p == IF m = none THEN Before(s, k) ELSE m
             n == After(s, k)
             link == [prev |-> p, next |-> n]
  <2>1. k \in 1 .. Len(s) /\ d = s[k]
    BY <1>7, <1>16
  <2>2. left' = [left EXCEPT ![d] = link]
    BY <1>1, <2>1 DEF Relink
  <2>3. ASSUME NEW j \in 1 .. Len(s), j # k PROVE s[j] \in Module /\ Listed(list', s[j])
    <3>1. s[j] \in Module /\ s[j] # d /\ Listed(list, s[j])
      BY <1>1, <1>4, <1>5, <2>1, <2>3, Facts
    <3> QED BY <1>13, <3>1
  <2>4. p \in Linkable /\ (p = engine \/ Listed(list', p))
    <3>1. CASE m # none
      <4>1. m \in Module /\ p = m
        BY <3>1
      <4> QED BY <1>13, <4>1 DEF Linkable
    <3>2. CASE m = none /\ k = 1
      BY <3>2 DEF Before, Linkable
    <3>3. CASE m = none /\ k # 1
      <4>1. k - 1 \in 1 .. Len(s) /\ k - 1 # k /\ p = s[k - 1]
        BY <1>1, <2>1, <3>3 DEF Before
      <4> QED BY <2>3, <4>1 DEF Linkable
    <3> QED BY <3>1, <3>2, <3>3
  <2>5. n \in Linkable /\ (n = engine \/ Listed(list', n))
    <3>1. CASE k = Len(s)
      BY <3>1 DEF After, Linkable
    <3>2. CASE k # Len(s)
      <4>1. k + 1 \in 1 .. Len(s) /\ k + 1 # k /\ n = s[k + 1]
        BY <1>1, <2>1, <3>2 DEF After
      <4> QED BY <2>3, <4>1 DEF Linkable
    <3> QED BY <3>1, <3>2
  <2> HIDE DEF p, n
  <2>6. link \in Link /\ link.prev = p /\ link.next = n
    BY <2>4, <2>5 DEF Link
  <2> QED BY <2>2, <2>4, <2>5, <2>6
<1> QED BY <1>7, <1>8, <1>9, <1>11, <1>13, <1>14, <1>15, <1>16 DEF d

LEMMA WaitsAre ==
  ASSUME Typed, NEW x
  PROVE  /\ SentIn(toEngine, x) \in Nat /\ Times(retired, x) \in Nat /\ Times(toRelease, x) \in Nat
         /\ One(x \in leaked) \in {0, 1} /\ (x \in leaked <=> One(x \in leaked) = 1)
         /\ Waits(x) \in Nat
<1>1. SentIn(toEngine, x) \in Nat /\ Times(retired, x) \in Nat /\ Times(toRelease, x) \in Nat
  BY SentAre, TimesAre DEF Typed
<1>2. One(x \in leaked) \in {0, 1} /\ (x \in leaked <=> One(x \in leaked) = 1)
  BY DEF One
<1> QED BY <1>1, <1>2 DEF Waits

\* Samples and chains are not linked to.
LEMMA NoLinks ==
  ASSUME NEW lists \in [Root -> Seq(Module)], NEW kept \in [Module -> Link \cup {Unlinked}],
         NEW x \in Sample \cup Chain
  PROVE  Links(lists, kept, x) = 0
<1>1. \A r \in Root : x \notin Range(lists[r])
  BY RangeOfSeq, ObjectsAssumption
<1>2. \A m \in Module : kept[m].prev # x /\ kept[m].next # x
  BY ObjectsAssumption DEF Link, Linkable, Unlinked
<1> QED BY <1>1, <1>2, LinksAre

LEMMA ObjectsAre ==
  /\ Object = Module \cup Chain \cup Sample \cup {engine}
  /\ engine \notin Module /\ engine \notin Chain /\ engine \notin Sample
  /\ none \notin Object
  /\ \A x \in Module : x \notin Chain /\ x \notin Sample
  /\ \A x \in Chain : x \notin Sample
BY ObjectsAssumption DEF Object, Root

\* An object that is gone is in no list, under no link and in no ring.
LEMMA Forgotten ==
  ASSUME IInv, NEW x \in Object \ {engine}, x \notin live
  PROVE  /\ refs[x] = 0 /\ Waits(x) = 0 /\ Links(list, left, x) = 0 /\ x # sample
         /\ ~Listed(list, x) /\ x \notin leaked
<1>1. refs[x] = 0
  BY DEF IInv, Alive
<1>2. Waits(x) \in Nat /\ Links(list, left, x) \in Nat
  BY WaitsAre, LinksAre DEF IInv
<1>3. Waits(x) = 0 /\ Links(list, left, x) = 0 /\ x # sample
  <2>1. CASE x \in Module
    BY <1>1, <1>2, <2>1, ObjectsAre DEF IInv, Balance, Typed
  <2>2. CASE x \in Sample
    <3>1. Links(list, left, x) = 0
      BY <2>2, NoLinks DEF IInv, Typed
    <3>2. refs[x] = One(x = sample) + Waits(x)
      BY <2>2 DEF IInv, Balance
    <3> QED BY <1>1, <1>2, <3>1, <3>2 DEF One
  <2>3. CASE x \in Chain
    <3>1. Links(list, left, x) = 0
      BY <2>3, NoLinks DEF IInv, Typed
    <3>2. One(x = deleting) + Waits(x) = 0
      BY <2>3 DEF IInv, Carried, One
    <3>3. x # sample
      BY <2>3, ObjectsAre DEF IInv, Typed
    <3> QED BY <1>2, <3>1, <3>2, <3>3 DEF One
  <2> QED BY <2>1, <2>2, <2>3, ObjectsAre
<1>4. ~Listed(list, x)
  BY <1>3, LinksAre DEF Listed
<1>5. x \notin leaked
  BY <1>3, WaitsAre DEF IInv, Waits
<1> QED BY <1>1, <1>3, <1>4, <1>5

RingsTyped ==
  /\ toEngine \in Seq(Command)
  /\ retired \in Seq(Retirable) /\ leaked \subseteq Retirable
  /\ toRelease \in Seq(Module \cup {engine} \cup Sample)

(* What the three ways to fill a slot have in common.  The counts follow   *)
(* the links and the rings; what is in neither goes.                       *)
Relinked(k, m) ==
  /\ Relink(k, m) /\ phase # "gone"
  /\ refs' = [x \in Object |-> refs'[x]]
  /\ \A x \in Object : refs'[x] = refs[x] + (Links(list', left', x) - Links(list, left, x))
                                   + (Waits(x)' - Waits(x))
  /\ live' = {x \in live \cup ({m} \ {none}) : refs'[x] # 0}
  /\ RingsTyped' /\ UNCHANGED <<sample, deleting, phase>>
  /\ toEngine = <<>> => toEngine' = <<>>
  /\ m \in Module => ~Listed(list, m) /\ left[m] = Unlinked /\ Waits(m)' = 0
  /\ \A x \in Object \ {m} :
       /\ Waits(x)' = Waits(x) + One(x = Displaced(k))
       /\ SentIn(toEngine', x) = SentIn(toEngine, x)
       /\ x # Displaced(k) => (x \in leaked' <=> x \in leaked) /\ Times(retired', x) = Times(retired, x)

LEMMA RelinkKeeps ==
  ASSUME IInv, NEW k \in Slots, NEW m \in Module \cup {none}, Relinked(k, m)
  PROVE  IInv' /\ live \subseteq live'
<1> DEFINE d == Displaced(k)
<1>1. Typed /\ Once /\ Unmoved /\ Relink(k, m) /\ (m \in Module => ~Listed(list, m))
  BY DEF IInv, Relinked
<1>2. /\ list' \in [Root -> Seq(Module)] /\ \A c \in Chain : list'[c] = list[c]
      /\ Once'
      /\ d \in Module \cup {none}
      /\ d \in Module => Listed(list, d) /\ left[d] = Unlinked
      /\ \A x \in Module : Listed(list', x) <=> (Listed(list, x) /\ x # d) \/ x = m
      /\ d = none => left' = left
  BY <1>1, RelinkIs
<1>3. d \in Module => \E link \in Link : left' = [left EXCEPT ![d] = link]
                 /\ \A x \in {link.prev, link.next} : x = engine \/ Listed(list', x)
  BY <1>1, RelinkIs
<1>4. \A x \in Object \ {m} :
       /\ Waits(x)' = Waits(x) + One(x = d)
       /\ SentIn(toEngine', x) = SentIn(toEngine, x)
       /\ x # d => (x \in leaked' <=> x \in leaked) /\ Times(retired', x) = Times(retired, x)
  BY DEF Relinked
<1> HIDE DEF d
<1>5. \A x \in Object : refs'[x] = refs[x] + (Links(list', left', x) - Links(list, left, x))
                                   + (Waits(x)' - Waits(x))
  BY DEF Relinked
<1>6. left' \in [Module -> Link \cup {Unlinked}]
  <2>1. CASE d = none
    BY <1>1, <1>2, <2>1 DEF Typed
  <2>2. CASE d \in Module
    BY <1>1, <1>3, <2>2 DEF Typed
  <2> QED BY <1>2, <2>1, <2>2
<1>7. \A x : Links(list', left', x) \in Nat /\ Links(list, left, x) \in Nat
  BY LinksAre
<1>8. \A x \in Module : Listed(list', x) => Links(list', left', x) >= 2
  BY LinksAre DEF Listed
<1>9. \A x \in Module : Listed(list, x) => Links(list, left, x) >= 2
  BY LinksAre DEF Listed
<1>10. \A x, y \in Module :
         (x = left'[y].prev \/ x = left'[y].next) =>
           Listed(list', x) \/ (y # d /\ left'[y] = left[y] /\ (x = left[y].prev \/ x = left[y].next))
  <2> TAKE x, y \in Module
  <2>1. CASE y # d
    <3>1. left'[y] = left[y]
      BY <1>1, <1>2, <1>3, <2>1 DEF Typed
    <3> QED BY <2>1, <3>1
  <2>2. CASE y = d
    <3>1. PICK link \in Link : left' = [left EXCEPT ![d] = link]
                 /\ \A e \in {link.prev, link.next} : e = engine \/ Listed(list', e)
      BY <1>3, <2>2
    <3>2. left'[y] = link
      BY <1>1, <2>2, <3>1 DEF Typed
    <3> QED BY <3>1, <3>2, ObjectsAre
  <2> QED BY <2>1, <2>2
<1>11. \A x \in Module : Links(list, left, x) = 0 /\ x # m => Links(list', left', x) = 0
  <2> SUFFICES ASSUME NEW x \in Module, Links(list, left, x) = 0, x # m
               PROVE  Links(list', left', x) = 0
    OBVIOUS
  <2>1. ~Listed(list, x) /\ \A y \in Module : left[y].prev # x /\ left[y].next # x
    BY LinksAre DEF Listed
  <2>2. ~Listed(list', x)
    BY <1>2, <2>1
  <2>3. \A y \in Module : left'[y].prev # x /\ left'[y].next # x
    BY <1>10, <2>1, <2>2
  <2> QED BY <2>2, <2>3, LinksAre DEF Listed
<1>12. RingsTyped' /\ sample' = sample /\ deleting' = deleting /\ phase' = phase /\ phase # "gone"
       /\ (toEngine = <<>> => toEngine' = <<>>)
       /\ live' = {x \in live \cup ({m} \ {none}) : refs'[x] # 0}
       /\ refs' = [x \in Object |-> refs'[x]]
       /\ (m \in Module => ~Listed(list, m) /\ left[m] = Unlinked /\ Waits(m)' = 0)
  BY DEF Relinked
<1>13. \A x \in Object : Waits(x) \in Nat
  BY <1>1, WaitsAre
<1>14. \A x \in Object : Waits(x)' \in Nat
  <2>1. \A x \in Object \ {m} : Waits(x)' \in Nat
    BY <1>4, <1>13 DEF One
  <2> QED BY <1>12, <2>1, ObjectsAre
<1>15. \A x \in Sample \cup Chain : refs'[x] = refs[x] /\ Waits(x)' = Waits(x) /\ x # d /\ x # m
  <2> TAKE x \in Sample \cup Chain
  <2>1. x # d /\ x # m /\ x \in Object /\ x \notin {none}
    BY <1>2, ObjectsAre
  <2>2. Waits(x)' = Waits(x)
    BY <1>4, <1>13, <2>1 DEF One
  <2>3. Links(list', left', x) = 0 /\ Links(list, left, x) = 0
    BY <1>1, <1>2, <1>6, NoLinks DEF Typed
  <2>4. refs[x] \in Nat
    BY <1>1, <2>1 DEF Typed
  <2> QED BY <1>5, <1>13, <2>1, <2>2, <2>3, <2>4
<1>16. \A x \in Module : refs'[x] = Links(list', left', x) + Waits(x)'
  <2> TAKE x \in Module
  <2>1. x \in Object /\ refs[x] = Links(list, left, x) + Waits(x)
    BY ObjectsAre DEF IInv, Balance
  <2> QED BY <1>5, <1>7, <1>13, <1>14, <2>1
<1>17. refs'[engine] = Links(list', left', engine) + 3 + Waits(engine)' /\ engine \in live
  <2>1. engine \in live /\ engine \in Object
    BY <1>12, ObjectsAre DEF IInv, Life
  <2>2. refs[engine] = Links(list, left, engine) + 3 + Waits(engine)
    BY <2>1 DEF IInv, Balance
  <2> QED BY <1>5, <1>7, <1>13, <1>14, <2>1, <2>2
<1>18. \A x \in live : refs'[x] # 0
  <2> TAKE x \in live
  <2>1. x \in Object /\ refs[x] # 0 /\ refs[x] \in Nat
    BY <1>1 DEF IInv, Alive, Typed
  <2>2. CASE x \in Module
    <3>1. CASE x = d
      <4>1. x # m
        BY <1>2, <1>12, <2>2, <3>1
      <4>2. Waits(x)' = Waits(x) + 1
        BY <1>4, <2>1, <3>1, <4>1 DEF One
      <4> QED BY <1>7, <1>13, <1>16, <2>1, <2>2, <4>2
    <3>2. CASE x = m
      <4>1. Links(list', left', x) >= 2
        BY <1>2, <1>8, <2>2, <3>2
      <4> QED BY <1>7, <1>14, <1>16, <2>1, <2>2, <4>1
    <3>3. CASE x # d /\ x # m
      <4>1. Waits(x)' = Waits(x)
        BY <1>4, <1>13, <2>1, <3>3 DEF One
      <4>2. refs[x] = Links(list, left, x) + Waits(x)
        BY <2>2 DEF IInv, Balance
      <4>3. CASE Waits(x) # 0
        BY <1>7, <1>13, <1>16, <2>1, <2>2, <4>1, <4>3
      <4>4. CASE Listed(list, x)
        <5>1. Listed(list', x)
          BY <1>2, <2>2, <3>3, <4>4
        <5> QED BY <1>7, <1>8, <1>14, <1>16, <2>1, <2>2, <5>1
      <4>5. CASE Waits(x) = 0 /\ ~Listed(list, x)
        <5>1. Links(list, left, x) # 0
          BY <1>7, <2>1, <4>2, <4>5
        <5>2. PICK y \in Module : left[y].prev = x \/ left[y].next = x
          BY <4>5, <5>1, LinksAre DEF Listed
        <5>3. y # d
          <6>1. ASSUME y = d PROVE FALSE
            <7>1. left[y] = Unlinked
              BY <1>2, <5>2, <6>1
            <7>2. x = none
              BY <5>2, <7>1 DEF Unlinked
            <7> QED BY <2>1, <7>2, ObjectsAre
          <6> QED BY <6>1
        <5>4. left'[y] = left[y]
          BY <1>1, <1>2, <1>3, <5>2, <5>3 DEF Typed
        <5>5. Links(list', left', x) # 0
          BY <5>2, <5>4, LinksAre
        <5> QED BY <1>7, <1>14, <1>16, <2>1, <2>2, <5>5
      <4> QED BY <4>3, <4>4, <4>5
    <3> QED BY <3>1, <3>2, <3>3
  <2>3. CASE x \in Sample \cup Chain
    BY <1>15, <2>1, <2>3
  <2>4. CASE x = engine
    BY <1>7, <1>14, <1>17, <2>1, <2>4
  <2> QED BY <2>1, <2>2, <2>3, <2>4, ObjectsAre
<1>19. m \in Module => refs'[m] # 0
  <2> SUFFICES ASSUME m \in Module PROVE refs'[m] # 0
    OBVIOUS
  <2>1. Links(list', left', m) >= 2 /\ m \in Object
    BY <1>2, <1>8, ObjectsAre
  <2> QED BY <1>7, <1>14, <1>16, <2>1
<1>20. live' = live \cup ({m} \ {none})
  BY <1>12, <1>18, <1>19
<1>21. Typed'
  <2>1. \A x \in Object : refs'[x] \in Nat
    <3> TAKE x \in Object
    <3>1. CASE x \in Module
      BY <1>7, <1>14, <1>16, <3>1
    <3>2. CASE x = engine
      BY <1>7, <1>14, <1>17, <3>2
    <3>3. CASE x \in Sample \cup Chain
      BY <1>1, <1>15, <3>3 DEF Typed
    <3> QED BY <3>1, <3>2, <3>3, ObjectsAre
  <2>2. refs' \in [Object -> Nat]
    BY <1>12, <2>1
  <2>3. live' \subseteq Object
    BY <1>1, <1>20, ObjectsAre DEF Typed
  <2> QED BY <1>1, <1>2, <1>6, <1>12, <2>2, <2>3 DEF Typed, RingsTyped
<1>22. Balance'
  <2>1. \A c \in Chain : c \in live' <=> c \in live
    BY <1>15, <1>20
  <2>2. \A c \in Chain : refs'[c] = 3 * One(c \in live')
    BY <1>15, <2>1 DEF IInv, Balance
  <2>3. \A s \in Sample : refs'[s] = One(s = sample') + Waits(s)'
    BY <1>12, <1>15 DEF IInv, Balance
  <2> QED BY <1>16, <1>17, <2>2, <2>3 DEF Balance
<1>23. Alive'
  <2> SUFFICES ASSUME NEW x \in Object, x \notin live' PROVE refs'[x] = 0
    BY <1>18, <1>19, <1>20 DEF Alive
  <2>1. x \notin live /\ x # m /\ x # engine
    BY <1>17, <1>20, ObjectsAre
  <2>2. refs[x] = 0 /\ Waits(x) = 0 /\ Links(list, left, x) = 0 /\ ~Listed(list, x)
    BY <2>1, Forgotten
  <2>3. CASE x \in Module
    <3>1. x # d
      BY <1>2, <2>2, <2>3
    <3>2. Waits(x)' = 0
      BY <1>4, <2>1, <2>2, <3>1 DEF One
    <3>3. Links(list', left', x) = 0
      BY <1>11, <2>1, <2>2, <2>3
    <3> QED BY <1>16, <2>3, <3>2, <3>3
  <2>4. CASE x \in Sample \cup Chain
    BY <1>15, <2>2, <2>4
  <2> QED BY <2>1, <2>3, <2>4, ObjectsAre
<1>24. Unmoved'
  <2> SUFFICES ASSUME NEW x \in Module, Listed(list', x)
               PROVE  left'[x] = Unlinked /\ x \notin leaked' /\ Times(retired', x) = 0
    BY DEF Unmoved
  <2>1. x \in Object
    BY ObjectsAre
  <2>2. CASE x = m
    <3>1. x # d
      BY <1>2, <1>12, <2>2
    <3>2. left'[x] = left[x]
      BY <1>1, <1>2, <1>3, <3>1 DEF Typed
    <3>3. x \notin leaked' /\ Times(retired', x) = 0
      <4>1. Waits(x)' = 0
        BY <1>12, <2>2
      <4>2. One(x \in leaked') + SentIn(toEngine', x) + Times(retired', x) + Times(toRelease', x) = 0
        BY <4>1 DEF Waits
      <4>3. SentIn(toEngine', x) \in Nat /\ Times(retired', x) \in Nat /\ Times(toRelease', x) \in Nat
        BY <1>12, SentAre, TimesAre DEF RingsTyped
      <4>4. One(x \in leaked') \in Nat /\ (x \in leaked' => One(x \in leaked') = 1)
        BY DEF One
      <4>5. One(x \in leaked') = 0 /\ Times(retired', x) = 0
        BY <4>2, <4>3, <4>4
      <4> QED BY <4>4, <4>5
    <3> QED BY <1>12, <2>2, <3>2, <3>3
  <2>3. CASE x # m
    <3>1. Listed(list, x) /\ x # d
      BY <1>2, <2>3
    <3>2. left'[x] = left[x]
      BY <1>1, <1>2, <1>3, <3>1 DEF Typed
    <3>3. left[x] = Unlinked /\ x \notin leaked /\ Times(retired, x) = 0
      BY <1>1, <3>1 DEF Unmoved
    <3> QED BY <1>4, <2>1, <2>3, <3>1, <3>2, <3>3
  <2> QED BY <2>2, <2>3
<1>25. LinksLive'
  <2> SUFFICES ASSUME NEW x \in Module, left'[x] # Unlinked PROVE x \in live'
    BY DEF LinksLive
  <2>1. CASE x = d
    <3>1. Links(list, left, x) >= 2 /\ refs[x] = Links(list, left, x) + Waits(x) /\ x \in Object
      BY <1>2, <1>9, <2>1, ObjectsAre DEF IInv, Balance
    <3>2. refs[x] # 0
      BY <1>7, <1>13, <3>1
    <3> QED BY <1>20, <3>1, <3>2 DEF IInv, Alive
  <2>2. CASE x # d
    <3>1. left'[x] = left[x]
      BY <1>1, <1>2, <1>3, <2>2 DEF Typed
    <3> QED BY <1>20, <3>1 DEF IInv, LinksLive
  <2> QED BY <2>1, <2>2
<1>26. Alone'
  <2>1. ASSUME NEW x \in Module, SentIn(toEngine', x) # 0 PROVE refs'[x] = 1 /\ left'[x] = Unlinked
    <3>1. x \in Object
      BY ObjectsAre
    <3>2. x # m
      <4>1. ASSUME x = m PROVE FALSE
        <5>1. One(x \in leaked') + SentIn(toEngine', x) + Times(retired', x) + Times(toRelease', x) = 0
          BY <1>12, <4>1 DEF Waits
        <5>2. SentIn(toEngine', x) \in Nat /\ Times(retired', x) \in Nat /\ Times(toRelease', x) \in Nat
              /\ One(x \in leaked') \in Nat
          BY <1>12, SentAre, TimesAre DEF RingsTyped, One
        <5> QED BY <2>1, <5>1, <5>2
      <4> QED BY <4>1
    <3>3. SentIn(toEngine, x) # 0
      BY <1>4, <2>1, <3>1, <3>2
    <3>4. refs[x] = 1 /\ refs[x] = Links(list, left, x) + Waits(x)
      BY <3>3 DEF IInv, Alone, Balance
    <3>5. Waits(x) >= 1
      BY <1>1, <3>3, WaitsAre DEF Waits
    <3>6. Links(list, left, x) = 0 /\ Waits(x) = 1
      BY <1>7, <1>13, <3>1, <3>4, <3>5
    <3>7. x # d
      BY <1>2, <1>9, <3>6
    <3>8. Waits(x)' = 1
      BY <1>4, <3>1, <3>2, <3>6, <3>7 DEF One
    <3>9. Links(list', left', x) = 0
      BY <1>11, <3>2, <3>6
    <3>10. left[x] = Unlinked /\ left'[x] = left[x]
      BY <1>1, <1>2, <1>3, <3>3, <3>7 DEF IInv, Alone, Typed
    <3> QED BY <1>16, <3>8, <3>9, <3>10
  <2>2. \A s \in Sample : refs'[s] \in {0, 1}
    BY <1>15 DEF IInv, Alone
  <2> QED BY <2>1, <2>2 DEF Alone
<1>27. Carried'
  <2>1. \A c \in Chain : c \in live' <=> c \in live
    BY <1>15, <1>20
  <2> QED BY <1>2, <1>12, <1>15, <2>1 DEF IInv, Carried
<1>28. Life'
  BY <1>12, <1>17, <1>20 DEF IInv, Life
<1>29. Aged'
  <2>1. PICK top \in Nat : \E age \in [Module -> 0 .. top] : Older(age)
    BY DEF IInv, Aged
  <2>2. PICK age \in [Module -> 0 .. top] : Older(age)
    BY <2>1
  <2>3. CASE d = none
    <3>1. \A x \in Module : ~Listed(list', x) => ~Listed(list, x)
      BY <1>2, <2>3, ObjectsAre
    <3>2. Older(age)'
      BY <1>2, <2>2, <2>3, <3>1 DEF Older
    <3> QED BY <2>1, <2>2, <3>2 DEF Aged
  <2>4. CASE d \in Module
    <3>0. \E ages \in [Module -> 0 .. top + 1] :
            ages[d] = top + 1 /\ \A x \in Module : x # d => ages[x] = age[x]
      <4>1. [age EXCEPT ![d] = top + 1] \in [Module -> 0 .. top + 1]
        BY <2>1, <2>2, <2>4
      <4>2. /\ [age EXCEPT ![d] = top + 1][d] = top + 1
            /\ \A x \in Module : x # d => [age EXCEPT ![d] = top + 1][x] = age[x]
        BY <2>2, <2>4
      <4> QED BY <4>1, <4>2
    <3>1. PICK ages \in [Module -> 0 .. top + 1] :
            ages[d] = top + 1 /\ \A x \in Module : x # d => ages[x] = age[x]
      BY <3>0
    <3>2. ASSUME NEW y \in Module, NEW x \in Module, x \in {left'[y].prev, left'[y].next},
                 ~Listed(list', x)
          PROVE  ages[y] < ages[x]
      <4>1. y # d /\ (x = left[y].prev \/ x = left[y].next)
        BY <1>10, <3>2
      <4>2. CASE x = d
        <5>1. age[y] \in 0 .. top /\ ages[y] = age[y] /\ ages[x] = top + 1
          BY <2>2, <3>1, <4>1, <4>2
        <5> QED BY <2>1, <5>1
      <4>3. CASE x # d
        <5>1. ~Listed(list, x)
          BY <1>2, <3>2, <4>3
        <5>2. age[y] < age[x]
          BY <2>2, <4>1, <5>1 DEF Older
        <5> QED BY <3>1, <4>1, <4>3, <5>2
      <4> QED BY <4>2, <4>3
    <3>3. Older(ages)'
      BY <3>2 DEF Older
    <3>4. top + 1 \in Nat
      BY <2>1
    <3> QED BY <3>1, <3>3, <3>4 DEF Aged
  <2> QED BY <1>2, <2>3, <2>4
<1> QED BY <1>2, <1>20, <1>21, <1>22, <1>23, <1>24, <1>25, <1>26, <1>27, <1>28, <1>29 DEF IInv

LEMMA RetireIs ==
  ASSUME Typed, NEW y \in Retirable \cup {none}, y \notin leaked, Retire(y)
  PROVE  /\ retired' \in Seq(Retirable) /\ leaked' \subseteq Retirable
         /\ \A x \in Object :
              One(x \in leaked') + Times(retired', x)
                = One(x \in leaked) + Times(retired, x) + One(x = y)
         /\ \A x \in Object : x # y => (x \in leaked' <=> x \in leaked)
                                        /\ Times(retired', x) = Times(retired, x)
<1>1. retired \in Seq(Retirable) /\ leaked \subseteq Retirable
  BY DEF Typed
<1>2. \A x \in Object : Times(retired, x) \in Nat
  BY <1>1, TimesAre
<1>3. CASE y = none
  <2>1. \A x \in Object : One(x = y) = 0
    BY <1>3, ObjectsAre DEF One
  <2>2. retired' = retired /\ leaked' = leaked
    BY <1>3 DEF Retire
  <2>3. \A x \in Object : One(x \in leaked) \in Nat
    BY DEF One
  <2> QED BY <1>1, <1>2, <2>1, <2>2, <2>3
<1>4. CASE y # none /\ Len(retired) < RetireCapacity
  <2>1. retired' = Append(retired, y) /\ leaked' = leaked /\ y \in Retirable
    BY <1>4 DEF Retire
  <2>2. retired' \in Seq(Retirable)
    BY <1>1, <2>1, AppendProperties
  <2>3. \A x \in Object : Times(retired', x) = Times(retired, x) + One(y = x)
    BY <1>1, <2>1, TimesAppend
  <2>4. \A x \in Object : One(y = x) = One(x = y) /\ One(x = y) \in Nat /\ One(x \in leaked) \in Nat
                          /\ (x # y => One(x = y) = 0)
    BY DEF One
  <2> QED BY <1>1, <1>2, <2>1, <2>2, <2>3, <2>4
<1>5. CASE y # none /\ ~(Len(retired) < RetireCapacity)
  <2>1. retired' = retired /\ leaked' = leaked \cup {y} /\ y \in Retirable
    BY <1>5 DEF Retire
  <2>2. \A x \in Object : One(x \in leaked') = One(x \in leaked) + One(x = y)
    BY <2>1 DEF One
  <2>3. \A x \in Object : One(x \in leaked) \in Nat /\ One(x = y) \in Nat
    BY DEF One
  <2> QED BY <1>1, <1>2, <2>1, <2>2, <2>3
<1> QED BY <1>3, <1>4, <1>5

LEMMA NoneOf ==
  ASSUME NEW x PROVE Times(<<>>, x) = 0 /\ SentIn(<<>>, x) = 0
<1>1. <<>> \in Seq({x}) /\ <<>> \in Seq(Command) /\ Len(<<>>) = 0
  BY EmptySeq
<1>2. \A i \in 1 .. Len(<<>>) : <<>>[i] # x /\ <<>>[i].object # x
  BY <1>1
<1> QED BY <1>1, <1>2, TimesAre, SentAre

LEMMA LetGoIs ==
  ASSUME NEW S, NEW y \in S \cup {none}, none \notin S
  PROVE  LetGo(y) \in Seq(S) /\ \A x \in S : Times(LetGo(y), x) = One(x = y)
<1>1. CASE y = none
  <2>1. LetGo(y) = <<>> /\ LetGo(y) \in Seq(S) /\ Len(LetGo(y)) = 0
    BY <1>1, EmptySeq DEF LetGo
  <2>2. \A x \in S : Times(LetGo(y), x) = 0
    BY <2>1, NoneOf
  <2> QED BY <1>1, <2>1, <2>2 DEF One
<1>2. CASE y # none
  <2>1. LetGo(y) = <<y>> /\ y \in S
    BY <1>2 DEF LetGo
  <2>2. <<>> \in Seq(S) /\ Append(<<>>, y) = <<y>> /\ Len(<<>>) = 0
    BY <2>1
  <2>3. ASSUME NEW x \in S PROVE Times(<<y>>, x) = One(x = y)
    <3>1. Times(<<>>, x) = 0
      BY NoneOf
    <3>2. Times(Append(<<>>, y), x) = Times(<<>>, x) + One(y = x)
      <4>1. y \in S /\ <<>> \in Seq(S)
        BY <2>1, <2>2
      <4>2. \A s \in Seq(S) : Times(Append(s, y), x) = Times(s, x) + One(y = x)
        BY <4>1, TimesAppend
      <4> QED BY <4>1, <4>2, Zenon
    <3>3. Times(<<y>>, x) = Times(Append(<<>>, y), x)
      BY <2>2
    <3> QED BY <3>1, <3>2, <3>3 DEF One
  <2> QED BY <2>1, <2>3
<1> QED BY <1>1, <1>2

-----------------------------------------------------------------------------
(* The three ways to fill a slot.                                          *)

LEMMA FreshIs ==
  ASSUME IInv, NEW m \in FreshModule
  PROVE  /\ m \in Module /\ m \in Object /\ ~Listed(list, m) /\ left[m] = Unlinked /\ refs[m] = 0
         /\ Waits(m) = 0 /\ m \notin leaked
<1>1. m \in Module /\ m \in Object \ {engine} /\ m \notin live
  BY ObjectsAre DEF FreshModule
<1> QED BY <1>1, Forgotten DEF IInv, LinksLive

LEMMA DisplacedIs ==
  ASSUME IInv, NEW k \in Slots
  PROVE  /\ Displaced(k) \in Module \cup {none} /\ Displaced(k) \notin leaked
         /\ Displaced(k) \in Module => Listed(list, Displaced(k))
<1>1. engine \in Root /\ list[engine] \in Seq(Module) /\ Len(list[engine]) \in Nat /\ k \in Nat \ {0}
  BY Facts, LenProperties DEF IInv, Root
<1>2. CASE k <= Len(list[engine])
  <2>1. k \in 1 .. Len(list[engine]) /\ Displaced(k) = list[engine][k]
    BY <1>1, <1>2 DEF Displaced
  <2>2. list[engine][k] \in Module /\ Listed(list, list[engine][k])
    BY <1>1, <2>1, Facts, ElementOfSeq DEF IInv
  <2> QED BY <2>1, <2>2 DEF IInv, Unmoved
<1>3. CASE ~(k <= Len(list[engine]))
  <2>1. Displaced(k) = none
    BY <1>3 DEF Displaced
  <2>2. none \notin leaked /\ none \notin Module
    BY ObjectsAre DEF IInv, Typed, Retirable
  <2> QED BY <2>1, <2>2
<1> QED BY <1>2, <1>3

LEMMA SelectKeeps ==
  ASSUME IInv, NEW k \in Slots, NEW m \in FreshModule \cup {none}, SelectSlot(k, m)
  PROVE  IInv' /\ live \subseteq live'
<1> DEFINE d == Displaced(k)
<1>1. d \in Module \cup {none} /\ d \notin leaked /\ (d \in Module => Listed(list, d))
  BY DisplacedIs
<1>2. /\ Relink(k, m) /\ phase # "gone" /\ Retire(d)
      /\ refs' = [x \in Object |-> refs[x] + Links(list', left', x) - Links(list, left, x) + Taken(x, k)]
      /\ live' = {x \in live \cup ({m} \ {none}) : refs'[x] # 0}
      /\ UNCHANGED <<sample, toEngine, toRelease, deleting, phase>>
  BY DEF SelectSlot, Recounted, Survivors, InFlush
<1>3. \A x \in Object : Taken(x, k) = One(x = d)
  BY DEF Taken
<1> HIDE DEF d
<1>4. Typed
  BY DEF IInv
<1>5. /\ retired' \in Seq(Retirable) /\ leaked' \subseteq Retirable
      /\ \A x \in Object : One(x \in leaked') + Times(retired', x)
                             = One(x \in leaked) + Times(retired, x) + One(x = d)
      /\ \A x \in Object : x # d => (x \in leaked' <=> x \in leaked) /\ Times(retired', x) = Times(retired, x)
  <2>1. d \in Retirable \cup {none}
    BY <1>1 DEF Retirable
  <2> QED BY <1>1, <1>2, <1>4, <2>1, RetireIs
<1>6. \A x \in Object : Waits(x)' = Waits(x) + One(x = d) /\ Waits(x) \in Nat /\ One(x = d) \in Nat
  <2> TAKE x \in Object
  <2>1. Waits(x)' = One(x \in leaked') + SentIn(toEngine, x) + Times(retired', x) + Times(toRelease, x)
    BY <1>2 DEF Waits
  <2>2. Times(retired', x) \in Nat /\ One(x \in leaked') \in Nat /\ One(x = d) \in Nat
    BY <1>5, TimesAre DEF One
  <2>3. One(x \in leaked') + Times(retired', x) = One(x \in leaked) + Times(retired, x) + One(x = d)
    BY <1>5
  <2> QED BY <1>4, <2>1, <2>2, <2>3, WaitsAre DEF Waits
<1>7. \A x \in Object : refs'[x] = refs[x] + (Links(list', left', x) - Links(list, left, x))
                                     + (Waits(x)' - Waits(x))
  <2> TAKE x \in Object
  <2>1. refs'[x] = refs[x] + Links(list', left', x) - Links(list, left, x) + One(x = d)
    BY <1>2, <1>3
  <2>2. refs[x] \in Nat /\ Links(list', left', x) \in Nat /\ Links(list, left, x) \in Nat
    BY <1>4, LinksAre DEF Typed
  <2> QED BY <1>6, <2>1, <2>2
<1>8. refs' = [x \in Object |-> refs'[x]]
  BY <1>2
<1>9. m \in Module => ~Listed(list, m) /\ left[m] = Unlinked /\ Waits(m)' = 0
  <2> SUFFICES ASSUME m \in Module PROVE ~Listed(list, m) /\ left[m] = Unlinked /\ Waits(m)' = 0
    OBVIOUS
  <2>1. m \in FreshModule
    BY ObjectsAre
  <2>2. ~Listed(list, m) /\ left[m] = Unlinked /\ Waits(m) = 0 /\ m \in Object
    BY <2>1, FreshIs
  <2>3. m # d
    BY <1>1, <2>2
  <2> QED BY <1>6, <2>2, <2>3 DEF One
<1>10. RingsTyped'
  BY <1>2, <1>4, <1>5 DEF RingsTyped, Typed
<1>11. \A x \in Object \ {m} :
       /\ Waits(x)' = Waits(x) + One(x = Displaced(k))
       /\ SentIn(toEngine', x) = SentIn(toEngine, x)
       /\ x # Displaced(k) => (x \in leaked' <=> x \in leaked) /\ Times(retired', x) = Times(retired, x)
  BY <1>2, <1>5, <1>6 DEF d
<1>12. Relinked(k, m)
  BY <1>2, <1>7, <1>8, <1>9, <1>10, <1>11 DEF Relinked
<1> QED BY <1>12, RelinkKeeps DEF FreshModule

LEMMA DirectKeeps ==
  ASSUME IInv, NEW k \in Slots, NEW m \in FreshModule \cup {none}, PublishSlotDirect(k, m)
  PROVE  IInv'
<1> DEFINE d == Displaced(k)
<1>1. d \in Module \cup {none} /\ d \notin leaked /\ (d \in Module => Listed(list, d))
  BY DisplacedIs
<1>2. /\ Relink(k, m) /\ phase # "gone" /\ toRelease = <<>> /\ toRelease' = LetGo(d)
      /\ refs' = [x \in Object |-> refs[x] + Links(list', left', x) - Links(list, left, x) + Taken(x, k)]
      /\ live' = {x \in live \cup ({m} \ {none}) : refs'[x] # 0}
      /\ UNCHANGED <<sample, toEngine, retired, leaked, deleting, phase>>
  BY DEF PublishSlotDirect, Recounted, Survivors, MainIdle, rings
<1>3. \A x \in Object : Taken(x, k) = One(x = d)
  BY DEF Taken
<1> HIDE DEF d
<1>4. Typed
  BY DEF IInv
<1>5. toRelease' \in Seq(Module \cup {engine} \cup Sample)
      /\ \A x \in Object \ Chain : Times(toRelease', x) = One(x = d)
  <2> DEFINE S == Module \cup {engine} \cup Sample
  <2>1. none \notin S /\ Object \ Chain = S /\ d \in S \cup {none}
    BY <1>1, ObjectsAre
  <2> HIDE DEF S
  <2>2. LetGo(d) \in Seq(S) /\ \A x \in S : Times(LetGo(d), x) = One(x = d)
    BY <2>1, LetGoIs
  <2> QED BY <1>2, <2>1, <2>2 DEF S
<1>6. \A x \in Object : Waits(x)' = Waits(x) + One(x = d) /\ Waits(x) \in Nat /\ One(x = d) \in Nat
  <2> TAKE x \in Object
  <2>1. Waits(x)' = One(x \in leaked) + SentIn(toEngine, x) + Times(retired, x) + Times(toRelease', x)
    BY <1>2 DEF Waits
  <2>2. Times(toRelease, x) = 0 /\ One(x = d) \in Nat
    BY <1>2, NoneOf DEF One
  <2>3. Times(toRelease', x) = One(x = d)
    <3>1. CASE x \in Chain
      <4>1. x # d
        BY <1>1, <3>1, ObjectsAre
      <4>2. Len(toRelease') \in Nat /\ \A i \in 1 .. Len(toRelease') : toRelease'[i] # x
        BY <1>5, <3>1, ObjectsAre, ElementOfSeq, LenProperties
      <4>3. Times(toRelease', x) = 0
        BY <1>5, <4>2, TimesAre
      <4> QED BY <4>1, <4>3 DEF One
    <3> QED BY <1>5, <3>1
  <2> QED BY <1>4, <2>1, <2>2, <2>3, WaitsAre DEF Waits
<1>7. \A x \in Object : refs'[x] = refs[x] + (Links(list', left', x) - Links(list, left, x))
                                     + (Waits(x)' - Waits(x))
  <2> TAKE x \in Object
  <2>1. refs'[x] = refs[x] + Links(list', left', x) - Links(list, left, x) + One(x = d)
    BY <1>2, <1>3
  <2>2. refs[x] \in Nat /\ Links(list', left', x) \in Nat /\ Links(list, left, x) \in Nat
    BY <1>4, LinksAre DEF Typed
  <2> QED BY <1>6, <2>1, <2>2
<1>8. refs' = [x \in Object |-> refs'[x]]
  BY <1>2
<1>9. m \in Module => ~Listed(list, m) /\ left[m] = Unlinked /\ Waits(m)' = 0
  <2> SUFFICES ASSUME m \in Module PROVE ~Listed(list, m) /\ left[m] = Unlinked /\ Waits(m)' = 0
    OBVIOUS
  <2>1. m \in FreshModule
    BY ObjectsAre
  <2>2. ~Listed(list, m) /\ left[m] = Unlinked /\ Waits(m) = 0 /\ m \in Object
    BY <2>1, FreshIs
  <2>3. m # d
    BY <1>1, <2>2
  <2> QED BY <1>6, <2>2, <2>3 DEF One
<1>10. RingsTyped'
  BY <1>2, <1>4, <1>5 DEF RingsTyped, Typed
<1>11. \A x \in Object \ {m} :
       /\ Waits(x)' = Waits(x) + One(x = Displaced(k))
       /\ SentIn(toEngine', x) = SentIn(toEngine, x)
       /\ x # Displaced(k) => (x \in leaked' <=> x \in leaked) /\ Times(retired', x) = Times(retired, x)
  BY <1>2, <1>6 DEF d
<1>12. Relinked(k, m)
  BY <1>2, <1>7, <1>8, <1>9, <1>10, <1>11 DEF Relinked
<1> QED BY <1>12, RelinkKeeps DEF FreshModule

LEMMA DrainSlotKeeps ==
  ASSUME IInv, DrainSlot,
         NEW k, k = Head(toEngine).slot, NEW m, m = Head(toEngine).object
  PROVE  IInv' /\ live \subseteq live'
<1> DEFINE d == Displaced(k)
<1>1. Typed /\ toEngine \in Seq(Command) /\ toEngine # <<>> /\ Head(toEngine) \in Command
      /\ Head(toEngine).kind = "slot"
  BY HeadTailProperties DEF IInv, Typed, DrainSlot
<1>2. k \in Slots /\ m \in Module \cup {none}
  BY <1>1, CommandsAre
<1>3. d \in Module \cup {none} /\ d \notin leaked /\ (d \in Module => Listed(list, d))
  BY <1>2, DisplacedIs
<1>4. /\ Relink(k, m) /\ phase # "gone" /\ Retire(d) /\ toEngine' = Tail(toEngine)
      /\ refs' = [x \in Object |-> refs[x] + Links(list', left', x) - Links(list, left, x)
                                     + (Taken(x, k) - Transferred(x, m))]
      /\ live' = {x \in live : refs'[x] # 0}
      /\ UNCHANGED <<sample, toRelease, deleting, phase>>
  BY DEF DrainSlot, InstallModuleInSlot, Recounted, Survivors
<1>5. \A x \in Object : Taken(x, k) = One(x = d) /\ Transferred(x, m) = One(x = m)
  BY DEF Taken, Transferred
<1> HIDE DEF d
<1>6. /\ retired' \in Seq(Retirable) /\ leaked' \subseteq Retirable
      /\ \A x \in Object : One(x \in leaked') + Times(retired', x)
                             = One(x \in leaked) + Times(retired, x) + One(x = d)
      /\ \A x \in Object : x # d => (x \in leaked' <=> x \in leaked) /\ Times(retired', x) = Times(retired, x)
  <2>1. d \in Retirable \cup {none}
    BY <1>3 DEF Retirable
  <2> QED BY <1>1, <1>3, <1>4, <2>1, RetireIs
<1>7. \A x \in Object : SentIn(toEngine', x) = SentIn(toEngine, x) - One(x = m)
  <2> TAKE x \in Object
  <2>1. SentIn(toEngine', x) = SentIn(toEngine, x) - One(m = x)
    BY <1>1, <1>4, SentTail
  <2> QED BY <2>1 DEF One
<1>8. \A x \in Object : One(x = m) \in Nat /\ One(x = d) \in Nat /\ (x # m => One(x = m) = 0)
                        /\ (x = m => One(x = m) = 1) /\ (x # d => One(x = d) = 0)
  BY DEF One
<1>9. \A x \in Object : /\ Waits(x)' = (Waits(x) + One(x = d)) - One(x = m)
                        /\ Waits(x) \in Nat
  <2> TAKE x \in Object
  <2>1. Waits(x)' = One(x \in leaked') + SentIn(toEngine', x) + Times(retired', x) + Times(toRelease, x)
    BY <1>4 DEF Waits
  <2>2. Times(retired', x) \in Nat /\ One(x \in leaked') \in Nat
    BY <1>6, TimesAre DEF One
  <2>3. One(x \in leaked') + Times(retired', x) = One(x \in leaked) + Times(retired, x) + One(x = d)
    BY <1>6
  <2>4. Waits(x) = One(x \in leaked) + SentIn(toEngine, x) + Times(retired, x) + Times(toRelease, x)
    BY DEF Waits
  <2>5. SentIn(toEngine, x) \in Nat /\ Times(retired, x) \in Nat /\ Times(toRelease, x) \in Nat
        /\ One(x \in leaked) \in Nat /\ Waits(x) \in Nat
    BY <1>1, WaitsAre
  <2>6. SentIn(toEngine', x) = SentIn(toEngine, x) - One(x = m) /\ One(x = m) \in Nat /\ One(x = d) \in Nat
    BY <1>7, <1>8
  <2> QED BY <2>1, <2>2, <2>3, <2>4, <2>5, <2>6
<1>10. \A x \in Object : refs'[x] = refs[x] + (Links(list', left', x) - Links(list, left, x))
                                     + (Waits(x)' - Waits(x))
  <2> TAKE x \in Object
  <2>1. refs'[x] = refs[x] + Links(list', left', x) - Links(list, left, x) + (One(x = d) - One(x = m))
    BY <1>4, <1>5
  <2>2. refs[x] \in Nat /\ Links(list', left', x) \in Nat /\ Links(list, left, x) \in Nat
    BY <1>1, LinksAre DEF Typed
  <2> QED BY <1>8, <1>9, <2>1, <2>2
<1>11. refs' = [x \in Object |-> refs'[x]]
  BY <1>4
<1>12. ASSUME m \in Module
       PROVE  ~Listed(list, m) /\ left[m] = Unlinked /\ Waits(m)' = 0 /\ m \in live
  <2>1. m \in Object /\ m # engine
    BY <1>12, ObjectsAre
  <2>2. SentIn(toEngine', m) \in Nat /\ SentIn(toEngine, m) \in Nat
    BY <1>1, <1>4, SentAre, HeadTailProperties
  <2>3. SentIn(toEngine, m) >= 1
    BY <1>7, <1>8, <2>1, <2>2
  <2>4. refs[m] = 1 /\ left[m] = Unlinked /\ refs[m] = Links(list, left, m) + Waits(m)
    BY <1>12, <2>2, <2>3 DEF IInv, Alone, Balance
  <2>5. Waits(m) >= 1 /\ Waits(m) \in Nat
    BY <1>1, <2>3, WaitsAre DEF Waits
  <2>6. Links(list, left, m) \in Nat
    BY LinksAre
  <2>7. Links(list, left, m) = 0 /\ Waits(m) = 1
    BY <2>4, <2>5, <2>6
  <2>8. ~Listed(list, m)
    BY <2>7, LinksAre DEF Listed
  <2>9. m # d
    BY <1>3, <1>12, <2>8
  <2>10. m \in live
    BY <2>1, <2>4 DEF IInv, Alive
  <2>11. Waits(m)' = (Waits(m) + One(m = d)) - One(m = m)
    BY <1>9, <2>1
  <2>12. Waits(m)' = 0
    BY <1>8, <2>1, <2>7, <2>9, <2>11
  <2> QED BY <2>12, <2>1, <2>4, <2>7, <2>8, <2>9, <2>10, <2>11
<1>13. live' = {x \in live \cup ({m} \ {none}) : refs'[x] # 0}
  BY <1>2, <1>4, <1>12
<1>14. RingsTyped'
  BY <1>1, <1>4, <1>6, HeadTailProperties DEF RingsTyped, Typed
<1>15. \A x \in Object \ {m} :
       /\ Waits(x)' = Waits(x) + One(x = Displaced(k))
       /\ SentIn(toEngine', x) = SentIn(toEngine, x)
       /\ x # Displaced(k) => (x \in leaked' <=> x \in leaked) /\ Times(retired', x) = Times(retired, x)
  <2> TAKE x \in Object \ {m}
  <2>1. SentIn(toEngine, x) \in Nat
    BY <1>1, SentAre
  <2> QED BY <1>6, <1>7, <1>8, <1>9, <2>1 DEF d
<1>16. Relinked(k, m)
  BY <1>1, <1>4, <1>10, <1>11, <1>12, <1>13, <1>14, <1>15 DEF Relinked
<1> QED BY <1>2, <1>16, RelinkKeeps

-----------------------------------------------------------------------------
(* The links that modules which were taken out have kept, apart from those *)
(* of the lists.                                                           *)

KeptTo(kept, x) ==
  Cardinality({m \in Module : kept[m].prev = x}) + Cardinality({m \in Module : kept[m].next = x})

LEMMA LinksSplit ==
  ASSUME NEW lists, NEW kept, NEW x
  PROVE  /\ KeptTo(kept, x) \in Nat
         /\ KeptTo(kept, x) = 0 <=> \A m \in Module : kept[m].prev # x /\ kept[m].next # x
         /\ Links(lists, kept, x) = (IF Listed(lists, x) THEN 2 ELSE 0) + KeptTo(kept, x)
<1> DEFINE before == {m \in Module : kept[m].prev = x}
           behind == {m \in Module : kept[m].next = x}
<1>1. before \in SUBSET Module /\ behind \in SUBSET Module /\ IsFiniteSet(Module)
  BY ObjectsAssumption
<1>2. IsFiniteSet(before) /\ IsFiniteSet(behind)
  BY <1>1, FS_Subset
<1>3. Cardinality(before) \in Nat /\ Cardinality(behind) \in Nat
      /\ (Cardinality(before) = 0 <=> before = {}) /\ (Cardinality(behind) = 0 <=> behind = {})
  BY <1>2, FS_CardinalityType, FS_EmptySet
<1>4. /\ KeptTo(kept, x) = Cardinality(before) + Cardinality(behind)
      /\ Links(lists, kept, x)
           = (IF Listed(lists, x) THEN 2 ELSE 0) + Cardinality(before) + Cardinality(behind)
  BY DEF Links, KeptTo, Listed
<1>5. before = {} /\ behind = {} <=> \A m \in Module : kept[m].prev # x /\ kept[m].next # x
  OBVIOUS
<1> HIDE DEF before, behind
<1> QED BY <1>3, <1>4, <1>5

LEMMA WaitsAfter ==
  ASSUME RingsTyped', NEW x
  PROVE  Waits(x)' \in Nat /\ SentIn(toEngine', x) \in Nat /\ Times(retired', x) \in Nat
         /\ Times(toRelease', x) \in Nat
<1>1. SentIn(toEngine', x) \in Nat /\ Times(retired', x) \in Nat /\ Times(toRelease', x) \in Nat
  BY SentAre, TimesAre DEF RingsTyped
<1>2. Waits(x)' = One(x \in leaked') + SentIn(toEngine', x) + Times(retired', x) + Times(toRelease', x)
  BY DEF Waits
<1> QED BY <1>1, <1>2 DEF One

(* Handing an object from one ring to the next.  No link that was kept     *)
(* changes; what is new is held by one ring, placed in a list, or a chain. *)
Handed(new, placed, made) ==
  /\ list' \in [Root -> Seq(Module)] /\ Once' /\ left' = left
  /\ \A x \in Module : Listed(list', x) <=> Listed(list, x) \/ x \in placed
  /\ \A c \in Chain \ live' : list'[c] = <<>>
  /\ new \subseteq (Module \cup Sample) \ live
  /\ placed \subseteq Module \ (live \cup new)
  /\ made \subseteq Chain \ live
  /\ live' = live \cup new \cup placed \cup made
  /\ refs' = [x \in Object |-> IF x \in new THEN 1 ELSE IF x \in placed THEN 2
                                 ELSE IF x \in made THEN 3 ELSE refs[x]]
  /\ RingsTyped'
  /\ sample' \in Sample \cup {none} /\ deleting' \in Root \cup {none}
  /\ phase' \in {"stopped", "running", "stopping", "destroying", "gone"}
  /\ \A x \in Module \cup {engine} : Waits(x)' = Waits(x) + One(x \in new)
  /\ \A x \in Sample : Waits(x)' + One(x = sample') = Waits(x) + One(x = sample) + One(x \in new)
  /\ \A x \in Chain : Waits(x)' + One(x = deleting') = Waits(x) + One(x = deleting) + One(x \in made)
  /\ \A x \in Module \ new : /\ SentIn(toEngine', x) # 0 => SentIn(toEngine, x) # 0
                             /\ x \in leaked' => x \in leaked
                             /\ Times(retired', x) <= Times(retired, x)

LEMMA HandedKeeps ==
  ASSUME IInv, NEW new, NEW placed, NEW made, Handed(new, placed, made), Life'
  PROVE  IInv'
<1>1. /\ left' = left /\ RingsTyped' /\ live' = live \cup new \cup placed \cup made
      /\ new \subseteq (Module \cup Sample) \ live
      /\ placed \subseteq Module \ (live \cup new) /\ made \subseteq Chain \ live
      /\ refs' = [x \in Object |-> IF x \in new THEN 1 ELSE IF x \in placed THEN 2
                                 ELSE IF x \in made THEN 3 ELSE refs[x]]
      /\ \A x \in Module : Listed(list', x) <=> Listed(list, x) \/ x \in placed
  BY DEF Handed
<1>2. Typed
  BY DEF IInv
<1>3. \A x \in new \cup placed \cup made :
        /\ x \in Object \ {engine} /\ x \notin live /\ refs[x] = 0 /\ ~Listed(list, x)
        /\ Waits(x) = 0 /\ Links(list, left, x) = 0 /\ x # sample /\ x \notin leaked
  <2> TAKE x \in new \cup placed \cup made
  <2>1. x \in Object \ {engine} /\ x \notin live
    BY <1>1, ObjectsAre
  <2> QED BY <2>1, Forgotten
<1>4. \A x \in Object : /\ x \notin new \cup placed \cup made =>
                              refs'[x] = refs[x] /\ (x \in live' <=> x \in live)
                        /\ x \in new => refs'[x] = 1
                        /\ x \in placed => refs'[x] = 2
                        /\ x \in made => refs'[x] = 3
  BY <1>1, ObjectsAre
<1>5. Typed'
  <2>1. refs' \in [Object -> Nat]
    BY <1>1, <1>2 DEF Typed
  <2>2. live' \subseteq Object
    BY <1>1, <1>2, ObjectsAre DEF Typed
  <2> QED BY <1>1, <1>2, <2>1, <2>2 DEF Typed, RingsTyped, Handed
<1>6. \A x \in Object : Waits(x) \in Nat /\ Waits(x)' \in Nat /\ refs[x] \in Nat
  BY <1>1, <1>2, WaitsAre, WaitsAfter DEF Typed
<1>7. \A x \in Object : /\ KeptTo(left, x) \in Nat
                        /\ Links(list, left, x) = (IF Listed(list, x) THEN 2 ELSE 0) + KeptTo(left, x)
                        /\ Links(list', left', x) = (IF Listed(list', x) THEN 2 ELSE 0) + KeptTo(left, x)
  BY <1>1, LinksSplit
<1>8. \A x : One(x \in new) = (IF x \in new THEN 1 ELSE 0) /\ One(x \in made) = (IF x \in made THEN 1 ELSE 0)
  BY DEF One
<1>9. ~Listed(list, engine) /\ ~Listed(list', engine)
  <2>1. \A r \in Root : list[r] \in Seq(Module) /\ list'[r] \in Seq(Module)
    BY <1>2, <1>5 DEF Typed
  <2> QED BY <2>1, RangeOfSeq, ObjectsAre DEF Listed
<1>10. Balance'
  <2>1. ASSUME NEW x \in Module PROVE refs'[x] = Links(list', left', x) + Waits(x)'
    <3>1. x \in Object /\ Waits(x)' = Waits(x) + One(x \in new) /\ refs[x] = Links(list, left, x) + Waits(x)
          /\ (Listed(list', x) <=> Listed(list, x) \/ x \in placed)
      BY <1>1, <1>2, ObjectsAre DEF Handed, IInv, Balance
    <3>2. CASE x \in new
      <4>1. refs'[x] = 1 /\ Waits(x)' = 1 /\ x \notin placed
        BY <1>1, <1>3, <1>4, <1>8, <3>1, <3>2
      <4> QED BY <1>3, <1>6, <1>7, <3>1, <3>2, <4>1
    <3>3. CASE x \in placed
      <4>1. refs'[x] = 2 /\ Waits(x)' = 0
        BY <1>1, <1>3, <1>4, <1>8, <3>1, <3>3
      <4> QED BY <1>3, <1>6, <1>7, <3>1, <3>3, <4>1
    <3>4. CASE x \notin new \cup placed
      <4>1. x \notin made
        BY <1>1, ObjectsAre
      <4>2. refs'[x] = refs[x] /\ Waits(x)' = Waits(x) + 0
        BY <1>4, <1>8, <3>1, <3>4, <4>1
      <4> QED BY <1>6, <1>7, <3>1, <3>4, <4>2
    <3> QED BY <3>2, <3>3, <3>4
  <2>2. ASSUME NEW x \in Sample PROVE refs'[x] = One(x = sample') + Waits(x)'
    <3>1. x \in Object /\ Waits(x)' + One(x = sample') = Waits(x) + One(x = sample) + One(x \in new)
          /\ refs[x] = One(x = sample) + Waits(x) /\ x \notin placed \cup made
      BY <1>1, ObjectsAre DEF Handed, IInv, Balance
    <3>2. refs'[x] = refs[x] + One(x \in new)
      BY <1>3, <1>4, <1>6, <1>8, <3>1
    <3>3. One(x = sample') \in Nat /\ One(x = sample) \in Nat /\ One(x \in new) \in Nat
      BY DEF One
    <3> QED BY <1>6, <3>1, <3>2, <3>3
  <2>3. ASSUME NEW x \in Chain PROVE refs'[x] = 3 * One(x \in live')
    <3>1. x \in Object /\ x \notin new \cup placed /\ refs[x] = 3 * One(x \in live)
      BY <1>1, ObjectsAre DEF IInv, Balance
    <3>2. CASE x \in made
      BY <1>1, <1>4, <3>1, <3>2 DEF One
    <3>3. CASE x \notin made
      BY <1>4, <3>1, <3>3
    <3> QED BY <3>2, <3>3
  <2>4. engine \in live' => refs'[engine] = Links(list', left', engine) + 3 + Waits(engine)'
    <3>1. engine \in Object /\ Waits(engine)' = Waits(engine) + One(engine \in new)
          /\ engine \notin new \cup placed \cup made
      BY <1>1, ObjectsAre DEF Handed
    <3>2. One(engine \in new) = 0 /\ refs'[engine] = refs[engine] /\ (engine \in live' <=> engine \in live)
      BY <1>4, <1>8, <3>1
    <3> QED BY <1>6, <1>7, <1>9, <3>1, <3>2 DEF IInv, Balance
  <2> QED BY <2>1, <2>2, <2>3, <2>4 DEF Balance
<1>11. Alive'
  <2> SUFFICES ASSUME NEW x \in Object PROVE x \in live' <=> refs'[x] # 0
    BY DEF Alive
  <2>1. CASE x \in new \cup placed \cup made
    BY <1>1, <1>4, <2>1
  <2>2. CASE x \notin new \cup placed \cup made
    BY <1>4, <2>2 DEF IInv, Alive
  <2> QED BY <2>1, <2>2
<1>12. \A x \in Module : x \in new => ~Listed(list', x)
  BY <1>1, <1>3
<1>13. Unmoved'
  <2> SUFFICES ASSUME NEW x \in Module, Listed(list', x)
               PROVE  left'[x] = Unlinked /\ x \notin leaked' /\ Times(retired', x) = 0
    BY DEF Unmoved
  <2>1. x \in Module \ new /\ Times(retired', x) \in Nat
    BY <1>1, <1>12, WaitsAfter
  <2>2. left[x] = Unlinked /\ x \notin leaked /\ Times(retired, x) = 0
    <3>1. CASE x \in placed
      <4>1. left[x] = Unlinked /\ x \notin leaked /\ Waits(x) = 0
        BY <1>3, <3>1 DEF IInv, LinksLive
      <4> QED BY <1>2, <4>1, WaitsAre DEF Waits
    <3>2. CASE x \notin placed
      BY <1>1, <3>2 DEF IInv, Unmoved
    <3> QED BY <3>1, <3>2
  <2> QED BY <1>1, <2>1, <2>2 DEF Handed
<1>14. LinksLive'
  BY <1>1 DEF IInv, LinksLive
<1>15. Alone'
  <2>1. ASSUME NEW x \in Module, SentIn(toEngine', x) # 0 PROVE refs'[x] = 1 /\ left'[x] = Unlinked
    <3>1. CASE x \in new
      <4>1. left[x] = Unlinked /\ x \in Object
        BY <1>3, <3>1 DEF IInv, LinksLive
      <4> QED BY <1>1, <1>4, <3>1, <4>1
    <3>2. CASE x \notin new
      <4>1. SentIn(toEngine, x) # 0 /\ x \in Object
        BY <2>1, <3>2, ObjectsAre DEF Handed
      <4>2. refs[x] = 1 /\ left[x] = Unlinked
        BY <4>1 DEF IInv, Alone
      <4>3. x \notin new \cup placed \cup made
        BY <1>3, <4>2
      <4> QED BY <1>1, <1>4, <4>1, <4>2, <4>3
    <3> QED BY <3>1, <3>2
  <2>2. ASSUME NEW x \in Sample PROVE refs'[x] \in {0, 1}
    <3>1. x \in Object /\ x \notin placed \cup made
      BY <1>1, ObjectsAre
    <3> QED BY <1>4, <3>1 DEF IInv, Alone
  <2> QED BY <2>1, <2>2 DEF Alone
<1>16. Carried'
  <2>1. ASSUME NEW x \in Chain PROVE One(x = deleting') + Waits(x)' = One(x \in live')
    <3>1. x \in Object /\ x \notin new \cup placed
      BY <1>1, ObjectsAre
    <3>2. Waits(x)' + One(x = deleting') = Waits(x) + One(x = deleting) + One(x \in made)
          /\ One(x = deleting) + Waits(x) = One(x \in live)
      BY DEF Handed, IInv, Carried
    <3>3. One(x = deleting') \in Nat /\ One(x = deleting) \in Nat /\ One(x \in made) \in Nat
      BY DEF One
    <3>4. One(x \in live') = One(x \in live) + One(x \in made)
      BY <1>1, <3>1 DEF One
    <3> QED BY <1>6, <3>1, <3>2, <3>3, <3>4
  <2> QED BY <2>1 DEF Carried, Handed
<1>17. Aged'
  <2>1. PICK top \in Nat : \E age \in [Module -> 0 .. top] : Older(age)
    BY DEF IInv, Aged
  <2>2. PICK age \in [Module -> 0 .. top] : Older(age)
    BY <2>1
  <2>3. Older(age)'
    BY <1>1, <2>2 DEF Older
  <2> QED BY <2>1, <2>2, <2>3 DEF Aged
<1> QED BY <1>5, <1>10, <1>11, <1>13, <1>14, <1>15, <1>16, <1>17 DEF IInv, Handed

-----------------------------------------------------------------------------
(* The ways to hand something on.                                          *)

\* Where the lists stay, and what is new has an owner of its own.
Passed(new) ==
  /\ UNCHANGED <<list, left>> /\ RingsTyped'
  /\ sample' \in Sample \cup {none} /\ deleting' \in Root \cup {none}
  /\ phase' \in {"stopped", "running", "stopping", "destroying", "gone"}
  /\ new \subseteq (Module \cup Sample) \ live /\ live' = live \cup new
  /\ refs' = [x \in Object |-> refs[x] + One(x \in new)]
  /\ \A x \in Object : Waits(x)' + One(x = sample') + One(x \in Chain /\ x = deleting')
                         = Waits(x) + One(x = sample) + One(x \in Chain /\ x = deleting) + One(x \in new)
  /\ \A x \in Module \ new : SentIn(toEngine', x) # 0 => SentIn(toEngine, x) # 0
  /\ \A x \in Module \ new : x \in leaked' => x \in leaked
  /\ \A x \in Module \ new : Times(retired', x) <= Times(retired, x)

LEMMA PassedKeeps ==
  ASSUME IInv, NEW new, Passed(new), Life'
  PROVE  IInv'
<1>1. /\ UNCHANGED <<list, left>> /\ RingsTyped' /\ new \subseteq (Module \cup Sample) \ live
      /\ live' = live \cup new /\ sample' \in Sample \cup {none} /\ deleting' \in Root \cup {none}
      /\ phase' \in {"stopped", "running", "stopping", "destroying", "gone"}
  BY DEF Passed
<1>2. /\ list' \in [Root -> Seq(Module)] /\ Once' /\ left' = left
      /\ \A x \in Module : Listed(list', x) <=> Listed(list, x)
      /\ \A c \in Chain \ live' : list'[c] = <<>>
  BY <1>1 DEF IInv, Typed, Once, Carried
<1>3. refs' = [x \in Object |-> IF x \in new THEN 1 ELSE IF x \in {} THEN 2
                                  ELSE IF x \in {} THEN 3 ELSE refs[x]]
  <2>1. \A x \in Object : refs[x] \in Nat /\ (x \in new => refs[x] = 0)
    BY <1>1 DEF IInv, Alive, Typed
  <2> QED BY <2>1 DEF Passed, One
<1>4. \A x \in Object : Waits(x) \in Nat /\ Waits(x)' \in Nat
  BY <1>1, WaitsAre, WaitsAfter DEF IInv
<1>5. \A x \in Module \cup {engine} : Waits(x)' = Waits(x) + One(x \in new)
  <2> TAKE x \in Module \cup {engine}
  <2>1. x \in Object /\ x \notin Chain /\ x # sample /\ x # sample'
    BY <1>1, ObjectsAre DEF IInv, Typed
  <2>2. Waits(x)' + One(x = sample') + One(x \in Chain /\ x = deleting')
          = Waits(x) + One(x = sample) + One(x \in Chain /\ x = deleting) + One(x \in new)
    BY <2>1 DEF Passed
  <2> QED BY <1>4, <2>1, <2>2 DEF One
<1>6. \A x \in Sample : Waits(x)' + One(x = sample') = Waits(x) + One(x = sample) + One(x \in new)
  <2> TAKE x \in Sample
  <2>1. x \in Object /\ x \notin Chain
    BY ObjectsAre
  <2>2. Waits(x)' + One(x = sample') + One(x \in Chain /\ x = deleting')
          = Waits(x) + One(x = sample) + One(x \in Chain /\ x = deleting) + One(x \in new)
    BY <2>1 DEF Passed
  <2> QED BY <1>4, <2>1, <2>2 DEF One
<1>7. \A x \in Chain : Waits(x)' + One(x = deleting') = Waits(x) + One(x = deleting) + One(x \in {})
  <2> TAKE x \in Chain
  <2>1. x \in Object /\ x # sample /\ x # sample' /\ x \notin new
    BY <1>1, ObjectsAre DEF IInv, Typed
  <2>2. Waits(x)' + One(x = sample') + One(x \in Chain /\ x = deleting')
          = Waits(x) + One(x = sample) + One(x \in Chain /\ x = deleting) + One(x \in new)
    BY <2>1 DEF Passed
  <2> QED BY <1>4, <2>1, <2>2 DEF One
<1>8. Handed(new, {}, {})
  <2>1. \A x \in Module \ new : /\ SentIn(toEngine', x) # 0 => SentIn(toEngine, x) # 0
                                /\ x \in leaked' => x \in leaked
                                /\ Times(retired', x) <= Times(retired, x)
    BY DEF Passed
  <2> QED BY <1>1, <1>2, <1>3, <1>5, <1>6, <1>7, <2>1 DEF Handed
<1> QED BY <1>8, HandedKeeps

\* What the rings hold, each on its own.
LEMMA WaitsAll ==
  ASSUME Typed, RingsTyped'
  PROVE  \A x \in Object :
           /\ Waits(x) = One(x \in leaked) + SentIn(toEngine, x) + Times(retired, x) + Times(toRelease, x)
           /\ Waits(x)' = One(x \in leaked') + SentIn(toEngine', x) + Times(retired', x) + Times(toRelease', x)
           /\ One(x \in leaked) \in Nat /\ SentIn(toEngine, x) \in Nat
           /\ Times(retired, x) \in Nat /\ Times(toRelease, x) \in Nat
           /\ One(x \in leaked') \in Nat /\ SentIn(toEngine', x) \in Nat
           /\ Times(retired', x) \in Nat /\ Times(toRelease', x) \in Nat
<1> SUFFICES ASSUME NEW x \in Object
             PROVE  /\ Waits(x) = One(x \in leaked) + SentIn(toEngine, x) + Times(retired, x) + Times(toRelease, x)
                    /\ Waits(x)' = One(x \in leaked') + SentIn(toEngine', x) + Times(retired', x) + Times(toRelease', x)
                    /\ One(x \in leaked) \in Nat /\ SentIn(toEngine, x) \in Nat
                    /\ Times(retired, x) \in Nat /\ Times(toRelease, x) \in Nat
                    /\ One(x \in leaked') \in Nat /\ SentIn(toEngine', x) \in Nat
                    /\ Times(retired', x) \in Nat /\ Times(toRelease', x) \in Nat
  OBVIOUS
<1>1. SentIn(toEngine', x) \in Nat /\ Times(retired', x) \in Nat /\ Times(toRelease', x) \in Nat
  BY SentAre, TimesAre DEF RingsTyped
<1>2. SentIn(toEngine, x) \in Nat /\ Times(retired, x) \in Nat /\ Times(toRelease, x) \in Nat
  BY SentAre, TimesAre DEF Typed
<1> QED BY <1>1, <1>2 DEF One, Waits

LEMMA FailsKeeps ==
  ASSUME IInv, NEW k \in Slots, NEW m \in FreshModule, SelectSlotFails(k, m)
  PROVE  IInv' /\ live \subseteq live'
<1>1. Typed /\ m \in Module /\ m \in Object /\ m \notin live /\ m \notin leaked /\ m # none
  BY FreshIs, ObjectsAre DEF IInv, FreshModule
<1>2. /\ phase # "gone" /\ Retire(m) /\ refs' = [refs EXCEPT ![m] = 1] /\ live' = live \cup {m}
      /\ UNCHANGED <<list, left, sample, toEngine, toRelease, deleting, phase>>
  BY DEF SelectSlotFails, InFlush
<1>3. /\ retired' \in Seq(Retirable) /\ leaked' \subseteq Retirable
      /\ \A x \in Object : One(x \in leaked') + Times(retired', x)
                             = One(x \in leaked) + Times(retired, x) + One(x = m)
      /\ \A x \in Object : x # m => (x \in leaked' <=> x \in leaked) /\ Times(retired', x) = Times(retired, x)
  <2>1. m \in Retirable \cup {none}
    BY <1>1 DEF Retirable
  <2> QED BY <1>1, <1>2, <2>1, RetireIs
<1>4. RingsTyped'
  BY <1>1, <1>2, <1>3 DEF RingsTyped, Typed
<1>5. \A x \in Object : Waits(x)' = Waits(x) + One(x = m) /\ Waits(x) \in Nat
                        /\ Times(retired, x) \in Nat
  <2> TAKE x \in Object
  <2>1. Waits(x) \in Nat
    BY <1>1, WaitsAre
  <2>2. toEngine' = toEngine /\ toRelease' = toRelease /\ One(x = m) \in Nat
    BY <1>2 DEF One
  <2>3. /\ Waits(x) = One(x \in leaked) + SentIn(toEngine, x) + Times(retired, x) + Times(toRelease, x)
        /\ Waits(x)' = One(x \in leaked') + SentIn(toEngine', x) + Times(retired', x) + Times(toRelease', x)
        /\ One(x \in leaked) \in Nat /\ SentIn(toEngine, x) \in Nat
        /\ Times(retired, x) \in Nat /\ Times(toRelease, x) \in Nat
        /\ One(x \in leaked') \in Nat /\ Times(retired', x) \in Nat
    BY <1>1, <1>4, WaitsAll
  <2>4. One(x \in leaked') + Times(retired', x) = One(x \in leaked) + Times(retired, x) + One(x = m)
    BY <1>3
  <2> QED BY <2>1, <2>2, <2>3, <2>4
<1>6. Passed({m})
  <2>1. \A x \in Object : One(x \in {m}) = One(x = m)
    BY DEF One
  <2>2. refs' = [x \in Object |-> refs[x] + One(x \in {m})]
    <3>1. \A x \in Object : refs[x] \in Nat /\ (x = m => refs[x] = 0)
      BY <1>1 DEF IInv, Alive, Typed
    <3>2. \A x \in Object : refs[x] + One(x \in {m}) = IF x = m THEN 1 ELSE refs[x]
      BY <3>1 DEF One
    <3>3. refs' = [x \in Object |-> IF x = m THEN 1 ELSE refs[x]]
      BY <1>1, <1>2 DEF Typed
    <3> QED BY <3>2, <3>3
  <2>3. /\ \A x \in Module \ {m} : SentIn(toEngine', x) # 0 => SentIn(toEngine, x) # 0
        /\ \A x \in Module \ {m} : x \in leaked' => x \in leaked
        /\ \A x \in Module \ {m} : Times(retired', x) <= Times(retired, x)
    BY <1>2, <1>3, <1>5, ObjectsAre
  <2>4. \A x \in Object : Waits(x)' + One(x = sample') + One(x \in Chain /\ x = deleting')
                         = Waits(x) + One(x = sample) + One(x \in Chain /\ x = deleting) + One(x \in {m})
    <3> TAKE x \in Object
    <3>1. Waits(x)' = Waits(x) + One(x \in {m}) /\ Waits(x) \in Nat
      BY <1>5, <2>1
    <3>2. sample' = sample /\ deleting' = deleting
      BY <1>2
    <3> QED BY <3>1, <3>2 DEF One
  <2> QED BY <1>1, <1>2, <1>4, <2>2, <2>3, <2>4 DEF Passed, Typed
<1>7. Life'
  BY <1>1, <1>2 DEF IInv, Life
<1> QED BY <1>2, <1>6, <1>7, PassedKeeps

LEMMA LetGoAll ==
  ASSUME NEW y \in Module \cup Sample \cup {none}
  PROVE  /\ LetGo(y) \in Seq(Module \cup {engine} \cup Sample)
         /\ \A x \in Object : Times(LetGo(y), x) = One(x = y)
<1> DEFINE S == Module \cup {engine} \cup Sample
<1>1. none \notin S /\ Object = S \cup Chain /\ (\A x \in Chain : x \notin S) /\ y \in S \cup {none}
  BY ObjectsAre
<1> HIDE DEF S
<1>2. LetGo(y) \in Seq(S) /\ \A x \in S : Times(LetGo(y), x) = One(x = y)
  BY <1>1, LetGoIs
<1>3. ASSUME NEW x \in Chain PROVE Times(LetGo(y), x) = One(x = y)
  <2>1. x \notin S /\ x # y
    BY <1>1, ObjectsAre
  <2>2. Len(LetGo(y)) \in Nat /\ \A i \in 1 .. Len(LetGo(y)) : LetGo(y)[i] # x
    BY <1>2, <2>1, ElementOfSeq, LenProperties
  <2>3. Times(LetGo(y), x) = 0
    BY <1>2, <2>2, TimesAre
  <2> QED BY <2>1, <2>3 DEF One
<1> QED BY <1>1, <1>2, <1>3 DEF S

\* The main thread's first reference to a module it built.
LEMMA QueuedKeeps ==
  ASSUME IInv, NEW k \in Slots, NEW m \in FreshModule \cup {none}, PublishSlotQueued(k, m)
  PROVE  IInv'
<1>1. /\ Typed /\ m \in Module \cup {none} /\ (m # none => m \in Module \ live) /\ none \notin Object
  BY ObjectsAre DEF IInv, FreshModule
<1>2. /\ phase = "running" /\ toRelease = <<>> /\ deleting = none
      /\ live' = live \cup ({m} \ {none}) /\ refs' = [x \in Object |-> refs[x] + One(x = m)]
      /\ UNCHANGED <<list, left, sample, retired, leaked, deleting, phase>>
      /\ \/ toRelease' = LetGo(m) /\ toEngine' = toEngine
         \/ toEngine' = Append(toEngine, Setting(k, m)) /\ toRelease' = toRelease
  BY DEF PublishSlotQueued, MainIdle
<1>3. Setting(k, m) \in Command /\ Setting(k, m).object = m
  BY <1>1, CommandsAre
<1>4. /\ LetGo(m) \in Seq(Module \cup {engine} \cup Sample)
      /\ \A x \in Object : Times(LetGo(m), x) = One(x = m)
  BY <1>1, LetGoAll
<1>5. RingsTyped'
  <2>0. toEngine \in Seq(Command)
    BY <1>1 DEF Typed
  <2>1. toEngine' \in Seq(Command)
    BY <1>2, <1>3, <2>0, AppendProperties
  <2> QED BY <1>1, <1>2, <1>4, <2>1 DEF RingsTyped, Typed
<1>6. \A x \in Object : One(m = x) = One(x = m) /\ One(x = m) \in Nat /\ (x # m => One(x = m) = 0)
                        /\ One(x \in {m} \ {none}) = One(x = m) /\ One(x \in {}) = 0
  BY <1>1 DEF One
<1>7. \A x \in Object : /\ Waits(x)' = Waits(x) + One(x = m) /\ Waits(x) \in Nat
                        /\ Times(retired, x) \in Nat
                        /\ x # m /\ SentIn(toEngine', x) # 0 => SentIn(toEngine, x) # 0
  <2> TAKE x \in Object
  <2>1. Waits(x) \in Nat /\ Times(toRelease, x) = 0
    BY <1>1, <1>2, WaitsAre, NoneOf
  <2>2. CASE toRelease' = LetGo(m) /\ toEngine' = toEngine
    BY <1>1, <1>2, <1>4, <1>5, <1>6, <2>1, <2>2, WaitsAll
  <2>3. CASE toEngine' = Append(toEngine, Setting(k, m)) /\ toRelease' = toRelease
    <3>1. SentIn(toEngine', x) = SentIn(toEngine, x) + One(x = m)
      BY <1>1, <1>3, <1>6, <2>3, SentAppend DEF Typed
    <3> QED BY <1>1, <1>2, <1>5, <1>6, <2>1, <2>3, <3>1, WaitsAll
  <2> QED BY <1>2, <2>2, <2>3
<1>8. Passed({m} \ {none})
  <2>2. refs' = [x \in Object |-> refs[x] + One(x \in {m} \ {none})]
    BY <1>2, <1>6
  <2>3. /\ \A x \in Module \ ({m} \ {none}) : SentIn(toEngine', x) # 0 => SentIn(toEngine, x) # 0
        /\ \A x \in Module \ ({m} \ {none}) : x \in leaked' => x \in leaked
        /\ \A x \in Module \ ({m} \ {none}) : Times(retired', x) <= Times(retired, x)
    BY <1>1, <1>2, <1>7, ObjectsAre
  <2>4. \A x \in Object : Waits(x)' + One(x = sample') + One(x \in Chain /\ x = deleting')
           = Waits(x) + One(x = sample) + One(x \in Chain /\ x = deleting) + One(x \in {m} \ {none})
    <3> TAKE x \in Object
    <3>1. Waits(x)' = Waits(x) + One(x \in {m} \ {none}) /\ Waits(x) \in Nat
      BY <1>6, <1>7
    <3> QED BY <1>2, <3>1 DEF One
  <2>5. {m} \ {none} \subseteq (Module \cup Sample) \ live
    BY <1>1
  <2> QED BY <1>1, <1>2, <1>5, <2>2, <2>3, <2>4, <2>5 DEF Passed, Typed
<1>9. Life'
  BY <1>1, <1>2 DEF IInv, Life
<1> QED BY <1>8, <1>9, PassedKeeps

\* The sample the main thread replaces.
LEMMA SampleKeeps ==
  ASSUME IInv, NEW s \in (Sample \ live) \cup {none}, PublishSample(s)
  PROVE  IInv'
<1>1. /\ Typed /\ s \in Sample \cup {none} /\ (s # none => s \in Sample \ live) /\ none \notin Object
      /\ sample \in Sample \cup {none}
  BY ObjectsAre DEF IInv, Typed
<1>2. /\ phase \in {"running", "stopped"} /\ toRelease = <<>> /\ deleting = none
      /\ live' = live \cup ({s} \ {none}) /\ refs' = [x \in Object |-> refs[x] + One(x = s)]
      /\ UNCHANGED <<list, left, retired, leaked, deleting, phase>>
      /\ \/ /\ toRelease' = LetGo(s) /\ toEngine' = toEngine /\ sample' = sample
         \/ /\ toEngine' = Append(toEngine, Sampling(s)) /\ toRelease' = toRelease /\ sample' = sample
            /\ phase = "running"
         \/ /\ sample' = s /\ toRelease' = LetGo(sample) /\ toEngine' = toEngine
  BY DEF PublishSample, MainIdle
<1>3. Sampling(s) \in Command /\ Sampling(s).object = s
  BY <1>1, CommandsAre
<1>4. /\ LetGo(s) \in Seq(Module \cup {engine} \cup Sample)
      /\ LetGo(sample) \in Seq(Module \cup {engine} \cup Sample)
      /\ \A x \in Object : Times(LetGo(s), x) = One(x = s) /\ Times(LetGo(sample), x) = One(x = sample)
  BY <1>1, LetGoAll
<1>5. RingsTyped'
  <2>0. toEngine \in Seq(Command)
    BY <1>1 DEF Typed
  <2>1. toEngine' \in Seq(Command)
    BY <1>2, <1>3, <2>0, AppendProperties
  <2> QED BY <1>1, <1>2, <1>4, <2>1 DEF RingsTyped, Typed
<1>6. \A x \in Object : One(s = x) = One(x = s) /\ One(x = s) \in Nat /\ One(x = sample) \in Nat
                        /\ One(x \in {s} \ {none}) = One(x = s) /\ (x # s => One(x = s) = 0)
  BY <1>1 DEF One
<1>7. \A x \in Object : /\ Waits(x)' + One(x = sample') = Waits(x) + One(x = sample) + One(x = s)
                        /\ x # s /\ SentIn(toEngine', x) # 0 => SentIn(toEngine, x) # 0
  <2> TAKE x \in Object
  <2>1. Times(toRelease, x) = 0
    BY <1>2, NoneOf
  <2>2. /\ Waits(x) = One(x \in leaked) + SentIn(toEngine, x) + Times(retired, x) + Times(toRelease, x)
        /\ Waits(x)' = One(x \in leaked') + SentIn(toEngine', x) + Times(retired', x) + Times(toRelease', x)
        /\ One(x \in leaked) \in Nat /\ SentIn(toEngine, x) \in Nat
        /\ Times(retired, x) \in Nat /\ Times(toRelease, x) \in Nat
        /\ retired' = retired /\ leaked' = leaked
    BY <1>1, <1>2, <1>5, WaitsAll
  <2>3. CASE toRelease' = LetGo(s) /\ toEngine' = toEngine /\ sample' = sample
    <3>1. Times(toRelease', x) = One(x = s)
      BY <1>4, <2>3
    <3> QED BY <1>6, <2>1, <2>2, <2>3, <3>1
  <2>4. CASE toEngine' = Append(toEngine, Sampling(s)) /\ toRelease' = toRelease /\ sample' = sample
    <3>0. toEngine \in Seq(Command)
      BY <1>1 DEF Typed
    <3>1. SentIn(toEngine', x) = SentIn(toEngine, x) + One(x = s)
      BY <1>3, <1>6, <2>4, <3>0, SentAppend
    <3> QED BY <1>6, <2>1, <2>2, <2>4, <3>1
  <2>5. CASE sample' = s /\ toRelease' = LetGo(sample) /\ toEngine' = toEngine
    <3>1. Times(toRelease', x) = One(x = sample) /\ One(x = sample') = One(x = s)
      BY <1>4, <2>5
    <3> QED BY <1>6, <2>1, <2>2, <2>5, <3>1
  <2> QED BY <1>2, <2>3, <2>4, <2>5
<1>8. Passed({s} \ {none})
  <2>1. refs' = [x \in Object |-> refs[x] + One(x \in {s} \ {none})]
    BY <1>2, <1>6
  <2>2. /\ \A x \in Module \ ({s} \ {none}) : SentIn(toEngine', x) # 0 => SentIn(toEngine, x) # 0
        /\ \A x \in Module \ ({s} \ {none}) : x \in leaked' => x \in leaked
        /\ \A x \in Module \ ({s} \ {none}) : Times(retired', x) <= Times(retired, x)
    <3>1. \A x \in Module : x \in Object /\ x # s /\ Times(retired, x) \in Nat
      BY <1>1, ObjectsAre, WaitsAre
    <3> QED BY <1>2, <1>7, <3>1
  <2>3. \A x \in Object : Waits(x)' + One(x = sample') + One(x \in Chain /\ x = deleting')
           = Waits(x) + One(x = sample) + One(x \in Chain /\ x = deleting) + One(x \in {s} \ {none})
    <3> TAKE x \in Object
    <3>1. Waits(x)' + One(x = sample') = Waits(x) + One(x = sample) + One(x \in {s} \ {none})
      BY <1>6, <1>7
    <3>2. One(x \in Chain /\ x = deleting') = 0 /\ One(x \in Chain /\ x = deleting) = 0
      BY <1>1, <1>2 DEF One
    <3>3. Waits(x) \in Nat /\ Waits(x)' \in Nat /\ One(x = sample') \in Nat /\ One(x = sample) \in Nat
          /\ One(x \in {s} \ {none}) \in Nat
      BY <1>1, <1>5, WaitsAre, WaitsAfter DEF One
    <3> QED BY <3>1, <3>2, <3>3
  <2>4. {s} \ {none} \subseteq (Module \cup Sample) \ live
    BY <1>1
  <2>5. sample' \in Sample \cup {none}
    BY <1>1, <1>2
  <2> QED BY <1>1, <1>2, <1>5, <2>1, <2>2, <2>3, <2>4, <2>5 DEF Passed, Typed
<1>9. Life'
  BY <1>1, <1>2 DEF IInv, Life
<1> QED BY <1>8, <1>9, PassedKeeps

\* ... and the one the engine is given.
LEMMA DrainSampleKeeps ==
  ASSUME IInv, DrainSample, NEW s, s = Head(toEngine).object
  PROVE  IInv' /\ live \subseteq live'
<1>1. Typed /\ toEngine \in Seq(Command) /\ toEngine # <<>> /\ Head(toEngine) \in Command
      /\ Head(toEngine).kind = "sample"
  BY HeadTailProperties DEF IInv, Typed, DrainSample
<1>2. s \in Sample \cup {none} /\ sample \in Sample \cup {none}
  BY <1>1, CommandsAre DEF Typed
<1>3. /\ phase \in {"running", "stopping"} /\ sample' = s /\ Retire(sample) /\ toEngine' = Tail(toEngine)
      /\ UNCHANGED <<list, left, refs, live, toRelease, deleting, phase>>
  BY DEF DrainSample
<1>4. sample \notin leaked
  <2>1. ASSUME sample \in leaked PROVE FALSE
    <3>1. sample \in Sample /\ Waits(sample) >= 1 /\ Waits(sample) \in Nat
      <4>1. sample \in Sample
        BY <1>1, <1>2, <2>1, ObjectsAre DEF Typed, Retirable
      <4>2. One(sample \in leaked) = 1
        BY <2>1 DEF One
      <4> QED BY <1>1, <4>1, <4>2, WaitsAre DEF Waits
    <3>2. refs[sample] = 1 + Waits(sample) /\ refs[sample] \in {0, 1}
      BY <3>1 DEF IInv, Balance, Alone, One
    <3> QED BY <3>1, <3>2
  <2> QED BY <2>1
<1>5. /\ retired' \in Seq(Retirable) /\ leaked' \subseteq Retirable
      /\ \A x \in Object : One(x \in leaked') + Times(retired', x)
                             = One(x \in leaked) + Times(retired, x) + One(x = sample)
      /\ \A x \in Object : x # sample =>
           (x \in leaked' <=> x \in leaked) /\ Times(retired', x) = Times(retired, x)
  <2> DEFINE y == sample
  <2>1. y \in Retirable \cup {none} /\ y \notin leaked /\ Retire(y)
    BY <1>2, <1>3, <1>4 DEF Retirable
  <2> QED BY <1>1, <2>1, RetireIs
<1>6. RingsTyped'
  BY <1>1, <1>3, <1>5, HeadTailProperties DEF RingsTyped, Typed
<1>7. \A x \in Object : /\ Waits(x)' + One(x = sample') = Waits(x) + One(x = sample)
                        /\ SentIn(toEngine', x) # 0 => SentIn(toEngine, x) # 0
  <2> TAKE x \in Object
  <2>1. SentIn(toEngine', x) = SentIn(toEngine, x) - One(x = s)
    <3>1. SentIn(Tail(toEngine), x) = SentIn(toEngine, x) - One(s = x)
      BY <1>1, SentTail
    <3> QED BY <1>3, <3>1 DEF One
  <2>2. /\ Waits(x) = One(x \in leaked) + SentIn(toEngine, x) + Times(retired, x) + Times(toRelease, x)
        /\ Waits(x)' = One(x \in leaked') + SentIn(toEngine', x) + Times(retired', x) + Times(toRelease', x)
        /\ One(x \in leaked) \in Nat /\ SentIn(toEngine, x) \in Nat
        /\ Times(retired, x) \in Nat /\ Times(toRelease, x) \in Nat /\ SentIn(toEngine', x) \in Nat
        /\ One(x \in leaked') \in Nat /\ Times(retired', x) \in Nat /\ toRelease' = toRelease
    BY <1>1, <1>3, <1>6, WaitsAll
  <2>3. One(x \in leaked') + Times(retired', x) = One(x \in leaked) + Times(retired, x) + One(x = sample)
    BY <1>5
  <2>4. One(x = sample) \in Nat /\ One(x = s) \in Nat /\ One(x = sample') = One(x = s)
    BY <1>3 DEF One
  <2> QED BY <2>1, <2>2, <2>3, <2>4
<1>8. Passed({})
  <2>0. \A x : One(x \in {}) = 0
    BY DEF One
  <2>1. refs' = [x \in Object |-> refs[x] + One(x \in {})]
    <3>1. \A x \in Object : refs[x] \in Nat
      BY <1>1 DEF Typed
    <3>2. refs' = [x \in Object |-> refs[x]]
      BY <1>1, <1>3 DEF Typed
    <3> QED BY <2>0, <3>1, <3>2
  <2>2. /\ \A x \in Module : SentIn(toEngine', x) # 0 => SentIn(toEngine, x) # 0
        /\ \A x \in Module : x \in leaked' => x \in leaked
        /\ \A x \in Module : Times(retired', x) <= Times(retired, x)
    <3>1. \A x \in Module : x \in Object /\ x # sample /\ Times(retired, x) \in Nat
      BY <1>1, <1>2, ObjectsAre, WaitsAre
    <3> QED BY <1>5, <1>7, <3>1
  <2>3. \A x \in Object : Waits(x)' + One(x = sample') + One(x \in Chain /\ x = deleting')
           = Waits(x) + One(x = sample) + One(x \in Chain /\ x = deleting) + One(x \in {})
    <3> TAKE x \in Object
    <3>1. Waits(x)' + One(x = sample') = Waits(x) + One(x = sample)
      BY <1>7
    <3>2. One(x \in Chain /\ x = deleting') = One(x \in Chain /\ x = deleting)
      BY <1>3
    <3>3. Waits(x) \in Nat /\ Waits(x)' \in Nat /\ One(x = sample') \in Nat /\ One(x = sample) \in Nat
          /\ One(x \in Chain /\ x = deleting) \in Nat
      BY <1>1, <1>6, WaitsAre, WaitsAfter DEF One
    <3> QED BY <2>0, <3>1, <3>2, <3>3
  <2> QED BY <1>1, <1>2, <1>3, <1>6, <2>1, <2>2, <2>3 DEF Passed, Typed
<1>9. Life'
  BY <1>1, <1>3 DEF IInv, Life
<1> QED BY <1>3, <1>8, <1>9, PassedKeeps

\* Retirements drained, and what the plug-in lets go of as it is destroyed.
LEMMA DrainRetiredKeeps ==
  ASSUME IInv, DrainRetired, NEW y, y = Head(retired)
  PROVE  IInv'
<1>1. /\ Typed /\ retired \in Seq(Retirable) /\ retired # <<>> /\ y \in Retirable /\ retired' = Tail(retired)
      /\ toRelease = <<>> /\ deleting = none /\ phase \in {"running", "stopped", "destroying"}
      /\ UNCHANGED <<list, left, refs, live, sample, toEngine, leaked, phase>>
  BY HeadTailProperties DEF IInv, Typed, DrainRetired, MainIdle
<1>2. \/ y \in Chain /\ deleting' = y /\ toRelease' = toRelease
      \/ y \in Module \cup Sample /\ toRelease' = <<y>> /\ deleting' = deleting
  BY <1>1 DEF DrainRetired, Retirable
<1>3. /\ toRelease' \in Seq(Module \cup {engine} \cup Sample)
      /\ \A x \in Object : Times(toRelease', x) = One(x = y /\ y \notin Chain)
      /\ deleting' \in Chain \cup {none} /\ (deleting' = y <=> y \in Chain)
      /\ deleting' # none => deleting' = y
  <2>0. y \in Object /\ y # none
    BY <1>1, ObjectsAre DEF Retirable
  <2>1. CASE y \in Chain /\ deleting' = y /\ toRelease' = toRelease
    BY <1>1, <2>0, <2>1, NoneOf, EmptySeq DEF One
  <2>2. CASE y \in Module \cup Sample /\ toRelease' = <<y>> /\ deleting' = deleting
    <3>1. toRelease' = LetGo(y) /\ y \notin Chain
      BY <2>0, <2>2, ObjectsAre DEF LetGo
    <3>2. LetGo(y) \in Seq(Module \cup {engine} \cup Sample) /\ \A x \in Object : Times(LetGo(y), x) = One(x = y)
      BY <2>2, LetGoAll
    <3>3. deleting' = none
      BY <1>1, <2>2
    <3> QED BY <2>0, <3>1, <3>2, <3>3 DEF One
  <2> QED BY <1>2, <2>1, <2>2
<1>4. RingsTyped'
  BY <1>1, <1>3, HeadTailProperties DEF RingsTyped, Typed
<1>5. \A x \in Object : /\ Times(retired', x) = Times(retired, x) - One(x = y)
                        /\ Times(retired', x) \in Nat /\ Times(retired, x) \in Nat
                        /\ Waits(x)' + One(x \in Chain /\ x = deleting') = Waits(x)
  <2> TAKE x \in Object
  <2>1. Times(retired', x) = Times(retired, x) - One(x = y)
    <3>1. Times(Tail(retired), x) = Times(retired, x) - One(y = x)
      BY <1>1, TimesTail
    <3> QED BY <1>1, <3>1 DEF One
  <2>2. /\ Waits(x) = One(x \in leaked) + SentIn(toEngine, x) + Times(retired, x) + Times(toRelease, x)
        /\ Waits(x)' = One(x \in leaked') + SentIn(toEngine', x) + Times(retired', x) + Times(toRelease', x)
        /\ One(x \in leaked) \in Nat /\ SentIn(toEngine, x) \in Nat
        /\ Times(retired, x) \in Nat /\ Times(retired', x) \in Nat
        /\ toEngine' = toEngine /\ leaked' = leaked
    BY <1>1, <1>4, WaitsAll
  <2>3. Times(toRelease', x) = One(x = y /\ y \notin Chain) /\ Times(toRelease, x) = 0
    BY <1>1, <1>3, NoneOf
  <2>4. One(x = y) = One(x = y /\ y \notin Chain) + One(x \in Chain /\ x = deleting')
        /\ One(x \in Chain /\ x = deleting') \in Nat /\ One(x = y /\ y \notin Chain) \in Nat
    BY <1>3, ObjectsAre DEF One
  <2> QED BY <2>1, <2>2, <2>3, <2>4
<1>6. Passed({})
  <2>0. \A x : One(x \in {}) = 0
    BY DEF One
  <2>1. refs' = [x \in Object |-> refs[x] + One(x \in {})]
    <3>1. \A x \in Object : refs[x] \in Nat
      BY <1>1 DEF Typed
    <3>2. refs' = [x \in Object |-> refs[x]]
      BY <1>1 DEF Typed
    <3> QED BY <2>0, <3>1, <3>2
  <2>2. /\ \A x \in Module : SentIn(toEngine', x) # 0 => SentIn(toEngine, x) # 0
        /\ \A x \in Module : x \in leaked' => x \in leaked
        /\ \A x \in Module : Times(retired', x) <= Times(retired, x)
    <3>1. \A x \in Module : x \in Object /\ One(x = y) \in Nat
      BY ObjectsAre DEF One
    <3> QED BY <1>1, <1>5, <3>1
  <2>3. \A x \in Object : Waits(x)' + One(x = sample') + One(x \in Chain /\ x = deleting')
           = Waits(x) + One(x = sample) + One(x \in Chain /\ x = deleting) + One(x \in {})
    <3> TAKE x \in Object
    <3>1. Waits(x)' + One(x \in Chain /\ x = deleting') = Waits(x)
      BY <1>5
    <3>2. One(x \in Chain /\ x = deleting) = 0 /\ One(x = sample') = One(x = sample)
      BY <1>1, ObjectsAre DEF One
    <3>3. Waits(x) \in Nat /\ Waits(x)' \in Nat /\ One(x = sample) \in Nat
          /\ One(x \in Chain /\ x = deleting') \in Nat
      BY <1>1, <1>4, WaitsAre, WaitsAfter DEF One
    <3> QED BY <2>0, <3>1, <3>2, <3>3
  <2>4. deleting' \in Root \cup {none}
    BY <1>3 DEF Root
  <2> QED BY <1>1, <1>4, <2>1, <2>2, <2>3, <2>4 DEF Passed, Typed
<1>7. Life'
  BY <1>1, <1>3, ObjectsAre DEF IInv, Life
<1> QED BY <1>6, <1>7, PassedKeeps

LEMMA DestroyEngineKeeps ==
  ASSUME IInv, DestroyEngine
  PROVE  IInv'
<1>1. /\ Typed /\ toRelease = <<>> /\ deleting = none /\ phase = "destroying" /\ retired = <<>>
      /\ phase' = "gone" /\ toRelease' = LetGo(sample) /\ sample' = none /\ deleting' = engine
      /\ UNCHANGED <<list, left, refs, live, toEngine, retired, leaked>>
      /\ sample \in Sample \cup {none} /\ toEngine = <<>> /\ engine \in live
  BY DEF IInv, Typed, DestroyEngine, MainIdle, RetiredDrained, Stays, rings, Life
<1>2. /\ toRelease' \in Seq(Module \cup {engine} \cup Sample)
      /\ \A x \in Object : Times(toRelease', x) = One(x = sample)
  BY <1>1, LetGoAll
<1>3. toRelease' \in Seq(Sample)
  <2>1. none \notin Sample
    BY ObjectsAssumption
  <2> QED BY <1>1, <2>1, LetGoIs
<1>4. RingsTyped'
  BY <1>1, <1>2 DEF RingsTyped, Typed
<1>5. Passed({})
  <2>0. \A x : One(x \in {}) = 0
    BY DEF One
  <2>1. refs' = [x \in Object |-> refs[x] + One(x \in {})]
    <3>1. \A x \in Object : refs[x] \in Nat
      BY <1>1 DEF Typed
    <3>2. refs' = [x \in Object |-> refs[x]]
      BY <1>1 DEF Typed
    <3> QED BY <2>0, <3>1, <3>2
  <2>2. /\ \A x \in Module : SentIn(toEngine', x) # 0 => SentIn(toEngine, x) # 0
        /\ \A x \in Module : x \in leaked' => x \in leaked
        /\ \A x \in Module : Times(retired', x) <= Times(retired, x)
    <3>1. \A x \in Module : Times(retired, x) \in Nat
      BY <1>1, WaitsAre
    <3> QED BY <1>1, <3>1
  <2>3. \A x \in Object : Waits(x)' + One(x = sample') + One(x \in Chain /\ x = deleting')
           = Waits(x) + One(x = sample) + One(x \in Chain /\ x = deleting) + One(x \in {})
    <3> TAKE x \in Object
    <3>1. /\ Waits(x) = One(x \in leaked) + SentIn(toEngine, x) + Times(retired, x) + Times(toRelease, x)
          /\ Waits(x)' = One(x \in leaked') + SentIn(toEngine', x) + Times(retired', x) + Times(toRelease', x)
          /\ One(x \in leaked) \in Nat /\ SentIn(toEngine, x) \in Nat /\ Times(retired, x) \in Nat
          /\ toEngine' = toEngine /\ leaked' = leaked /\ retired' = retired
      BY <1>1, <1>4, WaitsAll
    <3>2. Times(toRelease', x) = One(x = sample) /\ Times(toRelease, x) = 0
      BY <1>1, <1>2, NoneOf
    <3>3. One(x = sample') = 0 /\ One(x \in Chain /\ x = deleting') = 0 /\ One(x \in Chain /\ x = deleting) = 0
          /\ One(x = sample) \in Nat
      BY <1>1, ObjectsAre DEF One
    <3> QED BY <2>0, <3>1, <3>2, <3>3
  <2> QED BY <1>1, <1>4, <2>1, <2>2, <2>3 DEF Passed, Typed, Root
<1>6. Life'
  BY <1>1, <1>3 DEF Life
<1> QED BY <1>5, <1>6, PassedKeeps

LEMMA PhasesKeep ==
  ASSUME IInv, Activate \/ Deactivate \/ Stopped \/ Destroy
  PROVE  IInv'
<1>1. /\ UNCHANGED <<list, left, refs, live, sample, toEngine, retired, leaked, toRelease, deleting>>
      /\ phase' \in {"running", "stopping", "stopped", "destroying"}
      /\ phase # "gone" /\ (phase' \notin {"running", "stopping"} => toEngine = <<>>)
  BY DEF IInv, Life, Activate, Deactivate, Stopped, Destroy, Stays, rings
<1>2. \A x : Waits(x)' = Waits(x)
  <2> TAKE x
  <2>1. SentIn(toEngine', x) = SentIn(toEngine, x) /\ Times(retired', x) = Times(retired, x)
        /\ Times(toRelease', x) = Times(toRelease, x) /\ leaked' = leaked
    BY <1>1
  <2>2. Waits(x)' = One(x \in leaked') + SentIn(toEngine', x) + Times(retired', x) + Times(toRelease', x)
    BY DEF Waits
  <2> QED BY <2>1, <2>2 DEF Waits
<1>3. Typed' /\ Once' /\ Unmoved' /\ LinksLive' /\ Alone' /\ Alive' /\ Aged'
  <2>1. Typed'
    BY <1>1 DEF IInv, Typed
  <2>2. Once'
    BY <1>1 DEF IInv, Once
  <2>3. Unmoved'
    BY <1>1 DEF IInv, Unmoved
  <2>4. LinksLive' /\ Alive'
    BY <1>1 DEF IInv, LinksLive, Alive
  <2>5. Alone'
    BY <1>1 DEF IInv, Alone
  <2>6. Aged'
    BY <1>1 DEF IInv, Aged, Older
  <2> QED BY <2>1, <2>2, <2>3, <2>4, <2>5, <2>6
<1>4. Balance' /\ Carried'
  BY <1>1, <1>2 DEF IInv, Balance, Carried
<1>5. Life'
  BY <1>1 DEF IInv, Life
<1> QED BY <1>3, <1>4, <1>5 DEF IInv

-----------------------------------------------------------------------------
(* Chains that are built, queued and exchanged with the engine's.          *)

Apart(lists) ==
  \A r, q \in Root : \A i \in 1 .. Len(lists[r]), j \in 1 .. Len(lists[q]) :
    lists[r][i] = lists[q][j] => r = q /\ i = j

\* The lists under other roots.
LEMMA ShuffledIs ==
  ASSUME NEW lists \in [Root -> Seq(Module)], NEW at \in [Root -> Root], Apart(lists),
         \A r, q \in Root : at[r] = at[q] => r = q, \A q \in Root : \E r \in Root : at[r] = q,
         list' = [r \in Root |-> lists[at[r]]]
  PROVE  /\ list' \in [Root -> Seq(Module)] /\ Once'
         /\ \A x : Listed(list', x) <=> Listed(lists, x)
<1>1. list' \in [Root -> Seq(Module)] /\ \A r \in Root : list'[r] = lists[at[r]]
  OBVIOUS
<1>2. Once'
  BY <1>1 DEF Once, Apart
<1>3. ASSUME NEW x, Listed(list', x) PROVE Listed(lists, x)
  BY <1>1, <1>3 DEF Listed
<1>4. ASSUME NEW x, Listed(lists, x) PROVE Listed(list', x)
  <2>1. PICK q \in Root : x \in Range(lists[q])
    BY <1>4 DEF Listed
  <2>2. PICK r \in Root : at[r] = q
    OBVIOUS
  <2> QED BY <1>1, <2>1, <2>2 DEF Listed
<1> QED BY <1>1, <1>2, <1>3, <1>4

\* An empty list filled with modules that are in none.
Fills(filled, lists, c, modules) ==
  /\ lists \in [Root -> Seq(Module)] /\ Apart(lists) /\ c \in Root /\ lists[c] = <<>>
  /\ modules \in Seq(Module)
  /\ \A i, j \in 1 .. Len(modules) : modules[i] = modules[j] => i = j
  /\ \A i \in 1 .. Len(modules) : ~Listed(lists, modules[i])
  /\ filled \in [Root -> Seq(Module)] /\ filled[c] = modules
  /\ \A r \in Root \ {c} : filled[r] = lists[r]

LEMMA FilledIs ==
  ASSUME NEW lists, NEW c, NEW modules, NEW filled, Fills(filled, lists, c, modules)
  PROVE  /\ Apart(filled)
         /\ \A x : Listed(filled, x) <=> Listed(lists, x) \/ x \in Range(modules)
<1> USE DEF Fills, Apart
<1>1. filled \in [Root -> Seq(Module)] /\ filled[c] = modules /\ \A r \in Root \ {c} : filled[r] = lists[r]
      /\ c \in Root
  OBVIOUS
<1>2. Len(lists[c]) = 0 /\ Range(lists[c]) = {}
  BY RangeOfSeq, EmptySeq DEF Range
<1>3. ASSUME NEW r \in Root \ {c}, NEW i \in 1 .. Len(lists[r]), NEW j \in 1 .. Len(modules)
      PROVE  lists[r][i] # modules[j]
  <2>1. Listed(lists, lists[r][i])
    BY InRange DEF Listed
  <2> QED BY <2>1
<1>4. ASSUME NEW r \in Root, NEW q \in Root, NEW i \in 1 .. Len(filled[r]), NEW j \in 1 .. Len(filled[q]),
             filled[r][i] = filled[q][j]
      PROVE  r = q /\ i = j
  <2>1. CASE r = c /\ q = c
    BY <1>1, <1>4, <2>1
  <2>2. CASE r # c /\ q # c
    BY <1>1, <1>4, <2>2
  <2>3. CASE r # c /\ q = c
    BY <1>1, <1>3, <1>4, <2>3
  <2>4. CASE r = c /\ q # c
    BY <1>1, <1>3, <1>4, <2>4
  <2> QED BY <2>1, <2>2, <2>3, <2>4
<1>5. \A x : Listed(filled, x) <=> Listed(lists, x) \/ x \in Range(modules)
  <2> TAKE x
  <2>1. ASSUME NEW r \in Root, x \in Range(filled[r]) PROVE Listed(lists, x) \/ x \in Range(modules)
    BY <1>1, <2>1 DEF Listed
  <2>2. ASSUME NEW r \in Root, x \in Range(lists[r]) PROVE Listed(filled, x)
    BY <1>1, <1>2, <2>2 DEF Listed
  <2>3. ASSUME x \in Range(modules) PROVE Listed(filled, x)
    BY <1>1, <2>3 DEF Listed
  <2> QED BY <2>1, <2>2, <2>3 DEF Listed
<1> QED BY <1>1, <1>4, <1>5

\* The engine's root and another, exchanged.
LEMMA ExchangeIs ==
  ASSUME NEW c \in Chain, NEW at, at = [r \in Root |-> IF r = engine THEN c ELSE IF r = c THEN engine ELSE r]
  PROVE  /\ at \in [Root -> Root] /\ c # engine /\ c \in Root /\ engine \in Root
         /\ \A r, q \in Root : at[r] = at[q] => r = q
         /\ \A q \in Root : \E r \in Root : at[r] = q
<1>1. c # engine /\ c \in Root /\ engine \in Root
  BY ObjectsAre DEF Root
<1>2. at \in [Root -> Root] /\ \A r \in Root : at[at[r]] = r
  BY <1>1
<1> QED BY <1>1, <1>2

LEMMA DrainChainKeeps ==
  ASSUME IInv, DrainChain, NEW c, c = Head(toEngine).object
  PROVE  IInv' /\ live \subseteq live'
<1>1. Typed /\ toEngine \in Seq(Command) /\ toEngine # <<>> /\ Head(toEngine) \in Command
      /\ Head(toEngine).kind = "chain"
  BY HeadTailProperties DEF IInv, Typed, DrainChain
<1>2. c \in Chain /\ c \in Object /\ c # none
  BY <1>1, CommandsAre, ObjectsAre
<1>3. /\ phase \in {"running", "stopping"} /\ Retire(c) /\ toEngine' = Tail(toEngine)
      /\ list' = [list EXCEPT ![engine] = list[c], ![c] = list[engine]]
      /\ UNCHANGED <<left, refs, live, sample, toRelease, deleting, phase>>
  BY DEF DrainChain, SwapModuleChain
<1>4. \A x \in Object : SentIn(toEngine', x) = SentIn(toEngine, x) - One(x = c)
                        /\ SentIn(toEngine', x) \in Nat /\ SentIn(toEngine, x) \in Nat
  <2> TAKE x \in Object
  <2>1. SentIn(Tail(toEngine), x) = SentIn(toEngine, x) - One(c = x)
    BY <1>1, SentTail
  <2>2. SentIn(Tail(toEngine), x) \in Nat /\ SentIn(toEngine, x) \in Nat
    BY <1>1, HeadTailProperties, SentAre
  <2> QED BY <1>3, <2>1, <2>2 DEF One
<1>5. c \notin leaked /\ c \in live
  <2>1. SentIn(toEngine, c) >= 1
    BY <1>2, <1>4 DEF One
  <2>2. One(c = deleting) + Waits(c) = One(c \in live)
    BY <1>2 DEF IInv, Carried
  <2>3. Waits(c) >= 1 + One(c \in leaked) /\ Waits(c) \in Nat
    BY <1>1, <2>1, WaitsAre DEF Waits
  <2> QED BY <2>2, <2>3 DEF One
<1>6. /\ retired' \in Seq(Retirable) /\ leaked' \subseteq Retirable
      /\ \A x \in Object : One(x \in leaked') + Times(retired', x)
                             = One(x \in leaked) + Times(retired, x) + One(x = c)
      /\ \A x \in Object : x # c =>
           (x \in leaked' <=> x \in leaked) /\ Times(retired', x) = Times(retired, x)
  <2>1. c \in Retirable \cup {none} /\ c \notin leaked /\ Retire(c)
    BY <1>2, <1>3, <1>5 DEF Retirable
  <2> QED BY <1>1, <2>1, RetireIs
<1>7. RingsTyped'
  BY <1>1, <1>3, <1>6, HeadTailProperties DEF RingsTyped, Typed
<1>8. \A x \in Object : Waits(x)' = Waits(x)
  <2> TAKE x \in Object
  <2>2. /\ Waits(x) = One(x \in leaked) + SentIn(toEngine, x) + Times(retired, x) + Times(toRelease, x)
        /\ Waits(x)' = One(x \in leaked') + SentIn(toEngine', x) + Times(retired', x) + Times(toRelease', x)
        /\ One(x \in leaked) \in Nat /\ Times(retired, x) \in Nat /\ Times(toRelease, x) \in Nat
        /\ One(x \in leaked') \in Nat /\ Times(retired', x) \in Nat /\ toRelease' = toRelease
    BY <1>1, <1>3, <1>7, WaitsAll
  <2>3. One(x \in leaked') + Times(retired', x) = One(x \in leaked) + Times(retired, x) + One(x = c)
        /\ SentIn(toEngine', x) = SentIn(toEngine, x) - One(x = c)
        /\ SentIn(toEngine', x) \in Nat /\ SentIn(toEngine, x) \in Nat /\ One(x = c) \in Nat
    BY <1>4, <1>6 DEF One
  <2> QED BY <2>2, <2>3
<1>9. /\ list' \in [Root -> Seq(Module)] /\ Once'
      /\ \A x : Listed(list', x) <=> Listed(list, x)
      /\ \A r \in Root \ {engine, c} : list'[r] = list[r]
  <2> DEFINE at == [r \in Root |-> IF r = engine THEN c ELSE IF r = c THEN engine ELSE r]
  <2>1. /\ at \in [Root -> Root] /\ c # engine /\ c \in Root /\ engine \in Root
        /\ \A r, q \in Root : at[r] = at[q] => r = q
        /\ \A q \in Root : \E r \in Root : at[r] = q
    BY <1>2, ExchangeIs
  <2>2. list' = [r \in Root |-> list[at[r]]] /\ \A r \in Root \ {engine, c} : at[r] = r
    <3>1. \A r \in Root : list[at[r]] = IF r = engine THEN list[c] ELSE IF r = c THEN list[engine] ELSE list[r]
      OBVIOUS
    <3>2. list' = [r \in Root |-> IF r = engine THEN list[c] ELSE IF r = c THEN list[engine] ELSE list[r]]
      BY <1>1, <1>3, <2>1 DEF Typed
    <3> QED BY <3>1, <3>2
  <2> HIDE DEF at
  <2>3. list \in [Root -> Seq(Module)] /\ Apart(list)
    BY <1>1 DEF IInv, Typed, Once, Apart
  <2>4. list' \in [Root -> Seq(Module)] /\ Once' /\ \A x : Listed(list', x) <=> Listed(list, x)
    BY <2>1, <2>2, <2>3, ShuffledIs
  <2> QED BY <2>2, <2>4
<1>10. Handed({}, {}, {})
  <2>0. \A x : One(x \in {}) = 0
    BY DEF One
  <2>1. refs' = [x \in Object |-> IF x \in {} THEN 1 ELSE IF x \in {} THEN 2
                                    ELSE IF x \in {} THEN 3 ELSE refs[x]]
    BY <1>1, <1>3 DEF Typed
  <2>2. \A x \in Module \cup {engine} : Waits(x)' = Waits(x) + One(x \in {})
    <3>1. \A x \in Module \cup {engine} : x \in Object /\ Waits(x) \in Nat
      BY <1>1, ObjectsAre, WaitsAre
    <3> QED BY <1>8, <2>0, <3>1
  <2>3. /\ \A x \in Sample : Waits(x)' + One(x = sample') = Waits(x) + One(x = sample) + One(x \in {})
        /\ \A x \in Chain : Waits(x)' + One(x = deleting') = Waits(x) + One(x = deleting) + One(x \in {})
    <3>1. \A x \in Sample \cup Chain : x \in Object /\ Waits(x) \in Nat
      BY <1>1, ObjectsAre, WaitsAre
    <3>2. \A x : One(x = sample) \in Nat /\ One(x = deleting) \in Nat
      BY DEF One
    <3> QED BY <1>3, <1>8, <2>0, <3>1, <3>2
  <2>4. \A x \in Module \ {} : /\ SentIn(toEngine', x) # 0 => SentIn(toEngine, x) # 0
                               /\ x \in leaked' => x \in leaked
                               /\ Times(retired', x) <= Times(retired, x)
    <3>1. \A x \in Module : x \in Object /\ x # c /\ Times(retired, x) \in Nat
      BY <1>1, <1>2, ObjectsAre, WaitsAre
    <3> QED BY <1>4, <1>6, <3>1 DEF One
  <2>5. \A x \in Chain \ live' : list'[x] = <<>>
    <3>1. \A x \in Chain \ live : x \in Root \ {engine, c} /\ list[x] = <<>>
      BY <1>5, ObjectsAre DEF IInv, Carried, Root
    <3> QED BY <1>3, <1>9, <3>1
  <2> QED BY <1>1, <1>3, <1>7, <1>9, <2>1, <2>2, <2>3, <2>4, <2>5 DEF Handed, Typed
<1>11. Life'
  BY <1>1, <1>3 DEF IInv, Life
<1> QED BY <1>3, <1>10, <1>11, HandedKeeps

LEMMA FreshChainIs ==
  ASSUME IInv, NEW modules \in FreshChains
  PROVE  /\ modules \in Seq(Module)
         /\ \A i, j \in 1 .. Len(modules) : modules[i] = modules[j] => i = j
         /\ Range(modules) \subseteq Module \ live
         /\ \A x \in Range(modules) : ~Listed(list, x)
<1>1. PICK n \in 0 .. MaxModules : modules \in [1 .. n -> FreshModule]
  BY DEF FreshChains, BoundedSeq, SeqOf
<1>2. n \in Nat /\ FreshModule \subseteq Module
  BY BoundsAssumption DEF FreshModule
<1>3. modules \in Seq(FreshModule) /\ modules \in Seq(Module) /\ Len(modules) = n
  BY <1>1, <1>2
<1>4. Range(modules) \subseteq FreshModule
  BY <1>3, RangeOfSeq
<1>5. \A i, j \in 1 .. Len(modules) : modules[i] = modules[j] => i = j
  BY <1>1, <1>2, <1>3 DEF FreshChains, IsInjective
<1> QED BY <1>3, <1>4, <1>5, FreshIs DEF FreshModule

LEMMA BuiltKeeps ==
  ASSUME IInv, NEW c \in Chain \ live, NEW modules \in FreshChains, Built(c, modules),
         list' \in [Root -> Seq(Module)], Once',
         \A x : Listed(list', x) <=> Listed(list, x) \/ x \in Range(modules),
         \A r \in Root \ {engine, c} : list'[r] = list[r],
         deleting = none, UNCHANGED <<sample, retired, leaked, toRelease, phase>>,
         \/ toEngine' = Append(toEngine, Swapping(c)) /\ deleting' = none
         \/ toEngine' = toEngine /\ deleting' = c,
         phase \in {"running", "stopped"}, phase = "stopped" => toEngine' = toEngine
  PROVE  IInv'
<1>1. Typed /\ c \in Chain /\ c \in Object /\ c # none /\ c \notin live /\ c \in Root
  BY ObjectsAre DEF IInv, Root
<1>2. Range(modules) \subseteq Module \ live
  BY FreshChainIs
<1>3. /\ live' = live \cup {} \cup Range(modules) \cup {c} /\ left' = left
      /\ refs' = [x \in Object |-> IF x \in {} THEN 1 ELSE IF x \in Range(modules) THEN 2
                                    ELSE IF x \in {c} THEN 3 ELSE refs[x]]
  <2>1. c \notin Range(modules)
    BY <1>2, <1>1, ObjectsAre
  <2> QED BY <2>1 DEF Built
<1>4. Swapping(c) \in Command /\ Swapping(c).object = c /\ toEngine \in Seq(Command)
  BY <1>1, CommandsAre DEF Typed
<1>5. RingsTyped'
  <2>1. toEngine' \in Seq(Command)
    BY <1>4, AppendProperties
  <2> QED BY <1>1, <2>1 DEF RingsTyped, Typed
<1>6. \A x \in Object : /\ Waits(x)' + One(x \in Chain /\ x = deleting') = Waits(x) + One(x \in {c})
                        /\ x # c => SentIn(toEngine', x) = SentIn(toEngine, x)
                        /\ Waits(x) \in Nat /\ Waits(x)' \in Nat
  <2> TAKE x \in Object
  <2>1. /\ Waits(x) = One(x \in leaked) + SentIn(toEngine, x) + Times(retired, x) + Times(toRelease, x)
        /\ Waits(x)' = One(x \in leaked') + SentIn(toEngine', x) + Times(retired', x) + Times(toRelease', x)
        /\ One(x \in leaked) \in Nat /\ SentIn(toEngine, x) \in Nat
        /\ Times(retired, x) \in Nat /\ Times(toRelease, x) \in Nat
        /\ toRelease' = toRelease /\ retired' = retired /\ leaked' = leaked
    BY <1>1, <1>5, WaitsAll
  <2>2. One(x \in {c}) = One(x = c) /\ One(c = x) = One(x = c) /\ One(x = c) \in Nat
        /\ (x # c => One(x = c) = 0)
    BY DEF One
  <2>3. CASE toEngine' = Append(toEngine, Swapping(c)) /\ deleting' = none
    <3>1. SentIn(toEngine', x) = SentIn(toEngine, x) + One(x = c)
      BY <1>4, <2>2, <2>3, SentAppend
    <3>2. One(x \in Chain /\ x = deleting') = 0
      BY <2>3, ObjectsAre DEF One
    <3> QED BY <2>1, <2>2, <3>1, <3>2
  <2>4. CASE toEngine' = toEngine /\ deleting' = c
    <3>1. One(x \in Chain /\ x = deleting') = One(x = c)
      BY <1>1, <2>4 DEF One
    <3> QED BY <2>1, <2>2, <2>4, <3>1
  <2> QED BY <2>3, <2>4
<1>7. Handed({}, Range(modules), {c})
  <2>0. \A x : One(x \in {}) = 0
    BY DEF One
  <2>2. \A x \in Module \cup {engine} : Waits(x)' = Waits(x) + One(x \in {})
    <3>1. \A x \in Module \cup {engine} :
            x \in Object /\ One(x \in Chain /\ x = deleting') = 0 /\ One(x \in {c}) = 0
      BY <1>1, ObjectsAre DEF One
    <3> QED BY <1>6, <2>0, <3>1
  <2>3. \A x \in Sample : Waits(x)' + One(x = sample') = Waits(x) + One(x = sample) + One(x \in {})
    <3> TAKE x \in Sample
    <3>1. x \in Object /\ One(x \in Chain /\ x = deleting') = 0 /\ One(x \in {c}) = 0
          /\ One(x = sample) \in Nat
      BY <1>1, ObjectsAre DEF One
    <3> QED BY <1>6, <2>0, <3>1
  <2>4. \A x \in Chain : Waits(x)' + One(x = deleting') = Waits(x) + One(x = deleting) + One(x \in {c})
    <3> TAKE x \in Chain
    <3>1. x \in Object /\ One(x \in Chain /\ x = deleting') = One(x = deleting') /\ One(x = deleting) = 0
          /\ One(x = deleting') \in Nat /\ One(x \in {c}) \in Nat
      BY ObjectsAre DEF One
    <3> QED BY <1>6, <3>1
  <2>5. \A x \in Module \ {} : /\ SentIn(toEngine', x) # 0 => SentIn(toEngine, x) # 0
                               /\ x \in leaked' => x \in leaked
                               /\ Times(retired', x) <= Times(retired, x)
    <3>1. \A x \in Module : x \in Object /\ x # c /\ Times(retired, x) \in Nat
      BY <1>1, ObjectsAre, WaitsAre
    <3> QED BY <1>6, <3>1
  <2>6. \A x \in Chain \ live' : list'[x] = <<>>
    <3>1. \A x \in Chain \ live' : x \in Root \ {engine, c} /\ x \notin live
      BY <1>3, ObjectsAre DEF Root
    <3> QED BY <3>1 DEF IInv, Carried
  <2>7. sample' \in Sample \cup {none} /\ deleting' \in Root \cup {none}
        /\ phase' \in {"stopped", "running", "stopping", "destroying", "gone"}
    BY <1>1 DEF Typed
  <2> QED BY <1>1, <1>2, <1>3, <1>5, <2>2, <2>3, <2>4, <2>5, <2>6, <2>7 DEF Handed
<1>8. Life'
  <2>1. engine \in live' /\ deleting' # engine
    BY <1>1, <1>3, ObjectsAre DEF IInv, Life
  <2> QED BY <2>1 DEF IInv, Life
<1> QED BY <1>7, <1>8, HandedKeeps

LEMMA ChainQueuedKeeps ==
  ASSUME IInv, NEW c \in Chain \ live, NEW modules \in FreshChains, PublishChainQueued(c, modules)
  PROVE  IInv'
<1>1. /\ Typed /\ c \in Root /\ list[c] = <<>> /\ Once
      /\ list' = [list EXCEPT ![c] = modules]
      /\ Built(c, modules) /\ phase = "running" /\ deleting = none
      /\ UNCHANGED <<sample, retired, leaked, toRelease, phase>>
      /\ \/ toEngine' = Append(toEngine, Swapping(c)) /\ deleting' = none
         \/ toEngine' = toEngine /\ deleting' = c
  BY DEF PublishChainQueued, MainIdle, IInv, Carried, Root
<1>2. /\ modules \in Seq(Module) /\ \A i, j \in 1 .. Len(modules) : modules[i] = modules[j] => i = j
      /\ \A i \in 1 .. Len(modules) : ~Listed(list, modules[i])
  BY FreshChainIs, InRange
<1>3. /\ list' \in [Root -> Seq(Module)] /\ Once'
      /\ \A x : Listed(list', x) <=> Listed(list, x) \/ x \in Range(modules)
  <2> DEFINE filled == [list EXCEPT ![c] = modules]
  <2>1. list \in [Root -> Seq(Module)] /\ Apart(list)
    BY <1>1 DEF Typed, Once, Apart
  <2>2. Fills(filled, list, c, modules) /\ list' = filled /\ filled \in [Root -> Seq(Module)]
    BY <1>1, <1>2, <2>1 DEF Fills
  <2> HIDE DEF filled
  <2>3. Apart(filled) /\ \A x : Listed(filled, x) <=> Listed(list, x) \/ x \in Range(modules)
    BY <2>2, FilledIs
  <2>4. Once'
    BY <2>2, <2>3 DEF Once, Apart
  <2> QED BY <2>2, <2>3, <2>4
<1>4. \A r \in Root \ {engine, c} : list'[r] = list[r]
  BY <1>1 DEF Typed
<1> QED BY <1>1, <1>3, <1>4, BuiltKeeps

LEMMA ChainDirectKeeps ==
  ASSUME IInv, NEW c \in Chain \ live, NEW modules \in FreshChains, PublishChainDirect(c, modules)
  PROVE  IInv'
<1>1. /\ Typed /\ c \in Root /\ list[c] = <<>> /\ Once
      /\ list' = [list EXCEPT ![c] = list[engine], ![engine] = modules]
      /\ Built(c, modules) /\ phase = "stopped" /\ deleting = none
      /\ UNCHANGED <<sample, retired, leaked, toRelease, phase>>
      /\ toEngine' = toEngine /\ deleting' = c
  BY DEF PublishChainDirect, MainIdle, IInv, Carried, Root, rings
<1>2. /\ modules \in Seq(Module) /\ \A i, j \in 1 .. Len(modules) : modules[i] = modules[j] => i = j
      /\ \A i \in 1 .. Len(modules) : ~Listed(list, modules[i])
  BY FreshChainIs, InRange
<1>3. /\ list' \in [Root -> Seq(Module)] /\ Once'
      /\ \A x : Listed(list', x) <=> Listed(list, x) \/ x \in Range(modules)
  <2> DEFINE filled == [list EXCEPT ![c] = modules]
             at == [r \in Root |-> IF r = engine THEN c ELSE IF r = c THEN engine ELSE r]
  <2>1. list \in [Root -> Seq(Module)] /\ Apart(list)
    BY <1>1 DEF Typed, Once, Apart
  <2>2. Fills(filled, list, c, modules) /\ filled \in [Root -> Seq(Module)]
    BY <1>1, <1>2, <2>1 DEF Fills
  <2>3. /\ at \in [Root -> Root] /\ c # engine /\ c \in Root /\ engine \in Root
        /\ \A r, q \in Root : at[r] = at[q] => r = q
        /\ \A q \in Root : \E r \in Root : at[r] = q
    BY ExchangeIs
  <2>4. list' = [r \in Root |-> filled[at[r]]]
    <3>1. \A r \in Root : filled[at[r]] =
            IF r = engine THEN modules ELSE IF r = c THEN list[engine] ELSE list[r]
      BY <2>1, <2>3
    <3>2. list' = [r \in Root |-> IF r = engine THEN modules ELSE IF r = c THEN list[engine] ELSE list[r]]
      BY <1>1, <2>1, <2>3
    <3> QED BY <3>1, <3>2
  <2> HIDE DEF filled, at
  <2>5. Apart(filled) /\ \A x : Listed(filled, x) <=> Listed(list, x) \/ x \in Range(modules)
    BY <2>2, FilledIs
  <2>6. list' \in [Root -> Seq(Module)] /\ Once' /\ \A x : Listed(list', x) <=> Listed(filled, x)
    BY <2>2, <2>3, <2>4, <2>5, ShuffledIs
  <2> QED BY <2>5, <2>6
<1>4. \A r \in Root \ {engine, c} : list'[r] = list[r]
  BY <1>1 DEF Typed
<1> QED BY <1>1, <1>3, <1>4, BuiltKeeps

-----------------------------------------------------------------------------
(* The main thread's destructions.                                         *)

\* The main thread is destroying a chain that is there.
LEMMA DeletedIs ==
  ASSUME IInv, NEW c, c = deleting, c # none
  PROVE  /\ c \in Root /\ c \in Object /\ c \in live /\ engine \in live /\ Waits(c) \in Nat
         /\ c \in Chain => Waits(c) = 0 /\ phase # "gone"
         /\ c = engine => phase = "gone"
<1>1. c \in Root /\ c \in Object /\ Waits(c) \in Nat
  BY WaitsAre DEF IInv, Typed, Object
<1>2. c = engine => phase = "gone" /\ engine \in live
  BY DEF IInv, Life
<1>3. ASSUME c \in Chain PROVE Waits(c) = 0 /\ c \in live /\ phase # "gone" /\ engine \in live
  <2>1. One(c = deleting) + Waits(c) = One(c \in live) /\ One(c = deleting) = 1
    BY <1>3 DEF IInv, Carried, One
  <2>2. c # engine
    BY <1>3, ObjectsAre
  <2> QED BY <1>1, <2>1, <2>2 DEF IInv, Life, One
<1> QED BY <1>1, <1>2, <1>3 DEF Root

LEMMA DestroyChainKeeps ==
  ASSUME IInv, DestroyChain, NEW c, c = deleting
  PROVE  IInv'
<1> DEFINE out == Range(list[c])
<1>1. /\ Typed /\ c # none /\ toRelease = <<>> /\ deleting' = none /\ left' = left
      /\ list' = [list EXCEPT ![c] = <<>>]
      /\ refs' = [[x \in Object |-> refs[x] + Links(list', left', x) - Links(list, left, x) + 0] EXCEPT ![c] = 0]
      /\ live' = {x \in live : refs'[x] # 0}
      /\ UNCHANGED <<sample, toEngine, retired, leaked, toRelease, phase>>
  BY DEF IInv, DestroyChain, LinksReset, Recounted, Survivors, rings
<1>2. /\ c \in Root /\ c \in Object /\ c \in live /\ engine \in live
      /\ c \in Chain => Waits(c) = 0 /\ phase # "gone"
      /\ c = engine => phase = "gone"
  BY <1>1, DeletedIs
<1>3. list' \in [Root -> Seq(Module)] /\ list'[c] = <<>> /\ \A r \in Root \ {c} : list'[r] = list[r]
  <2>1. <<>> \in Seq(Module)
    BY EmptySeq
  <2> QED BY <1>1, <1>2, <2>1 DEF Typed
<1>4. \A r \in Root : list'[r] \in Seq(Module) /\ list[r] \in Seq(Module)
  BY <1>1, <1>3 DEF Typed
<1>5. out \subseteq Module
  BY <1>2, <1>4, RangeOfSeq
<1>6. Once'
  <2>1. Len(list'[c]) = 0
    BY <1>3
  <2>2. SUFFICES ASSUME NEW r \in Root, NEW q \in Root, NEW i \in 1 .. Len(list'[r]),
                      NEW j \in 1 .. Len(list'[q]), list'[r][i] = list'[q][j]
               PROVE  r = q /\ i = j
    BY DEF Once
  <2>3. r # c /\ q # c
    BY <2>1
  <2> QED BY <1>3, <2>2, <2>3 DEF IInv, Once
<1>7. \A x : Listed(list', x) <=> Listed(list, x) /\ x \notin out
  <2> TAKE x
  <2>1. ASSUME Listed(list', x) PROVE Listed(list, x) /\ x \notin out
    <3>1. PICK r \in Root : x \in Range(list'[r])
      BY <2>1 DEF Listed
    <3>2. r # c
      <4>1. Range(list'[c]) = {}
        BY <1>3 DEF Range
      <4> QED BY <3>1, <4>1
    <3>3. x \in Range(list[r])
      BY <1>3, <3>1, <3>2
    <3>4. x \notin out
      <4>1. ASSUME x \in out PROVE FALSE
        <5>1. PICK i \in 1 .. Len(list[r]) : list[r][i] = x
          BY <1>4, <3>3, InRange
        <5>2. PICK j \in 1 .. Len(list[c]) : list[c][j] = x
          BY <1>2, <1>4, <4>1, InRange
        <5> QED BY <1>2, <3>2, <5>1, <5>2 DEF IInv, Once
      <4> QED BY <4>1
    <3> QED BY <3>3, <3>4 DEF Listed
  <2>2. ASSUME Listed(list, x), x \notin out PROVE Listed(list', x)
    <3>1. PICK r \in Root : x \in Range(list[r])
      BY <2>2 DEF Listed
    <3> QED BY <1>3, <2>2, <3>1 DEF Listed
  <2> QED BY <2>1, <2>2
<1>8. \A x \in out : Listed(list, x)
  BY <1>2 DEF Listed
<1> HIDE DEF out
<1>9. \A x \in Object : /\ Waits(x) \in Nat /\ Waits(x)' = Waits(x) /\ KeptTo(left, x) \in Nat
                        /\ Links(list, left, x) = (IF Listed(list, x) THEN 2 ELSE 0) + KeptTo(left, x)
                        /\ Links(list', left', x) = (IF Listed(list', x) THEN 2 ELSE 0) + KeptTo(left, x)
  <2> TAKE x \in Object
  <2>1. Waits(x) \in Nat
    BY <1>1, WaitsAre
  <2>2. Waits(x)' = Waits(x)
    <3>1. SentIn(toEngine', x) = SentIn(toEngine, x) /\ Times(retired', x) = Times(retired, x)
          /\ Times(toRelease', x) = Times(toRelease, x) /\ leaked' = leaked
      BY <1>1
    <3>2. Waits(x)' = One(x \in leaked') + SentIn(toEngine', x) + Times(retired', x) + Times(toRelease', x)
      BY DEF Waits
    <3> QED BY <3>1, <3>2 DEF Waits
  <2> QED BY <1>1, <2>1, <2>2, LinksSplit
<1>10. \A x \in Object \ {c} : refs'[x] = refs[x] + Links(list', left', x) - Links(list, left, x)
  <2> TAKE x \in Object \ {c}
  <2>1. refs'[x] = refs[x] + Links(list', left', x) - Links(list, left, x) + 0
    BY <1>1
  <2>2. refs[x] \in Nat /\ Links(list', left', x) \in Nat /\ Links(list, left, x) \in Nat
    BY <1>1, LinksAre DEF Typed
  <2> QED BY <2>1, <2>2
<1>11. refs'[c] = 0 /\ DOMAIN refs' = Object /\ refs' = [x \in Object |-> refs'[x]]
  BY <1>1, <1>2
<1>12. \A x \in Object : refs[x] \in Nat
  BY <1>1 DEF Typed
<1>13. \A x \in Module : /\ x \in Object \ {c}
                         /\ refs'[x] = (IF Listed(list', x) THEN 2 ELSE 0) + KeptTo(left, x) + Waits(x)
                         /\ x \notin out => refs'[x] = refs[x]
                         /\ refs[x] = (IF Listed(list, x) THEN 2 ELSE 0) + KeptTo(left, x) + Waits(x)
  <2> TAKE x \in Module
  <2>1. x \in Object \ {c}
    BY <1>2, ObjectsAre DEF Root
  <2>2. refs[x] = Links(list, left, x) + Waits(x)
    BY DEF IInv, Balance
  <2>3. x \notin out => (Listed(list', x) <=> Listed(list, x))
    BY <1>7
  <2> QED BY <1>9, <1>10, <2>1, <2>2, <2>3
<1>14. \A x \in (Sample \cup Chain \cup {engine}) \ {c} : x \in Object /\ refs'[x] = refs[x]
  <2> TAKE x \in (Sample \cup Chain \cup {engine}) \ {c}
  <2>1. x \in Object \ {c} /\ x \notin Module
    BY ObjectsAre
  <2>2. ~Listed(list', x) /\ ~Listed(list, x)
    BY <1>4, <2>1, RangeOfSeq DEF Listed
  <2> QED BY <1>9, <1>10, <1>12, <2>1, <2>2
<1>15. Typed'
  <2>1. \A x \in Object : refs'[x] \in Nat
    <3> TAKE x \in Object
    <3>1. CASE x = c
      BY <1>11, <3>1
    <3>2. CASE x \in Module
      BY <1>9, <1>13, <3>2
    <3>3. CASE x # c /\ x \notin Module
      BY <1>12, <1>14, <3>3, ObjectsAre
    <3> QED BY <3>1, <3>2, <3>3
  <2>2. refs' \in [Object -> Nat]
    BY <1>11, <2>1
  <2>3. live' \subseteq Object
    BY <1>1 DEF Typed
  <2>4. deleting' \in Root \cup {none}
    BY <1>1
  <2> QED BY <1>1, <1>3, <2>2, <2>3, <2>4 DEF Typed
<1>16. \A x \in Object : x \in live' <=> x \in live /\ refs'[x] # 0
  BY <1>1
<1>17. \A x \in Object : x \in live <=> refs[x] # 0
  BY DEF IInv, Alive
<1>18. Alive'
  <2> SUFFICES ASSUME NEW x \in Object, x \notin live PROVE refs'[x] = 0
    BY <1>16 DEF Alive
  <2>1. refs[x] = 0
    BY <1>17
  <2>2. CASE x \in Module
    <3>1. x \notin out
      <4>1. ASSUME x \in out PROVE FALSE
        BY <1>8, <1>9, <1>13, <2>1, <2>2, <4>1
      <4> QED BY <4>1
    <3> QED BY <1>13, <2>1, <2>2, <3>1
  <2>3. CASE x = c
    BY <1>11, <2>3
  <2>4. CASE x # c /\ x \notin Module
    BY <1>14, <2>1, <2>4, ObjectsAre
  <2> QED BY <2>2, <2>3, <2>4
<1>19. Balance'
  <2>1. \A m \in Module : refs'[m] = Links(list', left', m) + Waits(m)'
    BY <1>9, <1>13
  <2>2. \A s \in Sample : refs'[s] = One(s = sample') + Waits(s)'
    <3> TAKE s \in Sample
    <3>1. s # c /\ s \in Object
      BY <1>2, ObjectsAre DEF Root
    <3> QED BY <1>1, <1>9, <1>14, <3>1 DEF IInv, Balance
  <2>3. \A x \in Chain : refs'[x] = 3 * One(x \in live')
    <3> TAKE x \in Chain
    <3>1. CASE x = c
      BY <1>2, <1>11, <1>16, <3>1 DEF One
    <3>2. CASE x # c
      BY <1>14, <1>16, <1>17, <3>2 DEF IInv, Balance
    <3> QED BY <3>1, <3>2
  <2>4. engine \in live' => refs'[engine] = Links(list', left', engine) + 3 + Waits(engine)'
    <3>1. ASSUME engine \in live' PROVE refs'[engine] = Links(list', left', engine) + 3 + Waits(engine)'
      <4>1. engine # c /\ engine \in Object
        BY <1>11, <1>16, <3>1, ObjectsAre
      <4>2. refs[engine] = Links(list, left, engine) + 3 + Waits(engine)
        BY <1>2 DEF IInv, Balance
      <4>3. Links(list', left', engine) \in Nat /\ Links(list, left, engine) \in Nat
        BY LinksAre
      <4> QED BY <1>9, <1>10, <4>1, <4>2, <4>3
    <3> QED BY <3>1
  <2> QED BY <2>1, <2>2, <2>3, <2>4 DEF Balance
<1>20. Unmoved'
  BY <1>1, <1>7 DEF IInv, Unmoved
<1>21. \A x \in out : left[x] = Unlinked
  BY <1>5, <1>8 DEF IInv, Unmoved
<1>22. LinksLive'
  <2> SUFFICES ASSUME NEW m \in Module, left[m] # Unlinked PROVE m \in live'
    BY <1>1 DEF LinksLive
  <2>1. m \in live /\ m \notin out
    BY <1>21 DEF IInv, LinksLive
  <2> QED BY <1>13, <1>16, <1>17, <2>1
<1>23. Alone'
  <2>1. ASSUME NEW m \in Module, SentIn(toEngine, m) # 0 PROVE refs'[m] = 1 /\ left[m] = Unlinked
    <3>1. refs[m] = 1 /\ left[m] = Unlinked
      BY <2>1 DEF IInv, Alone
    <3>2. m \notin out
      <4>1. ASSUME m \in out PROVE FALSE
        BY <1>8, <1>9, <1>13, <3>1, <4>1
      <4> QED BY <4>1
    <3> QED BY <1>13, <3>1, <3>2
  <2>2. \A s \in Sample : refs'[s] \in {0, 1}
    <3> TAKE s \in Sample
    <3>1. s # c
      BY <1>2, ObjectsAre DEF Root
    <3> QED BY <1>14, <3>1 DEF IInv, Alone
  <2> QED BY <1>1, <2>1, <2>2 DEF Alone
<1>24. Carried'
  <2>1. ASSUME NEW x \in Chain PROVE One(x = deleting') + Waits(x)' = One(x \in live')
    <3>1. x \in Object /\ One(x = deleting) + Waits(x) = One(x \in live) /\ x # none
      BY ObjectsAre DEF IInv, Carried
    <3>2. CASE x = c
      BY <1>1, <1>2, <1>9, <1>11, <1>16, <2>1, <3>1, <3>2 DEF One
    <3>3. CASE x # c
      <4>1. x \in live' <=> x \in live
        BY <1>14, <1>16, <1>17, <3>1, <3>3
      <4> QED BY <1>1, <1>9, <3>1, <3>3, <4>1 DEF One
    <3> QED BY <3>2, <3>3
  <2>2. ASSUME NEW x \in Chain \ live' PROVE list'[x] = <<>>
    <3>1. x \in Root /\ x \in Object
      BY ObjectsAre DEF Root
    <3>2. CASE x # c
      <4>1. x \notin live
        BY <1>14, <1>16, <1>17, <2>2, <3>1, <3>2
      <4> QED BY <1>3, <2>2, <3>1, <3>2, <4>1 DEF IInv, Carried
    <3> QED BY <1>3, <3>2
  <2> QED BY <2>1, <2>2 DEF Carried
<1>25. Life'
  <2>1. CASE c = engine
    BY <1>1, <1>2, <1>3, <1>11, <1>16, <2>1, ObjectsAre DEF IInv, Life
  <2>2. CASE c # engine
    <3>1. engine \in live' /\ phase # "gone"
      BY <1>2, <1>14, <1>16, <1>17, <2>2, ObjectsAre DEF Root
    <3> QED BY <1>1, <3>1, ObjectsAre DEF IInv, Life
  <2> QED BY <2>1, <2>2
<1>26. Aged'
  <2>1. PICK top \in Nat : \E age \in [Module -> 0 .. top] : Older(age)
    BY DEF IInv, Aged
  <2>2. PICK age \in [Module -> 0 .. top] : Older(age)
    BY <2>1
  <2>3. \E ages \in [Module -> 0 .. top + 1] :
          \A x \in Module : ages[x] = IF x \in out THEN top + 1 ELSE age[x]
    <3>1. [x \in Module |-> IF x \in out THEN top + 1 ELSE age[x]] \in [Module -> 0 .. top + 1]
      BY <2>1, <2>2
    <3> QED BY <3>1
  <2>4. PICK ages \in [Module -> 0 .. top + 1] :
          \A x \in Module : ages[x] = IF x \in out THEN top + 1 ELSE age[x]
    BY <2>3
  <2>5. ASSUME NEW y \in Module, NEW x \in Module, x \in {left[y].prev, left[y].next}, ~Listed(list', x)
        PROVE  ages[y] < ages[x]
    <3>1. y \notin out
      <4>1. ASSUME y \in out PROVE FALSE
        BY <1>21, <2>5, <4>1, ObjectsAre DEF Unlinked
      <4> QED BY <4>1
    <3>2. ages[y] = age[y] /\ age[y] \in 0 .. top
      BY <2>2, <2>4, <3>1
    <3>3. CASE x \in out
      BY <2>1, <2>4, <3>2, <3>3
    <3>4. CASE x \notin out
      BY <1>7, <2>2, <2>4, <2>5, <3>2, <3>4 DEF Older
    <3> QED BY <3>3, <3>4
  <2>6. Older(ages)'
    BY <1>1, <2>5 DEF Older
  <2>7. top + 1 \in Nat
    BY <2>1
  <2> QED BY <2>4, <2>6, <2>7 DEF Aged
<1> QED BY <1>6, <1>15, <1>18, <1>19, <1>20, <1>22, <1>23, <1>24, <1>25, <1>26 DEF IInv

\* A module's own two links, gone with it.
Unkept(kept, m, after) ==
  /\ kept \in [Module -> Link \cup {Unlinked}] /\ m \in Module
  /\ after \in [Module -> Link \cup {Unlinked}] /\ after[m] = Unlinked
  /\ \A n \in Module \ {m} : after[n] = kept[n]

LEMMA KeptLess ==
  ASSUME NEW kept, NEW m, NEW after, Unkept(kept, m, after), NEW x, x # none
  PROVE  KeptTo(kept, x) = KeptTo(after, x) + One(kept[m].prev = x) + One(kept[m].next = x)
<1> USE DEF Unkept
<1> DEFINE before == {n \in Module : kept[n].prev = x}
           behind == {n \in Module : kept[n].next = x}
<1>1. before \in SUBSET Module /\ behind \in SUBSET Module /\ IsFiniteSet(Module)
  BY ObjectsAssumption
<1>2. IsFiniteSet(before) /\ IsFiniteSet(behind)
  BY <1>1, FS_Subset
<1>3. {n \in Module : after[n].prev = x} = before \ {m}
      /\ {n \in Module : after[n].next = x} = behind \ {m}
  BY DEF Unlinked
<1>4. KeptTo(kept, x) = Cardinality(before) + Cardinality(behind)
      /\ KeptTo(after, x) = Cardinality(before \ {m}) + Cardinality(behind \ {m})
  BY <1>3 DEF KeptTo
<1>5. (m \in before <=> kept[m].prev = x) /\ (m \in behind <=> kept[m].next = x)
  OBVIOUS
<1> HIDE DEF before, behind
<1>6. Cardinality(before \ {m}) = IF m \in before THEN Cardinality(before) - 1 ELSE Cardinality(before)
  BY <1>2, FS_RemoveElement
<1>7. Cardinality(behind \ {m}) = IF m \in behind THEN Cardinality(behind) - 1 ELSE Cardinality(behind)
  BY <1>2, FS_RemoveElement
<1>8. Cardinality(before) \in Nat /\ Cardinality(behind) \in Nat
  BY <1>2, FS_CardinalityType
<1> QED BY <1>4, <1>5, <1>6, <1>7, <1>8 DEF One

\* Two objects, or nothing, put in front of a sequence.
LEMMA LetGoFirst ==
  ASSUME NEW S, none \notin S, NEW s \in Seq(S), NEW p \in S \cup {none}, NEW n \in S \cup {none}
  PROVE  /\ (LetGo(p) \o LetGo(n)) \o s \in Seq(S)
         /\ \A x \in S : Times((LetGo(p) \o LetGo(n)) \o s, x) = One(p = x) + One(n = x) + Times(s, x)
<1>1. ASSUME NEW t \in Seq(S), NEW y \in S \cup {none}
      PROVE  LetGo(y) \o t \in Seq(S) /\ \A x \in S : Times(LetGo(y) \o t, x) = One(y = x) + Times(t, x)
  <2>1. CASE y = none
    <3>1. LetGo(y) \o t = t
      BY <2>1 DEF LetGo
    <3>2. \A x \in S : One(y = x) = 0 /\ Times(t, x) \in Nat
      BY <2>1, TimesAre DEF One
    <3> QED BY <3>1, <3>2
  <2>2. CASE y # none
    <3>1. LetGo(y) = <<y>> /\ y \in S
      BY <2>2 DEF LetGo
    <3> QED BY <3>1, TimesPush
  <2> QED BY <2>1, <2>2
<1>2. LetGo(p) \in Seq(S) /\ LetGo(n) \in Seq(S)
  BY LetGoIs
<1>3. (LetGo(p) \o LetGo(n)) \o s = LetGo(p) \o (LetGo(n) \o s)
  BY <1>2, ConcatAssociative
<1>4. LetGo(n) \o s \in Seq(S) /\ \A x \in S : Times(LetGo(n) \o s, x) = One(n = x) + Times(s, x)
  BY <1>1
<1>5. LetGo(p) \o (LetGo(n) \o s) \in Seq(S)
      /\ \A x \in S : Times(LetGo(p) \o (LetGo(n) \o s), x) = One(p = x) + Times(LetGo(n) \o s, x)
  BY <1>1, <1>4
<1>6. \A x \in S : One(p = x) \in Nat /\ One(n = x) \in Nat /\ Times(s, x) \in Nat
  BY TimesAre DEF One
<1> QED BY <1>3, <1>4, <1>5, <1>6

\* What a release finds, and the links p and n that go with a last reference.
LEMMA ReleaseIs ==
  ASSUME IInv, Release, NEW x, x = Head(toRelease)
  PROVE  /\ x \in Module \cup {engine} \cup Sample /\ x \in Object /\ engine \in live
         /\ toRelease # <<>> /\ Times(toRelease, x) >= 1 /\ Waits(x) >= 1 /\ refs[x] >= 1
         /\ x \in Module /\ refs[x] = 1 => Links(list, left, x) = 0 /\ phase # "gone"
         /\ refs' = [refs EXCEPT ![x] = refs[x] - 1] /\ live' = {y \in live : refs'[y] # 0}
         /\ UNCHANGED <<list, sample, toEngine, retired, leaked, deleting, phase>>
<1>1. /\ Typed /\ toRelease \in Seq(Module \cup {engine} \cup Sample) /\ toRelease # <<>>
      /\ x \in Module \cup {engine} \cup Sample /\ x \in Object
  BY HeadTailProperties, ObjectsAre DEF IInv, Typed, Release
<1>2. engine \in live
  BY <1>1 DEF IInv, Life
<1>3. refs' = [refs EXCEPT ![x] = refs[x] - 1] /\ live' = {y \in live : refs'[y] # 0}
      /\ UNCHANGED <<list, sample, toEngine, retired, leaked, deleting, phase>>
  BY <1>1 DEF Release, Survivors, rings, Typed
<1>4. Times(toRelease, x) >= 1
  <2>1. Times(toRelease, x) # 0
    <3>1. 1 \in 1 .. Len(toRelease) /\ toRelease[1] = x
      BY <1>1, LenProperties, HeadTailProperties, EmptySeq
    <3> QED BY <1>1, <3>1, TimesAre
  <2>2. Times(toRelease, x) \in Nat
    BY <1>1, TimesAre
  <2> QED BY <2>1, <2>2
<1>5. Waits(x) >= 1 /\ Waits(x) \in Nat
  BY <1>1, <1>4, WaitsAre DEF Waits
<1>6. Links(list, left, x) \in Nat /\ One(x = sample) \in Nat
  BY LinksAre DEF One
<1>7. refs[x] >= 1
  <2>1. CASE x \in Module
    BY <1>5, <1>6, <2>1 DEF IInv, Balance
  <2>2. CASE x \in Sample
    BY <1>5, <1>6, <2>2 DEF IInv, Balance
  <2>3. CASE x = engine
    BY <1>2, <1>5, <1>6, <2>3 DEF IInv, Balance
  <2> QED BY <1>1, <2>1, <2>2, <2>3
<1>8. x \in Module /\ refs[x] = 1 => Links(list, left, x) = 0
  BY <1>5, <1>6 DEF IInv, Balance
<1>9. x \in Module => phase # "gone"
  <2>1. ASSUME phase = "gone" PROVE x \in Sample
    BY <1>1, <2>1, HeadTailProperties DEF IInv, Life
  <2> QED BY <2>1, ObjectsAre
<1> QED BY <1>1, <1>2, <1>3, <1>4, <1>5, <1>7, <1>8, <1>9

LetsGo(x, p, n) ==
  /\ toRelease' = (LetGo(p) \o LetGo(n)) \o Tail(toRelease)
  /\ left' \in [Module -> Link \cup {Unlinked}]
  /\ \A y \in Object : KeptTo(left, y) = KeptTo(left', y) + One(p = y) + One(n = y)
  /\ \A m \in Module : left'[m] \in {left[m], Unlinked}
  /\ x \in Module /\ refs[x] = 1 => left'[x] = Unlinked
  /\ phase = "gone" => p = none /\ n = none

LEMMA LinksGo ==
  ASSUME IInv, Release, NEW x, x = Head(toRelease)
  PROVE  \E p, n \in Module \cup {engine, none} : LetsGo(x, p, n)
<1>1. /\ x \in Module \cup {engine} \cup Sample /\ x \in Module /\ refs[x] = 1 => phase # "gone"
      /\ left \in [Module -> Link \cup {Unlinked}] /\ none \notin Object
  BY ReleaseIs, ObjectsAre DEF IInv, Typed
<1>2. CASE x \in Module /\ refs[x] = 1
  <2> DEFINE p == left[x].prev
             n == left[x].next
  <2>1. p \in Module \cup {engine, none} /\ n \in Module \cup {engine, none}
    BY <1>1, <1>2 DEF Link, Linkable, Unlinked
  <2>2. toRelease' = (LetGo(p) \o LetGo(n)) \o Tail(toRelease) /\ left' = [left EXCEPT ![x] = Unlinked]
    BY <1>2, Zenon DEF Release
  <2>3. \A y \in Object : KeptTo(left, y) = KeptTo(left', y) + One(p = y) + One(n = y)
    <3> TAKE y \in Object
    <3>1. y # none /\ x \in Module
      BY <1>1, <1>2
    <3>2. Unkept(left, x, left')
      BY <1>1, <1>2, <2>2 DEF Unkept
    <3>3. KeptTo(left, y) = KeptTo(left', y) + One(left[x].prev = y) + One(left[x].next = y)
      BY <3>1, <3>2, KeptLess
    <3> QED BY <3>3
  <2>4. left' \in [Module -> Link \cup {Unlinked}] /\ left'[x] = Unlinked
        /\ \A m \in Module : left'[m] \in {left[m], Unlinked}
    BY <1>1, <1>2, <2>2
  <2>5. phase # "gone"
    BY <1>2, ReleaseIs
  <2> HIDE DEF p, n
  <2>6. LetsGo(x, p, n)
    BY <2>2, <2>3, <2>4, <2>5 DEF LetsGo
  <2> QED BY <2>1, <2>6
<1>3. CASE ~(x \in Module /\ refs[x] = 1)
  <2>1. toRelease' = <<>> \o Tail(toRelease) /\ left' = left
    BY <1>3, Zenon DEF Release
  <2>2. LetGo(none) \o LetGo(none) = <<>>
    BY DEF LetGo
  <2>3. \A y \in Object : One(none = y) = 0 /\ KeptTo(left, y) \in Nat
    BY <1>1, LinksSplit DEF One
  <2>4. \A y \in Object : KeptTo(left, y) = KeptTo(left', y) + One(none = y) + One(none = y)
    BY <2>1, <2>3
  <2>5. toRelease' = (LetGo(none) \o LetGo(none)) \o Tail(toRelease)
    BY <2>1, <2>2
  <2>6. LetsGo(x, none, none)
    BY <1>1, <1>3, <2>1, <2>4, <2>5 DEF LetsGo
  <2> QED BY <2>6
<1> QED BY <1>2, <1>3

LEMMA ReleaseKeeps ==
  ASSUME IInv, Release, NEW x, x = Head(toRelease)
  PROVE  IInv'
<1>1. /\ x \in Module \cup {engine} \cup Sample /\ x \in Object /\ engine \in live
      /\ toRelease # <<>> /\ Times(toRelease, x) >= 1 /\ Waits(x) >= 1 /\ refs[x] >= 1
      /\ refs' = [refs EXCEPT ![x] = refs[x] - 1] /\ live' = {y \in live : refs'[y] # 0}
      /\ UNCHANGED <<list, sample, toEngine, retired, leaked, deleting, phase>>
  BY ReleaseIs
<1>0. PICK p, n \in Module \cup {engine, none} : LetsGo(x, p, n)
  BY LinksGo
<1>2. /\ p \in Module \cup {engine, none} /\ n \in Module \cup {engine, none}
      /\ toRelease' = (LetGo(p) \o LetGo(n)) \o Tail(toRelease)
      /\ left' \in [Module -> Link \cup {Unlinked}]
      /\ \A m \in Module : left'[m] \in {left[m], Unlinked}
      /\ x \in Module /\ refs[x] = 1 => left'[x] = Unlinked
      /\ phase = "gone" => p = none /\ n = none
  BY <1>0 DEF LetsGo
<1>3. Typed /\ none \notin Object /\ \A y \in Object : refs[y] \in Nat
  BY ObjectsAre DEF IInv, Typed
<1>4. /\ toRelease' \in Seq(Module \cup {engine} \cup Sample)
      /\ \A y \in Object : Times(toRelease', y)
                             = (One(p = y) + One(n = y) + Times(toRelease, y)) - One(x = y)
  <2> DEFINE S == Module \cup {engine} \cup Sample
             s == Tail(toRelease)
  <2>1. none \notin S /\ p \in S \cup {none} /\ n \in S \cup {none} /\ toRelease \in Seq(S) /\ x \in S
        /\ Object = S \cup Chain /\ \A y \in Chain : y \notin S /\ y # none
    BY <1>1, <1>3, ObjectsAre DEF Typed
  <2> HIDE DEF S
  <2>2. s \in Seq(S) /\ \A y : Times(s, y) = Times(toRelease, y) - One(x = y)
    BY <1>1, <2>1, HeadTailProperties, TimesTail
  <2> HIDE DEF s
  <2>3. (LetGo(p) \o LetGo(n)) \o s \in Seq(S)
        /\ \A y \in S : Times((LetGo(p) \o LetGo(n)) \o s, y) = One(p = y) + One(n = y) + Times(s, y)
    BY <2>1, <2>2, LetGoFirst
  <2>4. toRelease' = (LetGo(p) \o LetGo(n)) \o s
    BY <1>2 DEF s
  <2>5. \A y \in S : Times(toRelease', y) = (One(p = y) + One(n = y) + Times(toRelease, y)) - One(x = y)
    <3> TAKE y \in S
    <3>1. Times(toRelease, y) \in Nat /\ One(p = y) \in Nat /\ One(n = y) \in Nat /\ One(x = y) \in Nat
      BY <2>1, TimesAre DEF One
    <3>2. Times(toRelease', y) = One(p = y) + One(n = y) + Times(s, y)
      BY <2>3, <2>4
    <3> QED BY <2>2, <3>1, <3>2
  <2>6. ASSUME NEW y \in Chain
        PROVE  Times(toRelease', y) = (One(p = y) + One(n = y) + Times(toRelease, y)) - One(x = y)
    <3>1. y \notin S /\ p # y /\ n # y /\ x # y
      BY <2>1
    <3>2. \A t \in Seq(S) : Times(t, y) = 0
      <4> TAKE t \in Seq(S)
      <4>1. Len(t) \in Nat /\ \A i \in 1 .. Len(t) : t[i] # y
        BY <3>1, LenProperties, ElementOfSeq
      <4> QED BY <4>1, TimesAre
    <3>3. toRelease' \in Seq(S) /\ toRelease \in Seq(S)
      BY <2>1, <2>3, <2>4
    <3>4. Times(toRelease', y) = 0 /\ Times(toRelease, y) = 0
      BY <3>2, <3>3
    <3> QED BY <3>1, <3>4 DEF One
  <2> QED BY <2>1, <2>3, <2>4, <2>5, <2>6 DEF S
<1>5. RingsTyped'
  BY <1>1, <1>3, <1>4 DEF RingsTyped, Typed
<1>6. \A y : /\ One(x = y) = (IF y = x THEN 1 ELSE 0) /\ One(p = y) \in Nat /\ One(n = y) \in Nat
  BY DEF One
<1> DEFINE gone(y) == One(p = y) + One(n = y)
           less(y) == IF y = x THEN 1 ELSE 0
<1>7. \A y \in Object : /\ Waits(y)' = (Waits(y) + gone(y)) - less(y)
                        /\ Waits(y) \in Nat /\ gone(y) \in Nat
  <2> TAKE y \in Object
  <2>1. /\ Waits(y) = One(y \in leaked) + SentIn(toEngine, y) + Times(retired, y) + Times(toRelease, y)
        /\ Waits(y)' = One(y \in leaked') + SentIn(toEngine', y) + Times(retired', y) + Times(toRelease', y)
        /\ One(y \in leaked) \in Nat /\ SentIn(toEngine, y) \in Nat
        /\ Times(retired, y) \in Nat /\ Times(toRelease, y) \in Nat
        /\ toEngine' = toEngine /\ retired' = retired /\ leaked' = leaked
    BY <1>1, <1>3, <1>5, WaitsAll
  <2>2. Times(toRelease', y) = (One(p = y) + One(n = y) + Times(toRelease, y)) - One(x = y)
    BY <1>4
  <2>3. One(x = y) = less(y) /\ One(p = y) \in Nat /\ One(n = y) \in Nat
    BY DEF One
  <2> QED BY <2>1, <2>2, <2>3
<1>8. \A y \in Object : /\ refs'[y] = refs[y] - less(y) /\ refs'[y] \in Nat
                        /\ (y \in live' <=> y \in live /\ refs'[y] # 0)
                        /\ (y \in live <=> refs[y] # 0)
  <2>1. \A y \in Object : y \in live <=> refs[y] # 0
    BY DEF IInv, Alive
  <2>2. \A y \in Object : refs'[y] = refs[y] - less(y)
    BY <1>1, <1>3 DEF Typed
  <2>3. \A y \in Object : refs'[y] \in Nat
    BY <1>1, <1>3, <2>2
  <2> QED BY <1>1, <2>1, <2>2, <2>3
<1>9. \A y \in Object : /\ KeptTo(left', y) \in Nat
                        /\ KeptTo(left, y) = KeptTo(left', y) + gone(y)
                        /\ Links(list, left, y) = (IF Listed(list, y) THEN 2 ELSE 0) + KeptTo(left, y)
                        /\ Links(list', left', y) = (IF Listed(list, y) THEN 2 ELSE 0) + KeptTo(left', y)
  <2> TAKE y \in Object
  <2>1. KeptTo(left, y) = KeptTo(left', y) + One(p = y) + One(n = y)
    BY <1>0 DEF LetsGo
  <2>2. One(p = y) \in Nat /\ One(n = y) \in Nat /\ list' = list
    BY <1>1 DEF One
  <2>3. /\ KeptTo(left', y) \in Nat
        /\ Links(list, left, y) = (IF Listed(list, y) THEN 2 ELSE 0) + KeptTo(left, y)
        /\ Links(list, left', y) = (IF Listed(list, y) THEN 2 ELSE 0) + KeptTo(left', y)
    BY LinksSplit
  <2> QED BY <2>1, <2>2, <2>3
<1>10. \A y \in Sample \cup Chain : p # y /\ n # y /\ y \in Object /\ gone(y) = 0
  BY <1>2, ObjectsAre DEF One
<1> HIDE DEF gone
<1>11. Typed'
  <2>1. refs' \in [Object -> Nat] /\ live' \subseteq Object
    BY <1>1, <1>3, <1>8 DEF Typed
  <2> QED BY <1>1, <1>2, <1>3, <1>4, <2>1 DEF Typed
<1>12. Balance' /\ refs'[engine] = Links(list', left', engine) + 3 + Waits(engine)'
  <2>1. ASSUME NEW m \in Module PROVE refs'[m] = Links(list', left', m) + Waits(m)'
    <3>1. m \in Object /\ refs[m] = Links(list, left, m) + Waits(m)
      BY ObjectsAre DEF IInv, Balance
    <3>2. /\ Waits(m)' = (Waits(m) + gone(m)) - less(m) /\ Waits(m) \in Nat /\ gone(m) \in Nat
          /\ refs'[m] = refs[m] - less(m) /\ KeptTo(left', m) \in Nat
          /\ KeptTo(left, m) = KeptTo(left', m) + gone(m)
          /\ Links(list, left, m) = (IF Listed(list, m) THEN 2 ELSE 0) + KeptTo(left, m)
          /\ Links(list', left', m) = (IF Listed(list, m) THEN 2 ELSE 0) + KeptTo(left', m)
      BY <1>7, <1>8, <1>9, <3>1
    <3> QED BY <3>1, <3>2
  <2>2. ASSUME NEW s \in Sample PROVE refs'[s] = One(s = sample') + Waits(s)'
    <3>1. s \in Object /\ refs[s] = One(s = sample) + Waits(s) /\ gone(s) = 0
          /\ One(s = sample) \in Nat /\ sample' = sample
      BY <1>1, <1>10 DEF IInv, Balance, One
    <3> QED BY <1>7, <1>8, <3>1
  <2>3. ASSUME NEW c \in Chain PROVE refs'[c] = 3 * One(c \in live')
    <3>1. c \in Object /\ x # c
      BY <1>1, ObjectsAre
    <3>2. refs'[c] = refs[c]
      BY <1>3, <1>8, <3>1
    <3> QED BY <1>8, <3>1, <3>2 DEF IInv, Balance
  <2>4. refs'[engine] = Links(list', left', engine) + 3 + Waits(engine)'
    <3>1. engine \in Object /\ engine \in live /\ refs[engine] = Links(list, left, engine) + 3 + Waits(engine)
      BY <1>1, ObjectsAre DEF IInv, Balance
    <3>2. /\ Waits(engine)' = (Waits(engine) + gone(engine)) - less(engine)
          /\ Waits(engine) \in Nat /\ gone(engine) \in Nat
          /\ refs'[engine] = refs[engine] - less(engine) /\ KeptTo(left', engine) \in Nat
          /\ KeptTo(left, engine) = KeptTo(left', engine) + gone(engine)
          /\ Links(list, left, engine) = (IF Listed(list, engine) THEN 2 ELSE 0) + KeptTo(left, engine)
          /\ Links(list', left', engine) = (IF Listed(list, engine) THEN 2 ELSE 0) + KeptTo(left', engine)
      BY <1>7, <1>8, <1>9, <3>1
    <3> QED BY <3>1, <3>2
  <2> QED BY <2>1, <2>2, <2>3, <2>4 DEF Balance
<1>13. Alive'
  <2> SUFFICES ASSUME NEW y \in Object, y \notin live PROVE refs'[y] = 0
    BY <1>8 DEF Alive
  <2>1. refs[y] = 0 /\ y # x
    BY <1>1, <1>8
  <2> QED BY <1>3, <1>8, <2>1
<1>14. Once'
  BY <1>1 DEF IInv, Once
<1>15. Unmoved'
  BY <1>1, <1>2 DEF IInv, Unmoved
<1>16. LinksLive'
  <2> SUFFICES ASSUME NEW m \in Module, left'[m] # Unlinked PROVE m \in live'
    BY DEF LinksLive
  <2>1. m \in live /\ m \in Object
    BY <1>2, ObjectsAre DEF IInv, LinksLive
  <2>2. CASE m = x
    <3>1. refs[x] # 1
      BY <1>2, <2>2
    <3> QED BY <1>1, <1>3, <1>8, <2>1, <2>2, <3>1
  <2>3. CASE m # x
    BY <1>3, <1>8, <2>1, <2>3
  <2> QED BY <2>2, <2>3
<1>17. Alone'
  <2>1. ASSUME NEW m \in Module, SentIn(toEngine, m) # 0 PROVE refs'[m] = 1 /\ left'[m] = Unlinked
    <3>1. refs[m] = 1 /\ left[m] = Unlinked /\ m \in Object /\ refs[m] = Links(list, left, m) + Waits(m)
      BY <2>1, ObjectsAre DEF IInv, Alone, Balance
    <3>2. m # x
      <4>1. ASSUME m = x PROVE FALSE
        <5>1. SentIn(toEngine, x) >= 1 /\ Waits(x) >= 2
          BY <1>1, <1>3, <2>1, <4>1, WaitsAre DEF Waits
        <5>2. Links(list, left, x) \in Nat
          BY LinksAre
        <5> QED BY <1>7, <3>1, <4>1, <5>1, <5>2
      <4> QED BY <4>1
    <3> QED BY <1>2, <1>8, <3>1, <3>2
  <2>2. ASSUME NEW s \in Sample PROVE refs'[s] \in {0, 1}
    <3>1. s \in Object /\ refs[s] \in {0, 1}
      BY <1>10 DEF IInv, Alone
    <3> QED BY <1>1, <1>8, <3>1
  <2> QED BY <1>1, <2>1, <2>2 DEF Alone
<1>18. Carried'
  <2>1. ASSUME NEW c \in Chain PROVE (c \in live' <=> c \in live) /\ Waits(c)' = Waits(c)
    <3>1. c \in Object /\ x # c /\ gone(c) = 0
      BY <1>1, <1>10, ObjectsAre
    <3> QED BY <1>3, <1>7, <1>8, <3>1
  <2> QED BY <1>1, <2>1 DEF IInv, Carried
<1>19. Life'
  <2>1. engine \in live'
    <3>1. engine \in Object /\ refs'[engine] = Links(list', left', engine) + 3 + Waits(engine)'
          /\ engine \in live /\ Links(list', left', engine) \in Nat /\ Waits(engine)' \in Nat
      <4>1. Links(list', left', engine) \in Nat /\ Waits(engine)' \in Nat
        BY <1>5, LinksAre, WaitsAfter
      <4> QED BY <1>1, <1>12, <4>1, ObjectsAre
    <3> QED BY <1>8, <3>1
  <2>2. ASSUME phase = "gone" PROVE toRelease' \in Seq(Sample)
    <3>1. toRelease \in Seq(Sample)
      BY <2>2 DEF IInv, Life
    <3>2. p = none /\ n = none
      BY <1>2, <2>2
    <3>3. LetGo(p) \o LetGo(n) = <<>>
      BY <3>2 DEF LetGo
    <3>4. Tail(toRelease) \in Seq(Sample)
      BY <1>1, <3>1, HeadTailProperties
    <3>5. toRelease' = Tail(toRelease)
      BY <1>2, <3>3, <3>4, ConcatEmptySeq
    <3> QED BY <3>4, <3>5
  <2> QED BY <1>1, <2>1, <2>2 DEF IInv, Life
<1>20. Aged'
  <2>1. PICK top \in Nat : \E age \in [Module -> 0 .. top] : Older(age)
    BY DEF IInv, Aged
  <2>2. PICK age \in [Module -> 0 .. top] : Older(age)
    BY <2>1
  <2>3. ASSUME NEW y \in Module, NEW z \in Module, z \in {left'[y].prev, left'[y].next}, ~Listed(list, z)
        PROVE  age[y] < age[z]
    <3>1. left'[y] = left[y]
      <4>1. ASSUME left'[y] = Unlinked PROVE FALSE
        <5>1. z = none
          BY <2>3, <4>1 DEF Unlinked
        <5> QED BY <1>3, <5>1, ObjectsAre
      <4> QED BY <1>2, <4>1
    <3> QED BY <2>2, <2>3, <3>1 DEF Older
  <2>4. Older(age)'
    BY <1>1, <2>3 DEF Older
  <2> QED BY <2>1, <2>2, <2>4 DEF Aged
<1> QED BY <1>11, <1>12, <1>13, <1>14, <1>15, <1>16, <1>17, <1>18, <1>19, <1>20 DEF IInv

-----------------------------------------------------------------------------
(* The invariant, from the start and through every step.                   *)

LEMMA NoneIn == \A x : x \notin Range(<<>>)
<1>1. DOMAIN <<>> = {}
  OBVIOUS
<1> QED BY <1>1 DEF Range

LEMMA InitIInv == Init => IInv
<1> SUFFICES ASSUME Init PROVE IInv
  OBVIOUS
<1>1. /\ list = [r \in Root |-> <<>>] /\ left = [m \in Module |-> Unlinked]
      /\ refs = [x \in Object |-> IF x = engine THEN 3 ELSE 0] /\ live = {engine}
      /\ sample = none /\ toEngine = <<>> /\ retired = <<>> /\ leaked = {}
      /\ toRelease = <<>> /\ deleting = none /\ phase = "stopped"
  BY DEF Init
<1>2. \A r \in Root : list[r] = <<>> /\ Len(list[r]) = 0
  BY <1>1
<1>3. /\ engine \in Object /\ engine \in Root /\ none \notin Object
      /\ \A x \in Object : x \in live <=> x = engine
  BY <1>1, ObjectsAre DEF Root
<1>4. \A x : ~Listed(list, x)
  <2> TAKE x
  <2>1. \A r \in Root : x \notin Range(list[r])
    BY <1>2, NoneIn
  <2> QED BY <2>1 DEF Listed
<1>5. \A x \in Object : Waits(x) = 0
  <2> TAKE x \in Object
  <2>1. Times(<<>>, x) = 0 /\ SentIn(<<>>, x) = 0
    BY NoneOf
  <2> QED BY <1>1, <2>1 DEF Waits, One
<1>6. \A x \in Object : Links(list, left, x) = 0
  <2> TAKE x \in Object
  <2>1. \A m \in Module : left[m].prev # x /\ left[m].next # x
    BY <1>1, <1>3 DEF Unlinked
  <2> QED BY <1>4, <2>1, LinksAre DEF Listed
<1>7. Typed
  <2>1. <<>> \in Seq(Module) /\ <<>> \in Seq(Command) /\ <<>> \in Seq(Retirable)
        /\ <<>> \in Seq(Module \cup {engine} \cup Sample)
    BY EmptySeq
  <2> QED BY <1>1, <1>3, <2>1 DEF Typed
<1>8. Balance
  BY <1>1, <1>3, <1>5, <1>6, ObjectsAre DEF Balance, One
<1>9. Alive
  BY <1>1, <1>3 DEF Alive
<1>10. Once
  BY <1>2 DEF Once
<1>11. Unmoved /\ LinksLive
  BY <1>1, <1>4 DEF Unmoved, LinksLive
<1>12. Alone
  <2>1. \A m \in Module : SentIn(toEngine, m) = 0
    BY <1>1, NoneOf
  <2> QED BY <1>1, <2>1, ObjectsAre DEF Alone
<1>13. Carried
  BY <1>1, <1>2, <1>3, <1>5, ObjectsAre DEF Carried, One, Root
<1>14. Life
  BY <1>1, <1>3 DEF Life
<1>15. Aged
  <2> DEFINE age == [m \in Module |-> 0]
  <2>1. age \in [Module -> 0 .. 0]
    OBVIOUS
  <2>2. Older(age)
    BY <1>1, ObjectsAre DEF Older, Unlinked
  <2> HIDE DEF age
  <2> QED BY <2>1, <2>2 DEF Aged
<1> QED BY <1>7, <1>8, <1>9, <1>10, <1>11, <1>12, <1>13, <1>14, <1>15 DEF IInv

LEMMA StaysSo == IInv /\ UNCHANGED vars => IInv'
<1> SUFFICES ASSUME IInv, UNCHANGED vars PROVE IInv'
  OBVIOUS
<1>1. UNCHANGED <<list, left, refs, live, sample, toEngine, retired, leaked, toRelease, deleting, phase>>
  BY DEF vars, rings
<1>2. \A x : Waits(x)' = Waits(x)
  BY <1>1 DEF Waits
<1>3. Balance'
  <2>1. \A x \in Object : Links(list', left', x) = Links(list, left, x)
    BY <1>1
  <2> QED BY <1>1, <1>2, <2>1, ObjectsAre DEF IInv, Balance
<1>4. Carried'
  BY <1>1, <1>2 DEF IInv, Carried
<1>5. Aged'
  <2>1. \A age : Older(age)' <=> Older(age)
    BY <1>1 DEF Older
  <2> QED BY <2>1 DEF IInv, Aged
<1>6. Typed' /\ Alive' /\ Once' /\ Unmoved' /\ LinksLive' /\ Alone' /\ Life'
  BY <1>1 DEF IInv, Typed, Alive, Once, Unmoved, LinksLive, Alone, Life
<1> QED BY <1>3, <1>4, <1>5, <1>6 DEF IInv

\* The audio thread's steps destroy nothing.
LEMMA AudioKeeps ==
  ASSUME IInv, AudioThread PROVE IInv' /\ live \subseteq live'
<1>1. CASE DrainSlot
  <2>1. PICK k, m : k = Head(toEngine).slot /\ m = Head(toEngine).object
    OBVIOUS
  <2> QED BY <1>1, <2>1, DrainSlotKeeps
<1>2. CASE DrainChain
  <2>1. PICK c : c = Head(toEngine).object
    OBVIOUS
  <2> QED BY <1>2, <2>1, DrainChainKeeps
<1>3. CASE DrainSample
  <2>1. PICK s : s = Head(toEngine).object
    OBVIOUS
  <2> QED BY <1>3, <2>1, DrainSampleKeeps
<1>4. CASE \E k \in Slots, m \in FreshModule \cup {none} : SelectSlot(k, m)
  BY <1>4, SelectKeeps
<1>5. CASE \E k \in Slots, m \in FreshModule : SelectSlotFails(k, m)
  BY <1>5, FailsKeeps
<1> QED BY <1>1, <1>2, <1>3, <1>4, <1>5 DEF AudioThread

LEMMA MainKeeps ==
  ASSUME IInv, MainThread PROVE IInv'
<1>1. CASE \E k \in Slots, m \in FreshModule \cup {none} : PublishSlotQueued(k, m)
  BY <1>1, QueuedKeeps
<1>2. CASE \E k \in Slots, m \in FreshModule \cup {none} : PublishSlotDirect(k, m)
  BY <1>2, DirectKeeps
<1>3. CASE \E c \in Chain \ live, modules \in FreshChains : PublishChainQueued(c, modules)
  BY <1>3, ChainQueuedKeeps
<1>4. CASE \E c \in Chain \ live, modules \in FreshChains : PublishChainDirect(c, modules)
  BY <1>4, ChainDirectKeeps
<1>5. CASE \E s \in (Sample \ live) \cup {none} : PublishSample(s)
  BY <1>5, SampleKeeps
<1>6. CASE DrainRetired
  <2>1. PICK y : y = Head(retired)
    OBVIOUS
  <2> QED BY <1>6, <2>1, DrainRetiredKeeps
<1>7. CASE DestroyChain
  <2>1. PICK c : c = deleting
    OBVIOUS
  <2> QED BY <1>7, <2>1, DestroyChainKeeps
<1>8. CASE Release
  <2>1. PICK x : x = Head(toRelease)
    OBVIOUS
  <2> QED BY <1>8, <2>1, ReleaseKeeps
<1>9. CASE Activate \/ Deactivate \/ Stopped \/ Destroy
  BY <1>9, PhasesKeep
<1>10. CASE DestroyEngine
  BY <1>10, DestroyEngineKeeps
<1> QED BY <1>1, <1>2, <1>3, <1>4, <1>5, <1>6, <1>7, <1>8, <1>9, <1>10 DEF MainThread

(* Every count is the number of those who hold the object, an object is    *)
(* there as long as it is counted, a module is in one place of one chain   *)
(* and a chain in one place of one ring, links lead from what was taken    *)
(* out earlier to what was taken out later: for every number of objects,   *)
(* every length of the rings and every interleaving.                       *)
THEOREM CountsBalance == Spec => []IInv
<1>1. IInv /\ [Next]_vars => IInv'
  BY AudioKeeps, MainKeeps, StaysSo DEF Next
<1> QED BY <1>1, InitIInv, PTL DEF Spec

(* Whatever an object's count says, there is a link, a message or a slot   *)
(* that lets go of it, once: a reference made by publish.hpp's callers is  *)
(* handed on with the pointer and neither dropped nor kept on the way.     *)
THEOREM ReferencesHeld == Spec => []EveryReferenceHeld
<1>1. ASSUME IInv, NEW x \in Object \ ({engine} \ live)
      PROVE  refs[x] = Links(list, left, x) + RootLinks(x) + Holders(x)
  <2> DEFINE sent == {i \in DOMAIN toEngine : toEngine[i].object = x /\ x \notin Chain}
             back == {i \in DOMAIN retired : retired[i] = x /\ x \notin Chain}
  <2>1. /\ Typed /\ x \in Object /\ (x = engine => engine \in live) /\ sample \in Sample \cup {none}
        /\ list \in [Root -> Seq(Module)] /\ left \in [Module -> Link \cup {Unlinked}]
    BY <1>1 DEF IInv, Typed
  <2>2. /\ Links(list, left, x) \in Nat /\ Waits(x) \in Nat
        /\ Waits(x) = One(x \in leaked) + SentIn(toEngine, x) + Times(retired, x) + Times(toRelease, x)
        /\ SentIn(toEngine, x) \in Nat /\ Times(retired, x) \in Nat /\ Times(toRelease, x) \in Nat
    BY <2>1, LinksAre, WaitsAre DEF Waits
  <2>3. Holders(x) = One(x \in Chain /\ x \in live) + One(x = engine /\ x \in live) + One(x = sample)
                       + One(x \in leaked /\ x \notin Chain) + Cardinality(sent) + Cardinality(back)
                       + Times(toRelease, x)
    BY DEF Holders, Times
  <2>4. x \notin Chain => Cardinality(sent) = SentIn(toEngine, x) /\ Cardinality(back) = Times(retired, x)
    <3> SUFFICES ASSUME x \notin Chain
                 PROVE  Cardinality(sent) = SentIn(toEngine, x) /\ Cardinality(back) = Times(retired, x)
      OBVIOUS
    <3>1. sent = {i \in DOMAIN toEngine : toEngine[i].object = x}
      OBVIOUS
    <3>2. back = {i \in DOMAIN retired : retired[i] = x}
      OBVIOUS
    <3> HIDE DEF sent, back
    <3> QED BY <3>1, <3>2 DEF SentIn, Times
  <2>5. x \in Chain => Cardinality(sent) = 0 /\ Cardinality(back) = 0
    <3> SUFFICES ASSUME x \in Chain PROVE Cardinality(sent) = 0 /\ Cardinality(back) = 0
      OBVIOUS
    <3>1. sent = {} /\ back = {}
      OBVIOUS
    <3> HIDE DEF sent, back
    <3> QED BY <3>1, FS_EmptySet
  <2> HIDE DEF sent, back
  <2>6. CASE x \in Module
    <3>1. /\ refs[x] = Links(list, left, x) + Waits(x)
          /\ x \notin Chain /\ x # engine /\ x # sample /\ x \notin Root
      BY <1>1, <2>1, <2>6, ObjectsAre DEF IInv, Balance, Root
    <3> QED BY <2>2, <2>3, <2>4, <3>1 DEF RootLinks, One
  <2>7. CASE x \in Sample
    <3>1. /\ refs[x] = One(x = sample) + Waits(x)
          /\ x \notin Chain /\ x # engine /\ x \notin Root
      BY <1>1, <2>1, <2>7, ObjectsAre DEF IInv, Balance, Root
    <3>2. Links(list, left, x) = 0
      BY <2>1, <2>7, NoLinks
    <3> QED BY <2>2, <2>3, <2>4, <3>1, <3>2 DEF RootLinks, One
  <2>8. CASE x \in Chain
    <3>1. /\ refs[x] = 3 * One(x \in live)
          /\ x # engine /\ x # sample /\ x \in Root
      BY <1>1, <2>1, <2>8, ObjectsAre DEF IInv, Balance, Root
    <3>3. Links(list, left, x) = 0
      BY <2>1, <2>8, NoLinks
    <3>2. Times(toRelease, x) = 0
      <4>1. toRelease \in Seq(Module \cup {engine} \cup Sample) /\ x \notin Module \cup {engine} \cup Sample
        BY <2>1, <2>8, ObjectsAre DEF Typed
      <4>2. \A i \in 1 .. Len(toRelease) : toRelease[i] # x
        BY <4>1, ElementOfSeq
      <4> QED BY <4>1, <4>2, TimesAre
    <3> QED BY <2>2, <2>3, <2>5, <2>8, <3>1, <3>2, <3>3 DEF RootLinks, One
  <2>9. CASE x = engine
    <3>1. /\ refs[x] = Links(list, left, x) + 3 + Waits(x) /\ x \in live
          /\ x \notin Chain /\ x # sample /\ x \in Root
      BY <1>1, <2>1, <2>9, ObjectsAre DEF IInv, Balance, Root
    <3> QED BY <2>2, <2>3, <2>4, <2>9, <3>1 DEF RootLinks, One
  <2> QED BY <2>1, <2>6, <2>7, <2>8, <2>9, ObjectsAre
<1>2. IInv => EveryReferenceHeld
  BY <1>1 DEF EveryReferenceHeld
<1> QED BY <1>2, CountsBalance, PTL

(* No link, message or list leads to an object that was destroyed, while   *)
(* the plug-in lives: the neighbours of a module that was taken out        *)
(* outlive it, and a chain's modules outlive the chain.                    *)
THEOREM NoneDangles == Spec => []NothingDangles
<1>1. ASSUME IInv, phase # "gone", NEW x \in Object, x \notin live
      PROVE  /\ ~Listed(list, x) /\ Links(list, left, x) = 0 /\ Waits(x) = 0 /\ x # sample
  <2>1. x # engine
    BY <1>1 DEF IInv, Life
  <2> QED BY <1>1, <2>1, Forgotten
<1>2. ASSUME IInv, phase # "gone", NEW r \in Root PROVE Range(list[r]) \subseteq live
  <2> SUFFICES ASSUME NEW x \in Range(list[r]) PROVE x \in live
    OBVIOUS
  <2>1. x \in Module /\ Listed(list, x)
    BY <1>2, RangeOfSeq DEF IInv, Typed, Listed
  <2> QED BY <1>1, <1>2, <2>1, ObjectsAre
<1>3. ASSUME IInv, phase # "gone", NEW m \in Module
      PROVE  {left[m].prev, left[m].next} \subseteq live \cup {none}
  <2> SUFFICES ASSUME NEW x \in {left[m].prev, left[m].next}, x # none, x \notin live PROVE FALSE
    OBVIOUS
  <2>1. x \in Object
    BY <1>3, ObjectsAre DEF IInv, Typed, Link, Linkable, Unlinked
  <2>2. Links(list, left, x) = 0
    BY <1>1, <1>3, <2>1
  <2> QED BY <2>2, LinksAre
<1>4. ASSUME IInv, phase # "gone", NEW i \in DOMAIN toEngine
      PROVE  toEngine[i].object \in live \cup {none}
  <2> DEFINE x == toEngine[i].object
  <2>1. toEngine \in Seq(Command) /\ i \in 1 .. Len(toEngine) /\ toEngine[i] \in Command
    BY <1>4, ElementOfSeq, LenProperties DEF IInv, Typed
  <2>2. x \in Object \cup {none}
    BY <2>1, CommandsAre, ObjectsAre DEF Carriable
  <2>3. SentIn(toEngine, x) # 0
    BY <2>1, SentAre
  <2> HIDE DEF x
  <2>4. x \in Object => Waits(x) # 0
    BY <1>4, <2>3, WaitsAre DEF IInv, Waits
  <2>5. x \in live \cup {none}
    BY <1>1, <1>4, <2>2, <2>4
  <2> QED BY <2>5 DEF x
<1>5. ASSUME IInv, phase # "gone" PROVE Range(retired) \subseteq live
  <2> SUFFICES ASSUME NEW x \in Range(retired) PROVE x \in live
    OBVIOUS
  <2>1. retired \in Seq(Retirable)
    BY <1>5 DEF IInv, Typed
  <2>2. x \in Retirable
    BY <2>1, RangeOfSeq
  <2>3. x \in Object
    BY <2>2, ObjectsAre DEF Retirable
  <2>4. Times(retired, x) # 0
    <3>1. \E i \in 1 .. Len(retired) : retired[i] = x
      BY <2>1, InRange
    <3> QED BY <2>1, <3>1, TimesAre
  <2>5. Waits(x) # 0
    BY <1>5, <2>4, WaitsAre DEF IInv, Waits
  <2> QED BY <1>1, <1>5, <2>3, <2>5
<1>6. ASSUME IInv, phase # "gone" PROVE sample \in live \cup {none}
  <2>1. sample \in Sample \cup {none}
    BY <1>6 DEF IInv, Typed
  <2> QED BY <1>1, <1>6, <2>1, ObjectsAre
<1>7. IInv => NothingDangles
  BY <1>2, <1>3, <1>4, <1>5, <1>6 DEF NothingDangles
<1> QED BY <1>7, CountsBalance, PTL

(* threading_model.md 5: no step of the audio thread destroys an object.   *)
(* What it unlinks it holds a reference to until the main thread lets go.  *)
THEOREM AudioThreadFrees == Spec => AudioFreesNothing
<1>1. IInv /\ [Next]_vars
        => [live \subseteq live' \/ ~(phase \in {"running", "stopping"} /\ AudioThread)]_vars
  BY AudioKeeps
<1> QED BY <1>1, CountsBalance, PTL DEF Spec, AudioFreesNothing

\* A set of naturals has a least member.
LEMMA LeastIn ==
  ASSUME NEW S \in SUBSET Nat, S # {}
  PROVE  \E least \in S : \A n \in S : least <= n
<1> DEFINE Less == {pair \in Nat \X Nat : pair[1] < pair[2]}
<1>1. IsWellFoundedOn(Less, Nat)
  BY NatLessThanWellFounded DEF OpToRel
<1> HIDE DEF Less
<1>2. PICK least \in S : \A n \in S : ~ (<<n, least>> \in Less)
  BY <1>1, WFMin
<1>3. \A n \in S : least <= n
  <2> TAKE n \in S
  <2>1. least \in Nat /\ n \in Nat /\ ~ (n < least)
    BY <1>2 DEF Less
  <2> QED BY <2>1
<1> QED BY <1>3

(* Once the plug-in is gone and no retirement was refused, nothing it      *)
(* built is left.  Modules taken out of a chain hold one another, but not  *)
(* in a circle: the one taken out first is held by none.                   *)
THEOREM AllIsDestroyed == Spec => []NothingIsLeft
<1>1. ASSUME IInv, phase = "gone", MainIdle, leaked = {}, NEW y \in live PROVE FALSE
  <2>1. /\ Typed /\ toRelease = <<>> /\ deleting = none /\ toEngine = <<>> /\ retired = <<>>
        /\ sample = none /\ engine \notin live /\ list[engine] = <<>> /\ y \in Object
    BY <1>1, ObjectsAre DEF IInv, Typed, MainIdle, Life
  <2>2. \A x \in Object : Waits(x) = 0
    <3> TAKE x \in Object
    <3>1. Times(<<>>, x) = 0 /\ SentIn(<<>>, x) = 0
      BY NoneOf
    <3> QED BY <1>1, <2>1, <3>1 DEF Waits, One
  <2>3. \A c \in Chain : c \notin live /\ list[c] = <<>>
    <3> TAKE c \in Chain
    <3>1. c \in Object /\ c # none /\ One(c = deleting) + Waits(c) = One(c \in live)
      BY <1>1, ObjectsAre DEF IInv, Carried
    <3>2. c \notin live
      BY <2>1, <2>2, <3>1 DEF One
    <3> QED BY <1>1, <3>2 DEF IInv, Carried
  <2>4. \A x : ~Listed(list, x)
    <3> TAKE x
    <3>1. \A r \in Root : list[r] = <<>>
      BY <2>1, <2>3 DEF Root
    <3>2. \A r \in Root : x \notin Range(list[r])
      BY <3>1, NoneIn
    <3> QED BY <3>2 DEF Listed
  <2>5. \A s \in Sample : s \notin live
    <3> TAKE s \in Sample
    <3>1. s \in Object /\ s # none /\ refs[s] = One(s = sample) + Waits(s)
      BY <1>1, ObjectsAre DEF IInv, Balance
    <3> QED BY <1>1, <2>1, <2>2, <3>1 DEF IInv, Alive, One
  <2>6. y \in Module
    BY <2>1, <2>3, <2>5, ObjectsAre
  <2>7. PICK top \in Nat : \E age \in [Module -> 0 .. top] : Older(age)
    BY <1>1 DEF IInv, Aged
  <2>8. PICK age \in [Module -> 0 .. top] : Older(age)
    BY <2>7
  <2> DEFINE there == {m \in Module : m \in live}
             ages == {age[m] : m \in there}
  <2>9. age[y] \in ages /\ ages \in SUBSET Nat
    BY <2>6
  <2>10. PICK least \in ages : \A n \in ages : least <= n
    BY <2>9, LeastIn
  <2>11. PICK first \in there : age[first] = least
    BY <2>10
  <2>12. first \in Module /\ first \in Object /\ first # none /\ first \in live
    BY ObjectsAre
  <2>13. refs[first] # 0 /\ refs[first] = Links(list, left, first) + Waits(first)
         /\ Links(list, left, first) \in Nat
    BY <1>1, <2>12, LinksAre DEF IInv, Alive, Balance
  <2>14. Links(list, left, first) # 0
    BY <2>2, <2>12, <2>13
  <2>15. PICK m \in Module : left[m].prev = first \/ left[m].next = first
    BY <2>4, <2>14, LinksAre DEF Listed
  <2>16. age[m] < age[first]
    BY <2>4, <2>8, <2>12, <2>15 DEF Older
  <2>17. left[m] # Unlinked
    BY <2>12, <2>15 DEF Unlinked
  <2>18. m \in there
    BY <1>1, <2>17 DEF IInv, LinksLive
  <2>19. age[m] \in ages /\ age[m] \in Nat /\ age[first] \in Nat
    BY <2>12, <2>18
  <2> HIDE DEF ages, there
  <2> QED BY <2>10, <2>11, <2>16, <2>19
<1>2. IInv => NothingIsLeft
  BY <1>1 DEF NothingIsLeft
<1> QED BY <1>2, CountsBalance, PTL

-----------------------------------------------------------------------------
(* Types, and the bounds of the two rings.                                 *)

RingsFit == Len(toEngine) <= CommandCapacity /\ Len(retired) <= RetireCapacity

LEMMA RetireFits ==
  ASSUME Typed, RingsFit, NEW y \in Retirable \cup {none}, Retire(y)
  PROVE  Len(retired') <= RetireCapacity
<1>1. retired \in Seq(Retirable) /\ Len(retired) \in Nat /\ RetireCapacity \in Nat
      /\ Len(retired) <= RetireCapacity
  BY BoundsAssumption, LenProperties DEF Typed, RingsFit
<1>2. retired' = retired
      \/ (y \in Retirable /\ Len(retired) < RetireCapacity /\ retired' = Append(retired, y))
  BY DEF Retire
<1>3. CASE retired' = retired
  BY <1>1, <1>3
<1>4. CASE y \in Retirable /\ Len(retired) < RetireCapacity /\ retired' = Append(retired, y)
  <2>1. Len(Append(retired, y)) = Len(retired) + 1
    BY <1>1, <1>4, AppendProperties
  <2> QED BY <1>1, <1>4, <2>1
<1> QED BY <1>2, <1>3, <1>4

LEMMA QueueFits ==
  ASSUME Typed, RingsFit, NEW c \in Command, ~Full, toEngine' = Append(toEngine, c)
  PROVE  Len(toEngine') <= CommandCapacity
<1>1. toEngine \in Seq(Command) /\ Len(toEngine) \in Nat /\ CommandCapacity \in Nat
      /\ Len(toEngine) <= CommandCapacity /\ Len(toEngine) # CommandCapacity
  BY BoundsAssumption, LenProperties DEF Typed, RingsFit, Full
<1>2. Len(Append(toEngine, c)) = Len(toEngine) + 1
  BY <1>1, AppendProperties
<1> QED BY <1>1, <1>2

LEMMA DrainFits ==
  ASSUME Typed, RingsFit, toEngine # <<>>, toEngine' = Tail(toEngine)
  PROVE  Len(toEngine') <= CommandCapacity
<1>1. Len(Tail(toEngine)) = Len(toEngine) - 1 /\ Len(toEngine) \in Nat /\ CommandCapacity \in Nat
  BY BoundsAssumption, HeadTailProperties, LenProperties DEF Typed
<1> QED BY <1>1 DEF RingsFit

LEMMA NextFits == IInv /\ RingsFit /\ [Next]_vars => RingsFit'
<1> SUFFICES ASSUME IInv, RingsFit, [Next]_vars PROVE RingsFit'
  OBVIOUS
<1>1. Typed /\ Module \subseteq Retirable /\ Chain \subseteq Retirable /\ Sample \subseteq Retirable
  BY DEF IInv, Retirable
<1>2. ASSUME UNCHANGED <<toEngine, retired>> PROVE RingsFit'
  BY <1>2 DEF RingsFit
<1>3. ASSUME UNCHANGED toEngine, Len(retired') <= RetireCapacity PROVE RingsFit'
  BY <1>3 DEF RingsFit
<1>4. ASSUME UNCHANGED retired, Len(toEngine') <= CommandCapacity PROVE RingsFit'
  BY <1>4 DEF RingsFit
<1>5. CASE DrainSlot
  <2>1. toEngine # <<>> /\ toEngine \in Seq(Command) /\ Head(toEngine) \in Command
        /\ Head(toEngine).kind = "slot" /\ toEngine' = Tail(toEngine)
    BY <1>1, <1>5, HeadTailProperties DEF DrainSlot, Typed
  <2>2. PICK k \in Slots : k = Head(toEngine).slot
    BY <2>1, CommandsAre
  <2>3. Displaced(k) \in Retirable \cup {none}
    BY <1>1, DisplacedIs
  <2>4. Retire(Displaced(k))
    BY <1>5, <2>2 DEF DrainSlot
  <2> QED BY <1>1, <2>1, <2>3, <2>4, RetireFits, DrainFits DEF RingsFit
<1>6. CASE DrainChain
  <2>1. toEngine # <<>> /\ toEngine \in Seq(Command) /\ Head(toEngine) \in Command
        /\ Head(toEngine).kind = "chain" /\ toEngine' = Tail(toEngine)
    BY <1>1, <1>6, HeadTailProperties DEF DrainChain, Typed
  <2>2. PICK c \in Chain : c = Head(toEngine).object
    BY <2>1, CommandsAre
  <2>4. Retire(c)
    BY <1>6, <2>2 DEF DrainChain
  <2> QED BY <1>1, <2>1, <2>4, RetireFits, DrainFits DEF RingsFit
<1>7. CASE DrainSample
  <2>1. toEngine # <<>> /\ toEngine' = Tail(toEngine) /\ Retire(sample)
    BY <1>7 DEF DrainSample
  <2>2. sample \in Retirable \cup {none}
    BY <1>1 DEF Typed
  <2> QED BY <1>1, <2>1, <2>2, RetireFits, DrainFits DEF RingsFit
<1>8. ASSUME NEW k \in Slots, NEW m \in FreshModule \cup {none}, SelectSlot(k, m) PROVE RingsFit'
  <2>1. Displaced(k) \in Retirable \cup {none} /\ Retire(Displaced(k)) /\ UNCHANGED toEngine
    BY <1>1, <1>8, DisplacedIs DEF SelectSlot
  <2> QED BY <1>1, <1>3, <2>1, RetireFits
<1>9. ASSUME NEW k \in Slots, NEW m \in FreshModule, SelectSlotFails(k, m) PROVE RingsFit'
  <2>1. m \in Retirable \cup {none} /\ Retire(m) /\ UNCHANGED toEngine
    BY <1>1, <1>9 DEF SelectSlotFails, FreshModule
  <2> QED BY <1>1, <1>3, <2>1, RetireFits
<1>10. ASSUME NEW k \in Slots, NEW m \in FreshModule \cup {none}, PublishSlotQueued(k, m) PROVE RingsFit'
  <2>1. Setting(k, m) \in Command
    BY CommandsAre DEF FreshModule
  <2>2. UNCHANGED retired /\ (toEngine' = toEngine \/ (~Full /\ toEngine' = Append(toEngine, Setting(k, m))))
    BY <1>10 DEF PublishSlotQueued
  <2> QED BY <1>1, <1>2, <1>4, <2>1, <2>2, QueueFits
<1>11. ASSUME NEW c \in Chain \ live, NEW modules \in FreshChains, PublishChainQueued(c, modules) PROVE RingsFit'
  <2>1. Swapping(c) \in Command
    BY CommandsAre
  <2>2. UNCHANGED retired /\ (toEngine' = toEngine \/ (~Full /\ toEngine' = Append(toEngine, Swapping(c))))
    BY <1>11 DEF PublishChainQueued
  <2> QED BY <1>1, <1>2, <1>4, <2>1, <2>2, QueueFits
<1>12. ASSUME NEW s \in (Sample \ live) \cup {none}, PublishSample(s) PROVE RingsFit'
  <2>1. Sampling(s) \in Command
    BY CommandsAre
  <2>2. UNCHANGED retired /\ (toEngine' = toEngine \/ (~Full /\ toEngine' = Append(toEngine, Sampling(s))))
    BY <1>12 DEF PublishSample
  <2> QED BY <1>1, <1>2, <1>4, <2>1, <2>2, QueueFits
<1>13. CASE DrainRetired
  <2>1. retired # <<>> /\ retired' = Tail(retired) /\ UNCHANGED toEngine
    BY <1>13 DEF DrainRetired
  <2>2. Len(Tail(retired)) = Len(retired) - 1 /\ Len(retired) \in Nat /\ RetireCapacity \in Nat
    BY <1>1, <2>1, BoundsAssumption, HeadTailProperties, LenProperties DEF Typed
  <2> QED BY <1>3, <2>1, <2>2 DEF RingsFit
<1>14. ASSUME NEW k \in Slots, NEW m \in FreshModule \cup {none}, PublishSlotDirect(k, m) PROVE RingsFit'
  BY <1>2, <1>14 DEF PublishSlotDirect, rings
<1>15. ASSUME NEW c \in Chain \ live, NEW modules \in FreshChains, PublishChainDirect(c, modules) PROVE RingsFit'
  BY <1>2, <1>15 DEF PublishChainDirect, rings
<1>16. CASE DestroyChain
  BY <1>2, <1>16 DEF DestroyChain, rings
<1>17. CASE Release
  BY <1>2, <1>17 DEF Release, rings
<1>18. CASE Activate \/ Deactivate \/ Stopped \/ Destroy \/ DestroyEngine
  BY <1>2, <1>18 DEF Activate, Deactivate, Stopped, Destroy, DestroyEngine, Stays, rings
<1>19. CASE UNCHANGED vars
  BY <1>2, <1>19 DEF vars, rings
<1>20. CASE AudioThread
  BY <1>5, <1>6, <1>7, <1>8, <1>9, <1>20 DEF AudioThread
<1>21. CASE MainThread
  BY <1>10, <1>11, <1>12, <1>13, <1>14, <1>15, <1>16, <1>17, <1>18, <1>21 DEF MainThread
<1> QED BY <1>19, <1>20, <1>21 DEF Next

(* Every variable keeps its type, and the two rings their bounds.          *)
THEOREM OwnershipTypes == Spec => []TypeOK
<1>1. Init => RingsFit
  <2>1. Len(<<>>) = 0
    OBVIOUS
  <2> QED BY <2>1, BoundsAssumption DEF Init, RingsFit
<1>2. ASSUME IInv, RingsFit PROVE TypeOK
  <2> DEFINE Message == [kind : {"slot", "chain", "sample"}, slot : 0 .. MaxModules,
                         object : Object \cup {none}]
  <2>1. \A c \in Command : c \in Message
    <3>1. MaxModules \in Nat /\ Slots \subseteq 0 .. MaxModules /\ 0 \in 0 .. MaxModules
      BY BoundsAssumption DEF Slots
    <3>2. Module \cup {none} \subseteq Object \cup {none} /\ Chain \subseteq Object \cup {none}
          /\ Sample \cup {none} \subseteq Object \cup {none}
      BY ObjectsAre
    <3> QED BY <3>1, <3>2 DEF Command
  <2>2. toEngine \in Seq(Message)
    <3> HIDE DEF Message
    <3>1. toEngine \in Seq(Command)
      BY <1>2 DEF IInv, Typed
    <3>2. Len(toEngine) \in Nat /\ toEngine = [i \in 1 .. Len(toEngine) |-> toEngine[i]]
          /\ \A i \in 1 .. Len(toEngine) : toEngine[i] \in Command
      BY <3>1, LenProperties, ElementOfSeq
    <3> QED BY <2>1, <3>2
  <2>3. retired \in Seq(Object) /\ leaked \subseteq Object /\ toRelease \in Seq(Object)
    <3>1. Retirable \subseteq Object /\ Module \cup {engine} \cup Sample \subseteq Object
      BY ObjectsAre DEF Retirable
    <3> QED BY <1>2, <3>1 DEF IInv, Typed
  <2>4. left \in [Module -> [prev : Object \cup {none}, next : Object \cup {none}]]
    BY <1>2, ObjectsAre DEF IInv, Typed, Link, Linkable, Unlinked
  <2> QED BY <1>2, <2>2, <2>3, <2>4 DEF IInv, Typed, RingsFit, TypeOK
<1> QED BY <1>1, <1>2, CountsBalance, NextFits, PTL DEF Spec

=============================================================================
