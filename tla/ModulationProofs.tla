--------------------------- MODULE ModulationProofs ---------------------------
(***************************************************************************)
(* Proofs about modulation: what is played while no LFO runs, the mailbox  *)
(* that loses no newest value, the knob that comes back, and the two       *)
(* Programs the rings keep level.                                          *)
(***************************************************************************)
EXTENDS Modulation, SequenceTheorems, TLAPS

\* The inductive invariant of the knob.  A value nobody chose is in the mailbox
\* only while the engine owes it another one; and wherever such a value was read
\* or painted, something newer is on its way.
MailboxOwed == ~modulating => value \in Asked
NewsComing == modulating \/ publishing \/ dirty
ReadOwed == sweep \in Values /\ sweep \notin Asked => NewsComing
KnobOwed == shown \notin Asked => NewsComing \/ sweep # "no" \/ unpainted
KnobInv == MailboxOwed /\ ReadOwed /\ KnobOwed

IInv == TypeOK /\ StoppedPlaysBase /\ KnobInv

-----------------------------------------------------------------------------
(* The operators.                                                          *)

(* A write leaves a module a module, with what it plays its own value      *)
(* where its LFO is off.                                                   *)
LEMMA WrittenType ==
  ASSUME NEW module \in [base : Asked, live : Values, lfo : BOOLEAN], NEW write \in Writes,
         ~module.lfo => module.live = module.base
  PROVE  /\ Written(module, write) \in [base : Asked, live : Values, lfo : BOOLEAN]
         /\ ~Written(module, write).lfo => Written(module, write).live = Written(module, write).base
<1>1. CASE write \in [what : {"base"}, to : Asked]
  BY <1>1 DEF Written, Values
<1>2. CASE write \in [what : {"lfo"}, to : BOOLEAN]
  <2>1. write.what = "lfo" /\ write.to \in BOOLEAN
    BY <1>2
  <2> QED BY <2>1 DEF Written, Values
<1> QED BY <1>1, <1>2 DEF Writes

(* The main thread's copy stays one, however it is written.                *)
LEMMA CopyType ==
  ASSUME NEW copy \in [base : Asked, lfo : BOOLEAN], NEW write \in Writes
  PROVE  /\ WrittenInCopy(copy, write) \in [base : Asked, lfo : BOOLEAN]
         /\ Stored(copy, write) \in [base : Asked, lfo : BOOLEAN]
<1>1. CASE write \in [what : {"base"}, to : Asked]
  BY <1>1 DEF WrittenInCopy, Stored
<1>2. CASE write \in [what : {"lfo"}, to : BOOLEAN]
  <2>1. write.what = "lfo" /\ write.to \in BOOLEAN
    BY <1>2
  <2> QED BY <2>1 DEF WrittenInCopy, Stored
<1> QED BY <1>1, <1>2 DEF Writes

(* A knob told of a write stands where it stood or where somebody chose.   *)
LEMMA DrawnChosen ==
  ASSUME NEW copy \in [base : Asked, lfo : BOOLEAN], NEW write \in Writes
  PROVE  Drawn(write, copy) \in Asked \cup {shown}
<1>1. CASE write \in [what : {"base"}, to : Asked]
  BY <1>1 DEF Drawn
<1>2. CASE write \in [what : {"lfo"}, to : BOOLEAN]
  <2>1. write.what = "lfo" /\ write.to \in BOOLEAN
    BY <1>2
  <2> QED BY <2>1 DEF Drawn
<1> QED BY <1>1, <1>2 DEF Writes

(* Echoes pushed on a ring that may refuse them.                           *)
LEMMA EchoType ==
  ASSUME TypeOK, NEW messages \in Seq(Echoes), Echo(messages)
  PROVE  /\ toUI' \in Seq(Echoes) /\ Len(toUI') <= EchoCapacity
         /\ echoesLost' \in BOOLEAN
<1> DEFINE all == toUI \o messages
<1>1. all \in Seq(Echoes) /\ Len(all) \in Nat
  BY ConcatProperties, LenProperties DEF TypeOK
<1>2. EchoCapacity \in Nat
  BY RingAssumption
<1>3. CASE Len(all) > EchoCapacity
  <2>1. toUI' = SubSeq(all, 1, EchoCapacity)
    BY <1>3 DEF Echo
  <2>2. \A i \in 1 .. EchoCapacity : all[i] \in Echoes
    BY <1>1, <1>2, <1>3, ElementOfSeq
  <2>3. SubSeq(all, 1, EchoCapacity) \in Seq(Echoes) /\ Len(SubSeq(all, 1, EchoCapacity)) = EchoCapacity
    BY <1>1, <1>2, <1>3, <2>2, SubSeqProperties
  <2> QED BY <2>1, <2>3, <1>2, <1>3 DEF Echo, TypeOK
<1>4. CASE ~(Len(all) > EchoCapacity)
  BY <1>1, <1>2, <1>4 DEF Echo, TypeOK
<1> QED BY <1>3, <1>4

(* A command put behind what is queued.                                    *)
LEMMA QueueType ==
  ASSUME TypeOK, NEW command \in Commands, Len(toEngine) < CommandCapacity,
         toEngine' = Append(toEngine, command)
  PROVE  toEngine' \in Seq(Commands) /\ Len(toEngine') <= CommandCapacity
<1>1. Len(toEngine) \in Nat /\ CommandCapacity \in Nat
  BY LenProperties, RingAssumption DEF TypeOK
<1> QED BY <1>1, AppendProperties DEF TypeOK

(* A ring without its first message.                                       *)
LEMMA TakenType ==
  ASSUME NEW S, NEW ring \in Seq(S), NEW n \in Nat, Len(ring) <= n, ring # <<>>
  PROVE  Head(ring) \in S /\ Tail(ring) \in Seq(S) /\ Len(Tail(ring)) <= n
<1>1. Len(ring) \in Nat
  BY LenProperties
<1> QED BY <1>1, HeadTailProperties

-----------------------------------------------------------------------------
(* Each step.                                                              *)

LEMMA InitInv == Init => IInv
<1> SUFFICES ASSUME Init PROVE IInv
  OBVIOUS
<1>1. <<>> \in Seq(Echoes) /\ <<>> \in Seq(Commands) /\ Len(<<>>) = 0
  OBVIOUS
<1>2. PICK v \in Asked :
        /\ engine = [base |-> v, live |-> v, lfo |-> FALSE]
        /\ main = [base |-> v, lfo |-> FALSE]
        /\ value = v /\ shown = v /\ current = TRUE
        /\ toUI = <<>> /\ toEngine = <<>> /\ echoesLost = FALSE /\ republishing = FALSE
        /\ modulating = FALSE /\ dirty = FALSE /\ publishing = FALSE
        /\ chainChanged = FALSE /\ sweep = "no" /\ unpainted = FALSE /\ crossed = FALSE
  BY DEF Init
<1>3. TypeOK
  <2>1. /\ engine \in [base : Asked, live : Values, lfo : BOOLEAN]
        /\ main \in [base : Asked, lfo : BOOLEAN]
    BY <1>2 DEF Values
  <2>2. /\ toUI \in Seq(Echoes) /\ Len(toUI) <= EchoCapacity
        /\ toEngine \in Seq(Commands) /\ Len(toEngine) <= CommandCapacity
    BY <1>1, <1>2, RingAssumption
  <2> QED BY <1>2, <2>1, <2>2 DEF TypeOK, Values
<1>4. StoppedPlaysBase
  BY <1>2 DEF StoppedPlaysBase
<1>5. sweep \notin Values
  BY <1>2, SweepAssumption DEF Values
<1>6. KnobInv
  BY <1>2, <1>5 DEF KnobInv, MailboxOwed, ReadOwed, KnobOwed
<1> QED BY <1>3, <1>4, <1>6 DEF IInv

(* What the audio thread does: its module stays one that plays its own     *)
(* value while no LFO runs.                                                *)
LEMMA AudioStep ==
  ASSUME IInv,
         \/ \E write \in Writes : HostWrites(write)
         \/ drainCommand \/ republishParameters \/ \E v \in Swept : preProcess(v)
         \/ PublishValue \/ PublishBit
  PROVE  IInv'
<1> USE DEF IInv
<1>1. ASSUME NEW write \in Writes, HostWrites(write) PROVE IInv'
  <2>1. /\ engine' \in [base : Asked, live : Values, lfo : BOOLEAN]
        /\ StoppedPlaysBase'
    BY <1>1, WrittenType DEF HostWrites, TypeOK, StoppedPlaysBase
  <2>2. <<[kind |-> "write", write |-> write]>> \in Seq(Echoes)
    BY DEF Echoes
  <2>3. toUI' \in Seq(Echoes) /\ Len(toUI') <= EchoCapacity /\ echoesLost' \in BOOLEAN
    BY <1>1, <2>2, EchoType DEF HostWrites
  <2>4. TypeOK'
    BY <1>1, <2>1, <2>3 DEF HostWrites, TypeOK, mailbox, reader
  <2>5. KnobInv'
    BY <1>1 DEF HostWrites, mailbox, reader, KnobInv, MailboxOwed, ReadOwed, KnobOwed, NewsComing
  <2> QED BY <2>1, <2>4, <2>5
<1>2. CASE drainCommand
  <2>1. /\ Head(toEngine) \in Commands
        /\ toEngine' \in Seq(Commands) /\ Len(toEngine') <= CommandCapacity
    BY <1>2, TakenType, RingAssumption DEF drainCommand, TypeOK
  <2>2. /\ engine' \in [base : Asked, live : Values, lfo : BOOLEAN]
        /\ StoppedPlaysBase'
    <3>1. CASE Head(toEngine) \in [kind : {"write"}, write : Writes]
      <4>1. engine' = Written(engine, Head(toEngine).write) /\ Head(toEngine).write \in Writes
        BY <1>2, <3>1 DEF drainCommand
      <4> QED BY <4>1, WrittenType DEF TypeOK, StoppedPlaysBase
    <3>2. CASE Head(toEngine) \in [kind : {"chain"}, to : Presets]
      <4>1. /\ Head(toEngine).to \in [base : Asked, lfo : BOOLEAN]
            /\ engine' = [base |-> Head(toEngine).to.base, live |-> Head(toEngine).to.base,
                          lfo |-> Head(toEngine).to.lfo]
        BY <1>2, <3>2, PresetAssumption DEF drainCommand
      <4> QED BY <4>1 DEF StoppedPlaysBase, Values
    <3>3. CASE Head(toEngine) \in [kind : {"republish"}]
      <4>1. engine' = engine
        BY <1>2, <3>3 DEF drainCommand
      <4> QED BY <4>1 DEF TypeOK, StoppedPlaysBase
    <3> QED BY <2>1, <3>1, <3>2, <3>3 DEF Commands
  <2>3. TypeOK'
    BY <1>2, <2>1, <2>2 DEF drainCommand, TypeOK, mailbox, reader
  <2>4. KnobInv'
    BY <1>2 DEF drainCommand, mailbox, reader, KnobInv, MailboxOwed, ReadOwed, KnobOwed, NewsComing
  <2> QED BY <2>2, <2>3, <2>4
<1>3. CASE republishParameters
  <2>1. Republished(engine) \in Seq(Echoes)
    <3>1. /\ [kind |-> "republished", write |-> [what |-> "base", to |-> engine.base]] \in Echoes
          /\ [kind |-> "republished", write |-> [what |-> "lfo", to |-> engine.lfo]] \in Echoes
      BY DEF TypeOK, Echoes, Writes
    <3> QED BY <3>1 DEF Republished
  <2>2. toUI' \in Seq(Echoes) /\ Len(toUI') <= EchoCapacity /\ echoesLost' \in BOOLEAN
    BY <1>3, <2>1, EchoType DEF republishParameters
  <2>3. TypeOK'
    BY <1>3, <2>2 DEF republishParameters, TypeOK, mailbox, reader
  <2> QED
    BY <1>3, <2>3 DEF republishParameters, mailbox, reader, StoppedPlaysBase,
                      KnobInv, MailboxOwed, ReadOwed, KnobOwed, NewsComing
<1>4. ASSUME NEW v \in Swept, preProcess(v) PROVE IInv'
  BY <1>4 DEF preProcess, TypeOK, Values, rings, mailbox, reader, StoppedPlaysBase,
              KnobInv, MailboxOwed, ReadOwed, KnobOwed, NewsComing
<1>5. CASE PublishValue
  <2>1. TypeOK'
    BY <1>5 DEF PublishValue, TypeOK, rings, reader
  <2>2. StoppedPlaysBase'
    BY <1>5 DEF PublishValue, StoppedPlaysBase
  <2>3. MailboxOwed'
    BY <1>5 DEF PublishValue, MailboxOwed, StoppedPlaysBase, TypeOK
  <2>4. ReadOwed' /\ KnobOwed'
    BY <1>5 DEF PublishValue, ReadOwed, KnobOwed, NewsComing
  <2> QED BY <2>1, <2>2, <2>3, <2>4 DEF KnobInv
<1>6. CASE PublishBit
  BY <1>6 DEF PublishBit, TypeOK, rings, reader, StoppedPlaysBase,
              KnobInv, MailboxOwed, ReadOwed, KnobOwed, NewsComing
<1> QED BY <1>1, <1>2, <1>3, <1>4, <1>5, <1>6

(* What the main thread does: a value nobody chose reaches the knob only   *)
(* with something newer on its way.                                        *)
LEMMA MainStep ==
  ASSUME IInv,
         \/ \E write \in Writes : EditorWrites(write)
         \/ drainEchoes \/ AskForRepublish \/ resyncModuleRack \/ OpenEditor
         \/ \E preset \in Presets : Load(preset)
         \/ SweepTake \/ SweepRead \/ SweepPaint
  PROVE  IInv'
<1> USE DEF IInv
<1>1. ASSUME NEW write \in Writes, EditorWrites(write) PROVE IInv'
  <2>1. [kind |-> "write", write |-> write] \in Commands
    BY DEF Commands
  <2>2. toEngine' \in Seq(Commands) /\ Len(toEngine') <= CommandCapacity
    BY <1>1, <2>1, QueueType DEF EditorWrites
  <2>3. main' \in [base : Asked, lfo : BOOLEAN]
    BY <1>1, CopyType DEF EditorWrites, TypeOK
  <2>4. shown' \in Asked \cup {shown}
    BY <1>1, <2>3, DrawnChosen DEF EditorWrites
  <2>5. TypeOK'
    BY <1>1, <2>2, <2>3, <2>4 DEF EditorWrites, TypeOK, mailbox, Values
  <2> QED
    BY <1>1, <2>4, <2>5 DEF EditorWrites, mailbox, StoppedPlaysBase,
                            KnobInv, MailboxOwed, ReadOwed, KnobOwed, NewsComing
<1>2. CASE drainEchoes
  <2>1. /\ Head(toUI) \in Echoes
        /\ toUI' \in Seq(Echoes) /\ Len(toUI') <= EchoCapacity
    BY <1>2, TakenType, RingAssumption DEF drainEchoes, TypeOK
  <2>2. Head(toUI).write \in Writes
    BY <2>1 DEF Echoes
  <2>3. main' \in [base : Asked, lfo : BOOLEAN]
    BY <1>2, <2>2, CopyType DEF drainEchoes, TypeOK
  <2>4. shown' \in Asked \cup {shown}
    BY <1>2, <2>2, <2>3, DrawnChosen DEF drainEchoes
  <2>5. TypeOK'
    BY <1>2, <2>1, <2>3, <2>4 DEF drainEchoes, TypeOK, mailbox, Values
  <2> QED
    BY <1>2, <2>4, <2>5 DEF drainEchoes, mailbox, StoppedPlaysBase,
                            KnobInv, MailboxOwed, ReadOwed, KnobOwed, NewsComing
<1>3. CASE AskForRepublish
  <2>1. [kind |-> "republish"] \in Commands
    BY DEF Commands
  <2>2. toEngine' \in Seq(Commands) /\ Len(toEngine') <= CommandCapacity
    BY <1>3, <2>1, QueueType DEF AskForRepublish
  <2>3. TypeOK'
    BY <1>3, <2>2 DEF AskForRepublish, TypeOK, mailbox, reader
  <2> QED
    BY <1>3, <2>3 DEF AskForRepublish, mailbox, reader, StoppedPlaysBase,
                      KnobInv, MailboxOwed, ReadOwed, KnobOwed, NewsComing
<1>4. CASE resyncModuleRack
  <2>1. TypeOK'
    BY <1>4 DEF resyncModuleRack, TypeOK, rings
  <2>2. sweep = "no" /\ sweep' = "no" /\ "no" \notin Values
    BY <1>4, SweepAssumption DEF resyncModuleRack, rings, Values
  <2>3. MailboxOwed' /\ ReadOwed' /\ KnobOwed'
    BY <1>4, <2>2 DEF resyncModuleRack, TypeOK, Values, KnobInv, MailboxOwed, ReadOwed, KnobOwed, NewsComing
  <2> QED
    BY <1>4, <2>1, <2>3 DEF resyncModuleRack, StoppedPlaysBase, KnobInv
<1>5. CASE OpenEditor
  <2>1. main.base \in Asked /\ sweep = "no" /\ "no" \notin Values
    BY <1>5, SweepAssumption DEF TypeOK, OpenEditor, Values
  <2>2. TypeOK'
    BY <1>5, <2>1 DEF OpenEditor, TypeOK, Values, rings
  <2>3. StoppedPlaysBase'
    BY <1>5 DEF OpenEditor, StoppedPlaysBase
  <2>4. MailboxOwed'
    BY <1>5 DEF OpenEditor, KnobInv, MailboxOwed
  <2>5. ReadOwed' /\ KnobOwed'
    BY <1>5, <2>1 DEF OpenEditor, ReadOwed, KnobOwed, Values
  <2> QED BY <2>2, <2>3, <2>4, <2>5 DEF KnobInv
<1>6. ASSUME NEW preset \in Presets, Load(preset) PROVE IInv'
  <2>1. [kind |-> "chain", to |-> preset] \in Commands
    BY DEF Commands
  <2>2. toEngine' \in Seq(Commands) /\ Len(toEngine') <= CommandCapacity
    BY <1>6, <2>1, QueueType DEF Load
  <2>3. main' \in [base : Asked, lfo : BOOLEAN] /\ shown' \in Asked
    BY <1>6, PresetAssumption DEF Load
  <2>4. TypeOK'
    <3>1. crossed' \in BOOLEAN
      BY <1>6 DEF Load, EditorMeetsHost
    <3> QED BY <1>6, <2>2, <2>3, <3>1 DEF Load, TypeOK, Values
  <2> QED
    BY <1>6, <2>3, <2>4, SweepAssumption
       DEF Load, StoppedPlaysBase, TypeOK, Values, KnobInv, MailboxOwed, ReadOwed, KnobOwed, NewsComing
<1>7. CASE SweepTake
  BY <1>7, SweepAssumption DEF SweepTake, TypeOK, Values, rings, StoppedPlaysBase,
              KnobInv, MailboxOwed, ReadOwed, KnobOwed, NewsComing
<1>8. CASE SweepRead
  BY <1>8, SweepAssumption DEF SweepRead, TypeOK, Values, rings, mailbox, StoppedPlaysBase,
              KnobInv, MailboxOwed, ReadOwed, KnobOwed, NewsComing
<1>9. CASE SweepPaint
  BY <1>9, SweepAssumption DEF SweepPaint, TypeOK, Values, rings, mailbox, StoppedPlaysBase,
              KnobInv, MailboxOwed, ReadOwed, KnobOwed, NewsComing
<1> QED BY <1>1, <1>2, <1>3, <1>4, <1>5, <1>6, <1>7, <1>8, <1>9

LEMMA StutterStep == IInv /\ UNCHANGED vars => IInv'
BY DEF IInv, vars, rings, mailbox, reader, TypeOK, StoppedPlaysBase, KnobInv, MailboxOwed,
       ReadOwed, KnobOwed, NewsComing

LEMMA Inductive == Spec => []IInv
<1>1. IInv /\ [Next]_vars => IInv'
  BY AudioStep, MainStep, StutterStep DEF Next
<1> QED BY InitInv, <1>1, PTL DEF Spec

-----------------------------------------------------------------------------
(* The two copies level.  A ring carries one copy to the other when its    *)
(* messages, taken one after another, turn the first into the second.      *)
Copies == [base : Asked, lfo : BOOLEAN]
Copy(module) == [base |-> module.base, lfo |-> module.lfo]
Messages == Echoes \cup Commands
Effect(copy, message) ==
  CASE message.kind = "write" -> WrittenInCopy(copy, message.write)
    [] message.kind = "republished" -> Stored(copy, message.write)
    [] message.kind = "chain" -> message.to
    [] OTHER -> copy
Leads(from, ring, to) ==
  \E t \in [0 .. Len(ring) -> Copies] :
    /\ t[0] = from /\ t[Len(ring)] = to
    /\ \A i \in 1 .. Len(ring) : t[i] = Effect(t[i - 1], ring[i])

\* Whatever is on a ring leads from every copy to some other, and so does the
\* rest of it once its oldest messages are taken.
Heard(ring) ==
  \A k \in 0 .. Len(ring), from \in Copies : \E t \in [k .. Len(ring) -> Copies] :
    t[k] = from /\ \A i \in k + 1 .. Len(ring) : t[i] = Effect(t[i - 1], ring[i])

\* While no edits crossed they travel one way at a time.  What the host says
\* leads the main thread's copy to the engine's once nothing lost is being made
\* up for; what the editor says leads the engine's copy to the main thread's.
Requested ==
  echoesLost \/ republishing \/ \E i \in DOMAIN toEngine : toEngine[i].kind = "republish"
OneWay == EditorMeetsHost => ~HostMeetsEditor
HostLevel == ~Requested /\ ~HostMeetsEditor => Leads(main, toUI, Copy(engine))
EditorLevel == ~EditorMeetsHost => Leads(Copy(engine), toEngine, main)
Settled == OneWay /\ HostLevel /\ EditorLevel
LevelInv == Heard(toUI) /\ Heard(toEngine) /\ (~crossed => Settled)

LEMMA EffectType ==
  ASSUME NEW copy \in Copies, NEW message \in Messages
  PROVE  Effect(copy, message) \in Copies
<1>1. CASE message \in Echoes
  BY <1>1, CopyType DEF Echoes, Effect, Copies
<1>2. CASE message \in Commands
  <2>1. CASE message \in [kind : {"write"}, write : Writes]
    BY <2>1, CopyType DEF Effect, Copies
  <2>2. CASE message \in [kind : {"chain"}, to : Presets]
    BY <2>2, PresetAssumption DEF Effect, Copies
  <2>3. CASE message \in [kind : {"republish"}]
    BY <2>3 DEF Effect
  <2> QED BY <1>2, <2>1, <2>2, <2>3 DEF Commands
<1> QED BY <1>1, <1>2 DEF Messages

(* A write has the same effect on the engine's module and on a copy of it, *)
(* whatever the LFO has put in the module meanwhile.                       *)
LEMMA WrittenAlike ==
  ASSUME NEW module \in [base : Asked, live : Values, lfo : BOOLEAN], NEW write \in Writes
  PROVE  Copy(Written(module, write)) = WrittenInCopy(Copy(module), write)
<1>1. CASE write \in [what : {"base"}, to : Asked]
  BY <1>1 DEF Written, WrittenInCopy, Copy
<1>2. CASE write \in [what : {"lfo"}, to : BOOLEAN]
  <2>1. write.what = "lfo" /\ write.to \in BOOLEAN
    BY <1>2
  <2> QED BY <2>1 DEF Written, WrittenInCopy, Copy
<1> QED BY <1>1, <1>2 DEF Writes

(* An empty ring leads a copy to itself, and nowhere else.                 *)
LEMMA LeadsNowhere ==
  ASSUME NEW from \in Copies, NEW to
  PROVE  Leads(from, <<>>, to) <=> to = from
<1>1. Len(<<>>) = 0
  OBVIOUS
<1>2. ASSUME to = from PROVE Leads(from, <<>>, to)
  <2>1. [k \in 0 .. 0 |-> from] \in [0 .. 0 -> Copies]
    OBVIOUS
  <2>2. [k \in 0 .. 0 |-> from][0] = from
    OBVIOUS
  <2>3. \A i \in 1 .. 0 : FALSE
    OBVIOUS
  <2> QED BY <1>1, <1>2, <2>1, <2>2, <2>3 DEF Leads
<1>3. ASSUME Leads(from, <<>>, to) PROVE to = from
  BY <1>1, <1>3 DEF Leads
<1> QED BY <1>2, <1>3

(* One message more takes the ring one effect further.                     *)
LEMMA LeadsOn ==
  ASSUME NEW ring \in Seq(Messages), NEW message \in Messages, NEW from, NEW to \in Copies,
         Leads(from, ring, to)
  PROVE  Leads(from, Append(ring, message), Effect(to, message))
<1>1. PICK t \in [0 .. Len(ring) -> Copies] :
        /\ t[0] = from /\ t[Len(ring)] = to
        /\ \A i \in 1 .. Len(ring) : t[i] = Effect(t[i - 1], ring[i])
  BY DEF Leads
<1> DEFINE n == Len(ring)
           longer == Append(ring, message)
           u == [k \in 0 .. n + 1 |-> IF k = n + 1 THEN Effect(to, message) ELSE t[k]]
<1>2. /\ n \in Nat /\ Len(longer) = n + 1 /\ longer[n + 1] = message
      /\ \A i \in 1 .. n : longer[i] = ring[i]
  BY LenProperties, AppendProperties
<1>3. Effect(to, message) \in Copies
  BY EffectType
<1>4. u \in [0 .. n + 1 -> Copies]
  BY <1>2, <1>3
<1>5. u[0] = from /\ u[n + 1] = Effect(to, message)
  BY <1>1, <1>2
<1>6. ASSUME NEW i \in 1 .. n + 1 PROVE u[i] = Effect(u[i - 1], longer[i])
  <2>1. CASE i = n + 1
    <3>1. u[i - 1] = t[n] /\ longer[i] = message
      BY <1>2, <2>1
    <3> QED BY <1>1, <1>5, <2>1, <3>1
  <2>2. CASE i \in 1 .. n
    <3>1. u[i] = t[i] /\ u[i - 1] = t[i - 1] /\ longer[i] = ring[i]
      BY <1>2, <2>2
    <3> QED BY <1>1, <2>2, <3>1
  <2> QED BY <1>2, <2>1, <2>2
<1> HIDE DEF u, n, longer
<1>7. Leads(from, longer, Effect(to, message))
  BY <1>2, <1>4, <1>5, <1>6 DEF Leads
<1> QED BY <1>7 DEF longer

(* The oldest message taken, the rest leads on from its effect.            *)
LEMMA LeadsAfter ==
  ASSUME NEW ring \in Seq(Messages), ring # <<>>, NEW from, NEW to, Leads(from, ring, to)
  PROVE  Leads(Effect(from, Head(ring)), Tail(ring), to)
<1>1. PICK t \in [0 .. Len(ring) -> Copies] :
        /\ t[0] = from /\ t[Len(ring)] = to
        /\ \A i \in 1 .. Len(ring) : t[i] = Effect(t[i - 1], ring[i])
  BY DEF Leads
<1> DEFINE n == Len(ring)
           rest == Tail(ring)
           u == [k \in 0 .. n - 1 |-> t[k + 1]]
<1>2. /\ n \in Nat \ {0} /\ Len(rest) = n - 1 /\ Head(ring) = ring[1]
      /\ \A i \in 1 .. n - 1 : rest[i] = ring[i + 1]
  BY EmptySeq, HeadTailProperties
<1>3. u \in [0 .. n - 1 -> Copies]
  BY <1>2
<1>4. u[0] = Effect(from, Head(ring)) /\ u[n - 1] = to
  BY <1>1, <1>2
<1>5. ASSUME NEW i \in 1 .. n - 1 PROVE u[i] = Effect(u[i - 1], rest[i])
  <2>1. /\ i + 1 \in 1 .. n /\ (i + 1) - 1 = i /\ (i - 1) + 1 = i
        /\ u[i] = t[i + 1] /\ u[i - 1] = t[i] /\ rest[i] = ring[i + 1]
    BY <1>2
  <2> QED BY <1>1, <2>1
<1> HIDE DEF u, n, rest
<1>6. Leads(Effect(from, Head(ring)), rest, to)
  BY <1>2, <1>3, <1>4, <1>5 DEF Leads
<1> QED BY <1>6 DEF rest

(* What a ring keeps of messages that do not all fit leads somewhere too.  *)
LEMMA LeadsPart ==
  ASSUME NEW ring \in Seq(Messages), NEW n \in 0 .. Len(ring), NEW from, NEW to,
         Leads(from, ring, to)
  PROVE  \E c \in Copies : Leads(from, SubSeq(ring, 1, n), c)
<1>1. PICK t \in [0 .. Len(ring) -> Copies] :
        /\ t[0] = from /\ t[Len(ring)] = to
        /\ \A i \in 1 .. Len(ring) : t[i] = Effect(t[i - 1], ring[i])
  BY DEF Leads
<1> DEFINE part == SubSeq(ring, 1, n)
           u == [k \in 0 .. n |-> t[k]]
<1>2. Len(ring) \in Nat /\ \A i \in 1 .. n : ring[i] \in Messages
  BY LenProperties, ElementOfSeq
<1>3. Len(part) = n /\ \A i \in 1 .. n : part[i] = ring[i]
  <2>1. /\ Len(part) = IF 1 <= n THEN n - 1 + 1 ELSE 0
        /\ \A i \in 1 .. n - 1 + 1 : part[i] = ring[1 + i - 1]
    BY <1>2, SubSeqProperties
  <2> QED BY <2>1
<1>4. u \in [0 .. n -> Copies] /\ u[0] = from /\ u[n] \in Copies
  BY <1>1, <1>2
<1>5. ASSUME NEW i \in 1 .. n PROVE u[i] = Effect(u[i - 1], part[i])
  <2>1. u[i] = t[i] /\ u[i - 1] = t[i - 1] /\ part[i] = ring[i] /\ i \in 1 .. Len(ring)
    BY <1>2, <1>3
  <2> QED BY <1>1, <2>1
<1> HIDE DEF u, part
<1>6. Leads(from, part, u[n])
  BY <1>3, <1>4, <1>5 DEF Leads
<1> QED BY <1>4, <1>6 DEF part

(* It leads somewhere from wherever it is taken.                           *)
LEMMA HeardLeads ==
  ASSUME NEW ring \in Seq(Messages), Heard(ring), NEW from \in Copies
  PROVE  \E c \in Copies : Leads(from, ring, c)
<1>1. Len(ring) \in Nat
  BY LenProperties
<1>2. PICK t \in [0 .. Len(ring) -> Copies] :
        t[0] = from /\ \A i \in 0 + 1 .. Len(ring) : t[i] = Effect(t[i - 1], ring[i])
  BY <1>1 DEF Heard
<1>3. t[Len(ring)] \in Copies
  BY <1>1, <1>2
<1>4. Leads(from, ring, t[Len(ring)])
  BY <1>2 DEF Leads
<1> QED BY <1>3, <1>4

(* An empty ring is heard.                                                 *)
LEMMA HeardNothing == Heard(<<>>)
<1> SUFFICES ASSUME NEW k \in 0 .. Len(<<>>), NEW from \in Copies
             PROVE  \E t \in [k .. Len(<<>>) -> Copies] :
                      t[k] = from /\ \A i \in k + 1 .. Len(<<>>) : t[i] = Effect(t[i - 1], <<>>[i])
  BY DEF Heard
<1>1. Len(<<>>) = 0 /\ k = 0
  OBVIOUS
<1>2. [j \in 0 .. 0 |-> from] \in [0 .. 0 -> Copies] /\ [j \in 0 .. 0 |-> from][0] = from
  OBVIOUS
<1>3. \A i \in 0 + 1 .. 0 : FALSE
  OBVIOUS
<1> QED BY <1>1, <1>2, <1>3

(* A ring that is heard is heard with one message more.                    *)
LEMMA HeardOn ==
  ASSUME NEW ring \in Seq(Messages), NEW message \in Messages, Heard(ring)
  PROVE  Heard(Append(ring, message))
<1> DEFINE n == Len(ring)
           longer == Append(ring, message)
<1>1. /\ n \in Nat /\ Len(longer) = n + 1 /\ longer[n + 1] = message
      /\ \A i \in 1 .. n : longer[i] = ring[i]
  BY LenProperties, AppendProperties
<1>2. ASSUME NEW k \in 0 .. n + 1, NEW from \in Copies
      PROVE  \E u \in [k .. n + 1 -> Copies] :
               u[k] = from /\ \A i \in k + 1 .. n + 1 : u[i] = Effect(u[i - 1], longer[i])
  <2>1. CASE k = n + 1
    <3> DEFINE u == [j \in k .. n + 1 |-> from]
    <3>1. u \in [k .. n + 1 -> Copies] /\ u[k] = from
      BY <1>1, <2>1
    <3>2. \A i \in k + 1 .. n + 1 : FALSE
      BY <1>1, <2>1
    <3> QED BY <3>1, <3>2
  <2>2. CASE k \in 0 .. n
    <3>1. PICK t \in [k .. n -> Copies] :
            t[k] = from /\ \A i \in k + 1 .. n : t[i] = Effect(t[i - 1], ring[i])
      BY <2>2 DEF Heard
    <3> DEFINE last == Effect(t[n], message)
               u == [j \in k .. n + 1 |-> IF j = n + 1 THEN last ELSE t[j]]
    <3>2. last \in Copies
      <4>1. t[n] \in Copies
        BY <1>1, <2>2, <3>1
      <4> QED BY <4>1, EffectType
    <3> HIDE DEF last
    <3>3. u \in [k .. n + 1 -> Copies]
      BY <1>1, <2>2, <3>1, <3>2
    <3>4. u[k] = from
      BY <1>1, <2>2, <3>1
    <3>5. ASSUME NEW i \in k + 1 .. n + 1 PROVE u[i] = Effect(u[i - 1], longer[i])
      <4>1. CASE i = n + 1
        <5>1. u[i] = last /\ u[i - 1] = t[n] /\ longer[i] = message
          BY <1>1, <2>2, <4>1
        <5> QED BY <5>1 DEF last
      <4>2. CASE i \in k + 1 .. n
        <5>1. u[i] = t[i] /\ u[i - 1] = t[i - 1] /\ longer[i] = ring[i]
          BY <1>1, <2>2, <4>2
        <5> QED BY <3>1, <4>2, <5>1
      <4> QED BY <1>1, <2>2, <4>1, <4>2
    <3> HIDE DEF u
    <3> QED BY <3>3, <3>4, <3>5
  <2> QED BY <1>1, <2>1, <2>2
<1> HIDE DEF n, longer
<1>3. Heard(longer)
  <2>1. Len(longer) = n + 1
    BY <1>1
  <2> SUFFICES ASSUME NEW k \in 0 .. Len(longer), NEW from \in Copies
               PROVE  \E u \in [k .. Len(longer) -> Copies] :
                        u[k] = from /\ \A i \in k + 1 .. Len(longer) : u[i] = Effect(u[i - 1], longer[i])
    BY DEF Heard
  <2>2. k \in 0 .. n + 1
    BY <2>1
  <2>3. PICK u \in [k .. n + 1 -> Copies] :
          u[k] = from /\ \A i \in k + 1 .. n + 1 : u[i] = Effect(u[i - 1], longer[i])
    BY <2>2, <1>2
  <2>4. u \in [k .. Len(longer) -> Copies] /\ Len(longer) = n + 1
    BY <2>1, <2>3
  <2> QED BY <2>3, <2>4
<1> QED BY <1>3 DEF longer

(* So it is without its oldest message.                                    *)
LEMMA HeardAfter ==
  ASSUME NEW ring \in Seq(Messages), ring # <<>>, Heard(ring)
  PROVE  Heard(Tail(ring))
<1> DEFINE n == Len(ring)
           rest == Tail(ring)
<1>1. /\ n \in Nat \ {0} /\ Len(rest) = n - 1
      /\ \A i \in 1 .. n - 1 : rest[i] = ring[i + 1]
  BY EmptySeq, HeadTailProperties
<1>2. ASSUME NEW k \in 0 .. n - 1, NEW from \in Copies
      PROVE  \E u \in [k .. n - 1 -> Copies] :
               u[k] = from /\ \A i \in k + 1 .. n - 1 : u[i] = Effect(u[i - 1], rest[i])
  <2>1. k + 1 \in 0 .. n
    BY <1>1
  <2>2. PICK t \in [k + 1 .. n -> Copies] :
          t[k + 1] = from /\ \A i \in k + 1 + 1 .. n : t[i] = Effect(t[i - 1], ring[i])
    BY <2>1 DEF Heard
  <2> DEFINE u == [j \in k .. n - 1 |-> t[j + 1]]
  <2>3. u \in [k .. n - 1 -> Copies]
    BY <1>1, <2>2
  <2>4. u[k] = from
    BY <1>1, <2>2
  <2>5. ASSUME NEW i \in k + 1 .. n - 1 PROVE u[i] = Effect(u[i - 1], rest[i])
    <3>1. /\ i + 1 \in k + 1 + 1 .. n /\ (i + 1) - 1 = i /\ (i - 1) + 1 = i
          /\ u[i] = t[i + 1] /\ u[i - 1] = t[i] /\ rest[i] = ring[i + 1]
      BY <1>1
    <3> QED BY <2>2, <3>1
  <2> HIDE DEF u
  <2> QED BY <2>3, <2>4, <2>5
<1> HIDE DEF n, rest
<1>3. Heard(rest)
  <2>1. Len(rest) = n - 1
    BY <1>1
  <2> QED BY <2>1, <1>2 DEF Heard
<1> QED BY <1>3 DEF rest

(* And so is what a ring keeps of messages that do not all fit.            *)
LEMMA HeardPart ==
  ASSUME NEW ring \in Seq(Messages), NEW n \in 0 .. Len(ring), Heard(ring)
  PROVE  Heard(SubSeq(ring, 1, n))
<1> DEFINE part == SubSeq(ring, 1, n)
<1>1. Len(ring) \in Nat /\ \A i \in 1 .. n : ring[i] \in Messages
  BY LenProperties, ElementOfSeq
<1>2. Len(part) = n /\ \A i \in 1 .. n : part[i] = ring[i]
  <2>1. /\ Len(part) = IF 1 <= n THEN n - 1 + 1 ELSE 0
        /\ \A i \in 1 .. n - 1 + 1 : part[i] = ring[1 + i - 1]
    BY <1>1, SubSeqProperties
  <2> QED BY <2>1
<1>3. ASSUME NEW k \in 0 .. n, NEW from \in Copies
      PROVE  \E u \in [k .. n -> Copies] :
               u[k] = from /\ \A i \in k + 1 .. n : u[i] = Effect(u[i - 1], part[i])
  <2>1. PICK t \in [k .. Len(ring) -> Copies] :
          t[k] = from /\ \A i \in k + 1 .. Len(ring) : t[i] = Effect(t[i - 1], ring[i])
    <3>1. k \in 0 .. Len(ring)
      BY <1>1
    <3> QED BY <3>1 DEF Heard
  <2> DEFINE u == [j \in k .. n |-> t[j]]
  <2>2. u \in [k .. n -> Copies] /\ u[k] = from
    BY <1>1, <2>1
  <2>3. ASSUME NEW i \in k + 1 .. n PROVE u[i] = Effect(u[i - 1], part[i])
    <3>1. u[i] = t[i] /\ u[i - 1] = t[i - 1] /\ part[i] = ring[i] /\ i \in k + 1 .. Len(ring)
      BY <1>1, <1>2
    <3> QED BY <2>1, <3>1
  <2> HIDE DEF u
  <2> QED BY <2>2, <2>3
<1> HIDE DEF part
<1>4. Heard(part)
  <2>1. Len(part) = n
    BY <1>2
  <2> SUFFICES ASSUME NEW k \in 0 .. Len(part), NEW from \in Copies
               PROVE  \E u \in [k .. Len(part) -> Copies] :
                        u[k] = from /\ \A i \in k + 1 .. Len(part) : u[i] = Effect(u[i - 1], part[i])
    BY DEF Heard
  <2>2. k \in 0 .. n
    BY <2>1
  <2>3. PICK u \in [k .. n -> Copies] :
          u[k] = from /\ \A i \in k + 1 .. n : u[i] = Effect(u[i - 1], part[i])
    BY <2>2, <1>3
  <2>4. u \in [k .. Len(part) -> Copies] /\ Len(part) = n
    BY <2>1, <2>3
  <2> QED BY <2>3, <2>4
<1> QED BY <1>4 DEF part

(* What is queued, and what is read, are messages.                         *)
LEMMA RingTypes ==
  ASSUME TypeOK
  PROVE  /\ toUI \in Seq(Messages) /\ toEngine \in Seq(Messages)
         /\ Copy(engine) \in Copies /\ main \in Copies
BY SeqMonotonic DEF TypeOK, Messages, Copy, Copies

LEMMA LevelStarts == Init => LevelInv
<1> SUFFICES ASSUME Init PROVE LevelInv
  OBVIOUS
<1>1. /\ toUI = <<>> /\ toEngine = <<>> /\ ~echoesLost /\ ~republishing
      /\ main = Copy(engine) /\ main \in Copies
  BY DEF Init, Copy, Copies
<1>2. ~EditorMeetsHost /\ ~HostMeetsEditor
  BY <1>1 DEF EditorMeetsHost, HostMeetsEditor
<1>3. Leads(main, <<>>, main)
  BY <1>1, LeadsNowhere
<1> QED BY <1>1, <1>2, <1>3, HeardNothing DEF LevelInv, Settled, OneWay, HostLevel, EditorLevel

(* A command put behind what is queued, which the engine's copy is to take *)
(* and the main thread's has taken.                                        *)
LEMMA EditLevel ==
  ASSUME TypeOK, ~EditorMeetsHost, NEW command \in Commands,
         command.kind # "republish", NEW before \in Copies, Leads(Copy(engine), toEngine, before),
         toEngine' = Append(toEngine, command), main' = Effect(before, command),
         UNCHANGED <<engine, toUI, echoesLost, republishing>>
  PROVE  Settled'
<1>1. /\ toUI \in Seq(Messages) /\ toEngine \in Seq(Messages) /\ command \in Messages
      /\ Copy(engine) \in Copies /\ main \in Copies
  BY RingTypes DEF Messages
<1>2. /\ Len(toEngine) \in Nat
      /\ DOMAIN toEngine = 1 .. Len(toEngine) /\ DOMAIN toEngine' = 1 .. Len(toEngine) + 1
      /\ toEngine'[Len(toEngine) + 1] = command
      /\ \A i \in 1 .. Len(toEngine) : toEngine'[i] = toEngine[i]
  BY <1>1, LenProperties, AppendProperties
<1>3. ~EditorMeetsHost'
  BY <1>2 DEF EditorMeetsHost
<1>4. HostMeetsEditor'
  BY <1>2 DEF HostMeetsEditor
<1>5. Leads(Copy(engine), toEngine', main')
  BY <1>1, LeadsOn
<1>6. EditorLevel'
  BY <1>5 DEF EditorLevel, Copy
<1> QED BY <1>3, <1>4, <1>6 DEF Settled, OneWay, HostLevel

(* Where the host's words are on their way nothing of the editor's is.     *)
LEMMA NothingQueued ==
  ASSUME TypeOK, ~HostMeetsEditor, ~(\E i \in DOMAIN toEngine : toEngine[i].kind = "republish")
  PROVE  toEngine = <<>>
<1>1. DOMAIN toEngine = 1 .. Len(toEngine) /\ toEngine \in Seq(Commands)
  BY LenProperties DEF TypeOK
<1>2. ~(1 \in DOMAIN toEngine)
  BY DEF HostMeetsEditor
<1> QED BY <1>1, <1>2, EmptySeq

(* A ring that may refuse what it is given.                                *)
LEMMA EchoHeard ==
  ASSUME TypeOK, NEW messages \in Seq(Echoes), Heard(toUI \o messages), Echo(messages)
  PROVE  Heard(toUI')
<1> DEFINE all == toUI \o messages
<1>1. messages \in Seq(Messages) /\ toUI \in Seq(Messages)
  BY RingTypes, SeqMonotonic DEF Messages
<1>2. all \in Seq(Messages) /\ Len(all) \in Nat
  BY <1>1, ConcatProperties, LenProperties
<1>3. CASE Len(all) > EchoCapacity
  <2>1. toUI' = SubSeq(all, 1, EchoCapacity) /\ EchoCapacity \in 0 .. Len(all)
    BY <1>2, <1>3, RingAssumption DEF Echo
  <2>2. Heard(all)
    OBVIOUS
  <2> HIDE DEF all
  <2> QED BY <1>2, <2>1, <2>2, HeardPart
<1>4. CASE ~(Len(all) > EchoCapacity)
  BY <1>4 DEF Echo
<1> QED BY <1>3, <1>4

(* An echo, taken by the ring or lost.                                     *)
LEMMA EchoOne ==
  ASSUME TypeOK, NEW message \in Echoes, NEW from \in Copies,
         Echo(<<message>>), UNCHANGED main, Leads(main, toUI, from), ~echoesLost'
  PROVE  Leads(main', toUI', Effect(from, message))
<1>1. toUI \in Seq(Messages) /\ message \in Messages /\ main \in Copies
  BY RingTypes DEF Messages
<1>2. toUI \o <<message>> = Append(toUI, message)
  BY <1>1, AppendProperties
<1>3. toUI' = Append(toUI, message)
  BY <1>2 DEF Echo
<1> QED BY <1>1, <1>3, LeadsOn

LEMMA MainHeard ==
  ASSUME IInv, Heard(toUI), Heard(toEngine),
         \/ \E write \in Writes : EditorWrites(write)
         \/ drainEchoes \/ AskForRepublish \/ resyncModuleRack \/ OpenEditor
         \/ \E preset \in Presets : Load(preset)
         \/ SweepTake \/ SweepRead \/ SweepPaint
  PROVE  Heard(toUI)' /\ Heard(toEngine)'
<1>1. TypeOK /\ toUI \in Seq(Messages) /\ toEngine \in Seq(Messages)
  BY RingTypes DEF IInv
<1>2. ASSUME NEW command \in Commands, toEngine' = Append(toEngine, command), UNCHANGED toUI
      PROVE  Heard(toUI)' /\ Heard(toEngine)'
  <2>1. command \in Messages
    BY DEF Messages
  <2> QED BY <1>1, <1>2, <2>1, HeardOn
<1>3. ASSUME NEW write \in Writes, EditorWrites(write) PROVE Heard(toUI)' /\ Heard(toEngine)'
  <2>1. [kind |-> "write", write |-> write] \in Commands
    BY DEF Commands
  <2> QED BY <1>2, <1>3, <2>1 DEF EditorWrites
<1>4. ASSUME NEW preset \in Presets, Load(preset) PROVE Heard(toUI)' /\ Heard(toEngine)'
  <2>1. [kind |-> "chain", to |-> preset] \in Commands
    BY DEF Commands
  <2> QED BY <1>2, <1>4, <2>1 DEF Load
<1>5. CASE AskForRepublish
  <2>1. [kind |-> "republish"] \in Commands
    BY DEF Commands
  <2> QED BY <1>2, <1>5, <2>1 DEF AskForRepublish
<1>6. CASE drainEchoes
  BY <1>1, <1>6, HeardAfter DEF drainEchoes
<1>7. CASE resyncModuleRack \/ OpenEditor \/ SweepTake \/ SweepRead \/ SweepPaint
  BY <1>7 DEF resyncModuleRack, OpenEditor, SweepTake, SweepRead, SweepPaint, rings
<1> QED BY <1>3, <1>4, <1>5, <1>6, <1>7

LEMMA AudioHeard ==
  ASSUME IInv, Heard(toUI), Heard(toEngine),
         \/ \E write \in Writes : HostWrites(write)
         \/ drainCommand \/ republishParameters \/ \E v \in Swept : preProcess(v)
         \/ PublishValue \/ PublishBit
  PROVE  Heard(toUI)' /\ Heard(toEngine)'
<1>1. TypeOK /\ toUI \in Seq(Messages) /\ toEngine \in Seq(Messages)
  BY RingTypes DEF IInv
<1>2. ASSUME NEW write \in Writes, HostWrites(write) PROVE Heard(toUI)' /\ Heard(toEngine)'
  <2> DEFINE message == [kind |-> "write", write |-> write]
  <2>1. message \in Echoes /\ message \in Messages
    BY DEF Echoes, Messages
  <2>2. Echo(<<message>>) /\ UNCHANGED toEngine
    BY <1>2 DEF HostWrites
  <2> HIDE DEF message
  <2>3. toUI \o <<message>> = Append(toUI, message) /\ <<message>> \in Seq(Echoes)
    BY <1>1, <2>1, AppendProperties
  <2>4. Heard(toUI \o <<message>>)
    BY <1>1, <2>1, <2>3, HeardOn
  <2> QED BY <1>1, <2>2, <2>3, <2>4, EchoHeard
<1>3. CASE republishParameters
  <2> DEFINE base == [kind |-> "republished", write |-> [what |-> "base", to |-> engine.base]]
             lfo == [kind |-> "republished", write |-> [what |-> "lfo", to |-> engine.lfo]]
  <2>1. base \in Echoes /\ lfo \in Echoes
    BY <1>1 DEF TypeOK, Echoes, Writes
  <2>2. Echo(<<base, lfo>>) /\ UNCHANGED toEngine
    BY <1>3 DEF republishParameters, Republished
  <2> HIDE DEF base, lfo
  <2>3. base \in Messages /\ lfo \in Messages /\ <<base, lfo>> \in Seq(Echoes)
    BY <2>1 DEF Messages
  <2>4. Append(toUI, base) \in Seq(Messages) /\ toUI \o <<base, lfo>> = Append(Append(toUI, base), lfo)
    BY <1>1, <2>3, AppendProperties
  <2>5. Heard(toUI \o <<base, lfo>>)
    BY <1>1, <2>3, <2>4, HeardOn
  <2> QED BY <1>1, <2>2, <2>3, <2>5, EchoHeard
<1>4. CASE drainCommand
  BY <1>1, <1>4, HeardAfter DEF drainCommand
<1>5. ASSUME NEW v \in Swept, preProcess(v) PROVE Heard(toUI)' /\ Heard(toEngine)'
  BY <1>5 DEF preProcess, rings
<1>6. CASE PublishValue \/ PublishBit
  BY <1>6 DEF PublishValue, PublishBit, rings
<1> QED BY <1>2, <1>3, <1>4, <1>5, <1>6

LEMMA MainLevel ==
  ASSUME IInv, LevelInv, ~crossed',
         \/ \E write \in Writes : EditorWrites(write)
         \/ drainEchoes \/ AskForRepublish \/ resyncModuleRack \/ OpenEditor
         \/ \E preset \in Presets : Load(preset)
         \/ SweepTake \/ SweepRead \/ SweepPaint
  PROVE  Settled'
<1>1. TypeOK
  BY DEF IInv
<1>2. ASSUME NEW write \in Writes, EditorWrites(write) PROVE Settled'
  <2> DEFINE command == [kind |-> "write", write |-> write]
  <2>1. command \in Commands /\ command.kind = "write" /\ command.write = write
    BY DEF Commands
  <2>2. /\ toEngine' = Append(toEngine, command) /\ main' = Effect(main, command)
        /\ ~crossed /\ ~EditorMeetsHost /\ UNCHANGED <<engine, toUI, echoesLost, republishing>>
    BY <1>2, <2>1 DEF EditorWrites, Effect
  <2>3. Leads(Copy(engine), toEngine, main) /\ main \in Copies
    BY <1>1, <2>2, RingTypes DEF LevelInv, Settled, EditorLevel
  <2> QED BY <1>1, <2>1, <2>2, <2>3, EditLevel
<1>3. ASSUME NEW preset \in Presets, Load(preset) PROVE Settled'
  <2> DEFINE command == [kind |-> "chain", to |-> preset]
  <2>1. command \in Commands /\ command.kind = "chain" /\ command.to = preset
    BY DEF Commands
  <2>2. PICK before \in Copies : Leads(Copy(engine), toEngine, before)
    BY <1>1, RingTypes, HeardLeads DEF LevelInv
  <2>3. /\ toEngine' = Append(toEngine, command) /\ main' = Effect(before, command)
        /\ ~EditorMeetsHost /\ UNCHANGED <<engine, toUI, echoesLost, republishing>>
    BY <1>3, <2>1 DEF Load, Effect
  <2> QED BY <1>1, <2>1, <2>2, <2>3, EditLevel
<1>4. CASE drainEchoes
  <2> DEFINE echo == Head(toUI)
  <2>1. /\ toUI # <<>> /\ toUI' = Tail(toUI) /\ echo \in Echoes
        /\ main' = IF echo.kind = "republished" THEN Stored(main, echo.write)
                   ELSE WrittenInCopy(main, echo.write)
        /\ UNCHANGED <<engine, toEngine, echoesLost, republishing>> /\ Settled
    BY <1>1, <1>4, TakenType, RingAssumption DEF drainEchoes, TypeOK, LevelInv
  <2>2. main' = Effect(main, echo)
    BY <2>1 DEF Effect, Echoes
  <2>3. EditorMeetsHost /\ ~HostMeetsEditor /\ ~HostMeetsEditor'
    BY <2>1 DEF Settled, OneWay, EditorMeetsHost, HostMeetsEditor
  <2>4. toUI \in Seq(Messages) /\ main \in Copies
    BY <1>1, RingTypes
  <2> HIDE DEF echo
  <2>5. \A c : Leads(main, toUI, c) => Leads(main', toUI', c)
    BY <2>1, <2>2, <2>4, LeadsAfter DEF echo
  <2>7. ~Requested' => ~Requested
    BY <2>1 DEF Requested
  <2>8. HostLevel'
    BY <2>1, <2>3, <2>5, <2>7 DEF Settled, HostLevel, Copy
  <2>9. ASSUME ~EditorMeetsHost' PROVE Leads(Copy(engine'), toEngine', main')
    <3>1. /\ toUI' = <<>> /\ ~Requested'
          /\ ~(\E i \in DOMAIN toEngine : toEngine[i].kind = "republish")
      BY <2>1, <2>9 DEF EditorMeetsHost, Requested
    <3>2. toEngine' = <<>>
      BY <1>1, <2>1, <2>3, <3>1, NothingQueued
    <3>3. Leads(main', <<>>, Copy(engine)) /\ main' \in Copies
      <4>1. main' \in Copies
        BY <2>1, <2>2, <2>4, EffectType DEF Messages
      <4> QED BY <2>1, <2>3, <2>8, <3>1, <4>1 DEF HostLevel, Copy
    <3>4. Copy(engine) = main'
      BY <3>3, LeadsNowhere
    <3>5. Leads(main', <<>>, main')
      BY <3>3, LeadsNowhere
    <3> QED BY <2>1, <3>2, <3>4, <3>5 DEF Copy
  <2>10. EditorLevel'
    BY <2>9 DEF EditorLevel, Copy
  <2> QED BY <2>3, <2>8, <2>10 DEF Settled, OneWay
<1>5. CASE AskForRepublish
  <2>1. /\ toUI = <<>> /\ echoesLost /\ toEngine' = Append(toEngine, [kind |-> "republish"])
        /\ toEngine \in Seq(Commands)
        /\ UNCHANGED <<engine, main, toUI, republishing>> /\ Settled
    BY <1>1, <1>5 DEF AskForRepublish, mailbox, reader, TypeOK, LevelInv
  <2>2. [kind |-> "republish"] \in Commands
    BY DEF Commands
  <2>3. /\ Len(toEngine) \in Nat
        /\ DOMAIN toEngine = 1 .. Len(toEngine) /\ DOMAIN toEngine' = 1 .. Len(toEngine) + 1
        /\ toEngine'[Len(toEngine) + 1].kind = "republish"
        /\ \A i \in 1 .. Len(toEngine) : toEngine'[i] = toEngine[i]
    BY <2>1, <2>2, LenProperties, AppendProperties
  <2>4. ~HostMeetsEditor
    BY <2>1 DEF Settled, OneWay, EditorMeetsHost
  <2>5. ~HostMeetsEditor'
    <3> SUFFICES ASSUME NEW i \in 1 .. Len(toEngine) + 1 PROVE toEngine'[i].kind = "republish"
      BY <2>3 DEF HostMeetsEditor
    <3>1. i = Len(toEngine) + 1 \/ i \in 1 .. Len(toEngine)
      BY <2>3
    <3> QED BY <2>3, <2>4, <3>1 DEF HostMeetsEditor
  <2>6. EditorMeetsHost' /\ Requested'
    <3>1. Len(toEngine) + 1 \in DOMAIN toEngine'
      BY <2>3
    <3> QED BY <2>3, <3>1 DEF EditorMeetsHost, Requested
  <2> QED BY <2>5, <2>6 DEF Settled, OneWay, HostLevel, EditorLevel
<1>6. ASSUME UNCHANGED <<engine, main, rings, crossed>> PROVE Settled'
  BY <1>6 DEF rings, LevelInv, Settled, OneWay, EditorMeetsHost, HostMeetsEditor, HostLevel,
              Requested, EditorLevel, Copy
<1>7. CASE resyncModuleRack \/ OpenEditor \/ SweepTake \/ SweepRead \/ SweepPaint
  BY <1>6, <1>7 DEF resyncModuleRack, OpenEditor, SweepTake, SweepRead, SweepPaint
<1> QED BY <1>2, <1>3, <1>4, <1>5, <1>7

LEMMA AudioLevel ==
  ASSUME IInv, LevelInv, ~crossed',
         \/ \E write \in Writes : HostWrites(write)
         \/ drainCommand \/ republishParameters \/ \E v \in Swept : preProcess(v)
         \/ PublishValue \/ PublishBit
  PROVE  Settled'
<1>1. TypeOK
  BY DEF IInv
<1>2. /\ toUI \in Seq(Messages) /\ toEngine \in Seq(Messages)
      /\ Copy(engine) \in Copies /\ main \in Copies
  BY <1>1, RingTypes
<1>3. ASSUME NEW write \in Writes, HostWrites(write) PROVE Settled'
  <2> DEFINE message == [kind |-> "write", write |-> write]
  <2>1. /\ message \in Echoes /\ message.kind = "write" /\ message.write = write
    BY DEF Echoes
  <2>2. /\ ~HostMeetsEditor /\ engine' = Written(engine, write) /\ Echo(<<message>>)
        /\ UNCHANGED <<main, toEngine, republishing>> /\ Settled
    BY <1>3 DEF HostWrites, LevelInv
  <2>3. Copy(engine') = Effect(Copy(engine), message)
    BY <1>1, <2>1, <2>2, WrittenAlike DEF TypeOK, Effect
  <2> HIDE DEF message
  <2>4. echoesLost => echoesLost'
    BY <2>2 DEF Echo
  <2>5. ASSUME ~Requested' PROVE Leads(main', toUI', Copy(engine'))
    <3>1. ~Requested /\ ~echoesLost'
      BY <2>2, <2>4, <2>5 DEF Requested
    <3>2. Leads(main, toUI, Copy(engine))
      BY <2>2, <3>1 DEF Settled, HostLevel
    <3> QED BY <1>1, <1>2, <2>1, <2>2, <2>3, <3>1, <3>2, EchoOne
  <2>7. ~HostMeetsEditor'
    BY <2>2 DEF HostMeetsEditor
  <2>8. EditorMeetsHost'
    <3>1. toUI' # <<>> \/ echoesLost'
      <4>1. toUI \o <<message>> # <<>>
        BY <1>2, ConcatEqualIffEmpty, <2>1 DEF Messages
      <4>2. CASE Len(toUI \o <<message>>) > EchoCapacity
        BY <2>2, <4>2 DEF Echo
      <4>3. CASE ~(Len(toUI \o <<message>>) > EchoCapacity)
        BY <2>2, <4>1, <4>3 DEF Echo
      <4> QED BY <4>2, <4>3
    <3> QED BY <3>1 DEF EditorMeetsHost
  <2> QED BY <2>5, <2>7, <2>8 DEF Settled, OneWay, HostLevel, EditorLevel, Copy
<1>4. CASE republishParameters
  <2> DEFINE base == [kind |-> "republished", write |-> [what |-> "base", to |-> engine.base]]
             lfo == [kind |-> "republished", write |-> [what |-> "lfo", to |-> engine.lfo]]
             all == toUI \o <<base, lfo>>
  <2>1. /\ base \in Echoes /\ lfo \in Echoes
        /\ base.kind = "republished" /\ base.write = [what |-> "base", to |-> engine.base]
        /\ lfo.kind = "republished" /\ lfo.write = [what |-> "lfo", to |-> engine.lfo]
    BY <1>1 DEF TypeOK, Echoes, Writes
  <2>2. /\ republishing /\ ~republishing' /\ Echo(<<base, lfo>>)
        /\ UNCHANGED <<engine, main, toEngine>> /\ (crossed => ~HostMeetsEditor) /\ (~crossed => Settled)
    BY <1>4 DEF republishParameters, Republished, LevelInv
  <2>3. \A c \in Copies : Effect(Effect(c, base), lfo) = Copy(engine)
    <3> TAKE c \in Copies
    <3>1. Effect(c, base) = [c EXCEPT !.base = engine.base]
      BY <2>1 DEF Effect, Stored
    <3>2. Effect(Effect(c, base), lfo) = [Effect(c, base) EXCEPT !.lfo = engine.lfo]
      BY <2>1 DEF Effect, Stored
    <3> QED BY <3>1, <3>2 DEF Copies, Copy
  <2> HIDE DEF base, lfo
  <2>4. /\ all = Append(Append(toUI, base), lfo) /\ all \in Seq(Messages)
        /\ Append(toUI, base) \in Seq(Messages) /\ Len(all) \in Nat
    BY <1>2, <2>1, AppendProperties, LenProperties DEF Messages
  <2> HIDE DEF all
  <2>5. Leads(main, all, Copy(engine))
    <3>1. PICK c \in Copies : Leads(main, toUI, c)
      BY <1>2, HeardLeads DEF LevelInv
    <3>2. Leads(main, Append(toUI, base), Effect(c, base)) /\ Effect(c, base) \in Copies
      BY <1>2, <2>1, <3>1, LeadsOn, EffectType DEF Messages
    <3> QED BY <2>1, <2>3, <2>4, <3>2, LeadsOn DEF Messages
  <2>6. ~echoesLost' => Leads(main', toUI', Copy(engine'))
    <3>1. ~echoesLost' => toUI' = all
      BY <2>2 DEF Echo, all
    <3> QED BY <2>2, <2>5, <3>1
  <2>7. ~HostMeetsEditor /\ ~HostMeetsEditor'
    BY <2>2 DEF Settled, OneWay, EditorMeetsHost, HostMeetsEditor
  <2>8. ASSUME ~EditorMeetsHost' PROVE Leads(Copy(engine'), toEngine', main')
    <3>1. /\ toUI' = <<>> /\ ~echoesLost'
          /\ ~(\E i \in DOMAIN toEngine : toEngine[i].kind = "republish")
      BY <2>2, <2>8 DEF EditorMeetsHost
    <3>2. toEngine' = <<>>
      BY <1>1, <2>2, <2>7, <3>1, NothingQueued
    <3>3. Copy(engine') = main'
      BY <1>2, <2>2, <2>6, <3>1, LeadsNowhere
    <3> QED BY <1>2, <2>2, <3>2, <3>3, LeadsNowhere
  <2> QED BY <2>6, <2>7, <2>8 DEF Settled, OneWay, HostLevel, Requested, EditorLevel, Copy
<1>5. CASE drainCommand
  <2> DEFINE command == Head(toEngine)
  <2>1. /\ toEngine # <<>> /\ toEngine' = Tail(toEngine) /\ command \in Commands
        /\ engine' = CASE command.kind = "write" -> Written(engine, command.write)
                       [] command.kind = "chain" -> [base |-> command.to.base, live |-> command.to.base,
                                                     lfo |-> command.to.lfo]
                       [] OTHER -> engine
        /\ republishing' = (republishing \/ command.kind = "republish")
        /\ UNCHANGED <<main, toUI, echoesLost>> /\ Settled
    BY <1>1, <1>5, TakenType, RingAssumption DEF drainCommand, TypeOK, LevelInv
  <2>2. Copy(engine') = Effect(Copy(engine), command)
    <3>1. CASE command \in [kind : {"write"}, write : Writes]
      <4>1. engine' = Written(engine, command.write) /\ command.write \in Writes
        BY <2>1, <3>1
      <4> QED BY <1>1, <3>1, <4>1, WrittenAlike DEF TypeOK, Effect
    <3>2. CASE command \in [kind : {"chain"}, to : Presets]
      <4>1. command.kind = "chain" /\ command.to \in [base : Asked, lfo : BOOLEAN]
        BY <3>2, PresetAssumption
      <4>2. engine' = [base |-> command.to.base, live |-> command.to.base, lfo |-> command.to.lfo]
        BY <2>1, <4>1
      <4>3. Copy(engine') = command.to
        BY <4>1, <4>2 DEF Copy
      <4> QED BY <4>1, <4>3 DEF Effect
    <3>3. CASE command \in [kind : {"republish"}]
      BY <2>1, <3>3 DEF Effect
    <3> QED BY <2>1, <3>1, <3>2, <3>3 DEF Commands
  <2> HIDE DEF command
  <2>3. /\ command = toEngine[1] /\ 1 \in DOMAIN toEngine
        /\ \A i \in DOMAIN toEngine' : i + 1 \in DOMAIN toEngine /\ toEngine'[i] = toEngine[i + 1]
    <3>1. /\ Len(toEngine) \in Nat \ {0} /\ DOMAIN toEngine = 1 .. Len(toEngine)
          /\ toEngine' \in Seq(Messages) /\ Len(toEngine') = Len(toEngine) - 1
          /\ \A i \in 1 .. Len(toEngine') : toEngine'[i] = toEngine[i + 1]
      BY <1>2, <2>1, EmptySeq, LenProperties, HeadTailProperties
    <3>2. DOMAIN toEngine' = 1 .. Len(toEngine')
      BY <3>1, LenProperties
    <3> QED BY <1>2, <2>1, <3>1, <3>2 DEF command
  <2>5. HostMeetsEditor' => HostMeetsEditor
    BY <2>3 DEF HostMeetsEditor
  <2>6. CASE command.kind = "republish"
    <3>1. EditorMeetsHost /\ EditorMeetsHost' /\ Requested'
      BY <2>1, <2>3, <2>6 DEF EditorMeetsHost, Requested
    <3> QED BY <2>1, <2>5, <3>1 DEF Settled, OneWay, HostLevel, EditorLevel
  <2>7. CASE command.kind # "republish"
    <3>1. HostMeetsEditor /\ ~EditorMeetsHost
      BY <2>1, <2>3, <2>7 DEF HostMeetsEditor, Settled, OneWay
    <3>2. ~EditorMeetsHost'
      BY <2>1, <2>3, <2>7, <3>1 DEF EditorMeetsHost
    <3>3. Leads(Copy(engine), toEngine, main)
      BY <2>1, <3>1 DEF Settled, EditorLevel
    <3>4. Leads(Copy(engine'), toEngine', main')
      BY <1>2, <2>1, <2>2, <3>3, LeadsAfter DEF command
    <3>5. ASSUME ~Requested', ~HostMeetsEditor' PROVE Leads(main', toUI', Copy(engine'))
      <4>1. toEngine' = <<>> /\ toUI' = <<>>
        <5>1. DOMAIN toEngine' = {}
          BY <3>5 DEF Requested, HostMeetsEditor
        <5>2. toEngine' \in Seq(Messages)
          BY <1>2, <2>1, HeadTailProperties
        <5> QED BY <3>2, <5>1, <5>2, LenProperties, EmptySeq DEF EditorMeetsHost
      <4>2. Copy(engine') \in Copies
        BY <1>2, <2>1, <2>2, EffectType DEF Messages
      <4>3. main' = Copy(engine')
        BY <3>4, <4>1, <4>2, LeadsNowhere
      <4> QED BY <4>1, <4>2, <4>3, LeadsNowhere
    <3> QED BY <3>2, <3>4, <3>5 DEF Settled, OneWay, HostLevel, EditorLevel, Copy
  <2> QED BY <2>6, <2>7
<1>6. ASSUME UNCHANGED <<main, rings, crossed>>, Copy(engine') = Copy(engine) PROVE Settled'
  BY <1>6 DEF rings, LevelInv, Settled, OneWay, EditorMeetsHost, HostMeetsEditor, HostLevel,
              Requested, EditorLevel, Copy
<1>7. ASSUME NEW v \in Swept, preProcess(v) PROVE Settled'
  BY <1>1, <1>6, <1>7 DEF preProcess, TypeOK, Copy
<1>8. CASE PublishValue \/ PublishBit
  BY <1>6, <1>8 DEF PublishValue, PublishBit
<1> QED BY <1>3, <1>4, <1>5, <1>7, <1>8

-----------------------------------------------------------------------------
(* Every variable keeps its type, and the rings their bounds.              *)
THEOREM Typing == Spec => []TypeOK
BY Inductive, PTL DEF IInv

(* With its LFO off a parameter plays the value somebody chose, whoever    *)
(* switched it off and whatever was written meanwhile.                     *)
THEOREM SweepLeftBehind == Spec => []StoppedPlaysBase
BY Inductive, PTL DEF IInv

(* The knob of an LFO that stopped comes back to a chosen value, unless a  *)
(* resync of the rack dropped the engine's last word.                      *)
THEOREM KnobReturns == Spec => []KnobComesBack
<1>1. IInv => KnobComesBack
  BY DEF IInv, KnobInv, KnobOwed, NewsComing, KnobComesBack, Painted, AudioResting
<1> QED BY Inductive, <1>1, PTL

(* With the bit down and nobody at the mailbox, its reader has had the     *)
(* newest value, wherever the writer's two steps fell in its own.          *)
THEOREM NothingMissed == Spec => []SweepsMissNothing
<1>1. Init => SweepsMissNothing
  BY DEF Init, SweepsMissNothing
<1>2. SweepsMissNothing /\ [Next]_vars => SweepsMissNothing'
  <2> SUFFICES ASSUME SweepsMissNothing, [Next]_vars PROVE SweepsMissNothing'
    OBVIOUS
  <2> USE DEF SweepsMissNothing
  <2>1. ASSUME NEW write \in Writes, HostWrites(write) \/ EditorWrites(write)
        PROVE  SweepsMissNothing'
    BY <2>1 DEF HostWrites, EditorWrites, mailbox, reader
  <2>2. CASE drainCommand \/ republishParameters
    BY <2>2 DEF drainCommand, republishParameters, mailbox, reader
  <2>3. ASSUME NEW v \in Swept, preProcess(v) PROVE SweepsMissNothing'
    BY <2>3 DEF preProcess, mailbox, reader
  <2>4. CASE PublishValue \/ PublishBit
    BY <2>4 DEF PublishValue, PublishBit, reader
  <2>5. CASE drainEchoes \/ AskForRepublish \/ resyncModuleRack \/ OpenEditor
    BY <2>5 DEF drainEchoes, AskForRepublish, resyncModuleRack, OpenEditor, mailbox, reader
  <2>6. ASSUME NEW preset \in Presets, Load(preset) PROVE SweepsMissNothing'
    BY <2>6 DEF Load
  <2>7. CASE SweepTake \/ SweepRead
    BY <2>7 DEF SweepTake, SweepRead, mailbox
  <2>8. CASE SweepPaint
    BY <2>8, SweepAssumption DEF SweepPaint, mailbox, Values
  <2>9. CASE UNCHANGED vars
    BY <2>9 DEF vars, mailbox, reader
  <2> QED BY <2>1, <2>2, <2>3, <2>4, <2>5, <2>6, <2>7, <2>8, <2>9 DEF Next
<1> QED BY <1>1, <1>2, PTL DEF Spec

(* The rings keep the two copies level: once they are empty both hold one  *)
(* value and one switch, with echoes lost and republished in between,      *)
(* whatever was queued and refused, unless edits crossed and nothing has   *)
(* settled both copies since.                                              *)
THEOREM Level == Spec => []KeptLevel
<1>1. IInv /\ LevelInv /\ [Next]_vars => LevelInv'
  <2> SUFFICES ASSUME IInv, LevelInv, [Next]_vars PROVE LevelInv'
    OBVIOUS
  <2>1. CASE UNCHANGED vars
    BY <2>1 DEF vars, rings, LevelInv, Settled, OneWay, EditorMeetsHost, HostMeetsEditor,
                HostLevel, Requested, EditorLevel, Copy
  <2>2. CASE Next
    <3>1. Heard(toUI)' /\ Heard(toEngine)'
      BY <2>2, AudioHeard, MainHeard DEF Next, LevelInv
    <3>2. ASSUME ~crossed' PROVE Settled'
      BY <2>2, <3>2, AudioLevel, MainLevel DEF Next
    <3> QED BY <3>1, <3>2 DEF LevelInv
  <2> QED BY <2>1, <2>2
<1>2. IInv /\ LevelInv => KeptLevel
  <2> SUFFICES ASSUME IInv, LevelInv, RingsEmpty, ~crossed PROVE main = Copy(engine)
    BY DEF KeptLevel, Copy
  <2>1. ~EditorMeetsHost
    <3>1. \A i \in DOMAIN <<>> : FALSE
      OBVIOUS
    <3> QED BY <3>1 DEF RingsEmpty, EditorMeetsHost
  <2>2. Copy(engine) \in Copies
    BY RingTypes DEF IInv
  <2> QED BY <2>1, <2>2, LeadsNowhere DEF LevelInv, Settled, EditorLevel, RingsEmpty
<1> QED BY <1>1, <1>2, LevelStarts, Inductive, PTL DEF Spec
=============================================================================
