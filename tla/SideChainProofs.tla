--------------------------- MODULE SideChainProofs ---------------------------
(***************************************************************************)
(* What the side channel plays is what is shown and saved, it reads on     *)
(* where it left off, and a load says all there is to say: for any files,  *)
(* rates, presets, blocks and ring.                                        *)
(***************************************************************************)
EXTENDS SideChain, SequenceTheorems, WellFoundedInduction, TLAPS

Held ==
  /\ file \in File \cup {noFile} /\ decodedRate \in Rate \cup {0} /\ notLoaded \in BOOLEAN
  /\ sourceMain \in Sources
Played == sideChainSource \in Sources /\ sample \in Sample \cup {noSample}
Ring ==
  /\ toEngine \in Seq(Command) /\ owed \in Seq(Pair) /\ Len(owed) = Len(toEngine)
Rest ==
  /\ rate \in Rate \cup {0} /\ running \in BOOLEAN /\ missed \in BOOLEAN
  /\ session \in Patch
  /\ loading # notLoading => loading.patch \in Patch

\* With the engine stopped nothing is under way, except while deactivate() drains.
Stopped ==
  /\ ~running /\ drainer # "deactivate" => toEngine = <<>>
  /\ drainer = "deactivate" => ~running /\ loading = notLoading

Named == sourceMain = "file" <=> file # noFile

\* What is under way while the engine runs was decoded for the rate it runs at.
UnderWayAtRate ==
  running => \A k \in 1 .. Len(toEngine) :
               toEngine[k].sample # noSample => toEngine[k].sample.rate = rate

IInv ==
  /\ Held /\ Played /\ Ring /\ Rest /\ Stopped
  /\ EngineFollowsRecord /\ Named
  /\ UnderWayAtRate /\ PlaysAtItsRate

-----------------------------------------------------------------------------
LEMMA SampleNamed ==
  ASSUME NEW s \in Sample \cup {noSample}
  PROVE  (s # noSample => s.file \in File /\ s.file # noFile) /\ s.rate \in Rate \cup {0}
BY FileAssumption DEF Sample, noSample

\* publishSideChain() keeps the engine behind the record, queued or direct.
LEMMA PublishFollows ==
  ASSUME Held, Played, Ring, EngineFollowsRecord, ~running => toEngine = <<>>,
         NEW new \in Sample \cup {noSample}, NEW replaces \in BOOLEAN,
         NEW source \in Sources, NEW unloaded \in File \cup {noFile},
         new # noSample => unloaded = noFile,
         running \in BOOLEAN,
         PublishSideChain(new, replaces, source, unloaded)
  PROVE  (Held /\ Played /\ Ring /\ EngineFollowsRecord)'
<1>1. CASE Full
  BY <1>1 DEF PublishSideChain, record, engine, ring, Held, Played, Ring, EngineFollowsRecord,
              Record, Engine, Carried
<1>2. CASE ~Full
  <2>1. RecordWhatTheEngineHasNow(new, replaces, source, unloaded)
    BY <1>2 DEF PublishSideChain
  <2>2. Held'
    BY <2>1, SampleNamed DEF RecordWhatTheEngineHasNow, Held
  <2>3. Record' = [source |-> source, sample |-> IF replaces THEN new ELSE Record.sample]
    <3>1. CASE ~replaces
      BY <2>1, <3>1 DEF RecordWhatTheEngineHasNow, Record
    <3>2. CASE replaces /\ new = noSample
      BY <2>1, <3>2 DEF RecordWhatTheEngineHasNow, Record
    <3>3. CASE replaces /\ new # noSample
      <4>1. file' = new.file /\ file' # noFile /\ decodedRate' = new.rate /\ ~notLoaded'
        BY <2>1, <3>3, SampleNamed DEF RecordWhatTheEngineHasNow
      <4>2. new = [file |-> new.file, rate |-> new.rate]
        BY <3>3 DEF Sample
      <4>3. QED
        BY <2>1, <3>3, <4>1, <4>2 DEF RecordWhatTheEngineHasNow, Record
    <3>4. QED
      BY <3>1, <3>2, <3>3
  <2>4. CASE ~running
    <3>1. toEngine = <<>> /\ Record = Engine
      BY <2>4 DEF EngineFollowsRecord
    <3>2. UNCHANGED ring /\ sideChainSource' = source
          /\ sample' = IF replaces THEN new ELSE sample
      BY <1>2, <2>4 DEF PublishSideChain
    <3>3. Record' = Engine'
      BY <3>1, <3>2, <2>3 DEF Engine
    <3>4. QED
      BY <3>1, <3>2, <3>3, <2>2 DEF ring, Played, Ring, EngineFollowsRecord
  <2>5. CASE running
    <3> DEFINE command == SwapSample(new, replaces, source)
               n == Len(toEngine)
    <3>1. /\ toEngine' = Append(toEngine, command) /\ owed' = Append(owed, Record')
          /\ UNCHANGED engine
      BY <1>2, <2>5 DEF PublishSideChain
    <3>2. Engine' = Engine /\ Played'
      BY <3>1 DEF engine, Engine, Played
    <3>3. command \in Command /\ Record' \in Pair
      <4>1. command \in Command
        BY DEF SwapSample, Command
      <4>2. Record.sample \in Sample \cup {noSample}
        BY DEF Held, Record, Sample
      <4>3. QED
        BY <4>1, <4>2, <2>3 DEF Pair
    <3>4. Ring'
      BY <3>1, <3>3 DEF Ring
    <3>5. n \in Nat /\ Len(toEngine') = n + 1 /\ toEngine' # <<>>
          /\ toEngine'[n + 1] = command /\ owed'[n + 1] = Record'
          /\ \A k \in 1 .. n : toEngine'[k] = toEngine[k] /\ owed'[k] = owed[k]
      BY <3>1, <3>3 DEF Ring
    <3>6. Record' = Carried(IF n = 0 THEN Engine ELSE owed[n], command)
      <4>1. Record = IF n = 0 THEN Engine ELSE owed[n]
        BY DEF EngineFollowsRecord, Ring
      <4>2. QED
        BY <4>1, <2>3 DEF Carried, SwapSample
    <3>7. \A k \in 1 .. n + 1 :
            owed'[k] = Carried(IF k = 1 THEN Engine' ELSE owed'[k - 1], toEngine'[k])
      <4> TAKE k \in 1 .. n + 1
      <4>1. CASE k = n + 1
        BY <4>1, <3>2, <3>5, <3>6
      <4>2. CASE k \in 1 .. n
        <5>1. owed[k] = Carried(IF k = 1 THEN Engine ELSE owed[k - 1], toEngine[k])
          BY <4>2 DEF EngineFollowsRecord
        <5>2. k # 1 => k - 1 \in 1 .. n
          BY <4>2, <3>5
        <5>3. QED
          BY <4>2, <5>1, <5>2, <3>2, <3>5
      <4>3. QED
        BY <4>1, <4>2, <3>5
    <3>8. EngineFollowsRecord'
      BY <3>5, <3>7 DEF EngineFollowsRecord
    <3>9. QED
      BY <2>2, <3>2, <3>4, <3>8
  <2>6. QED
    BY <2>4, <2>5
<1>3. QED
  BY <1>1, <1>2

LEMMA PublishNames ==
  ASSUME Named, Held, NEW new \in Sample \cup {noSample}, NEW replaces \in BOOLEAN,
         NEW source \in Sources, NEW unloaded \in File \cup {noFile},
         replaces => (source = "file" <=> new # noSample \/ unloaded # noFile),
         ~replaces => source = "file" /\ file # noFile,
         PublishSideChain(new, replaces, source, unloaded)
  PROVE  Named'
<1>1. CASE Full
  BY <1>1 DEF PublishSideChain, record, Named
<1>2. CASE ~Full
  BY <1>2, SampleNamed DEF PublishSideChain, RecordWhatTheEngineHasNow, Named
<1>3. QED
  BY <1>1, <1>2

LEMMA PublishDecoded ==
  ASSUME Ring, UnderWayAtRate, PlaysAtItsRate, running \in BOOLEAN,
         UNCHANGED <<rate, running, missed>>,
         NEW new \in Sample \cup {noSample}, NEW replaces \in BOOLEAN, NEW source \in Sources,
         NEW unloaded \in File \cup {noFile},
         running /\ new # noSample => new.rate = rate,
         PublishSideChain(new, replaces, source, unloaded)
  PROVE  (UnderWayAtRate /\ PlaysAtItsRate)'
<1>1. CASE ~running
  BY <1>1 DEF UnderWayAtRate, PlaysAtItsRate
<1>2. CASE running /\ Full
  BY <1>2 DEF PublishSideChain, engine, ring, UnderWayAtRate, PlaysAtItsRate
<1>3. CASE running /\ ~Full
  <2>1. toEngine' = Append(toEngine, SwapSample(new, replaces, source)) /\ UNCHANGED engine
    BY <1>3 DEF PublishSideChain
  <2>2. PlaysAtItsRate'
    BY <2>1 DEF engine, PlaysAtItsRate
  <2>3. /\ Len(toEngine') = Len(toEngine) + 1
        /\ toEngine'[Len(toEngine) + 1].sample = new
        /\ \A k \in 1 .. Len(toEngine) : toEngine'[k] = toEngine[k]
        /\ Len(toEngine) \in Nat
    BY <2>1 DEF Ring, SwapSample, Command
  <2>4. UnderWayAtRate'
    BY <1>3, <2>3 DEF UnderWayAtRate
  <2>5. QED
    BY <2>2, <2>4
<1>4. QED
  BY <1>1, <1>2, <1>3

\* What a choice or a load leaves of the invariant.
Chosen ==
  /\ Held /\ Played /\ Ring /\ EngineFollowsRecord /\ Named
  /\ UnderWayAtRate /\ PlaysAtItsRate
  /\ ~running => toEngine = <<>>

LEMMA PublishKeeps ==
  ASSUME IInv, drainer # "deactivate", UNCHANGED <<rate, running, missed>>,
         NEW new \in Sample \cup {noSample}, NEW replaces \in BOOLEAN,
         NEW source \in Sources, NEW unloaded \in File \cup {noFile},
         new # noSample => unloaded = noFile /\ new.rate = rate,
         replaces => (source = "file" <=> new # noSample \/ unloaded # noFile),
         ~replaces => source = "file" /\ file # noFile,
         PublishSideChain(new, replaces, source, unloaded)
  PROVE  Chosen'
<1>1. Held /\ Played /\ Ring /\ EngineFollowsRecord /\ Named /\ UnderWayAtRate /\ PlaysAtItsRate
      /\ running \in BOOLEAN /\ (~running => toEngine = <<>>)
  BY DEF IInv, Rest, Stopped
<1>2. (Held /\ Played /\ Ring /\ EngineFollowsRecord)'
  BY <1>1, PublishFollows
<1>3. Named'
  BY <1>1, PublishNames
<1>4. (UnderWayAtRate /\ PlaysAtItsRate)'
  BY <1>1, PublishDecoded
<1>5. ~running' => toEngine' = <<>>
  BY <1>1 DEF PublishSideChain, Full, ring
<1>6. QED
  BY <1>2, <1>3, <1>4, <1>5 DEF Chosen

LEMMA NothingKeeps ==
  ASSUME IInv, drainer # "deactivate", UNCHANGED <<rate, running, missed>>,
         UNCHANGED <<record, engine, ring>>
  PROVE  Chosen'
BY DEF IInv, Stopped, Chosen, record, engine, ring, Held, Played, Ring, EngineFollowsRecord, Named,
       UnderWayAtRate, PlaysAtItsRate, Record, Engine, Carried

LEMMA SetNewSampleKeeps ==
  ASSUME IInv, drainer # "deactivate", UNCHANGED <<rate, running, missed>>,
         NEW f \in File \cup {noFile}, SetNewSample(f)
  PROVE  Chosen'
<1>1. CASE Loaded(f, rate) \/ Fails(f)
  BY <1>1, NothingKeeps DEF SetNewSample, DecodeAndPublishSample
<1>2. CASE ~Loaded(f, rate) /\ ~Fails(f)
  <2> DEFINE new == IF f = noFile THEN noSample ELSE [file |-> f, rate |-> rate]
             source == IF new # noSample THEN "file"
                       ELSE IF sourceMain = "file" THEN "main" ELSE sourceMain
  <2>1. new \in Sample \cup {noSample} /\ source \in Sources
    BY DEF IInv, Rest, Held, Sample, Sources
  <2>2. PublishSideChain(new, TRUE, source, noFile)
    BY <1>2 DEF SetNewSample, DecodeAndPublishSample, PublishSample
  <2>3. new # noSample => new.rate = rate
    OBVIOUS
  <2>4. source = "file" <=> new # noSample
    OBVIOUS
  <2>5. QED
    BY <2>1, <2>2, <2>3, <2>4, PublishKeeps
<1>3. QED
  BY <1>1, <1>2

LEMMA SetSampleKeeps ==
  ASSUME IInv, drainer # "deactivate", UNCHANGED <<rate, running, missed>>,
         NEW f \in File \cup {noFile}, SetSample(f)
  PROVE  Chosen'
<1>1. CASE Fails(f) /\ ~Loaded(f, rate)
  BY <1>1, PublishKeeps DEF SetSample, SetSampleNotLoaded, Fails, Sources
<1>2. CASE ~(Fails(f) /\ ~Loaded(f, rate))
  BY <1>2, SetNewSampleKeeps DEF SetSample
<1>3. QED
  BY <1>1, <1>2

LEMMA SetSideChainSourceKeeps ==
  ASSUME IInv, drainer # "deactivate", UNCHANGED <<rate, running, missed>>,
         NEW source \in Sources, SetSideChainSource(source)
  PROVE  Chosen'
<1>1. CASE source = "file" /\ file # noFile
  BY <1>1, PublishKeeps DEF SetSideChainSource
<1>2. CASE source = "file" /\ file = noFile
  <2>1. PublishSideChain(noSample, TRUE, "main", noFile)
    BY <1>2 DEF SetSideChainSource
  <2>2. "main" \in Sources
    BY DEF Sources
  <2>3. QED
    BY <2>1, <2>2, PublishKeeps
<1>3. CASE source # "file"
  BY <1>3, PublishKeeps DEF SetSideChainSource
<1>4. QED
  BY <1>1, <1>2, <1>3

-----------------------------------------------------------------------------
LEMMA InitIInv == Init => IInv
<1> SUFFICES ASSUME Init PROVE IInv
  OBVIOUS
<1>1. Held /\ Played
  BY DEF Init, Held, Played, Sources
<1>2. Ring /\ Rest /\ Stopped
  <2>1. Ring
    BY DEF Init, Ring
  <2>2. Rest /\ Stopped
    BY DEF Init, Rest, Stopped, Patch, Sources
  <2>3. QED
    BY <2>1, <2>2
<1>3. EngineFollowsRecord
  BY DEF Init, EngineFollowsRecord, Record, Engine
<1>4. Named /\ UnderWayAtRate /\ PlaysAtItsRate
  BY DEF Init, Named, UnderWayAtRate, PlaysAtItsRate
<1>5. QED
  BY <1>1, <1>2, <1>3, <1>4 DEF IInv

LEMMA ActivateKeeps ==
  ASSUME IInv, NEW r \in Rate, Activate(r)
  PROVE  IInv'
<1>1. /\ ~running /\ drainer # "deactivate" /\ toEngine = <<>> /\ Record = Engine
      /\ running' /\ rate' = r /\ UNCHANGED <<session, loading, drainer>>
  BY DEF IInv, Stopped, EngineFollowsRecord, Activate, Edit, MainFree
<1>2. missed' = (~notLoaded /\ decodedRate # r /\ Fails(file))
  BY DEF Activate
<1>3. Rest' /\ Stopped'
  BY <1>1, <1>2 DEF IInv, Rest, Stopped, Activate
<1>4. CASE UNCHANGED <<record, engine, ring>>
  <2>1. (Held /\ Played /\ Ring /\ EngineFollowsRecord /\ Named)'
    BY <1>4 DEF IInv, record, engine, ring, Held, Played, Ring, EngineFollowsRecord, Named, Record,
                Engine, Carried
  <2>2. toEngine' = <<>>
    BY <1>1, <1>4 DEF ring
  <2>3. sample' = sample /\ sample = Record.sample
    BY <1>1, <1>4 DEF engine, Engine
  <2>4. file # noFile /\ ~notLoaded /\ decodedRate # r => Fails(file)
    <3> SUFFICES ASSUME file # noFile, ~notLoaded, decodedRate # r, ~Fails(file) PROVE FALSE
      OBVIOUS
    <3> DEFINE new == [file |-> file, rate |-> r]
    <3>1. PublishSample(new)
      BY DEF Activate, DecodeAndPublishSample
    <3>2. new \in Sample /\ new # noSample
      BY DEF IInv, Held, Sample, noSample
    <3>3. decodedRate' = r
      BY <1>1, <3>1, <3>2 DEF PublishSample, PublishSideChain, RecordWhatTheEngineHasNow, Full
    <3>4. QED
      BY <1>4, <3>3 DEF record
  <2>5. PlaysAtItsRate'
    BY <1>1, <1>2, <2>3, <2>4 DEF PlaysAtItsRate, Record
  <2>6. UnderWayAtRate'
    BY <2>2 DEF UnderWayAtRate
  <2>7. QED
    BY <1>3, <2>1, <2>5, <2>6 DEF IInv
<1>5. CASE file # noFile /\ ~notLoaded /\ decodedRate # r /\ ~Fails(file)
  <2> DEFINE new == [file |-> file, rate |-> r]
             source == IF new # noSample THEN "file"
                       ELSE IF sourceMain = "file" THEN "main" ELSE sourceMain
  <2>1. new \in Sample \cup {noSample} /\ new # noSample
    BY <1>5 DEF IInv, Held, Sample, noSample
  <2>2. source \in Sources /\ source = "file"
    BY <2>1 DEF Sources
  <2>3. PublishSideChain(new, TRUE, source, noFile)
    BY <1>5 DEF Activate, DecodeAndPublishSample, PublishSample
  <2>4. (Held /\ Played /\ Ring /\ EngineFollowsRecord)'
    BY <1>1, <2>1, <2>2, <2>3, PublishFollows DEF IInv, Rest
  <2>5. Named'
    BY <2>1, <2>2, <2>3, PublishNames DEF IInv
  <2>6. sample' = new /\ toEngine' = <<>>
    BY <1>1, <2>3 DEF PublishSideChain, Full, ring
  <2>7. PlaysAtItsRate' /\ UnderWayAtRate'
    BY <1>1, <2>6 DEF PlaysAtItsRate, UnderWayAtRate
  <2>8. QED
    BY <1>3, <2>4, <2>5, <2>7 DEF IInv
<1>6. QED
  BY <1>4, <1>5 DEF Activate, DecodeAndPublishSample

LEMMA DrainKeeps ==
  ASSUME IInv, DrainCommand
  PROVE  IInv'
<1> DEFINE command == Head(toEngine)
           n == Len(toEngine)
<1>1. /\ toEngine # <<>> /\ toEngine' = Tail(toEngine) /\ owed' = Tail(owed)
      /\ sideChainSource' = command.source
      /\ sample' = IF command.replaces THEN command.sample ELSE sample
      /\ UNCHANGED <<record, rate, running, session, loading, block, missed>>
  BY DEF DrainCommand
<1>2. /\ n \in Nat \ {0} /\ command = toEngine[1] /\ command \in Command
      /\ Len(toEngine') = n - 1 /\ Len(owed') = n - 1
      /\ \A k \in 1 .. n - 1 : toEngine'[k] = toEngine[k + 1] /\ owed'[k] = owed[k + 1]
  BY <1>1 DEF IInv, Ring
<1>3. Held' /\ Rest' /\ Stopped' /\ Named'
  BY <1>1 DEF IInv, Held, Rest, Stopped, Named, record, block
<1>4. Played' /\ Ring'
  BY <1>1, <1>2 DEF IInv, Played, Ring, Command
<1>5. Engine' = owed[1]
  <2>1. owed[1] = Carried(Engine, toEngine[1])
    BY <1>2 DEF IInv, EngineFollowsRecord
  <2>2. QED
    BY <1>1, <1>2, <2>1 DEF Carried, Engine
<1>6. \A k \in 1 .. n - 1 :
        owed'[k] = Carried(IF k = 1 THEN Engine' ELSE owed'[k - 1], toEngine'[k])
  <2> TAKE k \in 1 .. n - 1
  <2>1. k + 1 \in 1 .. n /\ k + 1 # 1 /\ (k + 1) - 1 = k
    BY <1>2
  <2>2. owed[k + 1] = Carried(owed[k], toEngine[k + 1])
    BY <2>1 DEF IInv, EngineFollowsRecord
  <2>3. k # 1 => owed'[k - 1] = owed[k]
    <3>1. k # 1 => k - 1 \in 1 .. n - 1 /\ (k - 1) + 1 = k
      BY <1>2
    <3>2. QED
      BY <1>2, <3>1
  <2>4. QED
    BY <1>2, <1>5, <2>2, <2>3
<1>7. Record' = IF toEngine' = <<>> THEN Engine' ELSE owed'[Len(toEngine')]
  <2>1. Record' = Record /\ Record = owed[n]
    BY <1>1 DEF IInv, EngineFollowsRecord, Record, record
  <2>2. CASE n = 1
    BY <1>1, <1>2, <1>4, <1>5, <2>1, <2>2 DEF Ring
  <2>3. CASE n # 1
    <3>1. n - 1 \in 1 .. n - 1 /\ (n - 1) + 1 = n /\ toEngine' # <<>>
      BY <1>2, <2>3
    <3>2. QED
      BY <1>2, <2>1, <3>1
  <2>4. QED
    BY <2>2, <2>3
<1>8. EngineFollowsRecord'
  BY <1>2, <1>6, <1>7 DEF EngineFollowsRecord
<1>9. UnderWayAtRate'
  <2> SUFFICES ASSUME running', NEW k \in 1 .. Len(toEngine'), toEngine'[k].sample # noSample
               PROVE  toEngine'[k].sample.rate = rate'
    BY DEF UnderWayAtRate
  <2>1. k + 1 \in 1 .. n /\ toEngine'[k] = toEngine[k + 1]
    BY <1>2
  <2>2. QED
    BY <1>1, <2>1 DEF IInv, UnderWayAtRate
<1>10. PlaysAtItsRate'
  BY <1>1, <1>2 DEF IInv, UnderWayAtRate, PlaysAtItsRate
<1>11. QED
  BY <1>3, <1>4, <1>8, <1>9, <1>10 DEF IInv

\* A step that leaves the side channel, its ring and its rate alone.
LEMMA ElsewhereKeeps ==
  ASSUME IInv, UNCHANGED <<record, sideChainSource, sample, ring, missed>>,
         Rest', Stopped', running' => running /\ rate' = rate
  PROVE  IInv'
BY DEF IInv, record, ring, Held, Played, Ring, EngineFollowsRecord, Named, UnderWayAtRate,
       PlaysAtItsRate, Record, Engine, Carried

LEMMA NextIInv == IInv /\ [Next]_vars => IInv'
<1> SUFFICES ASSUME IInv, [Next]_vars PROVE IInv'
  OBVIOUS
<1> USE DEF Edit, MainFree
<1>1. ASSUME NEW f \in File, SelectFile(f) PROVE IInv'
  <2>1. Chosen'
    BY <1>1, SetNewSampleKeeps DEF SelectFile
  <2>2. QED
    BY <1>1, <2>1 DEF SelectFile, Chosen, IInv, Rest, Stopped, block, Ring
<1>2. ASSUME NEW source \in {"main", "host"}, SelectSource(source) PROVE IInv'
  <2>1. Chosen'
    BY <1>2, SetSideChainSourceKeeps DEF SelectSource, Sources
  <2>2. QED
    BY <1>2, <2>1 DEF SelectSource, Chosen, IInv, Rest, Stopped, block
<1>3. ASSUME NEW patch \in Patch, NEW ignore \in BOOLEAN, Load(patch, ignore) PROVE IInv'
  <2>1. Chosen'
    BY <1>3, SetSampleKeeps, NothingKeeps DEF Load, Patch
  <2>2. Rest' /\ Stopped'
    BY <1>3, <2>1 DEF Load, Chosen, IInv, Rest, Stopped, block
  <2>3. QED
    BY <2>1, <2>2 DEF Chosen, IInv
<1>4. CASE SetSideChain
  <2>1. Resolved(loading.patch, file # noFile) \in Sources /\ drainer # "deactivate"
    BY <1>4 DEF SetSideChain, IInv, Rest, Stopped, Resolved, Patch, Sources
  <2>2. Chosen'
    BY <1>4, <2>1, SetSideChainSourceKeeps DEF SetSideChain
  <2>3. QED
    BY <1>4, <2>2 DEF SetSideChain, Chosen, IInv, Rest, Stopped, block
<1>5. CASE StateSave
  <2>1. session' \in Patch
    BY <1>5 DEF StateSave, Patch, IInv, Held
  <2>2. QED
    BY <1>5, <2>1, ElsewhereKeeps DEF StateSave, IInv, Rest, Stopped, block, engine, ring
<1>6. ASSUME NEW r \in Rate, Activate(r) PROVE IInv'
  BY <1>6, ActivateKeeps
<1>7. ASSUME NEW r \in Rate, ActivateFails(r) PROVE IInv'
  BY <1>7, ElsewhereKeeps DEF ActivateFails, IInv, Rest, Stopped, block, engine, ring
<1>8. CASE Deactivate
  BY <1>8, ElsewhereKeeps DEF Deactivate, IInv, Rest, Stopped, engine, ring
<1>9. CASE Deactivated
  BY <1>9, ElsewhereKeeps DEF Deactivated, IInv, Rest, Stopped, engine, ring
<1>10. ASSUME NEW frames \in Blocks, NEW rolling \in BOOLEAN, BeginBlock(frames, rolling)
       PROVE  IInv'
  BY <1>10, ElsewhereKeeps DEF BeginBlock, IInv, Rest, Stopped, engine, ring
<1>11. CASE TransportRead
  BY <1>11, ElsewhereKeeps DEF TransportRead, IInv, Rest, Stopped, ring
<1>12. CASE RunEngine
  BY <1>12, ElsewhereKeeps DEF RunEngine, IInv, Rest, Stopped, ring
<1>13. CASE DrainCommand
  BY <1>13, DrainKeeps
<1>14. ASSUME NEW f \in File, DiskChanges(f) PROVE IInv'
  BY <1>14, ElsewhereKeeps DEF DiskChanges, IInv, Rest, Stopped, block, engine, ring
<1>15. CASE UNCHANGED vars
  BY <1>15, ElsewhereKeeps DEF vars, IInv, Rest, Stopped, block, engine, ring
<1>16. StateLoad => IInv'
  BY <1>3 DEF StateLoad, IInv, Rest
<1>17. ASSUME NEW patch \in Patches, NEW ignore \in BOOLEAN, LoadPreset(patch, ignore)
       PROVE  IInv'
  BY <1>17, <1>3, FileAssumption DEF LoadPreset
<1>18. QED
  BY <1>1, <1>2, <1>4, <1>5, <1>6, <1>7, <1>8, <1>9, <1>10, <1>11, <1>12, <1>13, <1>14, <1>15,
     <1>16, <1>17 DEF Next, MainThread, AudioThread

LEMMA SpecIInv == Spec => []IInv
BY InitIInv, NextIInv, PTL DEF Spec

(* Whatever is chosen, loaded, refused or drained in between, the engine   *)
(* goes through the pairs of source and sample the main thread recorded,   *)
(* in their order: no block has a new source and the sample before it.     *)
THEOREM HeardAsShown == Spec => []EngineFollowsRecord
<1>1. IInv => EngineFollowsRecord
  BY DEF IInv
<1>2. QED
  BY SpecIInv, <1>1, PTL

(* A source that is a file has a name and a name is the source, in the     *)
(* record always and in the engine once it has caught up.                  *)
THEOREM LoadedIsHeard == Spec => []NeverUnheard
<1>1. IInv => NeverUnheard
  <2> SUFFICES ASSUME IInv PROVE NeverUnheard
    OBVIOUS
  <2>1. sourceMain = "file" <=> file # noFile
    BY DEF IInv, Named
  <2>2. ASSUME sample # noSample, toEngine = <<>> PROVE sideChainSource = "file"
    <3>1. Record = Engine
      BY <2>2 DEF IInv, EngineFollowsRecord
    <3>2. QED
      BY <2>1, <2>2, <3>1 DEF Record, Engine
  <2>3. QED
    BY <2>1, <2>2 DEF NeverUnheard
<1>2. QED
  BY SpecIInv, <1>1, PTL

(* No rate a host activates at leaves a sample playing at another one, but *)
(* where its file could not be read again.                                 *)
THEOREM HeardAtItsRate == Spec => []PlaysAtItsRate
<1>1. IInv => PlaysAtItsRate
  BY DEF IInv
<1>2. QED
  BY SpecIInv, <1>1, PTL

-----------------------------------------------------------------------------
(* The file read in pieces.                                                *)

Before == {ss \in Nat \X Nat : ss[1] < ss[2]}
LEMMA NatInd ==
  ASSUME NEW S, 0 \in S, \A n \in Nat : n \in S => n + 1 \in S
  PROVE  \A n \in Nat : n \in S
<1> DEFINE T == Nat \ S
<1>1. IsWellFoundedOn(Before, Nat)
  BY NatLessThanWellFounded DEF OpToRel, Before
<1>2. SUFFICES ASSUME T # {} PROVE FALSE
  OBVIOUS
<1>3. PICK x \in T : \A y \in T : ~ (<<y, x>> \in Before)
  <2> HIDE DEF T
  <2>1. T \subseteq Nat BY DEF T
  <2> QED BY <1>1, <1>2, <2>1, WFMin
<1>4. x # 0
  OBVIOUS
<1>5. x - 1 \in Nat /\ <<x - 1, x>> \in Before
  BY <1>4 DEF Before
<1>6. x - 1 \in S
  BY <1>3, <1>5
<1> QED
  BY <1>5, <1>6

\* One turn of the copying loop, the rest of it given.
Turned(f, rest, pos, size) ==
  LET from == IF pos = size THEN 0 ELSE pos
      amount == Lesser(size - from, rest)
      later == f[rest - amount][from + amount]
  IN [frames |-> Span(from, amount) \o later.frames, position |-> later.position]
Turn(f, rest, size) ==
  [pos \in 0 .. size |->
     IF rest = 0 THEN [frames |-> <<>>, position |-> pos] ELSE Turned(f, rest, pos, size)]
LEMMA TurnsOn ==
  ASSUME NEW n \in Nat, NEW size \in Nat \ {0}, NEW f, NEW g,
         NEW rest \in 0 .. n + 1, \A r \in 0 .. n : f[r] = g[r]
  PROVE  Turn(f, rest, size) = Turn(g, rest, size)
<1> DEFINE from(pos) == IF pos = size THEN 0 ELSE pos
           amount(pos) == Lesser(size - from(pos), rest)
<1>1. ASSUME NEW pos \in 0 .. size, rest # 0 PROVE rest - amount(pos) \in 0 .. n
  BY <1>1 DEF Lesser
<1>2. ASSUME NEW pos \in 0 .. size, rest # 0
      PROVE  f[rest - amount(pos)][from(pos) + amount(pos)] = g[rest - amount(pos)][from(pos) + amount(pos)]
  BY <1>1, <1>2
<1> QED BY <1>2 DEF Turn, Turned

LEMMA CopiedExists ==
  ASSUME NEW n \in Nat, NEW size \in Nat \ {0}
  PROVE  \E f : f = [rest \in 0 .. n |-> Turn(f, rest, size)]
<1> DEFINE Fits(f, m) == f = [rest \in 0 .. m |-> Turn(f, rest, size)]
           S == {m \in Nat : \E f : Fits(f, m)}
<1>1. 0 \in S
  <2> DEFINE f == [rest \in 0 .. 0 |-> Turn(<<>>, 0, size)]
  <2>1. Turn(<<>>, 0, size) = Turn(f, 0, size)
    BY DEF Turn, Turned
  <2>2. Fits(f, 0)
    BY <2>1
  <2> HIDE DEF Fits
  <2> QED BY <2>2
<1>2. ASSUME NEW m \in Nat, m \in S PROVE m + 1 \in S
  <2> PICK f : Fits(f, m)
    BY <1>2
  <2> DEFINE g == [rest \in 0 .. m + 1 |-> Turn(f, rest, size)]
  <2>1. \A r \in 0 .. m : f[r] = g[r]
    OBVIOUS
  <2> HIDE DEF Fits
  <2>2. \A rest \in 0 .. m + 1 : Turn(f, rest, size) = Turn(g, rest, size)
    <3> HIDE DEF g
    <3> QED BY <2>1, TurnsOn
  <2>3. Fits(g, m + 1)
    BY <2>2 DEF Fits
  <2> QED BY <2>3
<1> HIDE DEF S
<1>3. n \in S
  BY <1>1, <1>2, NatInd
<1> QED BY <1>3 DEF S

LEMMA CopiedTurns ==
  ASSUME NEW n \in Nat, NEW size \in Nat \ {0}, NEW rest \in 0 .. n
  PROVE  Copied(n, size)[rest] = Turn(Copied(n, size), rest, size)
<1> DEFINE F(f) == f = [r \in 0 .. n |-> Turn(f, r, size)]
<1>1. \E f : F(f)
  BY CopiedExists
<1>2. Copied(n, size) = CHOOSE f : F(f)
  BY Zenon DEF Copied, Turn, Turned
<1> HIDE DEF F
<1>3. F(Copied(n, size))
  BY <1>1, <1>2, Zenon
<1> DEFINE c == Copied(n, size)
<1>4. c = [r \in 0 .. n |-> Turn(c, r, size)]
  BY <1>3 DEF F
<1> HIDE DEF c
<1>5. c[rest] = Turn(c, rest, size)
  BY <1>4
<1> QED BY <1>5 DEF c

LEMMA RemainderUnique ==
  ASSUME NEW s \in Nat \ {0}, NEW q \in Int, NEW r \in 0 .. s - 1
  PROVE  (s * q + r) % s = r
OBVIOUS

\* A place past the end is the one as far past the beginning.
LEMMA RoundTheEnd ==
  ASSUME NEW s \in Nat \ {0}, NEW a \in Nat
  PROVE  /\ (a + s) % s = a % s
         /\ a < s => a % s = a
<1>1. /\ a \div s \in Int /\ a % s \in 0 .. s - 1
      /\ a = s * (a \div s) + (a % s)
  OBVIOUS
<1>2. PICK q \in Int, r \in 0 .. s - 1 : a = s * q + r
  BY <1>1
<1>3. a + s = s * (q + 1) + r
  BY <1>2
<1>4. (s * (q + 1) + r) % s = r /\ (s * q + r) % s = r
  BY <1>2, RemainderUnique
<1>5. ASSUME a < s PROVE a % s = a
  <2>1. a = s * 0 + a /\ a \in 0 .. s - 1
    BY <1>5
  <2> QED BY <2>1, RemainderUnique
<1> QED BY <1>2, <1>3, <1>4, <1>5

\* What a read of n frames from a place in a file gives.
Reads(chunk, start, n, size) ==
  /\ chunk.frames \in Seq(Nat) /\ Len(chunk.frames) = n
  /\ \A i \in 1 .. n : chunk.frames[i] = (start + i - 1) % size
  /\ chunk.position \in 0 .. size /\ (chunk.position % size) = ((start + n) % size)

LEMMA SpanReads ==
  ASSUME NEW start \in Nat, NEW n \in Nat
  PROVE  /\ Span(start, n) \in Seq(Nat) /\ Len(Span(start, n)) = n
         /\ \A i \in 1 .. n : Span(start, n)[i] = start + i - 1
<1>1. Span(start, n) \in [1 .. n -> Nat]
  BY DEF Span
<1>2. Span(start, n) \in Seq(Nat)
  BY <1>1, SeqDef
<1>3. Len(Span(start, n)) = n
  <2>1. Len(Span(start, n)) \in Nat /\ DOMAIN Span(start, n) = 1 .. Len(Span(start, n))
    BY <1>2, LenProperties
  <2>2. DOMAIN Span(start, n) = 1 .. n
    BY DEF Span
  <2> DEFINE m == Len(Span(start, n))
  <2>3. m \in Nat /\ \A k : k \in 1 .. m <=> k \in 1 .. n
    BY <2>1, <2>2
  <2> HIDE DEF m
  <2>4. m <= n /\ n <= m
    BY <2>3
  <2> QED BY <2>3, <2>4 DEF m
<1> QED BY <1>2, <1>3 DEF Span

\* A turn of the loop before a right rest is right.
LEMMA TurnReads ==
  ASSUME NEW size \in Nat \ {0}, NEW pos \in 0 .. size, NEW from \in 0 .. size - 1,
         pos = size => from = 0, pos # size => from = pos,
         NEW amount \in 1 .. size - from, NEW rest \in Nat, amount <= rest,
         NEW later, Reads(later, from + amount, rest - amount, size)
  PROVE  Reads([frames |-> Span(from, amount) \o later.frames, position |-> later.position],
               pos, rest, size)
<1> DEFINE frames == Span(from, amount) \o later.frames
<1>1. /\ Span(from, amount) \in Seq(Nat) /\ Len(Span(from, amount)) = amount
      /\ \A i \in 1 .. amount : Span(from, amount)[i] = from + i - 1
  <2>1. from \in Nat /\ amount \in Nat
    OBVIOUS
  <2> QED BY <2>1, SpanReads
<1>2. /\ later.frames \in Seq(Nat) /\ Len(later.frames) = rest - amount
      /\ \A i \in 1 .. rest - amount : later.frames[i] = (from + amount + i - 1) % size
      /\ later.position \in 0 .. size
      /\ (later.position % size) = ((from + amount + (rest - amount)) % size)
  BY DEF Reads
<1>3. /\ frames \in Seq(Nat) /\ Len(frames) = rest
      /\ \A i \in 1 .. rest :
           frames[i] = IF i <= amount THEN from + i - 1 ELSE later.frames[i - amount]
  <2>1. /\ frames \in Seq(Nat) /\ Len(frames) = amount + (rest - amount)
        /\ \A i \in 1 .. amount + (rest - amount) :
             frames[i] = IF i <= amount THEN Span(from, amount)[i] ELSE later.frames[i - amount]
    <3> DEFINE first == Span(from, amount)
               second == later.frames
    <3>1. first \in Seq(Nat) /\ second \in Seq(Nat) /\ Len(first) = amount /\ Len(second) = rest - amount
      BY <1>1, <1>2
    <3> HIDE DEF first, second
    <3>2. /\ first \o second \in Seq(Nat) /\ Len(first \o second) = Len(first) + Len(second)
          /\ \A i \in 1 .. Len(first) + Len(second) :
               (first \o second)[i] = IF i <= Len(first) THEN first[i] ELSE second[i - Len(first)]
      BY <3>1, ConcatProperties
    <3> QED BY <3>1, <3>2 DEF first, second
  <2>2. amount + (rest - amount) = rest
    OBVIOUS
  <2> HIDE DEF frames
  <2>3. ASSUME NEW i \in 1 .. rest
        PROVE  frames[i] = IF i <= amount THEN from + i - 1 ELSE later.frames[i - amount]
    <3>1. frames[i] = IF i <= amount THEN Span(from, amount)[i] ELSE later.frames[i - amount]
      BY <2>1, <2>2
    <3>2. i <= amount => i \in 1 .. amount
      OBVIOUS
    <3> QED BY <1>1, <3>1, <3>2
  <2> QED BY <2>1, <2>2, <2>3
<1> HIDE DEF frames
<1>4. \A k \in Nat : (from + k) % size = (pos + k) % size
  <2> TAKE k \in Nat
  <2>1. CASE pos = size
    <3>1. from + k = k /\ pos + k = k + size
      BY <2>1
    <3> QED BY <3>1, RoundTheEnd
  <2>2. CASE pos # size
    BY <2>2
  <2> QED BY <2>1, <2>2
<1>5. \A i \in 1 .. rest : frames[i] = (pos + i - 1) % size
  <2> TAKE i \in 1 .. rest
  <2>1. i - 1 \in Nat /\ from + (i - 1) = from + i - 1 /\ pos + (i - 1) = pos + i - 1
    OBVIOUS
  <2>2. (from + i - 1) % size = (pos + i - 1) % size
    BY <1>4, <2>1
  <2>3. CASE i <= amount
    <3>1. from + i - 1 \in Nat /\ from + i - 1 < size
      BY <2>3
    <3>2. (from + i - 1) % size = from + i - 1
      BY <3>1, RoundTheEnd
    <3> QED BY <1>3, <2>2, <2>3, <3>2
  <2>4. CASE ~(i <= amount)
    <3>1. /\ i - amount \in 1 .. rest - amount
          /\ from + amount + (i - amount) - 1 = from + i - 1
      BY <2>4
    <3>2. later.frames[i - amount] = (from + i - 1) % size
      BY <1>2, <3>1
    <3> QED BY <1>3, <2>2, <2>4, <3>2
  <2> QED BY <2>3, <2>4
<1>6. (later.position % size) = ((pos + rest) % size)
  <2>1. from + amount + (rest - amount) = from + rest
    OBVIOUS
  <2> QED BY <1>2, <1>4, <2>1
<1>7. frames \in Seq(Nat) /\ Len(frames) = rest /\ later.position \in 0 .. size
  BY <1>2, <1>3
<1>8. Reads([frames |-> frames, position |-> later.position], pos, rest, size)
  BY <1>5, <1>6, <1>7 DEF Reads
<1> QED BY <1>8 DEF frames

\* The loop reads on from where it starts, round the end as often as it takes.
LEMMA CopiedReads ==
  ASSUME NEW n \in Nat, NEW size \in Nat \ {0}, NEW pos \in 0 .. size
  PROVE  Reads(Copied(n, size)[n][pos], pos, n, size)
<1> DEFINE Right(r) == \A p \in 0 .. size : Reads(Copied(n, size)[r][p], p, r, size)
           S == {m \in Nat : \A r \in 0 .. m : r <= n => Right(r)}
<1>1. Right(0)
  <2> TAKE p \in 0 .. size
  <2>1. Copied(n, size)[0][p] = [frames |-> <<>>, position |-> p]
    <3>1. 0 \in 0 .. n
      OBVIOUS
    <3>2. Copied(n, size)[0] = Turn(Copied(n, size), 0, size)
      BY <3>1, CopiedTurns
    <3> QED BY <3>2 DEF Turn, Turned
  <2>2. Reads([frames |-> <<>>, position |-> p], p, 0, size)
    BY DEF Reads
  <2> QED BY <2>1, <2>2
<1>2. ASSUME NEW m \in Nat, m \in S PROVE m + 1 \in S
  <2>1. ASSUME m + 1 <= n PROVE Right(m + 1)
    <3> TAKE p \in 0 .. size
    <3> DEFINE from == IF p = size THEN 0 ELSE p
               amount == Lesser(size - from, m + 1)
               later == Copied(n, size)[(m + 1) - amount][from + amount]
    <3>1. m + 1 \in 0 .. n /\ m + 1 # 0
      BY <2>1
    <3>2. Copied(n, size)[m + 1][p]
            = [frames |-> Span(from, amount) \o later.frames, position |-> later.position]
      <4>1. Copied(n, size)[m + 1] = Turn(Copied(n, size), m + 1, size)
        BY <3>1, CopiedTurns
      <4>2. Turn(Copied(n, size), m + 1, size)[p]
              = [frames |-> Span(from, amount) \o later.frames, position |-> later.position]
        <5>1. Turn(Copied(n, size), m + 1, size)[p] = Turned(Copied(n, size), m + 1, p, size)
          <6> HIDE DEF from, amount, later
          <6> QED BY <3>1 DEF Turn
        <5>2. Turned(Copied(n, size), m + 1, p, size)
                = [frames |-> Span(from, amount) \o later.frames, position |-> later.position]
          BY DEF Turned
        <5> QED BY <5>1, <5>2, Zenon
      <4> QED BY <4>1, <4>2, Zenon
    <3>3. from \in 0 .. size - 1 /\ amount \in 1 .. size - from /\ amount <= m + 1
      BY DEF Lesser
    <3> HIDE DEF amount, from
    <3>4. (m + 1) - amount \in 0 .. m /\ (m + 1) - amount <= n /\ from + amount \in 0 .. size
      BY <2>1, <3>3
    <3>5. Reads(later, from + amount, (m + 1) - amount, size)
      BY <1>2, <3>4
    <3> HIDE DEF later, S, Right
    <3>6. (p = size => from = 0) /\ (p # size => from = p)
      BY DEF from
    <3>7. m + 1 \in Nat
      OBVIOUS
    <3>8. Reads([frames |-> Span(from, amount) \o later.frames, position |-> later.position],
                p, m + 1, size)
      BY <3>3, <3>5, <3>6, <3>7, TurnReads
    <3> QED BY <3>2, <3>8, Zenon
  <2> HIDE DEF Right
  <2>2. \A r \in 0 .. m + 1 : r \in 0 .. m \/ r = m + 1
    OBVIOUS
  <2> QED BY <1>2, <2>1, <2>2
<1> HIDE DEF Right
<1>3. 0 \in S
  BY <1>1
<1> HIDE DEF S
<1>4. n \in S
  BY <1>2, <1>3, NatInd
<1> QED BY <1>4 DEF S, Right

LEMMA ChunkReads ==
  ASSUME NEW start \in Nat, NEW n \in Nat, NEW size \in Nat \ {0}, start <= size
  PROVE  Reads(SampleChunk(start, n, size), start, n, size)
<1>1. CASE size > start + n
  <2> DEFINE span == Span(start, n)
  <2>1. /\ span \in Seq(Nat) /\ Len(span) = n
        /\ \A i \in 1 .. n : span[i] = start + i - 1
    BY SpanReads
  <2> HIDE DEF span
  <2>2. \A i \in 1 .. n : span[i] = (start + i - 1) % size
    <3> TAKE i \in 1 .. n
    <3>1. start + i - 1 \in Nat /\ start + i - 1 < size
      BY <1>1
    <3> QED BY <2>1, <3>1, RoundTheEnd
  <2>3. Reads([frames |-> span, position |-> start + n], start, n, size)
    BY <1>1, <2>1, <2>2 DEF Reads
  <2> QED BY <1>1, <2>3 DEF SampleChunk, span
<1>2. CASE ~(size > start + n)
  <2>1. start \in 0 .. size
    OBVIOUS
  <2> QED BY <1>2, <2>1, CopiedReads DEF SampleChunk
<1> QED BY <1>1, <1>2

\* The place in the file is the frames heard since its start, round its end.
Place ==
  /\ left \in Nat
  /\ sample # noSample =>
       /\ position \in 0 .. Size /\ since \in 0 .. Size - 1
       /\ position = since \/ (position = Size /\ since = 0)

LEMMA SizeType ==
  ASSUME Played, sample # noSample
  PROVE  Size \in Nat \ {0}
BY FileAssumption DEF Played, Size, Sample

LEMMA PieceType ==
  ASSUME left \in Nat
  PROVE  Piece \in 0 .. left
BY BoundsAssumption DEF Piece, Lesser

\* From the place reached the same frames follow as from those heard.
LEMMA SamePlace ==
  ASSUME Played, Place, sample # noSample, NEW k \in Nat
  PROVE  (position + k) % Size = (since + k) % Size
<1>1. Size \in Nat \ {0}
  BY SizeType
<1>2. CASE position = since
  BY <1>2
<1>3. CASE position = Size /\ since = 0
  <2>1. position + k = k + Size /\ since + k = k
    BY <1>1, <1>3
  <2> QED BY <1>1, <2>1, RoundTheEnd
<1> QED BY <1>2, <1>3 DEF Place

LEMMA PlaceKept ==
  ASSUME Place, UNCHANGED <<left, sample, position, since>>
  PROVE  Place'
BY DEF Place, Size

\* A sample that replaces another is heard from its start.
LEMMA ReplacedPlace ==
  ASSUME Place, Played', UNCHANGED left,
         \/ position' = 0 /\ since' = 0
         \/ UNCHANGED <<sample, position, since>>
  PROVE  Place'
<1>1. CASE position' = 0 /\ since' = 0
  <2>1. sample' # noSample => Size' \in Nat \ {0}
    BY FileAssumption DEF Played, Size, Sample
  <2> QED BY <1>1, <2>1 DEF Place
<1>2. CASE UNCHANGED <<sample, position, since>>
  BY <1>2, PlaceKept
<1> QED BY <1>1, <1>2

LEMMA PublishedPlace ==
  ASSUME NEW new, NEW replaces, NEW source, NEW unloaded,
         PublishSideChain(new, replaces, source, unloaded)
  PROVE  \/ position' = 0 /\ since' = 0
         \/ UNCHANGED <<sample, position, since>>
BY DEF PublishSideChain, engine

LEMMA RunPlace ==
  ASSUME Played, Place, RunEngine
  PROVE  Place'
<1>1. left' \in Nat
  BY PieceType DEF Place, RunEngine
<1>2. CASE FromFile
  <2>1. /\ Size \in Nat \ {0} /\ Piece \in Nat /\ sample # noSample
        /\ position \in Nat /\ position <= Size /\ since \in Nat
    BY <1>2, SizeType, PieceType DEF FromFile, Place
  <2>2. /\ position' = Chunk(2).position /\ since' = (since + Piece) % Size
        /\ UNCHANGED sample
    BY <1>2 DEF RunEngine
  <2>3. Reads(Chunk(2), position, Piece, Size)
    BY <2>1, ChunkReads DEF Chunk
  <2>4. position' \in 0 .. Size /\ (position' % Size) = ((position + Piece) % Size)
    BY <2>2, <2>3 DEF Reads
  <2>5. (position' % Size) = since'
    BY <2>1, <2>2, <2>4, SamePlace
  <2>6. position' = since' \/ (position' = Size /\ since' = 0)
    <3>1. CASE position' < Size
      BY <2>1, <2>4, <2>5, <3>1, RoundTheEnd
    <3>2. CASE position' = Size
      <4>1. (0 + Size) % Size = 0 % Size /\ 0 % Size = 0
        BY <2>1, RoundTheEnd
      <4> QED BY <2>1, <2>5, <3>2, <4>1
    <3> QED BY <2>1, <2>4, <3>1, <3>2
  <2>7. since' \in 0 .. Size - 1
    BY <2>1, <2>2
  <2>8. Size' = Size
    BY <2>2 DEF Size
  <2> QED BY <1>1, <2>2, <2>4, <2>6, <2>7, <2>8 DEF Place
<1>3. CASE ~FromFile
  <2>1. UNCHANGED <<sample, position, since>>
    BY <1>3 DEF RunEngine
  <2> QED BY <1>1, <2>1 DEF Place, Size
<1> QED BY <1>2, <1>3

LEMMA PlaceInvariant == IInv /\ IInv' /\ Place /\ [Next]_vars => Place'
<1> SUFFICES ASSUME IInv, IInv', Place, [Next]_vars PROVE Place'
  OBVIOUS
<1>1. Played /\ Played'
  BY DEF IInv
<1>2. ASSUME UNCHANGED left,
             \/ position' = 0 /\ since' = 0
             \/ UNCHANGED <<sample, position, since>>
      PROVE  Place'
  BY <1>1, <1>2, ReplacedPlace
<1>3. ASSUME UNCHANGED left, UNCHANGED engine PROVE Place'
  BY <1>2, <1>3 DEF engine
<1>4. ASSUME NEW f, UNCHANGED left, SetNewSample(f) \/ DecodeAndPublishSample(f, rate') PROVE Place'
  BY <1>2, <1>3, <1>4, PublishedPlace DEF SetNewSample, DecodeAndPublishSample, PublishSample
<1>5. ASSUME NEW f, UNCHANGED left, SetSample(f) PROVE Place'
  BY <1>2, <1>4, <1>5, PublishedPlace DEF SetSample, SetSampleNotLoaded
<1>6. ASSUME NEW source, UNCHANGED left, SetSideChainSource(source) PROVE Place'
  BY <1>2, <1>6, PublishedPlace DEF SetSideChainSource
<1>7. ASSUME NEW patch, NEW ignore, Load(patch, ignore) PROVE Place'
  <2>1. UNCHANGED left
    BY <1>7 DEF Load, block
  <2> QED BY <1>3, <1>5, <1>7, <2>1 DEF Load
<1>8. CASE MainThread
  <2>1. ASSUME NEW f \in File, SelectFile(f) PROVE Place'
    BY <1>4, <2>1 DEF SelectFile, block
  <2>2. ASSUME NEW source, SelectSource(source) PROVE Place'
    BY <1>6, <2>2 DEF SelectSource, block
  <2>3. CASE SetSideChain
    BY <1>6, <2>3 DEF SetSideChain, block
  <2>4. ASSUME NEW r \in Rate, Activate(r) PROVE Place'
    BY <1>3, <1>4, <2>4 DEF Activate
  <2>5. ASSUME NEW r \in Rate, ActivateFails(r) PROVE Place'
    BY <1>3, <2>5 DEF ActivateFails, block
  <2>6. CASE StateSave \/ Deactivate \/ Deactivated
    BY <1>3, <2>6 DEF StateSave, Deactivate, Deactivated, block
  <2> QED BY <1>7, <1>8, <2>1, <2>2, <2>3, <2>4, <2>5, <2>6 DEF MainThread, LoadPreset, StateLoad
<1>9. CASE RunEngine
  BY <1>1, <1>9, RunPlace
<1>10. CASE TransportRead
  <2>1. UNCHANGED <<left, sample>> /\ (since' = 0 \/ since' = since)
        /\ (sample # noSample => \/ since' = 0 /\ position' = 0
                                \/ UNCHANGED <<position, since>>)
    BY <1>10 DEF TransportRead, RestartSampleOnTransportStart
  <2>2. sample # noSample => Size \in Nat \ {0}
    BY <1>1, SizeType
  <2> QED BY <2>1, <2>2 DEF Place, Size
<1>11. ASSUME NEW frames \in Blocks, NEW rolling, BeginBlock(frames, rolling) PROVE Place'
  BY <1>11, BoundsAssumption DEF BeginBlock, engine, Place, Size
<1>12. CASE DrainCommand
  BY <1>2, <1>12 DEF DrainCommand, block
<1>13. ASSUME NEW f \in File, DiskChanges(f) PROVE Place'
  BY <1>3, <1>13 DEF DiskChanges, block
<1>14. CASE UNCHANGED vars
  BY <1>3, <1>14 DEF vars, block
<1> QED BY <1>8, <1>9, <1>10, <1>11, <1>12, <1>13, <1>14 DEF Next, AudioThread

(* What a block hears is the file on from where the last one left it, for  *)
(* any piece, block and length of file, however often round its end.       *)
THEOREM HeardOn == Spec => ReadsOn
<1>1. Init => Place
  BY DEF Init, Place
<1>2. IInv /\ Place /\ RunEngine /\ FromFile =>
        \A channel \in Channels :
          Chunk(channel).frames = [i \in 1 .. Piece |-> (since + i - 1) % Size]
  <2> SUFFICES ASSUME IInv, Place, FromFile, NEW channel \in Channels
               PROVE  Chunk(channel).frames = [i \in 1 .. Piece |-> (since + i - 1) % Size]
    OBVIOUS
  <2>1. /\ Played /\ sample # noSample /\ Size \in Nat \ {0} /\ Piece \in Nat
        /\ position \in Nat /\ position <= Size /\ since \in Nat
    BY SizeType, PieceType DEF IInv, FromFile, Place
  <2> DEFINE frames == Chunk(channel).frames
  <2>2. Reads(Chunk(channel), position, Piece, Size)
    BY <2>1, ChunkReads DEF Chunk
  <2>3. /\ frames \in Seq(Nat) /\ Len(frames) = Piece
        /\ \A i \in 1 .. Piece : frames[i] = (position + i - 1) % Size
    BY <2>2 DEF Reads
  <2> HIDE DEF frames
  <2>4. ASSUME NEW i \in 1 .. Piece PROVE frames[i] = (since + i - 1) % Size
    <3>1. i - 1 \in Nat /\ position + (i - 1) = position + i - 1 /\ since + (i - 1) = since + i - 1
      BY <2>1
    <3>2. (position + (i - 1)) % Size = (since + (i - 1)) % Size
      BY <2>1, <3>1, SamePlace
    <3> QED BY <2>3, <3>1, <3>2
  <2>5. frames = [i \in 1 .. Piece |-> frames[i]]
    BY <2>3, LenProperties
  <2>6. frames = [i \in 1 .. Piece |-> (since + i - 1) % Size]
    BY <2>4, <2>5
  <2> QED BY <2>6 DEF frames
<1>3. Spec => [](IInv /\ Place)
  BY <1>1, SpecIInv, PlaceInvariant, PTL DEF Spec
<1> QED BY <1>2, <1>3, PTL DEF ReadsOn

-----------------------------------------------------------------------------
(* What a preset or a session says, between its file and its source.       *)

\* The file is the one it names, unless external audio is ignored or the ring
\* refused it; and what was saved has a file exactly where its source is one.
Loading ==
  /\ loading # notLoading /\ loading.whole /\ ~loading.ignore => file = loading.patch.file
  /\ session.source \in Sources /\ (session.source = "file" <=> session.file # noFile)

\* A load finds the file it names chosen, whether it could be read or not.
LEMMA SetSampleNames ==
  ASSUME Held, NEW f \in File \cup {noFile}, SetSample(f), ~Full
  PROVE  file' = f
<1>1. CASE Fails(f) /\ ~Loaded(f, rate)
  BY <1>1 DEF SetSample, SetSampleNotLoaded, PublishSideChain, RecordWhatTheEngineHasNow
<1>2. CASE Loaded(f, rate)
  BY <1>2 DEF SetSample, SetNewSample, Loaded, record
<1>3. CASE ~Fails(f) /\ ~Loaded(f, rate)
  <2> DEFINE new == IF f = noFile THEN noSample ELSE [file |-> f, rate |-> rate]
             source == IF new # noSample THEN "file"
                       ELSE IF sourceMain = "file" THEN "main" ELSE sourceMain
  <2>1. RecordWhatTheEngineHasNow(new, TRUE, source, noFile)
    BY <1>3 DEF SetSample, SetNewSample, DecodeAndPublishSample, PublishSample, PublishSideChain
  <2>2. f # noFile => new # noSample /\ new.file = f
    BY DEF noSample
  <2> QED BY <2>1, <2>2 DEF RecordWhatTheEngineHasNow
<1> QED BY <1>1, <1>2, <1>3

LEMMA LoadingKept == IInv /\ Loading /\ [Next]_vars => Loading'
<1> SUFFICES ASSUME IInv, Loading, [Next]_vars PROVE Loading'
  OBVIOUS
<1> USE DEF Loading, Edit, MainFree
<1>1. Held
  BY DEF IInv
<1>2. ASSUME NEW patch \in Patch, NEW ignore \in BOOLEAN, Load(patch, ignore) PROVE Loading'
  <2>1. /\ loading' = [patch |-> patch, ignore |-> ignore, whole |-> ~Full]
        /\ UNCHANGED session
    BY <1>2 DEF Load
  <2>2. ~Full /\ ~ignore => file' = patch.file
    <3>1. patch.file \in File \cup {noFile}
      BY DEF Patch
    <3> QED BY <1>1, <1>2, <3>1, SetSampleNames DEF Load
  <2> QED BY <2>1, <2>2
<1>3. CASE StateSave
  <2>1. loading = notLoading /\ UNCHANGED loading
    BY <1>3 DEF StateSave
  <2>2. session' = [source |-> sourceMain, mode |-> 0, file |-> file]
    BY <1>3 DEF StateSave
  <2>3. session'.source = sourceMain /\ session'.file = file
    BY <2>2
  <2> QED BY <2>1, <2>3 DEF IInv, Named, Held
<1>4. CASE SetSideChain
  BY <1>4 DEF SetSideChain
<1>5. ASSUME NEW f, SelectFile(f) PROVE Loading'
  BY <1>5 DEF SelectFile
<1>6. ASSUME NEW source, SelectSource(source) PROVE Loading'
  BY <1>6 DEF SelectSource
<1>7. ASSUME NEW r, Activate(r) \/ ActivateFails(r) PROVE Loading'
  BY <1>7 DEF Activate, ActivateFails
<1>8. ASSUME UNCHANGED <<file, loading, session>> PROVE Loading'
  BY <1>8
<1>9. CASE Deactivate \/ Deactivated
  BY <1>8, <1>9 DEF Deactivate, Deactivated, record
<1>10. CASE MainThread
  BY <1>2, <1>3, <1>4, <1>5, <1>6, <1>7, <1>9, <1>10, FileAssumption
     DEF MainThread, LoadPreset, StateLoad, IInv, Rest
<1>11. CASE AudioThread
  BY <1>8, <1>11 DEF AudioThread, BeginBlock, TransportRead, RunEngine, record
<1>12. CASE DrainCommand
  BY <1>8, <1>12 DEF DrainCommand, record
<1>13. ASSUME NEW f \in File, DiskChanges(f) PROVE Loading'
  BY <1>8, <1>13 DEF DiskChanges, record
<1>14. CASE UNCHANGED vars
  BY <1>8, <1>14 DEF vars, record
<1> QED BY <1>10, <1>11, <1>12, <1>13, <1>14 DEF Next

(* A preset or a session ends as the source it means, with the file it     *)
(* names where that is a file and none where it is not, whatever was       *)
(* chosen or missing before.                                               *)
THEOREM LoadedWhole == Spec => LoadsSayEverything
<1>1. Init => Loading
  BY DEF Init, Loading, Sources
<1>2. ASSUME IInv, Loading, SetSideChain, loading.whole, ~Full, ~loading.ignore
      PROVE  /\ sourceMain' = MeantSource(loading.patch)
             /\ file' = IF sourceMain' = "file" THEN loading.patch.file ELSE noFile
             /\ loading.patch = session =>
                  sourceMain' = session.source /\ file' = session.file
  <2> DEFINE patch == loading.patch
             source == Resolved(patch, file # noFile)
  <2>1. file = patch.file /\ patch \in Patch /\ SetSideChainSource(source)
    BY <1>2 DEF Loading, SetSideChain, IInv, Rest
  <2>2. patch.source \in Sources \cup {"none"} /\ patch.mode \in {0, 1}
    BY <2>1 DEF Patch
  <2> HIDE DEF patch
  <2>3. /\ source = MeantSource(patch) /\ source \in Sources
        /\ source = "file" => file # noFile
    BY <2>1, <2>2 DEF Resolved, MeantSource, Sources
  <2> HIDE DEF source
  <2>4. sourceMain' = source /\ file' = IF source = "file" THEN file ELSE noFile
    <3>1. CASE source = "file"
      <4>1. PublishSideChain(noSample, FALSE, "file", noFile)
        BY <2>1, <2>3, <3>1 DEF SetSideChainSource
      <4> QED BY <1>2, <3>1, <4>1 DEF PublishSideChain, RecordWhatTheEngineHasNow
    <3>2. CASE source # "file"
      <4>1. PublishSideChain(noSample, TRUE, source, noFile)
        BY <2>1, <3>2 DEF SetSideChainSource
      <4> QED BY <1>2, <3>2, <4>1 DEF PublishSideChain, RecordWhatTheEngineHasNow
    <3> QED BY <3>1, <3>2
  <2>5. patch = session => source = session.source
    BY <1>2, <2>3 DEF MeantSource, Loading, Sources
  <2>6. patch = session => file' = session.file
    BY <1>2, <2>1, <2>4, <2>5 DEF Loading
  <2> QED BY <2>1, <2>3, <2>4, <2>5, <2>6 DEF patch
<1>3. Spec => [](IInv /\ Loading)
  BY <1>1, SpecIInv, LoadingKept, PTL DEF Spec
<1>4. IInv /\ Loading =>
        (SetSideChain /\ loading.whole /\ ~Full /\ ~loading.ignore =>
           /\ sourceMain' = MeantSource(loading.patch)
           /\ file' = IF sourceMain' = "file" THEN loading.patch.file ELSE noFile
           /\ loading.patch = session =>
                sourceMain' = session.source /\ file' = session.file)
  BY <1>2
<1> QED BY <1>3, <1>4, PTL DEF LoadsSayEverything
=============================================================================
