------------------------------- MODULE SideChain -------------------------------
(***************************************************************************)
(* What feeds the engine's second input: the source and the audio file a   *)
(* user, a preset or a session chooses, the record of it that is shown and *)
(* saved, the command that carries it to the engine, and the file read in  *)
(* pieces of a block (spectrumWorxCLAP.cpp, gui/editor/presetLoading.cpp). *)
(*                                                                         *)
(* The main thread keeps file, decodedRate, notLoaded and sourceMain; the  *)
(* engine has sideChainSource and the sample.  A file decodes to a number  *)
(* of frames that depends on the rate asked for, 0 meaning the file's own. *)
(***************************************************************************)
EXTENDS Integers, Sequences

CONSTANTS File, noFile,
          notLoading,  \* no preset or session under way
          Rate,        \* the sample rates a host activates at
          Frames(_, _),\* how long a file is, decoded for a rate
          Patches,     \* what preset files may say
          Hop,         \* frames of a piece
          Blocks,      \* the sizes of a host's blocks
          Capacity,    \* of the command ring
          MaxEdits     \* bound: choices, loads, activations, and changes of the disk

Sources == {"file", "main", "host"}
\* A 2.x file records no source and a mode: 1 when it asked the host.
Patch == [source : Sources \cup {"none"}, mode : {0, 1}, file : File \cup {noFile}]

ASSUME FileAssumption ==
  /\ noFile \notin File /\ Rate \subseteq Nat \ {0} /\ Patches \subseteq Patch
  /\ \A f \in File, r \in Rate \cup {0} : Frames(f, r) \in Nat \ {0}
ASSUME BoundsAssumption ==
  /\ Hop \in Nat \ {0} /\ Blocks \subseteq Nat \ {0} /\ Capacity \in Nat \ {0} /\ MaxEdits \in Nat

VARIABLES
  file, decodedRate, notLoaded, sourceMain, \* sampleFile_ and what goes with it
  rate, running,   \* sampleRate_ and engineRunning_
  sideChainSource, sample, position,        \* the engine's
  toEngine,
  owed,            \* ghost: what was recorded with each command under way
  disk,            \* the files that can be read
  session,         \* the state last saved
  loading,         \* the preset or session between its file and its source
  drainer,         \* who drains the command ring: nobody, a block or deactivate()
  left,            \* frames of the block still to render
  playing, wasPlaying,                      \* the transport, transportWasPlaying_
  since,           \* ghost: frames heard since the file was at its start
  missed,          \* ghost: the last activation could not decode the file again
  edits

record == <<file, decodedRate, notLoaded, sourceMain>>
engine == <<sideChainSource, sample, position, since>>
ring == <<toEngine, owed>>
block == <<drainer, left, playing, wasPlaying>>
vars == <<record, rate, running, engine, ring, disk, session, loading, block, missed, edits>>

noSample == [file |-> noFile, rate |-> 0]
Sample == [file : File, rate : Rate \cup {0}]

\* What the main thread takes the engine to have, as far as it is heard.
Record == [source |-> sourceMain,
           sample |-> IF file = noFile \/ notLoaded THEN noSample
                      ELSE [file |-> file, rate |-> decodedRate]]
Engine == [source |-> sideChainSource, sample |-> sample]

-----------------------------------------------------------------------------
(* Publishing a source and, when one goes with it, a sample.               *)

SwapSample(new, replaces, source) ==
  [sample |-> new, replaces |-> replaces, source |-> source]

Full == running /\ Len(toEngine) = Capacity

RecordWhatTheEngineHasNow(new, replaces, source, unloaded) ==
  /\ sourceMain' = source
  /\ IF replaces
       THEN /\ file' = IF new # noSample THEN new.file ELSE unloaded
            /\ decodedRate' = new.rate
            /\ notLoaded' = (new = noSample /\ unloaded # noFile)
       ELSE UNCHANGED <<file, decodedRate, notLoaded>>

\* Mutant: recorded whether or not the command went in.
PublishAndRecord(new, replaces, source, unloaded) ==
  /\ RecordWhatTheEngineHasNow(new, replaces, source, unloaded)
  /\ IF ~running
       THEN /\ sideChainSource' = source
            /\ IF replaces THEN sample' = new /\ position' = 0 /\ since' = 0
                           ELSE UNCHANGED <<sample, position, since>>
            /\ UNCHANGED ring
       ELSE /\ IF Full THEN UNCHANGED ring
               ELSE /\ toEngine' = Append(toEngine, SwapSample(new, replaces, source))
                    /\ owed' = Append(owed, Record')
            /\ UNCHANGED engine

\* publishSideChain(): here and now, or queued; a full ring drops both.
PublishSideChain(new, replaces, source, unloaded) ==
  IF Full THEN UNCHANGED <<record, engine, ring>>
  ELSE /\ RecordWhatTheEngineHasNow(new, replaces, source, unloaded)
       /\ IF running
            THEN /\ toEngine' = Append(toEngine, SwapSample(new, replaces, source))
                 /\ owed' = Append(owed, Record')
                 /\ UNCHANGED engine
            ELSE /\ sideChainSource' = source
                 /\ IF replaces THEN sample' = new /\ position' = 0 /\ since' = 0
                                ELSE UNCHANGED <<sample, position, since>>
                 /\ UNCHANGED ring

PublishSample(new) ==
  PublishSideChain(new, TRUE,
    IF new # noSample THEN "file" ELSE IF sourceMain = "file" THEN "main" ELSE sourceMain,
    noFile)

\* Sample::load() for a file that is not there.
Fails(f) == f # noFile /\ f \notin disk
Loaded(f, r) == f # noFile /\ f = file /\ ~notLoaded /\ decodedRate = r

\* decodeAndPublishSample(), which an error leaves without effect.
DecodeAndPublishSample(f, r) ==
  IF Fails(f) THEN UNCHANGED <<record, engine, ring>>
  ELSE PublishSample(IF f = noFile THEN noSample ELSE [file |-> f, rate |-> r])

\* setNewSample(): nothing for the file it has, decoded for this rate.
SetNewSample(f) ==
  IF Loaded(f, rate) THEN UNCHANGED <<record, engine, ring>> ELSE DecodeAndPublishSample(f, rate)

\* setSampleNotLoaded(): the name without a sample.
SetSampleNotLoaded(f) == PublishSideChain(noSample, TRUE, "file", f)

\* setSideChainSource(): the other two discard the file.
SetSideChainSource(source) ==
  CASE source = "file" /\ file # noFile -> PublishSideChain(noSample, FALSE, "file", noFile)
    [] source = "file" /\ file = noFile -> PublishSideChain(noSample, TRUE, "main", noFile)
    [] OTHER -> PublishSideChain(noSample, TRUE, source, noFile)

-----------------------------------------------------------------------------
(* The main thread.                                                        *)

MainFree == drainer # "deactivate" /\ loading = notLoading
Edit == MainFree /\ edits < MaxEdits /\ edits' = edits + 1

\* newSampleFileSelected() and sideChainSourceSelected().
SelectFile(f) ==
  /\ Edit /\ SetNewSample(f)
  /\ UNCHANGED <<rate, running, missed, disk, session, loading, block>>
SelectSource(source) ==
  /\ Edit /\ SetSideChainSource(source)
  /\ UNCHANGED <<rate, running, missed, disk, session, loading, block>>

\* Mutant: a file that names no sample leaves the one there is.
SetSampleIfNamed(f) ==
  CASE f = noFile -> UNCHANGED <<record, engine, ring>>
    [] f # noFile /\ Fails(f) /\ ~Loaded(f, rate) -> SetSampleNotLoaded(f)
    [] OTHER -> SetNewSample(f)

\* setSample(): the name is kept of a file that does not load.
SetSample(f) ==
  IF Fails(f) /\ ~Loaded(f, rate) THEN SetSampleNotLoaded(f) ELSE SetNewSample(f)

\* resolveSideChainSource().
Resolved(patch, haveSample) ==
  CASE patch.source = "file" -> IF haveSample THEN "file" ELSE "main"
    [] patch.source \in {"main", "host"} -> patch.source
    [] OTHER -> IF haveSample THEN "file" ELSE IF patch.mode = 1 THEN "host" ELSE "main"

\* setSideChain() in its two halves, the first left out where external audio is
\* ignored; the engine may drain between them.
Load(patch, ignore) ==
  /\ Edit
  /\ loading' = [patch |-> patch, ignore |-> ignore, whole |-> ~Full]
  /\ IF ignore THEN UNCHANGED <<record, engine, ring>> ELSE SetSample(patch.file)
  /\ UNCHANGED <<rate, running, missed, disk, session, block>>
LoadPreset(patch, ignore) == patch \in Patches /\ Load(patch, ignore)
StateLoad == Load(session, FALSE)
SetSideChain ==
  /\ loading # notLoading
  /\ SetSideChainSource(Resolved(loading.patch, file # noFile))
  /\ loading' = notLoading
  /\ UNCHANGED <<rate, running, missed, disk, session, block, edits>>

\* stateSave(): the name only when there is one, the source always.
StateSave ==
  /\ MainFree
  /\ session' = [source |-> sourceMain, mode |-> 0, file |-> file]
  /\ UNCHANGED <<record, rate, running, engine, ring, missed, disk, loading, block, edits>>

\* Mutant: the rate a file was decoded for is not asked about.
ActivateUndecoded(r) ==
  /\ Edit /\ ~running
  /\ rate' = r /\ running' = TRUE /\ wasPlaying' = FALSE /\ missed' = FALSE
  /\ UNCHANGED <<record, engine, ring, disk, session, loading, drainer, left, playing>>

\* activate(): a file decoded for another rate is decoded again, before the
\* engine runs; an error of that leaves the old one.
Activate(r) ==
  /\ Edit /\ ~running
  /\ rate' = r /\ running' = TRUE /\ wasPlaying' = FALSE
  /\ missed' = (~notLoaded /\ decodedRate # r /\ Fails(file))
  /\ IF file # noFile /\ ~notLoaded /\ decodedRate # r
       THEN DecodeAndPublishSample(file, r)
       ELSE UNCHANGED <<record, engine, ring>>
  /\ UNCHANGED <<disk, session, loading, drainer, left, playing>>

\* activate() with no memory for its buffers, which it asks for first.
ActivateFails(r) ==
  /\ Edit /\ ~running
  /\ rate' = r
  /\ UNCHANGED <<record, running, engine, ring, missed, disk, session, loading, block>>

\* deactivate(), with the engine stopped and its commands still to be drained.
Deactivate ==
  /\ Edit /\ running /\ drainer = "none" /\ left = 0
  /\ running' = FALSE /\ drainer' = "deactivate"
  /\ UNCHANGED <<record, rate, engine, ring, missed, disk, session, loading, left, playing, wasPlaying>>
Deactivated ==
  /\ drainer = "deactivate" /\ toEngine = <<>>
  /\ drainer' = "none" /\ rate' = 0
  /\ UNCHANGED <<record, running, engine, ring, missed, disk, session, loading, left, playing, wasPlaying,
                 edits>>

-----------------------------------------------------------------------------
(* process().                                                              *)

BeginBlock(frames, rolling) ==
  /\ running /\ drainer = "none" /\ left = 0
  /\ drainer' = "block" /\ left' = frames /\ playing' = rolling
  /\ UNCHANGED <<record, rate, running, engine, ring, missed, disk, session, loading, wasPlaying, edits>>

\* drainCommands(): the sample goes only where another travelled.
DrainCommand ==
  /\ drainer # "none" /\ toEngine # <<>>
  /\ LET command == Head(toEngine)
     IN /\ sideChainSource' = command.source
        /\ IF command.replaces THEN sample' = command.sample /\ position' = 0 /\ since' = 0
                               ELSE UNCHANGED <<sample, position, since>>
  /\ toEngine' = Tail(toEngine) /\ owed' = Tail(owed)
  /\ UNCHANGED <<record, rate, running, missed, disk, session, loading, block, edits>>

\* Mutant: every block of a rolling transport starts the file again.
RestartSampleWhilePlaying ==
  IF playing /\ sample # noSample THEN position' = 0 ELSE UNCHANGED position

\* restartSampleOnTransportStart(), which since follows for any rising edge.
RestartSampleOnTransportStart ==
  IF playing /\ ~wasPlaying /\ sample # noSample THEN position' = 0 ELSE UNCHANGED position
TransportRead ==
  /\ drainer = "block" /\ toEngine = <<>>
  /\ drainer' = "none"
  /\ RestartSampleOnTransportStart
  /\ since' = IF playing /\ ~wasPlaying THEN 0 ELSE since
  /\ wasPlaying' = playing
  /\ UNCHANGED <<record, rate, running, sideChainSource, sample, ring, missed, disk, session, loading,
                 left, playing, edits>>

Lesser(a, b) == IF a < b THEN a ELSE b
Span(start, n) == [i \in 1 .. n |-> start + i - 1]

\* sampleChunk(): frames as their places in the file, which ends after size;
\* copied from there in turns where it ends within the chunk.
Copied(n, size) ==
  LET copied[rest \in 0 .. n] ==
        [pos \in 0 .. size |->
           IF rest = 0 THEN [frames |-> <<>>, position |-> pos]
           ELSE LET from == IF pos = size THEN 0 ELSE pos
                    amount == Lesser(size - from, rest)
                    later == copied[rest - amount][from + amount]
                IN [frames |-> Span(from, amount) \o later.frames, position |-> later.position]]
  IN copied
SampleChunk(start, n, size) ==
  IF size > start + n THEN [frames |-> Span(start, n), position |-> start + n]
                      ELSE Copied(n, size)[n][start]

Channels == {1, 2}
Size == Frames(sample.file, sample.rate)
Piece == Lesser(Hop, left)
FromFile == sideChainSource = "file" /\ sample # noSample

\* Mutant: the second channel goes on where the first ended.
ChunkInARow(channel) ==
  IF channel = 1 THEN SampleChunk(position, Piece, Size)
  ELSE SampleChunk(SampleChunk(position, Piece, Size).position, Piece, Size)

\* Every channel reads the same span.
Chunk(channel) == SampleChunk(position, Piece, Size)

\* runEngine(), one piece.
RunEngine ==
  /\ running /\ drainer = "none" /\ left > 0
  /\ left' = left - Piece
  /\ IF FromFile THEN /\ position' = Chunk(2).position
                      /\ since' = (since + Piece) % Size
                 ELSE UNCHANGED <<position, since>>
  /\ UNCHANGED <<record, rate, running, sideChainSource, sample, ring, missed, disk, session, loading,
                 drainer, playing, wasPlaying, edits>>

-----------------------------------------------------------------------------
\* A file moved away from where it was, or put back.
DiskChanges(f) ==
  /\ edits < MaxEdits /\ edits' = edits + 1
  /\ disk' = IF f \in disk THEN disk \ {f} ELSE disk \cup {f}
  /\ UNCHANGED <<record, rate, running, engine, ring, missed, session, loading, block>>

Init ==
  /\ file = noFile /\ decodedRate = 0 /\ notLoaded = FALSE /\ sourceMain = "host"
  /\ rate = 0 /\ running = FALSE
  /\ sideChainSource = "host" /\ sample = noSample /\ position = 0
  /\ toEngine = <<>> /\ owed = <<>>
  /\ disk = File
  /\ session = [source |-> "host", mode |-> 0, file |-> noFile]
  /\ loading = notLoading
  /\ drainer = "none" /\ left = 0 /\ playing = FALSE /\ wasPlaying = FALSE
  /\ since = 0 /\ missed = FALSE /\ edits = 0

MainThread ==
  \/ \E f \in File : SelectFile(f)
  \/ \E source \in {"main", "host"} : SelectSource(source)
  \/ \E patch \in Patches, ignore \in BOOLEAN : LoadPreset(patch, ignore)
  \/ StateLoad \/ SetSideChain \/ StateSave
  \/ \E r \in Rate : Activate(r) \/ ActivateFails(r)
  \/ Deactivate \/ Deactivated
AudioThread ==
  \/ \E frames \in Blocks, rolling \in BOOLEAN : BeginBlock(frames, rolling)
  \/ TransportRead \/ RunEngine
Next == MainThread \/ AudioThread \/ DrainCommand \/ \E f \in File : DiskChanges(f)

Spec == Init /\ [][Next]_vars

-----------------------------------------------------------------------------
Command == [sample : Sample \cup {noSample}, replaces : BOOLEAN, source : Sources]
Pair == [source : Sources, sample : Sample \cup {noSample}]
TypeOK ==
  /\ file \in File \cup {noFile} /\ decodedRate \in Rate \cup {0} /\ notLoaded \in BOOLEAN
  /\ sourceMain \in Sources /\ sideChainSource \in Sources
  /\ rate \in Rate \cup {0} /\ running \in BOOLEAN
  /\ sample \in Sample \cup {noSample} /\ position \in Nat /\ since \in Nat
  /\ toEngine \in Seq(Command) /\ owed \in Seq(Pair)
  /\ Len(toEngine) <= Capacity /\ Len(owed) = Len(toEngine)
  /\ disk \subseteq File /\ session \in Patch
  /\ drainer \in {"none", "block", "deactivate"} /\ left \in Nat
  /\ {playing, wasPlaying, missed} \subseteq BOOLEAN /\ edits \in 0 .. MaxEdits

(* The engine's source and sample are always a pair the main thread        *)
(* recorded: each command under way turns the pair before it into the one  *)
(* recorded with it, and the last of those is the one shown and saved now, *)
(* a command a full ring refused included.                                 *)
Carried(pair, command) ==
  [source |-> command.source,
   sample |-> IF command.replaces THEN command.sample ELSE pair.sample]
EngineFollowsRecord ==
  /\ \A k \in 1 .. Len(toEngine) :
       owed[k] = Carried(IF k = 1 THEN Engine ELSE owed[k - 1], toEngine[k])
  /\ Record = IF toEngine = <<>> THEN Engine ELSE owed[Len(toEngine)]

(* No file is loaded and unheard, and none is selected that has no name.   *)
NeverUnheard ==
  /\ sourceMain = "file" <=> file # noFile
  /\ sample # noSample /\ toEngine = <<>> => sideChainSource = "file"

(* What plays was decoded for the rate it plays at, unless the file was    *)
(* gone when an activation at a new rate asked for it again.               *)
PlaysAtItsRate == running /\ sample # noSample => sample.rate = rate \/ missed

(* A preset or a session says all there is to say of the side channel:     *)
(* whatever was chosen, loaded or missing before, it ends as the file it   *)
(* names when that is its source, the name kept whether or not the file is *)
(* there, and as no file otherwise; and what was saved comes back.  That   *)
(* is of a load which takes the sources in (the user may ask it to leave   *)
(* them) and whose two commands find room in the ring.                     *)
MeantSource(patch) ==
  CASE patch.source = "none" /\ patch.file # noFile -> "file"
    [] patch.source = "none" /\ patch.file = noFile -> IF patch.mode = 1 THEN "host" ELSE "main"
    [] patch.source = "file" /\ patch.file = noFile -> "main"
    [] OTHER -> patch.source
LoadsSayEverything ==
  [][ SetSideChain /\ loading.whole /\ ~Full /\ ~loading.ignore =>
        /\ sourceMain' = MeantSource(loading.patch)
        /\ file' = IF sourceMain' = "file" THEN loading.patch.file ELSE noFile
        /\ loading.patch = session =>
             sourceMain' = session.source /\ file' = session.file ]_vars

(* A block hears the file on from where the last one left it, round its    *)
(* end, the same on every channel, and from its beginning when the host's  *)
(* transport starts: rendered twice, a song sounds the same.               *)
ReadsOn ==
  [][ RunEngine /\ FromFile =>
        \A channel \in Channels :
          Chunk(channel).frames = [i \in 1 .. Piece |-> (since + i - 1) % Size] ]_vars
=============================================================================
