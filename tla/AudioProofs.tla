------------------------------ MODULE AudioProofs ------------------------------
(***************************************************************************)
(* Proofs about the audio side: TxAudio and AudioPaths, for every set of   *)
(* devices, every buffer size and every number of streams and of waiting   *)
(* notices; DeviceChoice, for all devices; PcmConvert, for all samples.    *)
(***************************************************************************)
EXTENDS AudioPaths, DeviceChoice, PcmConvert, SequenceTheorems, TLAPS

-----------------------------------------------------------------------------
(***************************************************************************)
(* What the invariants of the model rest on.                               *)
(***************************************************************************)

\* A stream under way has a number.
Begun == active => stream # 0

\* A sink that reports to be idle has played everything it took.
IdleDrained == sinkState = "idle" => sink = 0

\* The running flags of main.cpp agree with the backend, and the retry
\* timer runs exactly when one of them is off.
FlagsTrue ==
    /\ rxRunning = (rxOn # NoDevice)
    /\ txRunning = (txOn # NoDevice)
    /\ retry = NeedRetry(rxRunning, txRunning)

AudioSafety ==
    Begun /\ IdleDrained /\ OwnAudioOnly /\ FlagsTrue /\ SettledOnPresent

AudioInv == AudioTypeOK /\ AudioSafety

\* The part about the stream and the part about the paths.
StreamInv == TxAudioTypeOK /\ Begun /\ IdleDrained /\ OwnAudioOnly

-----------------------------------------------------------------------------
(***************************************************************************)
(* The buffer as a sequence over an arbitrary set S: its blocks are those  *)
(* it had or was given, and it stays within the jitter buffer.             *)
(***************************************************************************)
LEMMA FrontDropped ==
    ASSUME NEW S, NEW b \in Seq(S), NEW n \in 0 .. Len(b)
    PROVE  /\ SubSeq(b, n + 1, Len(b)) \in Seq(S)
           /\ Len(SubSeq(b, n + 1, Len(b))) = Len(b) - n
<1>1. /\ n + 1 \in Int /\ Len(b) \in Int
      /\ \A i \in n + 1 .. Len(b) : b[i] \in S
  OBVIOUS
<1>. QED
  BY <1>1, SubSeqProperties

LEMMA TrimFits ==
    ASSUME NEW S, NEW b \in Seq(S)
    PROVE  Trim(b) \in Seq(S) /\ Len(Trim(b)) <= Jitter
<1>1. Jitter \in Nat
  BY TxAudioAssumption DEF TxAudioAssumption
<1>2. CASE Len(b) > Jitter
  <2>1. Len(b) - Jitter \in 0 .. Len(b)
    BY <1>1, <1>2
  <2>2. Trim(b) \in Seq(S) /\ Len(Trim(b)) = Len(b) - (Len(b) - Jitter)
    BY <1>2, <2>1, FrontDropped DEF Trim
  <2>. QED
    BY <1>1, <2>2
<1>3. CASE ~(Len(b) > Jitter)
  BY <1>1, <1>3 DEF Trim
<1>. QED
  BY <1>2, <1>3

LEMMA DrainKeeps ==
    ASSUME TxAudioTypeOK, IdleDrained, NEW S, NEW b \in Seq(S),
           Len(b) <= Jitter, Drain(b)
    PROVE  /\ buffer' \in Seq(S) /\ Len(buffer') <= Jitter
           /\ b = <<>> => buffer' = <<>>
           /\ primed' \in BOOLEAN
           /\ sink' \in 0 .. SinkSize
           /\ sinkState' \in {"idle", "active", "suspended", "stopped"}
           /\ IdleDrained'
           /\ primed /\ ~primed' => buffer' = <<>> /\ sink' = 0
<1>1. /\ sink \in Nat /\ SinkSize \in Nat /\ Jitter \in Nat
      /\ sink <= SinkSize /\ Len(b) \in Nat
      /\ primed \in BOOLEAN
      /\ sinkState \in {"idle", "active", "suspended", "stopped"}
  BY TxAudioAssumption DEF TxAudioAssumption, TxAudioTypeOK
<1>2. /\ Resumed \in {"idle", "active", "suspended", "stopped"}
      /\ Resumed = "idle" => sink = 0
      /\ Free \in 0 .. SinkSize - sink
  BY <1>1 DEF Resumed, Free, IdleDrained
<1>3. CASE ~primed /\ buffer' = b /\ UNCHANGED <<primed, sink, sinkState>>
  BY <1>1, <1>3 DEF IdleDrained
<1>4. CASE /\ Underrun(b) /\ primed' = FALSE /\ buffer' = b
           /\ sinkState' = Resumed /\ UNCHANGED sink
  <2>1. b = <<>> /\ Resumed = "idle" /\ sink = 0
    BY <1>2, <1>4 DEF Underrun
  <2>2. IdleDrained'
    BY <1>4, <2>1 DEF IdleDrained
  <2>3. buffer' = <<>> /\ sink' = 0 /\ buffer' \in Seq(S)
    BY <1>4, <2>1
  <2>4. Len(buffer') <= Jitter /\ sink' \in 0 .. SinkSize
    BY <1>1, <1>4, <2>3
  <2>5. /\ primed' \in BOOLEAN
        /\ sinkState' \in {"idle", "active", "suspended", "stopped"}
    BY <1>2, <1>4
  <2>. QED
    BY <2>2, <2>3, <2>4, <2>5
<1>5. ASSUME NEW n \in Accepts(b), primed' = TRUE,
             buffer' = SubSeq(b, n + 1, Len(b)), sink' = sink + n,
             sinkState' = IF n > 0 THEN "active" ELSE Resumed
      PROVE  /\ buffer' \in Seq(S) /\ Len(buffer') <= Jitter
             /\ b = <<>> => buffer' = <<>>
             /\ sink' \in 0 .. SinkSize
             /\ sinkState' \in {"idle", "active", "suspended", "stopped"}
             /\ IdleDrained'
  <2>1. n \in 0 .. Len(b) /\ n <= Free
    BY DEF Accepts
  <2>2. buffer' \in Seq(S) /\ Len(buffer') = Len(b) - n
    BY <1>5, <2>1, FrontDropped
  <2>3. b = <<>> => buffer' = <<>>
    <3>. SUFFICES ASSUME b = <<>> PROVE buffer' = <<>>
      OBVIOUS
    <3>1. Len(buffer') = 0
      BY <2>1, <2>2
    <3>. QED
      BY <2>2, <3>1, EmptySeq
  <2>4. sink' \in 0 .. SinkSize /\ (n = 0 => sink' = sink)
    BY <1>1, <1>2, <1>5, <2>1
  <2>5. IdleDrained'
    BY <1>2, <1>5, <2>1, <2>4 DEF IdleDrained
  <2>. QED
    BY <1>1, <1>2, <1>5, <2>1, <2>2, <2>3, <2>4, <2>5
<1>. QED
  BY <1>3, <1>4, <1>5 DEF Drain

-----------------------------------------------------------------------------
(***************************************************************************)
(* While a stream is under way its buffer is a sequence over {stream}.     *)
(***************************************************************************)
LEMMA OwnIsSeq ==
    ASSUME TxAudioTypeOK, OwnAudioOnly
    PROVE  /\ buffer \in Seq({stream})
           /\ ~active => buffer = <<>>
<1>1. buffer \in Seq(1 .. MaxStreams)
  BY DEF TxAudioTypeOK
<1>2. \A i \in 1 .. Len(buffer) : buffer[i] \in {stream}
  BY <1>1 DEF OwnAudioOnly
<1>3. ~active => Len(buffer) = 0
  BY <1>1 DEF OwnAudioOnly
<1>. QED
  BY <1>1, <1>2, <1>3, EmptySeq, LenProperties

LEMMA SeqIsOwn ==
    ASSUME stream' \in 1 .. MaxStreams, active', buffer' \in Seq({stream'})
    PROVE  buffer' \in Seq(1 .. MaxStreams) /\ OwnAudioOnly'
<1>1. {stream'} \subseteq 1 .. MaxStreams
  OBVIOUS
<1>2. buffer' \in Seq(1 .. MaxStreams)
  BY <1>1, SeqMonotonic
<1>3. \A i \in DOMAIN buffer' : buffer'[i] = stream'
  OBVIOUS
<1>. QED
  BY <1>2, <1>3 DEF OwnAudioOnly

-----------------------------------------------------------------------------
(***************************************************************************)
(* Steps of the stream and of the sink.                                    *)
(***************************************************************************)
LEMMA EmptyIsOwn ==
    ASSUME buffer' = <<>>
    PROVE  /\ buffer' \in Seq(1 .. MaxStreams) /\ Len(buffer') <= Jitter
           /\ OwnAudioOnly'
<1>1. Len(buffer') = 0 /\ DOMAIN buffer' = {} /\ Jitter \in Nat
  BY EmptySeq, TxAudioAssumption DEF TxAudioAssumption
<1>. QED
  BY <1>1, EmptySeq DEF OwnAudioOnly

\* A frame of the stream under way, or the timer, moves audio to the sink.
LEMMA DrainedStream ==
    ASSUME StreamInv, NEW b \in Seq({stream}), Len(b) <= Jitter,
           ~active => b = <<>>, Drain(b), UNCHANGED <<txOn, active, stream>>
    PROVE  StreamInv'
<1>1. /\ buffer' \in Seq({stream}) /\ Len(buffer') <= Jitter
      /\ b = <<>> => buffer' = <<>>
      /\ primed' \in BOOLEAN
      /\ sink' \in 0 .. SinkSize
      /\ sinkState' \in {"idle", "active", "suspended", "stopped"}
      /\ IdleDrained'
  BY DrainKeeps DEF StreamInv
<1>2. Begun' /\ active' \in BOOLEAN /\ stream' \in 0 .. MaxStreams
  BY DEF StreamInv, TxAudioTypeOK, Begun
<1>3. buffer' \in Seq(1 .. MaxStreams) /\ OwnAudioOnly'
  <2>1. CASE active
    <3>1. stream' \in 1 .. MaxStreams /\ active' /\ buffer' \in Seq({stream'})
      BY <1>1, <1>2, <2>1 DEF Begun
    <3>. QED
      BY <3>1, SeqIsOwn
  <2>2. CASE ~active
    BY <1>1, <2>2, EmptyIsOwn
  <2>. QED
    BY <2>1, <2>2
<1>4. txOn' \in Devices \union {NoDevice}
  BY DEF StreamInv, TxAudioTypeOK
<1>. QED
  BY <1>1, <1>2, <1>3, <1>4 DEF StreamInv, TxAudioTypeOK

LEMMA FramedBuffer ==
    ASSUME StreamInv, active, NEW n \in 1 .. MaxFrame
    PROVE  LET b == Trim(buffer \o [i \in 1 .. n |-> stream])
           IN  b \in Seq({stream}) /\ Len(b) <= Jitter
<1>1. buffer \in Seq({stream})
  BY OwnIsSeq DEF StreamInv
<1>2. MaxFrame \in Nat /\ n \in Nat
  BY TxAudioAssumption DEF TxAudioAssumption
<1>3. [i \in 1 .. n |-> stream] \in Seq({stream})
  BY <1>2
<1>4. buffer \o [i \in 1 .. n |-> stream] \in Seq({stream})
  BY <1>1, <1>3, ConcatProperties
<1>. QED
  BY <1>4, TrimFits

LEMMA StreamKept ==
    ASSUME StreamInv, StreamStep
    PROVE  StreamInv'
<1>. USE DEF StreamInv
<1>1. CASE BeginTxAudioStream
  <2>1. buffer' \in Seq(1 .. MaxStreams) /\ Len(buffer') <= Jitter
        /\ OwnAudioOnly'
    BY <1>1, EmptyIsOwn DEF BeginTxAudioStream
  <2>2. stream' \in 1 .. MaxStreams
    BY <1>1, TxAudioAssumption
    DEF BeginTxAudioStream, TxAudioTypeOK, TxAudioAssumption
  <2>3. Begun' /\ IdleDrained'
    BY <1>1, <2>2 DEF BeginTxAudioStream, Begun, IdleDrained
  <2>4. /\ UNCHANGED <<txOn, sink, sinkState>>
        /\ active' \in BOOLEAN /\ primed' \in BOOLEAN
    BY <1>1 DEF BeginTxAudioStream
  <2>5. TxAudioTypeOK'
    BY <2>1, <2>2, <2>4 DEF TxAudioTypeOK
  <2>. QED
    BY <2>1, <2>3, <2>5
<1>2. CASE EndTxAudioStream
  <2>1. buffer' \in Seq(1 .. MaxStreams) /\ Len(buffer') <= Jitter
        /\ OwnAudioOnly'
    BY <1>2, EmptyIsOwn DEF EndTxAudioStream
  <2>. QED
    BY <1>2, <2>1 DEF EndTxAudioStream, TxAudioTypeOK, Begun, IdleDrained
<1>3. ASSUME NEW n \in 1 .. MaxFrame, WriteTxAudio(n)
      PROVE  StreamInv'
  <2>1. CASE txOn \in Convertible
    BY <1>3, <2>1, FramedBuffer, DrainedStream DEF WriteTxAudio
  <2>2. CASE txOn \notin Convertible
    <3>1. UNCHANGED <<txOn, buffer, primed, active, stream, sink, sinkState>>
      BY <1>3, <2>2 DEF WriteTxAudio
    <3>. QED
      BY <3>1 DEF TxAudioTypeOK, Begun, OwnAudioOnly, IdleDrained
  <2>. QED
    BY <2>1, <2>2
<1>4. CASE DrainTimer
  <2>1. /\ buffer \in Seq({stream}) /\ (~active => buffer = <<>>)
        /\ Len(buffer) <= Jitter
    BY OwnIsSeq DEF TxAudioTypeOK
  <2>. QED
    BY <1>4, <2>1, DrainedStream DEF DrainTimer
<1>5. CASE SinkPlays
  <2>1. /\ primed' \in BOOLEAN /\ sink' \in 0 .. SinkSize
        /\ sinkState' \in {"idle", "active"}
    BY <1>5, TxAudioAssumption
    DEF SinkPlays, TxAudioTypeOK, TxAudioAssumption
  <2>2. UNCHANGED <<txOn, buffer, active, stream>>
    BY <1>5 DEF SinkPlays
  <2>3. Begun' /\ OwnAudioOnly' /\ IdleDrained'
    BY <1>5, <2>2 DEF SinkPlays, TxAudioTypeOK, Begun, OwnAudioOnly, IdleDrained
  <2>4. TxAudioTypeOK'
    BY <2>1, <2>2 DEF TxAudioTypeOK
  <2>. QED
    BY <2>3, <2>4
<1>6. CASE SinkSuspends \/ SinkFails
  <2>1. /\ UNCHANGED <<txOn, buffer, primed, active, stream, sink>>
        /\ sinkState' \in {"suspended", "stopped"}
    BY <1>6 DEF SinkSuspends, SinkFails
  <2>. QED
    BY <2>1 DEF TxAudioTypeOK, Begun, OwnAudioOnly, IdleDrained
<1>. QED
  BY <1>1, <1>2, <1>3, <1>4, <1>5, <1>6 DEF StreamStep, Feed

-----------------------------------------------------------------------------
(***************************************************************************)
(* Steps of the paths.                                                     *)
(***************************************************************************)

\* What is opened is a device or nothing, and a present one unless it was
\* chosen automatically.
LEMMA OpenedDevices ==
    ASSUME NEW list \in SUBSET Devices, NEW side,
           NEW auto \in Devices \union {NoDevice}, NEW d \in Opened(list, side, auto)
    PROVE  /\ d \in Devices \union {NoDevice}
           /\ mode # "auto" => d \in list \union {NoDevice}
<1>1. /\ Choices(list, auto) \subseteq Devices
      /\ mode # "auto" => Choices(list, auto) \subseteq list
  BY AudioPathsAssumption DEF Choices, AudioPathsAssumption
<1>. QED
  BY <1>1 DEF Opened

\* What a pair of devices may become: either side opens a device or none.
Pairs == (Devices \X Devices) \union {NoPair}

LEMMA OpenedPair ==
    ASSUME inputs \in SUBSET Devices, outputs \in SUBSET Devices,
           NEW pair \in Pairs
    PROVE  /\ OpenedRx(pair) \subseteq Devices \union {NoDevice}
           /\ OpenedTx(pair) \subseteq Devices \union {NoDevice}
           /\ mode # "auto" => /\ OpenedRx(pair) \subseteq inputs \union {NoDevice}
                               /\ OpenedTx(pair) \subseteq outputs \union {NoDevice}
<1>1. /\ pair[1] \in Devices \union {NoDevice}
      /\ pair[2] \in Devices \union {NoDevice}
  BY DEF Pairs, NoPair
<1>. QED
  BY <1>1, OpenedDevices DEF OpenedRx, OpenedTx

LEMMA ResolvedPair ==
    ASSUME inputs \in SUBSET Devices, outputs \in SUBSET Devices
    PROVE  Resolve(inputs, outputs) \in Pairs
<1>1. Resolve(inputs, outputs) \in (inputs \X outputs) \union {NoPair}
  BY AudioPathsAssumption DEF AudioPathsAssumption
<1>. QED
  BY <1>1 DEF Pairs

\* startTx leaves an empty buffer and an idle, empty sink.
LEMMA StartedTx ==
    ASSUME StreamInv, NEW d \in Devices \union {NoDevice}, StartTx(d),
           active' \in BOOLEAN, active' => active, stream' = stream
    PROVE  StreamInv'
<1>1. /\ buffer' \in Seq(1 .. MaxStreams) /\ Len(buffer') <= Jitter
      /\ OwnAudioOnly'
  BY EmptyIsOwn DEF StartTx
<1>2. sink' \in 0 .. SinkSize /\ IdleDrained'
  BY TxAudioAssumption DEF TxAudioAssumption, StartTx, IdleDrained
<1>. QED
  BY <1>1, <1>2 DEF StreamInv, StartTx, TxAudioTypeOK, Begun

\* startAudioPaths after a restart (both flags reset) or on the timer.
LEMMA PathsStarted ==
    ASSUME AudioInv, NEW rxUp \in BOOLEAN, NEW txUp \in BOOLEAN,
           rxUp => rxRunning, txUp => txRunning,
           StartPaths(rxUp, txUp),
           active' \in BOOLEAN, active' => active, txUp => active' = active,
           stream' = stream, UNCHANGED <<mode, inputs, outputs, faulty>>,
           notices' \in 0 .. MaxNotices,
           notices = 0 \/ (~rxUp /\ ~txUp) \/ notices' # 0
    PROVE  AudioInv'
<1>0. inputs \in SUBSET Devices /\ outputs \in SUBSET Devices
  BY DEF AudioInv, AudioTypeOK
<1>1. /\ cached' = Resolution
      /\ rxOn' \in (IF rxUp THEN {rxOn} ELSE OpenedRx(Resolution))
      /\ rxRunning' = (rxUp \/ rxOn' # NoDevice)
      /\ \/ txUp /\ UNCHANGED <<txOn, buffer, primed, sink, sinkState>>
         \/ ~txUp /\ \E d \in OpenedTx(Resolution) : StartTx(d)
      /\ txRunning' = (txUp \/ txOn' # NoDevice)
      /\ retry' = NeedRetry(rxRunning', txRunning')
  BY DEF StartPaths
<1>2. Resolution \in Pairs
  BY <1>0, ResolvedPair DEF AudioInv, AudioTypeOK, Resolution, Pairs
<1>3. /\ rxOn' \in Devices \union {NoDevice}
      /\ rxUp => rxOn' = rxOn
      /\ ~rxUp /\ mode # "auto" => rxOn' \in inputs \union {NoDevice}
  <2>1. rxOn \in Devices \union {NoDevice}
    BY DEF AudioInv, AudioTypeOK
  <2>. QED
    BY <1>0, <1>1, <1>2, <2>1, OpenedPair
<1>4. /\ StreamInv'
      /\ txUp => txOn' = txOn
      /\ ~txUp /\ mode # "auto" => txOn' \in outputs \union {NoDevice}
  <2>1. CASE txUp /\ UNCHANGED <<txOn, buffer, primed, sink, sinkState>>
    <3>1. TxAudioTypeOK' /\ Begun' /\ IdleDrained'
      BY <2>1 DEF AudioInv, AudioTypeOK, AudioSafety, TxAudioTypeOK, Begun,
                  IdleDrained
    <3>2. OwnAudioOnly'
      BY <2>1 DEF AudioInv, AudioSafety, OwnAudioOnly
    <3>. QED
      BY <2>1, <3>1, <3>2 DEF StreamInv
  <2>2. ASSUME ~txUp, NEW d \in OpenedTx(Resolution), StartTx(d)
        PROVE  /\ StreamInv' /\ txOn' = d
               /\ mode # "auto" => d \in outputs \union {NoDevice}
    <3>1. /\ d \in Devices \union {NoDevice}
          /\ mode # "auto" => d \in outputs \union {NoDevice}
      BY <1>0, <1>2, OpenedPair
    <3>2. StreamInv
      BY DEF AudioInv, AudioTypeOK, AudioSafety, StreamInv
    <3>. QED
      BY <2>2, <3>1, <3>2, StartedTx DEF StartTx
  <2>. QED
    BY <1>1, <2>1, <2>2
<1>5. FlagsTrue'
  BY <1>1, <1>3, <1>4 DEF AudioInv, AudioSafety, FlagsTrue
<1>6. AudioTypeOK'
  <2>1. rxRunning' \in BOOLEAN /\ txRunning' \in BOOLEAN /\ retry' \in BOOLEAN
    BY <1>1 DEF NeedRetry
  <2>. QED
    BY <1>1, <1>2, <1>3, <1>4, <2>1 DEF AudioInv, AudioTypeOK, StreamInv, Pairs
<1>7. SettledOnPresent'
  BY <1>3, <1>4 DEF AudioInv, AudioSafety, SettledOnPresent
<1>. QED
  BY <1>4, <1>5, <1>6, <1>7 DEF AudioInv, AudioSafety, StreamInv

-----------------------------------------------------------------------------
(***************************************************************************)
(* The invariant.                                                          *)
(***************************************************************************)
LEMMA AudioInitial ==
    ASSUME AudioInit
    PROVE  AudioInv
<1>0. inputs \in SUBSET Devices /\ outputs \in SUBSET Devices
  BY DEF AudioInit
<1>1. cached \in Pairs
  BY <1>0, ResolvedPair DEF AudioInit, Pairs
<1>2. /\ rxOn \in Devices \union {NoDevice}
      /\ mode # "auto" => rxOn \in inputs \union {NoDevice}
  BY <1>0, <1>1, OpenedPair DEF AudioInit
<1>3. PICK d \in OpenedTx(cached) : TxInit(d)
  BY DEF AudioInit
<1>4. /\ txOn \in Devices \union {NoDevice}
      /\ mode # "auto" => txOn \in outputs \union {NoDevice}
  BY <1>0, <1>1, <1>3, OpenedPair DEF TxInit
<1>5. buffer \in Seq(1 .. MaxStreams) /\ Len(buffer) = 0 /\ OwnAudioOnly
  BY <1>3, EmptySeq DEF TxInit, OwnAudioOnly
<1>6. TxAudioTypeOK
  <2>1. /\ stream \in 0 .. MaxStreams /\ sink \in 0 .. SinkSize
        /\ Jitter \in Nat
    BY <1>3, TxAudioAssumption DEF TxInit, TxAudioAssumption
  <2>2. /\ primed \in BOOLEAN /\ active \in BOOLEAN
        /\ sinkState \in {"idle", "active", "suspended", "stopped"}
    BY <1>3 DEF TxInit
  <2>. QED
    BY <1>4, <1>5, <2>1, <2>2 DEF TxAudioTypeOK
<1>7. Begun /\ IdleDrained
  BY <1>3 DEF TxInit, Begun, IdleDrained
<1>8. FlagsTrue /\ SettledOnPresent
  BY <1>2, <1>4 DEF AudioInit, FlagsTrue, SettledOnPresent
<1>9. AudioTypeOK
  <2>1. rxRunning \in BOOLEAN /\ txRunning \in BOOLEAN /\ retry \in BOOLEAN
    BY DEF AudioInit, NeedRetry
  <2>. QED
    BY <1>1, <1>2, <1>6, <2>1, AudioPathsAssumption
    DEF AudioInit, AudioTypeOK, AudioPathsAssumption, Pairs
<1>. QED
  BY <1>5, <1>7, <1>8, <1>9 DEF AudioInv, AudioSafety

LEMMA AudioPreserved ==
    ASSUME AudioInv, [AudioNext]_audioVars
    PROVE  AudioInv'
<1>1. CASE StreamStep
  <2>1. StreamInv'
    BY <1>1, StreamKept DEF AudioInv, AudioTypeOK, AudioSafety, StreamInv
  <2>2. UNCHANGED <<envVars, pathVars>> /\ txOn' = txOn
    BY <1>1 DEF StreamStep, BeginTxAudioStream, EndTxAudioStream, Feed,
                WriteTxAudio, DrainTimer, SinkPlays, SinkSuspends, SinkFails
  <2>3. FlagsTrue' /\ SettledOnPresent'
    BY <2>2 DEF AudioInv, AudioSafety, FlagsTrue, SettledOnPresent, envVars,
                pathVars, NeedRetry
  <2>4. AudioTypeOK'
    BY <2>1, <2>2 DEF AudioInv, AudioTypeOK, StreamInv, envVars, pathVars
  <2>. QED
    BY <2>1, <2>3, <2>4 DEF AudioInv, AudioSafety, StreamInv
<1>2. CASE RetryTimeout
  <2>1. /\ rxRunning \in BOOLEAN /\ txRunning \in BOOLEAN /\ active \in BOOLEAN
        /\ notices \in 0 .. MaxNotices
    BY DEF AudioInv, AudioTypeOK, TxAudioTypeOK
  <2>2. /\ StartPaths(rxRunning, txRunning)
        /\ UNCHANGED <<active, stream, mode, inputs, outputs, faulty, notices>>
    BY <1>2 DEF RetryTimeout, envVars
  <2>. QED
    BY <2>1, <2>2, PathsStarted
<1>3. CASE RestartAudioPaths
  <2>1. notices' \in 0 .. MaxNotices
    BY <1>3, AudioPathsAssumption
    DEF RestartAudioPaths, AudioInv, AudioTypeOK, AudioPathsAssumption
  <2>2. /\ StartPaths(FALSE, FALSE) /\ active' = FALSE
        /\ UNCHANGED <<stream, mode, inputs, outputs, faulty>>
    BY <1>3 DEF RestartAudioPaths
  <2>. QED
    BY <2>1, <2>2, PathsStarted
<1>4. CASE DevicesChange
  <2>1. /\ notices' \in 1 .. MaxNotices
        /\ inputs' \subseteq Devices /\ outputs' \subseteq Devices
    BY <1>4, AudioPathsAssumption
    DEF DevicesChange, AudioInv, AudioTypeOK, AudioPathsAssumption
  <2>2. UNCHANGED <<txVars, pathVars, mode, faulty>>
    BY <1>4 DEF DevicesChange
  <2>3. TxAudioTypeOK' /\ Begun' /\ IdleDrained' /\ OwnAudioOnly'
    BY <2>2 DEF AudioInv, AudioTypeOK, AudioSafety, TxAudioTypeOK, Begun,
                IdleDrained, OwnAudioOnly, txVars
  <2>4. FlagsTrue' /\ SettledOnPresent'
    BY <2>1, <2>2 DEF AudioInv, AudioSafety, FlagsTrue, SettledOnPresent,
                      txVars, pathVars, NeedRetry
  <2>5. AudioTypeOK'
    BY <2>1, <2>2, <2>3 DEF AudioInv, AudioTypeOK, pathVars
  <2>. QED
    BY <2>3, <2>4, <2>5 DEF AudioInv, AudioSafety
<1>5. CASE FaultsChange \/ UNCHANGED audioVars
  <2>1. /\ UNCHANGED <<txVars, pathVars, mode, inputs, outputs, notices>>
        /\ faulty' \subseteq {"rx", "tx"}
    BY <1>5 DEF FaultsChange, audioVars, envVars, AudioInv, AudioTypeOK
  <2>2. TxAudioTypeOK' /\ Begun' /\ IdleDrained' /\ OwnAudioOnly'
    BY <2>1 DEF AudioInv, AudioTypeOK, AudioSafety, TxAudioTypeOK, Begun,
                IdleDrained, OwnAudioOnly, txVars
  <2>3. FlagsTrue' /\ SettledOnPresent'
    BY <2>1 DEF AudioInv, AudioSafety, FlagsTrue, SettledOnPresent,
                txVars, pathVars, NeedRetry
  <2>4. AudioTypeOK'
    BY <2>1, <2>2 DEF AudioInv, AudioTypeOK, pathVars
  <2>. QED
    BY <2>2, <2>3, <2>4 DEF AudioInv, AudioSafety
<1>. QED
  BY <1>1, <1>2, <1>3, <1>4, <1>5 DEF AudioNext

(* The inductive invariant holds throughout, for either part of the code:  *)
(* the stream and its sink (QtAudioBackend.cpp), and the paths (main.cpp). *)
THEOREM AudioInvariant == AudioSpec => []AudioInv
<1>1. AudioInit => AudioInv
  BY AudioInitial
<1>2. AudioInv /\ [AudioNext]_audioVars => AudioInv'
  BY AudioPreserved
<1>. QED
  BY <1>1, <1>2, PTL DEF AudioSpec

-----------------------------------------------------------------------------
(* Every variable keeps its type; the buffer never exceeds                 *)
(* tx_jitter_buffer_ms. (writeTxAudio)                                     *)
THEOREM AudioTypeCorrect == AudioSpec => []AudioTypeOK
<1>1. AudioInv => AudioTypeOK
  BY DEF AudioInv
<1>. QED
  BY <1>1, AudioInvariant, PTL

(* Left-over audio of a stream never waits for the next transmission.      *)
(* (beginTxAudioStream, endTxAudioStream, stopTx)                          *)
THEOREM OwnAudioAlways == AudioSpec => []OwnAudioOnly
<1>1. AudioInv => OwnAudioOnly
  BY DEF AudioInv, AudioSafety
<1>. QED
  BY <1>1, AudioInvariant, PTL

(* A path that is down is always being retried. (startAudioPaths)          *)
THEOREM DownPathsAlwaysRetried == AudioSpec => []DownPathsRetried
<1>1. AudioInv => DownPathsRetried
  BY DEF AudioInv, AudioSafety, FlagsTrue, DownPathsRetried, NeedRetry
<1>. QED
  BY <1>1, AudioInvariant, PTL

(* After the last change of the device lists no path stays on a device     *)
(* that has gone. (restartAudioPaths)                                      *)
THEOREM AlwaysSettled == AudioSpec => []SettledOnPresent
<1>1. AudioInv => SettledOnPresent
  BY DEF AudioInv, AudioSafety
<1>. QED
  BY <1>1, AudioInvariant, PTL

(* A stream never changes its device under way. (restartAudioPaths)        *)
THEOREM StreamsStayPut == AudioSpec => StreamStaysPut
<1>1. ASSUME AudioInv, AudioNext, active, active', Up
      PROVE  txOn' = txOn
  <2>1. CASE StreamStep
    BY <2>1 DEF StreamStep, BeginTxAudioStream, EndTxAudioStream, Feed,
                WriteTxAudio, DrainTimer, SinkPlays, SinkSuspends, SinkFails
  <2>2. CASE RetryTimeout
    <3>1. txRunning
      BY <1>1 DEF AudioInv, AudioSafety, FlagsTrue, Up
    <3>. QED
      BY <2>2, <3>1 DEF RetryTimeout, StartPaths
  <2>3. CASE RestartAudioPaths
    BY <1>1, <2>3 DEF RestartAudioPaths
  <2>4. CASE DevicesChange \/ FaultsChange
    BY <2>4 DEF DevicesChange, FaultsChange, txVars
  <2>. QED
    BY <1>1, <2>1, <2>2, <2>3, <2>4 DEF AudioNext
<1>2. AudioInv /\ [AudioNext]_audioVars
        => [active /\ active' /\ Up => txOn' = txOn]_audioVars
  BY <1>1
<1>. QED
  BY <1>2, AudioInvariant, PTL DEF AudioSpec, StreamStaysPut

(* Playback is interrupted only when all audio written has been played.    *)
(* (drainTxAudio and the slot of stateChanged)                             *)
THEOREM AlwaysRefillsWhenDry == AudioSpec => RefillsWhenDry
<1>. DEFINE Pauses == primed /\ ~primed' /\ active' /\ stream' = stream
                        /\ txOn' = txOn
            Dry == buffer' = <<>> /\ sink' = 0
<1>1. ASSUME AudioInv, AudioNext, Pauses
      PROVE  Dry
  <2>0. StreamInv /\ TxAudioTypeOK
    BY <1>1 DEF AudioInv, AudioTypeOK, AudioSafety, StreamInv
  <2>1. ASSUME NEW n \in 1 .. MaxFrame, WriteTxAudio(n)
        PROVE  Dry
    <3>1. CASE txOn \in Convertible
      BY <1>1, <2>0, <2>1, <3>1, FramedBuffer, DrainKeeps
      DEF WriteTxAudio, StreamInv
    <3>2. CASE txOn \notin Convertible
      BY <1>1, <2>1, <3>2 DEF WriteTxAudio
    <3>. QED
      BY <3>1, <3>2
  <2>2. CASE DrainTimer
    <3>1. buffer \in Seq({stream}) /\ Len(buffer) <= Jitter
      BY <2>0, OwnIsSeq DEF StreamInv, TxAudioTypeOK
    <3>. QED
      BY <1>1, <2>0, <2>2, <3>1, DrainKeeps DEF DrainTimer, StreamInv
  <2>3. CASE SinkPlays
    BY <1>1, <2>0, <2>3 DEF SinkPlays, TxAudioTypeOK
  <2>4. CASE BeginTxAudioStream \/ EndTxAudioStream
    BY <1>1, <2>0, <2>4
    DEF BeginTxAudioStream, EndTxAudioStream, TxAudioTypeOK
  <2>5. CASE SinkSuspends \/ SinkFails \/ DevicesChange \/ FaultsChange
    BY <1>1, <2>5
    DEF SinkSuspends, SinkFails, DevicesChange, FaultsChange, txVars
  <2>6. CASE RetryTimeout \/ RestartAudioPaths
    BY <1>1, <2>6 DEF RetryTimeout, RestartAudioPaths, StartPaths, StartTx
  <2>. QED
    BY <1>1, <2>1, <2>2, <2>3, <2>4, <2>5, <2>6
    DEF AudioNext, StreamStep, Feed
<1>2. AudioInv /\ [AudioNext]_audioVars => [Pauses => Dry]_txVars
  BY <1>1 DEF audioVars
<1>. QED
  BY <1>2, AudioInvariant, PTL DEF AudioSpec, RefillsWhenDry

-----------------------------------------------------------------------------
(***************************************************************************)
(* The choice of the device pair.                                          *)
(***************************************************************************)
LEMMA ScoreRange ==
    ASSUME NEW i \in Device, NEW o \in Device
    PROVE  Score(i, o) \in Int
  BY DEF Score, Points

LEMMA ResolvedTypes ==
    ASSUME NEW I \in SUBSET Device, NEW O \in SUBSET Device,
           NEW p \in Resolved(I, O)
    PROVE  /\ p \in I \X O
           /\ p[1] \in Device /\ ~p[1].obvious
           /\ p[2] \in Device /\ ~p[2].obvious
           /\ PairScore(p) \in Int /\ PairScore(p) >= 100
<1>1. p \in Considered(I) \X Considered(O) /\ PairScore(p) >= 100
  BY DEF Resolved, Candidates
<1>2. /\ p[1] \in I /\ ~p[1].obvious
      /\ p[2] \in O /\ ~p[2].obvious
      /\ p \in I \X O
  BY <1>1 DEF Considered
<1>. QED
  BY <1>1, <1>2, ScoreRange DEF PairScore

(* The resolver never guesses: whatever devices there are, and in whatever *)
(* order the system lists them, at most one pair is chosen, and every      *)
(* other candidate scores at least 30 less.  (resolveAutoUsbFullDuplex)    *)
THEOREM NeverGuesses ==
    ASSUME NEW I \in SUBSET Device, NEW O \in SUBSET Device,
           NEW p \in Resolved(I, O), NEW q \in Resolved(I, O)
    PROVE  p = q
<1> SUFFICES ASSUME p # q PROVE FALSE
  OBVIOUS
<1>1. /\ p \in Candidates(I, O) \ {q}
      /\ q \in Candidates(I, O) \ {p}
  BY DEF Resolved
<1>2. PairScore(p) - PairScore(q) >= 30 /\ PairScore(q) - PairScore(p) >= 30
  BY <1>1 DEF Resolved
<1>3. PairScore(p) \in Int /\ PairScore(q) \in Int
  BY ResolvedTypes
<1>. QED
  BY <1>2, <1>3

(* What a chosen pair has in common.  The code comment asks for a strong   *)
(* sign of the same device, a name or a parent; but two unrelated devices  *)
(* pass as well, if one looks like USB audio and two of the three weak     *)
(* signs agree.  (scorePair, the threshold of 100)                         *)
THEOREM WhyChosen ==
    ASSUME NEW I \in SUBSET Device, NEW O \in SUBSET Device,
           NEW p \in Resolved(I, O)
    PROVE  \/ SameDisplayDevice(p[1], p[2])
           \/ SameBackendFamily(p[1], p[2])
           \/ /\ p[1].usb \/ p[2].usb
              /\ \/ p[1].fits /\ p[2].fits
                 \/ (p[1].fits \/ p[2].fits) /\ (p[1].codec \/ p[2].codec)
<1> DEFINE known == p[1].codec \/ p[2].codec
           usb == p[1].usb \/ p[2].usb
<1>1. Score(p[1], p[2]) >= 100
  BY ResolvedTypes DEF PairScore
<1>2. SUFFICES ASSUME ~SameDisplayDevice(p[1], p[2]),
                      ~SameBackendFamily(p[1], p[2])
               PROVE  usb /\ (\/ p[1].fits /\ p[2].fits
                              \/ (p[1].fits \/ p[2].fits) /\ known)
  OBVIOUS
<1>3. Points(usb, 60) + Points(p[1].fits, 20) + Points(p[2].fits, 20)
        + Points(known, 30) >= 100
  BY <1>1, <1>2 DEF Score, Points
<1>4. usb
  BY <1>3 DEF Points
<1>5. \/ p[1].fits /\ p[2].fits
      \/ (p[1].fits \/ p[2].fits) /\ known
  BY <1>3 DEF Points
<1>. QED
  BY <1>4, <1>5

(* A pair with the same name and the same parent scores at least 50 more   *)
(* than any pair that shares neither, so that no stranger comes near the   *)
(* margin of 30, however many weak signs it has.  (scorePair)              *)
THEOREM RadioBeatsStrangers ==
    ASSUME NEW i \in Device, NEW o \in Device,
           NEW x \in Device, NEW y \in Device,
           SameDisplayDevice(i, o), SameBackendFamily(i, o),
           ~SameDisplayDevice(x, y), ~SameBackendFamily(x, y)
    PROVE  Score(i, o) >= Score(x, y) + 50
<1>1. Score(i, o) \in Int /\ Score(i, o) >= 180
  BY DEF Score, Points
<1>2. Score(x, y) \in Int /\ Score(x, y) <= 130
  BY DEF Score, Points
<1>. QED
  BY <1>1, <1>2

-----------------------------------------------------------------------------
(***************************************************************************)
(* The conversions of samples.                                             *)
(***************************************************************************)
LEMMA Int16Range ==
    ASSUME NEW s, s \in Int16
    PROVE  s \in Int /\ -32768 <= s /\ s <= 32767
  BY SMT DEF Int16, Between

LEMMA InInt16 ==
    ASSUME NEW s \in Int, -32768 <= s, s <= 32767
    PROVE  s \in Int16
  BY SMT DEF Int16, Between

(* Every sample of the integer formats fits into 16 bits.  (sampleToInt16) *)
THEOREM InputsFit ==
    /\ \A b \in UInt8 : FromUInt8(b) \in Int16
    /\ \A v \in Int32 : FromInt32(v) \in Int16
<1>1. ASSUME NEW b, b \in UInt8 PROVE FromUInt8(b) \in Int16
  <2>1. b \in Int /\ 0 <= b /\ b <= 255
    BY <1>1, SMT DEF UInt8, Between
  <2>2. FromUInt8(b) \in Int /\ -32768 <= FromUInt8(b) /\ FromUInt8(b) <= 32767
    BY <2>1, SMT DEF FromUInt8
  <2>. QED
    BY <2>2, InInt16, SMT
<1>2. ASSUME NEW v, v \in Int32 PROVE FromInt32(v) \in Int16
  <2>1. v \in Int /\ -2147483648 <= v /\ v <= 2147483647
    BY <1>2, SMT DEF Int32, Between
  <2>2. FromInt32(v) \in Int /\ -32768 <= FromInt32(v) /\ FromInt32(v) <= 32767
    BY <2>1, SMT DEF FromInt32
  <2>. QED
    BY <2>2, InInt16, SMT
<1>. QED
  BY <1>1, <1>2, SMT

(* What is sent to an 8-bit or a 32-bit card fits its format; the clamp of *)
(* appendSampleFromInt16 never acts.                                       *)
THEOREM OutputsFit ==
    ASSUME NEW s, s \in Int16
    PROVE  /\ (s \div 256) + 128 \in UInt8
           /\ ToInt32(s) \in Int32
<1>1. s \in Int /\ -32768 <= s /\ s <= 32767
  BY Int16Range, SMT
<1>2. s \div 256 \in Int /\ -128 <= s \div 256 /\ s \div 256 <= 127
  BY <1>1, SMT
<1>3. (s \div 256) + 128 \in UInt8
  BY <1>2, SMT DEF UInt8, Between
<1>4. s * 65536 \in Int /\ -2147483648 <= s * 65536 /\ s * 65536 <= 2147483647
  BY <1>1, SMT
<1>. QED
  BY <1>3, <1>4, SMT DEF ToInt32, Int32, Between

(* Mixing two channels neither overflows nor needs the clamp, and two      *)
(* equal channels are mixed to the sample of each.  (toMonoInt16)          *)
THEOREM MixFits ==
    ASSUME NEW l, l \in Int16, NEW r, r \in Int16
    PROVE  /\ Mixed(l, r) = Halved(l + r)
           /\ Mixed(l, r) \in Int16
           /\ l = r => Mixed(l, r) = l
<1>1. /\ l \in Int /\ -32768 <= l /\ l <= 32767
      /\ r \in Int /\ -32768 <= r /\ r <= 32767
  BY Int16Range, SMT
<1>2. /\ Halved(l + r) \in Int
      /\ -32768 <= Halved(l + r)
      /\ Halved(l + r) <= 32767
  BY <1>1, SMT DEF Halved
<1>3. Mixed(l, r) = Halved(l + r)
  BY <1>2, SMT DEF Mixed, Clamp
<1>4. l = r => Halved(l + r) = l
  BY <1>1, SMT DEF Halved
<1>. QED
  BY <1>2, <1>3, <1>4, InInt16, SMT

(* A sample that is played and recorded again comes back exactly, in 8     *)
(* bits with its low byte cleared, and as a float at most one off.         *)
THEOREM RoundTripClose ==
    ASSUME NEW s, s \in Int16, NEW f \in Formats, NEW t \in RoundTrips(s, f)
    PROVE  /\ f \in {"Int16", "Int32"} => t = s
           /\ f = "UInt8" => t <= s /\ s - t <= 255
           /\ f = "Float" => s - 1 <= t /\ t <= s + 1
<1>0. s \in Int /\ -32768 <= s /\ s <= 32767
  BY Int16Range, SMT
<1>1. CASE f = "UInt8"
  <2>1. ToUInt8(s) = (s \div 256) + 128
    BY OutputsFit, SMT DEF ToUInt8, Clamp, UInt8, Between
  <2>2. t = (((s \div 256) + 128) - 128) * 256
    BY <1>1, <2>1, SMT DEF RoundTrips, FromUInt8
  <2>3. t <= s /\ s - t <= 255
    BY <1>0, <2>2, SMT
  <2>. QED
    BY <1>1, <2>3, SMT
<1>2. CASE f = "Int16"
  BY <1>2, SMT DEF RoundTrips
<1>3. CASE f = "Int32"
  <2>1. t = (s * 65536) \div 65536
    BY <1>3, SMT DEF RoundTrips, FromInt32, ToInt32
  <2>2. t = s
    BY <1>0, <2>1, SMT
  <2>. QED
    BY <1>3, <2>2, SMT
<1>4. CASE f = "Float"
  <2>1. t \in FromFloat(s)
    BY <1>4, SMT DEF RoundTrips
  <2>2. /\ t \in Int
        /\ 2 * (32768 * t - 32767 * s) <= 32768 + 128
        /\ 2 * (32767 * s - 32768 * t) <= 32768 + 128
    BY <1>0, <2>1, Int16Range, SMT DEF FromFloat, Clamp
  <2>3. s - 1 <= t /\ t <= s + 1
    BY <1>0, <2>2, SMT
  <2>. QED
    BY <1>4, <2>3, SMT
<1>. QED
  BY <1>1, <1>2, <1>3, <1>4, SMT DEF Formats
=============================================================================
