------------------------------ MODULE AudioPaths ------------------------------
(***************************************************************************)
(* The audio paths of the bridge: main.cpp starts the RX source and the TX *)
(* sink, restarts both when the list of input or of output devices has     *)
(* changed, and retries on a timer while one of them is down.              *)
(***************************************************************************)
EXTENDS TxAudio

CONSTANTS
    Wanted,         \* the device audio.rx_device and audio.tx_device name
    Resolve(_, _),  \* resolveAutoUsbFullDuplex for a list of each side
    MaxNotices      \* bound: device-list signals waiting for the main thread

\* No device for either side.
NoPair == <<NoDevice, NoDevice>>

\* The resolver chooses among the devices that are there, or refuses to.
ASSUME AudioPathsAssumption ==
    /\ Wanted \in Devices
    /\ MaxNotices \in Nat
    /\ \A ins, outs \in SUBSET Devices :
          Resolve(ins, outs) \in (ins \X outs) \union {NoPair}

VARIABLES
    mode,         \* audio_selection_mode_, chosen once
    inputs,       \* QMediaDevices::audioInputs()
    outputs,      \* QMediaDevices::audioOutputs()
    faulty,       \* sides on which no device can be opened at present
    notices,      \* audioInputsChanged, audioOutputsChanged not yet handled
    cached,       \* auto_audio_devices_; NoPair until auto_audio_resolved_
    rxOn,         \* the device of rx_source_; NoDevice when there is none
    rxRunning,    \* rxAudioRunning
    txRunning,    \* txAudioRunning
    retry         \* audioRetryTimer.isActive()

envVars == <<mode, inputs, outputs, faulty, notices>>
pathVars == <<cached, rxOn, rxRunning, txRunning, retry>>
audioVars == <<txVars, envVars, pathVars>>

-----------------------------------------------------------------------------
(***************************************************************************)
(* Choosing and opening a device.  In mode default the bridge takes the    *)
(* system's default device, or one with the configured name; in mode auto  *)
(* the first pair the resolver settles on is kept for good, and as long as *)
(* it refuses, both paths stay down.  A device that is busy or fails is    *)
(* faulty; opening a device that has gone may fail or not.                 *)
(***************************************************************************)
Resolution ==
    IF mode = "auto" /\ cached = NoPair THEN Resolve(inputs, outputs)
    ELSE cached

\* The devices that may be chosen from a list.
Choices(list, auto) ==
    IF list = {} THEN {}
    ELSE IF mode = "auto" THEN {auto} \ {NoDevice}
    ELSE IF mode = "manual" THEN list \intersect {Wanted}
    ELSE list

\* What startRx or startTx may leave open.
Opened(list, side, auto) ==
    LET chosen == Choices(list, auto)
    IN  IF chosen = {} \/ side \in faulty THEN {NoDevice}
        ELSE chosen \union (IF chosen \subseteq list THEN {} ELSE {NoDevice})

OpenedRx(pair) == Opened(inputs, "rx", pair[1])
OpenedTx(pair) == Opened(outputs, "tx", pair[2])

\* Mutant: a sink that did not start does not arm the retry timer.
NeedRetryRx(rx, tx) == ~rx

NeedRetry(rx, tx) == ~rx \/ ~tx

\* startAudioPaths with the given running flags; the timer runs exactly
\* when one of the paths is down.
StartPaths(rxUp, txUp) ==
    /\ cached' = Resolution
    /\ rxOn' \in (IF rxUp THEN {rxOn} ELSE OpenedRx(Resolution))
    /\ rxRunning' = (rxUp \/ rxOn' # NoDevice)
    /\ \/ txUp /\ UNCHANGED <<txOn, buffer, primed, sink, sinkState>>
       \/ ~txUp /\ \E d \in OpenedTx(Resolution) : StartTx(d)
    /\ txRunning' = (txUp \/ txOn' # NoDevice)
    /\ retry' = NeedRetry(rxRunning', txRunning')

\* The event loop starts after the first startAudioPaths.
AudioInit ==
    /\ mode \in {"default", "manual", "auto"}
    /\ inputs \in SUBSET Devices
    /\ outputs \in SUBSET Devices
    /\ faulty \in SUBSET {"rx", "tx"}
    /\ notices = 0
    /\ cached = (IF mode = "auto" THEN Resolve(inputs, outputs) ELSE NoPair)
    /\ rxOn \in OpenedRx(cached)
    /\ \E d \in OpenedTx(cached) : TxInit(d)
    /\ rxRunning = (rxOn # NoDevice)
    /\ txRunning = (txOn # NoDevice)
    /\ retry = NeedRetry(rxRunning, txRunning)

-----------------------------------------------------------------------------
RetryTimeout ==
    /\ retry
    /\ StartPaths(rxRunning, txRunning)
    /\ UNCHANGED <<active, stream, envVars>>

\* Mutants of RestartAudioPaths: the paths that run are left alone; the
\* transmission goes on.
RestartOnlyStarts ==
    /\ notices > 0
    /\ notices' = notices - 1
    /\ active' = FALSE
    /\ StartPaths(rxRunning, txRunning)
    /\ UNCHANGED <<stream, mode, inputs, outputs, faulty>>

RestartKeepsKeyed ==
    /\ notices > 0
    /\ notices' = notices - 1
    /\ StartPaths(FALSE, FALSE)
    /\ UNCHANGED <<active, stream, mode, inputs, outputs, faulty>>

\* A TX audio stream counts as a transmission for transmitActive, so that
\* forceUnkey ends it before the paths are stopped and started.
RestartAudioPaths ==
    /\ notices > 0
    /\ notices' = notices - 1
    /\ active' = FALSE
    /\ StartPaths(FALSE, FALSE)
    /\ UNCHANGED <<stream, mode, inputs, outputs, faulty>>

-----------------------------------------------------------------------------
(***************************************************************************)
(* The sound system.  A list that changes is signalled once.               *)
(***************************************************************************)
DevicesChange ==
    /\ notices < MaxNotices
    /\ notices' = notices + 1
    /\ \/ inputs' \in SUBSET Devices \ {inputs} /\ UNCHANGED outputs
       \/ outputs' \in SUBSET Devices \ {outputs} /\ UNCHANGED inputs
    /\ UNCHANGED <<txVars, pathVars, mode, faulty>>

FaultsChange ==
    /\ faulty' \in SUBSET {"rx", "tx"} \ {faulty}
    /\ UNCHANGED <<txVars, pathVars, mode, inputs, outputs, notices>>

-----------------------------------------------------------------------------
Feed == \E n \in 1 .. MaxFrame : WriteTxAudio(n)

\* Steps that leave the device lists and the paths alone.
StreamStep ==
    /\ \/ BeginTxAudioStream
       \/ EndTxAudioStream
       \/ Feed
       \/ DrainTimer
       \/ SinkPlays
       \/ SinkSuspends
       \/ SinkFails
    /\ UNCHANGED <<envVars, pathVars>>

AudioNext ==
    \/ StreamStep
    \/ RetryTimeout
    \/ RestartAudioPaths
    \/ DevicesChange
    \/ FaultsChange

Plays == SinkPlays /\ UNCHANGED <<envVars, pathVars>>
Drains == DrainTimer /\ UNCHANGED <<envVars, pathVars>>

\* Timers run, posted signals are handled, a sink plays what it has.
AudioSpec ==
    /\ AudioInit /\ [][AudioNext]_audioVars
    /\ WF_audioVars(RetryTimeout)
    /\ WF_audioVars(RestartAudioPaths)
    /\ WF_audioVars(Drains)
    /\ WF_audioVars(Plays)

-----------------------------------------------------------------------------
AudioTypeOK ==
    /\ TxAudioTypeOK
    /\ mode \in {"default", "manual", "auto"}
    /\ inputs \subseteq Devices
    /\ outputs \subseteq Devices
    /\ faulty \subseteq {"rx", "tx"}
    /\ notices \in 0 .. MaxNotices
    /\ cached \in (Devices \X Devices) \union {NoPair}
    /\ rxOn \in Devices \union {NoDevice}
    /\ rxRunning \in BOOLEAN /\ txRunning \in BOOLEAN /\ retry \in BOOLEAN

(* A path without a device is never forgotten: the retry timer runs.       *)
(* (the running flags and audioRetryTimer, main.cpp)                       *)
DownPathsRetried == NoDevice \in {rxOn, txOn} => retry

(* With every change of the device lists handled, no path is left on a     *)
(* device that has gone.  An automatic choice is kept and is exempt.       *)
(* (restartAudioPaths)                                                     *)
SettledOnPresent ==
    mode # "auto" /\ notices = 0
      => /\ rxOn \in inputs \union {NoDevice}
         /\ txOn \in outputs \union {NoDevice}

(* A TX audio stream that has a device stays on it until it ends: it never *)
(* goes on over another device, nor silently without one.                  *)
(* (restartAudioPaths, startAudioPaths)                                    *)
StreamStaysPut ==
    [][ active /\ active' /\ Up => txOn' = txOn ]_audioVars

(* As long as frames arrive for a stream whose sink works, in a format the *)
(* samples can be converted to, it is heard again and again, whatever      *)
(* underruns and suspensions there are.  (writeTxAudio; drainTxAudio:      *)
(* prebuffer below jitter buffer, resume)                                  *)
FedStreamPlays ==
    /\ <>[](active /\ txOn \in Convertible /\ sinkState # "stopped")
    /\ []<><<Feed>>_audioVars
    => []<>(sinkState = "active")

\* The devices the bridge would use are there and can be opened; in mode
\* auto they are those chosen before, or the resolver does not refuse.
Usable ==
    /\ faulty = {}
    /\ CASE mode = "default" -> {} \notin {inputs, outputs}
         [] mode = "manual" -> Wanted \in inputs \intersect outputs
         [] mode = "auto" -> IF cached = NoPair
                             THEN Resolve(inputs, outputs) # NoPair
                             ELSE cached \in inputs \X outputs

(* Once usable devices stay, both paths come back and stay.                *)
(* (startAudioPaths by the retry timer)                                    *)
AudioReturns == <>[]Usable => <>[](NoDevice \notin {rxOn, txOn})
=============================================================================
