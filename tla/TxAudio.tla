------------------------------- MODULE TxAudio -------------------------------
(***************************************************************************)
(* TX audio output (QtAudioBackend.cpp): audio frames of the client that   *)
(* owns the TX audio go into the jitter buffer, and a 2 ms timer moves     *)
(* them to the audio sink.  Playback waits until the buffer has been       *)
(* filled up to Prebuffer once, and again after every underrun.            *)
(*                                                                         *)
(* Audio is counted in blocks, a whole number of sample frames.  A block   *)
(* in the buffer carries the number of the stream it was written for.      *)
(***************************************************************************)
EXTENDS Naturals, Sequences

CONSTANTS
    Devices, NoDevice,
    Convertible,  \* devices opened in a format that PcmConvert knows
    Prebuffer,    \* tx_prebuffer_ms_ in blocks
    Jitter,       \* tx_jitter_buffer_ms_ in blocks
    SinkSize,     \* tx_sink_buffer_ms_ in blocks
    MaxFrame,     \* blocks in the longest frame of a client
    MaxStreams    \* bound: streams begun

\* AppConfig::normalizeAndValidate refuses a longer prebuffer.
ASSUME TxAudioAssumption ==
    /\ NoDevice \notin Devices
    /\ Convertible \subseteq Devices
    /\ {Prebuffer, MaxStreams} \subseteq Nat
    /\ {Jitter, SinkSize, MaxFrame} \subseteq Nat \ {0}
    /\ Prebuffer < Jitter

VARIABLES
    txOn,         \* the device of tx_sink_; NoDevice when there is no sink
    buffer,       \* tx_buffer_: stream numbers, oldest block first
    primed,       \* tx_output_primed_
    active,       \* tx_stream_active_
    stream,       \* history: the number of the last stream begun
    sink,         \* blocks in the sink's own buffer
    sinkState     \* tx_sink_->state()

txVars == <<txOn, buffer, primed, active, stream, sink, sinkState>>

Up == txOn # NoDevice

\* With the sink open on device d, or with none.
TxInit(d) ==
    /\ txOn = d
    /\ buffer = <<>>
    /\ primed = FALSE
    /\ active = FALSE
    /\ stream = 0
    /\ sink = 0
    /\ sinkState = "idle"

-----------------------------------------------------------------------------
(***************************************************************************)
(* drainTxAudio, on a buffer that holds b.  The sink accepts any part of   *)
(* what it has room for, and nothing once it has stopped with an error.    *)
(* A sink found idle with nothing to play is an underrun.                  *)
(***************************************************************************)
Resumed == IF sinkState # "suspended" THEN sinkState
           ELSE IF sink > 0 THEN "active" ELSE "idle"

Free == IF sinkState = "stopped" THEN 0 ELSE SinkSize - sink

Accepts(b) == {n \in 0 .. Len(b) : n <= Free}

\* Mutant: an underrun is found while the buffer still fills.
UnderrunEarly(b) == active /\ Resumed = "idle"

Underrun(b) == b = <<>> /\ active /\ Resumed = "idle"

Drain(b) ==
    \/ /\ ~primed /\ Len(b) < Prebuffer
       /\ buffer' = b
       /\ UNCHANGED <<primed, sink, sinkState>>
    \/ /\ primed \/ Len(b) >= Prebuffer
       /\ Underrun(b)
       /\ primed' = FALSE
       /\ buffer' = b
       /\ sinkState' = Resumed
       /\ UNCHANGED sink
    \/ /\ primed \/ Len(b) >= Prebuffer
       /\ ~Underrun(b)
       /\ primed' = TRUE
       /\ \E n \in Accepts(b) :
             /\ n = 0 => Free = 0 \/ b = <<>>
             /\ buffer' = SubSeq(b, n + 1, Len(b))
             /\ sink' = sink + n
             /\ sinkState' = IF n > 0 THEN "active" ELSE Resumed

\* Mutant: the overflow check is missing.
TrimNever(b) == b

\* An overflow drops the oldest blocks.
Trim(b) == IF Len(b) > Jitter
           THEN SubSeq(b, Len(b) - Jitter + 1, Len(b))
           ELSE b

-----------------------------------------------------------------------------
\* txAudioStarted and txAudioStopped of the server.
BeginTxAudioStream ==
    /\ stream < MaxStreams
    /\ stream' = stream + 1
    /\ active' = TRUE
    /\ primed' = FALSE
    /\ buffer' = <<>>
    /\ UNCHANGED <<txOn, sink, sinkState>>

\* Mutant: what the stream did not play is left in the buffer.
EndTxAudioStreamKeeps ==
    /\ active
    /\ active' = FALSE
    /\ primed' = FALSE
    /\ UNCHANGED <<txOn, buffer, stream, sink, sinkState>>

EndTxAudioStream ==
    /\ active
    /\ active' = FALSE
    /\ primed' = FALSE
    /\ buffer' = <<>>
    /\ UNCHANGED <<txOn, stream, sink, sinkState>>

\* The server passes on frames of the owner of the TX audio only, whose
\* stream has begun; without a sink they are dropped.  A sink whose format
\* PcmConvert does not know is open all the same: every frame is dropped.
WriteTxAudio(n) ==
    /\ active
    /\ Up
    /\ \/ /\ txOn \in Convertible
          /\ Drain(Trim(buffer \o [i \in 1 .. n |-> stream]))
       \/ /\ txOn \notin Convertible
          /\ UNCHANGED <<buffer, primed, sink, sinkState>>
    /\ UNCHANGED <<txOn, active, stream>>

DrainTimer ==
    /\ Up
    /\ Drain(buffer)
    /\ UNCHANGED <<txOn, active, stream>>

-----------------------------------------------------------------------------
(***************************************************************************)
(* The sink.  When it has played its last block it reports to be idle, and *)
(* the slot counts an underrun if the buffer has nothing either.           *)
(***************************************************************************)
\* Mutant: the slot forgets to look into the buffer.
SinkPlaysUnprimes ==
    /\ Up
    /\ sinkState = "active"
    /\ sink > 0
    /\ sink' = sink - 1
    /\ sinkState' = IF sink = 1 THEN "idle" ELSE "active"
    /\ primed' = (primed /\ ~(sink = 1 /\ active))
    /\ UNCHANGED <<txOn, buffer, active, stream>>

SinkPlays ==
    /\ Up
    /\ sinkState = "active"
    /\ sink > 0
    /\ sink' = sink - 1
    /\ sinkState' = IF sink = 1 THEN "idle" ELSE "active"
    /\ primed' = (primed /\ ~(sink = 1 /\ active /\ buffer = <<>>))
    /\ UNCHANGED <<txOn, buffer, active, stream>>

SinkSuspends ==
    /\ Up
    /\ sinkState \in {"active", "idle"}
    /\ sinkState' = "suspended"
    /\ UNCHANGED <<txOn, buffer, primed, active, stream, sink>>

SinkFails ==
    /\ Up
    /\ sinkState' = "stopped"
    /\ UNCHANGED <<txOn, buffer, primed, active, stream, sink>>

-----------------------------------------------------------------------------
\* startTx on device d and stopTx; startTx begins with stopTx.
StartTx(d) ==
    /\ txOn' = d
    /\ buffer' = <<>>
    /\ primed' = FALSE
    /\ sink' = 0
    /\ sinkState' = "idle"

TxAudioTypeOK ==
    /\ txOn \in Devices \union {NoDevice}
    /\ buffer \in Seq(1 .. MaxStreams) /\ Len(buffer) <= Jitter
    /\ primed \in BOOLEAN /\ active \in BOOLEAN
    /\ stream \in 0 .. MaxStreams
    /\ sink \in 0 .. SinkSize
    /\ sinkState \in {"idle", "active", "suspended", "stopped"}

(* The buffer holds audio of the stream under way and of no other one: a   *)
(* transmission does not begin with the end of the last.                   *)
(* (beginTxAudioStream, endTxAudioStream, stopTx)                          *)
OwnAudioOnly ==
    \A i \in DOMAIN buffer : active /\ buffer[i] = stream

(* Playback under way pauses to fill the buffer again only when everything *)
(* written for the stream has been played.                                 *)
(* (drainTxAudio and the slot of stateChanged)                             *)
RefillsWhenDry ==
    [][ primed /\ ~primed' /\ active' /\ stream' = stream /\ txOn' = txOn
          => buffer' = <<>> /\ sink' = 0 ]_txVars
=============================================================================
