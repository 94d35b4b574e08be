------------------------------- MODULE Session -------------------------------
(***************************************************************************)
(* A whole session of the test client (tools/tci-client-qt) with the       *)
(* server: it waits for "ready", configures the RX audio, subscribes to    *)
(* it, keys a tone if told to, counts RX frames and leaves after enough of *)
(* them.  Its messages and the server's travel in order but take their     *)
(* time; meanwhile the other clients do whatever TciServer allows, and     *)
(* change the RX format, which the server keeps once for all of them.      *)
(* The connection may be lost at any time, and either end may be the first *)
(* to see it.                                                              *)
(*                                                                         *)
(* The RX distribution of the server (sendRxAudio) is modelled with the    *)
(* number of samples it has accumulated; what is in them is not.  The      *)
(* null backend stands for the radio, whose reports are TciServer's        *)
(* subject; ForceUnkey is left out with the devices.                       *)
(***************************************************************************)
EXTENDS TciServer

CONSTANTS
    Harness,     \* the client that is the test client
    Tone,        \* --tx-tone
    FrameLimit,  \* --rx-frames
    Preferred,   \* audio_stream_samples the test client asks for
    Sizes,       \* audio_stream_samples the other clients ask for
    MaxCapture,  \* samples the sound card delivers at once, at most
    MaxDown,     \* bounds: audio is captured when so few messages to and
    MaxUp        \* from the test client are in flight, a tone frame sent when
                 \* fewer are

ASSUME SessionAssumption ==
    /\ Harness \in Clients
    /\ Tone \in BOOLEAN
    /\ {FrameLimit, MaxCapture, MaxDown, MaxUp} \subseteq Nat
    /\ MaxCapture > 0
    /\ Sizes \union {Preferred} \subseteq Nat \ {0}

VARIABLES
    audioClients,  \* audio_clients_
    perFrame,      \* audio_samples_per_frame_
    channels,      \* audio_channels_
    acc,           \* samples in audio_accumulator_, per channel
    phase,         \* the test client's socket: off, open, closing, gone
    rxFrames,      \* rxFrames, counted up to FrameLimit
    tone,          \* txTimer runs
    leaving,       \* the 250 ms timers that disconnect have been started
    up,            \* messages to the server, oldest first
    down,          \* messages to the test client, oldest first
    lost,          \* history: the server's socket closed before the "bye"
    keyedByTone    \* history: the bridge keeps the radio keyed for the tone

rxVars == <<audioClients, perFrame, channels, acc>>
harnessVars == <<phase, rxFrames, tone, leaving>>
sessionVars == <<vars, rxVars, harnessVars, up, down, lost, keyedByTone>>

SessionTypeOK ==
    /\ TypeOK
    /\ audioClients \subseteq clients
    /\ perFrame \in Sizes \union {Preferred}
    /\ channels \in {1, 2}
    /\ acc \in Nat
    /\ phase \in {"off", "open", "closing", "gone"}
    /\ rxFrames \in 0 .. FrameLimit
    /\ {tone, leaving, lost, keyedByTone} \subseteq BOOLEAN

SessionInit ==
    /\ Init
    /\ audioClients = {}
    /\ perFrame = Preferred
    /\ channels = 1
    /\ acc = 0
    /\ phase = "off"
    /\ rxFrames = 0
    /\ tone = FALSE
    /\ leaving = FALSE
    /\ up = <<>>
    /\ down = <<>>
    /\ lost = FALSE
    /\ keyedByTone = FALSE

-----------------------------------------------------------------------------
(* RX audio in the server.                                                 *)

\* The messages to the test client: "ready", or an RX frame of n channels.
Ready == 0

\* The k frames of a capture go to the test client if it has subscribed.
Sent(k) ==
    IF Harness \in audioClients THEN down \o [j \in 1 .. k |-> channels']
    ELSE down

\* The loop goes round k times: as long as there is a full frame.
Rounds(total, k) ==
    /\ \A j \in 0 .. k - 1 : total - j * perFrame >= perFrame
    /\ total - k * perFrame < perFrame

\* Mutant: the format the clients asked for is kept.
FramedAsTold(n) ==
    /\ channels' = channels
    /\ \E k \in 0 .. acc + n :
          /\ Rounds(acc + n, k)
          /\ acc' = acc + n - k * perFrame
          /\ down' = Sent(k)

(***************************************************************************)
(* sendRxAudio of n mono samples.  The format becomes the device's again,  *)
(* and every full frame is sent to every subscriber.                       *)
(***************************************************************************)
Framed(n) ==
    /\ channels' = 1
    /\ \E k \in 0 .. acc + n :
          /\ Rounds(acc + n, k)
          /\ acc' = acc + n - k * perFrame
          /\ down' = Sent(k)

\* Without subscribers the samples are dropped; the accumulator stays.
SendRxAudio ==
    /\ audioClients # {}
    /\ Len(down) <= MaxDown
    /\ Len(up) <= MaxUp
    /\ \E n \in 1 .. MaxCapture : Framed(n)
    /\ UNCHANGED <<vars, audioClients, perFrame, harnessVars, up, lost,
                   keyedByTone>>

AudioStart(c) ==
    /\ audioClients' = audioClients \union {c}
    /\ UNCHANGED <<perFrame, channels, acc>>

AudioStop(c) ==
    /\ audioClients' = audioClients \ {c}
    /\ UNCHANGED <<perFrame, channels, acc>>

AudioStreamSamples(n) ==
    /\ perFrame' = n
    /\ UNCHANGED <<audioClients, channels, acc>>

AudioStreamChannels(n) ==
    /\ channels' = n
    /\ UNCHANGED <<audioClients, perFrame, acc>>

-----------------------------------------------------------------------------
(* What keyedByTone becomes: the transmission of the test client counts as *)
(* the tone's until it is unkeyed or another client takes it over.         *)
Attribute ==
    keyedByTone' = /\ asked'
                   /\ txOwner' = Harness \/ (keyedByTone /\ txOwner' = NoClient)

(* The other clients, and the watchdog.                                    *)
OtherClient(c) ==
    /\ \/ /\ ClientEvent(c)
          /\ audioClients' = audioClients \cap clients'
          /\ UNCHANGED <<perFrame, channels, acc>>
       \/ /\ c \in clients
          /\ \/ AudioStart(c)
             \/ AudioStop(c)
             \/ \E n \in Sizes : AudioStreamSamples(n)
             \/ \E n \in {1, 2} : AudioStreamChannels(n)
          /\ UNCHANGED vars
    /\ UNCHANGED <<fixed, harnessVars, up, down, lost>>
    /\ Attribute

Watchdog ==
    /\ TimerStep
    /\ UNCHANGED <<rxVars, harnessVars, up, down, lost>>
    /\ Attribute

-----------------------------------------------------------------------------
(* The test client.                                                        *)

\* The server's startup burst ends with "ready".
Connect ==
    /\ phase = "off"
    /\ phase' = "open"
    /\ OnNewConnection(Harness)
    /\ down' = <<Ready>>
    /\ UNCHANGED <<fixed, rxVars, rxFrames, tone, leaving, up, lost>>
    /\ Attribute

\* What is said over a lost connection goes nowhere.
Says(m) ==
    /\ phase = "open"
    /\ up' = IF Harness \in clients THEN up \o m ELSE up

\* The ready slot: its commands about the radio are CatLink's subject.
OnReady ==
    /\ Says(<<"channels", "samples", "audio_start">>
              \o IF Tone THEN <<"tx_audio_start">> ELSE <<>>)
    /\ tone' = Tone
    /\ UNCHANGED <<phase, rxFrames, leaving>>

\* Mutant: the tone is not stopped at the server.
OnRxFrameLeavesTone ==
    LET enough == FrameLimit > 0 /\ rxFrames + 1 >= FrameLimit IN
    /\ rxFrames' = IF rxFrames < FrameLimit THEN rxFrames + 1 ELSE rxFrames
    /\ Says(IF enough THEN <<"audio_stop">> ELSE <<>>)
    /\ tone' = (tone /\ ~enough)
    /\ leaving' = (leaving \/ enough)
    /\ UNCHANGED phase

\* Every frame from the limit on stops everything, again if need be.
OnRxFrame ==
    LET enough == FrameLimit > 0 /\ rxFrames + 1 >= FrameLimit IN
    /\ rxFrames' = IF rxFrames < FrameLimit THEN rxFrames + 1 ELSE rxFrames
    /\ Says(IF ~enough THEN <<>>
            ELSE <<"audio_stop">> \o IF Tone THEN <<"tx_audio_stop">> ELSE <<>>)
    /\ tone' = (tone /\ ~enough)
    /\ leaving' = (leaving \/ enough)
    /\ UNCHANGED phase

\* Frames in another format are ignored, and all once the socket closes.
Hear ==
    /\ down # <<>>
    /\ down' = Tail(down)
    /\ \/ phase = "open" /\ Head(down) = Ready /\ OnReady
       \/ phase = "open" /\ Head(down) = 1 /\ OnRxFrame
       \/ /\ phase # "open" \/ Head(down) = 2
          /\ UNCHANGED <<harnessVars, up>>
    /\ UNCHANGED <<vars, rxVars, lost, keyedByTone>>

TxTimer ==
    /\ tone
    /\ Len(up) < MaxUp
    /\ Says(<<"frame">>)
    /\ UNCHANGED <<vars, rxVars, harnessVars, down, lost, keyedByTone>>

\* disconnectFromServer, 250 ms after the limit.
Leave ==
    /\ leaving
    /\ Says(<<"bye">>)
    /\ phase' = "closing"
    /\ UNCHANGED <<vars, rxVars, rxFrames, tone, leaving, down, lost,
                   keyedByTone>>

\* onDisconnected ends the program, whoever closed the connection or lost it.
Quit ==
    /\ phase \in {"open", "closing"}
    /\ phase' = "gone"
    /\ tone' = FALSE
    /\ UNCHANGED <<vars, rxVars, rxFrames, leaving, up, down, lost,
                   keyedByTone>>

-----------------------------------------------------------------------------
(* The server reads the oldest message of the test client.                 *)

\* Messages that concern the RX audio only.
ReadsRx(m) ==
    /\ \/ m = "samples" /\ AudioStreamSamples(Preferred)
       \/ m = "channels" /\ AudioStreamChannels(1)
       \/ m = "audio_start" /\ AudioStart(Harness)
       \/ m = "audio_stop" /\ AudioStop(Harness)
    /\ UNCHANGED vars

\* A refused tx_audio_start and a frame of the wrong client have no effect.
ReadsTx(m) ==
    /\ \/ m = "tx_audio_start" /\ TxAudioStart(Harness)
       \/ /\ m = "tx_audio_start"
          /\ txAudioOwner \notin {NoClient, Harness}
          /\ UNCHANGED vars
       \/ m = "tx_audio_stop" /\ TxAudioStop(Harness)
       \/ m = "frame" /\ TxAudioFrame(Harness)
       \/ /\ m = "frame"
          /\ ~TransmitEnabled \/ txAudioOwner # Harness
          /\ UNCHANGED vars
    /\ UNCHANGED rxVars

ReadsBye(m) ==
    /\ m = "bye"
    /\ OnSocketDisconnected(Harness)
    /\ audioClients' = audioClients \ {Harness}
    /\ UNCHANGED <<perFrame, channels, acc>>

Read ==
    /\ up # <<>>
    /\ up' = Tail(up)
    /\ LET m == Head(up) IN ReadsRx(m) \/ ReadsTx(m) \/ ReadsBye(m)
    /\ UNCHANGED <<fixed, harnessVars, down, lost>>
    /\ Attribute

\* The server's end of a connection that is lost, with whatever the test
\* client has said and the server has not read.
ConnectionLost ==
    /\ Harness \in clients
    /\ OnSocketDisconnected(Harness)
    /\ audioClients' = audioClients \ {Harness}
    /\ up' = <<>>
    /\ lost' = TRUE
    /\ UNCHANGED <<fixed, perFrame, channels, acc, harnessVars, down>>
    /\ Attribute

-----------------------------------------------------------------------------
SessionNext ==
    \/ Connect
    \/ Hear
    \/ Leave
    \/ Quit
    \/ TxTimer
    \/ Read
    \/ ConnectionLost
    \/ SendRxAudio
    \/ Watchdog
    \/ \E c \in Clients \ {Harness} : OtherClient(c)

\* The test client learns that the server has closed after its "bye".
Closed == phase = "closing" /\ Harness \notin clients /\ ~lost /\ Quit

\* The sound card, both event loops and the timers run.  Connections need
\* not be lost, nor need either end ever learn that one has been.
SessionSpec ==
    /\ SessionInit
    /\ [][SessionNext]_sessionVars
    /\ WF_sessionVars(Hear \/ Leave \/ Closed)
    /\ WF_sessionVars(Read)
    /\ WF_sessionVars(SendRxAudio)
    /\ WF_sessionVars(Watchdog)

-----------------------------------------------------------------------------
(* A test client that connected gets its frames and quits, whatever the    *)
(* other clients do to the format, the subscriptions and the transmitter   *)
(* meanwhile, unless its connection is lost.  (sendRxAudio, the            *)
(* rxAudioFrame slot, disconnectFromServer)                                *)
SessionEnds == phase = "open" ~> phase = "gone" \/ lost

(* When the server has seen the test client go with a "bye", the bridge    *)
(* does not keep the radio keyed for its tone, whether or not the          *)
(* configuration unkeys on a disconnect: the tx_audio_stop before it has   *)
(* arrived, and no tone frame after it keys again.  When the connection    *)
(* was lost in mid-tone, the bridge does so only if it is configured not   *)
(* to unkey, or has postponed it, and never without supervision.           *)
(* (tx_audio_stop, onBinaryMessageReceived, onSocketDisconnected)          *)
ToneEnds ==
    phase # "off" /\ Harness \notin clients /\ keyedByTone
      => /\ lost
         /\ config.unkeyOnDisconnect => pendingUnkey
         /\ watchdog # 0 \/ pendingUnkey

(* Nor does the bridge do so for ever: with the test client gone nobody    *)
(* renews the watchdog of its tone, whatever the other clients try.        *)
(* (onBinaryMessageReceived, requestPtt, armTxWatchdog)                    *)
LostToneEnds == Harness \notin clients /\ keyedByTone ~> ~keyedByTone
=============================================================================
