------------------------------ MODULE TciServer ------------------------------
(***************************************************************************)
(* The transmit control of the TCI server (TciServer.cpp): who may key the *)
(* radio, who feeds it audio, the watchdog that limits a transmission, and *)
(* the unkeying that is postponed while the radio is offline.              *)
(*                                                                         *)
(* Everything runs on Qt's main thread, one slot at a time, so a slot with *)
(* all the calls it makes is one action.  The concurrency is in what it    *)
(* talks to: any number of WebSocket clients, the watchdog timer, and the  *)
(* rigctld worker thread, whose reports arrive as queued signals at any    *)
(* moment and may be older than the last command.                          *)
(*                                                                         *)
(* Time is the watchdog's own: watchdog is the number of Ticks left before *)
(* the single-shot timer fires, 0 when it is not running.                  *)
(***************************************************************************)
EXTENDS RadioBackend

CONSTANTS
    Clients,      \* every WebSocket client that may ever connect
    NoClient,     \* a null QPointer
    MaxTx,        \* max_tx_ms_ in Ticks
    Configs       \* the configurations to consider, a set of ConfigType

ConfigType == [backend : {"null", "rigctld"}, transmit : BOOLEAN,
               keysPtt : BOOLEAN, unkeyOnDisconnect : BOOLEAN]

ASSUME ServerAssumption ==
    /\ NoClient \notin Clients
    /\ MaxTx \in Nat \ {0}
    /\ Configs \subseteq ConfigType

VARIABLES
    config,        \* ptt.* of the configuration; fixed
    clients,       \* clients_
    txOwner,       \* tx_owner_
    txAudioOwner,  \* tx_audio_owner_
    watchdog,      \* tx_watchdog_: Ticks left, 0 when inactive
    pendingUnkey,  \* pending_unkey_on_radio_online_
    told           \* history: the last trx state sent to each client

fixed == <<config, backend>>
vars == <<config, clients, txOwner, txAudioOwner, watchdog, pendingUnkey,
          told, radioVars>>

TypeOK ==
    /\ config \in Configs
    /\ backend = config.backend
    /\ clients \subseteq Clients
    /\ txOwner \in clients \union {NoClient}
    /\ txAudioOwner \in clients \union {NoClient}
    /\ watchdog \in 0 .. MaxTx
    /\ pendingUnkey \in BOOLEAN
    /\ told \in [Clients -> BOOLEAN]
    /\ ptt \in BOOLEAN
    /\ connected \in BOOLEAN
    /\ usable \in BOOLEAN
    /\ suspended \in BOOLEAN
    /\ asked \in BOOLEAN
    /\ requests \in Seq(Request)

-----------------------------------------------------------------------------
(* broadcastText and sendText of a trx line.                               *)

Tell(S, v) == told' = [c \in Clients |-> IF c \in S THEN v ELSE told[c]]

\* Mutants of the next three: no check of the configuration, no check of the
\* owner, owners that are not reset.
TransmitUnchecked == TRUE
NeverOwned(c) == FALSE
ReleasedNever(owner, c) == owner

\* clientCanTransmit
TransmitEnabled == config.transmit

OwnedByOther(c) == txOwner \notin {NoClient, c}

Released(owner, c) == IF owner = c THEN NoClient ELSE owner

TransmitActive ==
    txOwner # NoClient \/ txAudioOwner # NoClient \/ watchdog > 0 \/ ptt

\* Mutant: the offline case forgets to schedule the unkeying.
StopTransmitForgets(online) ==
    /\ txAudioOwner' = NoClient
    /\ txOwner' = NoClient
    /\ watchdog' = 0
    /\ Tell(clients, FALSE)
    /\ IF online THEN CallRadio(FALSE, FALSE) ELSE CallSuspend(FALSE)
    /\ UNCHANGED pendingUnkey

(***************************************************************************)
(* stopTransmit(reason, true).  While the radio is offline no PTT call is  *)
(* made: the unkeying is left to onRadioOnlineChanged, and the clients are *)
(* told "off" although the believed state stays as it is.                  *)
(***************************************************************************)
StopTransmit(online) ==
    /\ txAudioOwner' = NoClient
    /\ txOwner' = NoClient
    /\ watchdog' = 0
    /\ Tell(clients, FALSE)
    /\ \/ /\ online
          /\ CallRadio(FALSE, FALSE)
          /\ UNCHANGED pendingUnkey
       \/ /\ ~online
          /\ CallSuspend(FALSE)
          /\ pendingUnkey' = TRUE

(***************************************************************************)
(* requestPtt(c, true) and requestPtt(c, false).  s is the polling         *)
(* suspension the calling handler leaves, R the clients it sends the       *)
(* resulting state to.  A denial for disabled transmit is broadcast as     *)
(* "off"; keying on broadcasts through pttChanged when the believed state  *)
(* changes; switching off does not ask who owns the transmission.          *)
(***************************************************************************)
RequestPttOn(c, s, R) ==
    \/ /\ ~TransmitEnabled
       /\ told' = [d \in Clients |-> d \in R /\ ptt]
       /\ CallSuspend(s)
       /\ UNCHANGED <<txOwner, watchdog>>
    \/ /\ TransmitEnabled
       /\ OwnedByOther(c)
       /\ Tell({c}, ptt)
       /\ CallSuspend(s)
       /\ UNCHANGED <<txOwner, watchdog>>
    \/ /\ TransmitEnabled
       /\ ~OwnedByOther(c)
       /\ txOwner' = c
       /\ watchdog' = MaxTx
       /\ CallRadio(s, TRUE)
       /\ Tell(IF ptt THEN R ELSE clients, TRUE)

\* Mutant: the owner is not cleared.
RequestPttOffKeepsOwner(s, R) ==
    /\ watchdog' = 0
    /\ CallRadio(s, FALSE)
    /\ Tell(IF ptt THEN clients ELSE R, FALSE)
    /\ UNCHANGED txOwner

RequestPttOff(s, R) ==
    /\ txOwner' = NoClient
    /\ watchdog' = 0
    /\ CallRadio(s, FALSE)
    /\ Tell(IF ptt THEN clients ELSE R, FALSE)

-----------------------------------------------------------------------------
(***************************************************************************)
(* setTransmitEnabled runs before the event loop: with transmit disabled   *)
(* it stops a transmission, and the rigctld backend, not yet connected,    *)
(* makes that a pending unkey.                                             *)
(***************************************************************************)
Init ==
    /\ config \in Configs
    /\ backend = config.backend
    /\ RadioInit
    /\ clients = {}
    /\ txOwner = NoClient
    /\ txAudioOwner = NoClient
    /\ watchdog = 0
    /\ pendingUnkey = (~config.transmit /\ config.backend = "rigctld")
    /\ told = [c \in Clients |-> FALSE]

OnNewConnection(c) ==
    /\ c \notin clients
    /\ clients' = clients \union {c}
    /\ Tell({c}, ptt)
    /\ UNCHANGED <<txOwner, txAudioOwner, watchdog, pendingUnkey, radioVars>>

\* Also the end of "stop" and "close", which close the client's socket.
OnSocketDisconnected(c) ==
    /\ c \in clients
    /\ clients' = clients \ {c}
    /\ UNCHANGED link
    /\ \/ /\ txOwner = c
          /\ config.unkeyOnDisconnect
          /\ StopTransmit(Online)
       \/ /\ txOwner = c => ~config.unkeyOnDisconnect
          /\ txOwner' = Released(txOwner, c)
          /\ txAudioOwner' = Released(txAudioOwner, c)
          /\ CallSuspend(suspended /\ txAudioOwner # c)
          /\ Tell({c}, FALSE)
          /\ UNCHANGED <<watchdog, pendingUnkey>>

\* "start" and its aliases, and "trx" without an argument.
QueryState(c) ==
    /\ c \in clients
    /\ Tell({c}, ptt)
    /\ UNCHANGED <<clients, txOwner, txAudioOwner, watchdog, pendingUnkey,
                   radioVars>>

TrxOn(c) ==
    /\ c \in clients
    /\ RequestPttOn(c, suspended, {c})
    /\ UNCHANGED <<clients, txAudioOwner, pendingUnkey, link>>

TrxOff(c) ==
    /\ c \in clients
    /\ RequestPttOff(suspended, {c})
    /\ UNCHANGED <<clients, txAudioOwner, pendingUnkey, link>>

\* A second client is refused without any effect.
TxAudioStart(c) ==
    /\ c \in clients
    /\ txAudioOwner \in {NoClient, c}
    /\ txAudioOwner' = c
    /\ UNCHANGED <<clients, pendingUnkey, link>>
    /\ \/ /\ config.keysPtt
          /\ RequestPttOn(c, TRUE, {})
       \/ /\ ~config.keysPtt
          /\ CallSuspend(TRUE)
          /\ UNCHANGED <<txOwner, watchdog, told>>

\* The audio stream is stopped for its owner only; the PTT for anybody.
TxAudioStop(c) ==
    /\ c \in clients
    /\ txAudioOwner' = Released(txAudioOwner, c)
    /\ UNCHANGED <<clients, pendingUnkey, link>>
    /\ LET s == suspended /\ txAudioOwner # c IN
       \/ /\ config.keysPtt
          /\ RequestPttOff(s, {})
       \/ /\ ~config.keysPtt
          /\ CallSuspend(s)
          /\ UNCHANGED <<txOwner, watchdog, told>>

\* Mutant: frames of any client count.
TxAudioFrameOfAny(c) ==
    /\ c \in clients
    /\ TransmitEnabled
    /\ UNCHANGED <<clients, txAudioOwner, pendingUnkey, link>>
    /\ LET keys == config.keysPtt /\ ~ptt /\ txOwner = NoClient IN
       \/ /\ keys
          /\ RequestPttOn(c, suspended, {})
       \/ /\ ~keys
          /\ watchdog' = IF ptt \/ txOwner # NoClient THEN MaxTx ELSE watchdog
          /\ UNCHANGED <<txOwner, told, ptt, asked, suspended, requests>>

\* onBinaryMessageReceived, for a well-formed TX frame of the audio owner;
\* every other frame is dropped.
TxAudioFrame(c) ==
    /\ c \in clients
    /\ TransmitEnabled
    /\ txAudioOwner = c
    /\ UNCHANGED <<clients, txAudioOwner, pendingUnkey, link>>
    /\ LET keys == config.keysPtt /\ ~ptt /\ txOwner = NoClient IN
       \/ /\ keys
          /\ RequestPttOn(c, suspended, {})
       \/ /\ ~keys
          /\ watchdog' = IF ptt \/ txOwner # NoClient THEN MaxTx ELSE watchdog
          /\ UNCHANGED <<txOwner, told, ptt, asked, suspended, requests>>

\* restartAudioPaths: a sound device was plugged in or removed.
ForceUnkey ==
    /\ TransmitActive
    /\ StopTransmit(Online)
    /\ UNCHANGED <<clients, link>>

-----------------------------------------------------------------------------
\* Mutant: the last Tick does not fire the timer.
TickToZero ==
    /\ watchdog > 0
    /\ watchdog' = watchdog - 1
    /\ UNCHANGED <<clients, txOwner, txAudioOwner, pendingUnkey, told,
                   radioVars>>

Tick ==
    /\ watchdog > 1
    /\ watchdog' = watchdog - 1
    /\ UNCHANGED <<clients, txOwner, txAudioOwner, pendingUnkey, told,
                   radioVars>>

OnTxWatchdogExpired ==
    /\ watchdog = 1
    /\ StopTransmit(Online)
    /\ UNCHANGED <<clients, link>>

-----------------------------------------------------------------------------
(* Signals of the rigctld worker: the backend's slot, then the server's.   *)

\* Mutant: the clients are not told.
OnPttChangedSilently(b) ==
    /\ ShadowPtt(b)
    /\ UNCHANGED <<clients, txOwner, txAudioOwner, watchdog, pendingUnkey,
                   told>>

OnPttChanged(b) ==
    /\ ShadowPtt(b)
    /\ Tell(IF ptt = b THEN {} ELSE clients, b)
    /\ UNCHANGED <<clients, txOwner, txAudioOwner, watchdog, pendingUnkey>>

\* onRadioOnlineChanged(false)
RadioOffline ==
    \/ /\ TransmitActive
       /\ StopTransmit(FALSE)
    \/ /\ ~TransmitActive
       /\ UNCHANGED <<txOwner, txAudioOwner, watchdog, pendingUnkey, told,
                      ptt, suspended, requests, asked>>

\* Mutant: the pending unkey is dropped instead of carried out.
RadioOnlineForgets ==
    /\ Tell(clients, ptt)
    /\ pendingUnkey' = FALSE
    /\ UNCHANGED <<txOwner, txAudioOwner, watchdog, ptt, suspended, requests,
                   asked>>

\* onRadioOnlineChanged(true)
RadioOnline ==
    /\ Tell(clients, ptt /\ ~pendingUnkey)
    /\ pendingUnkey' = FALSE
    /\ \/ /\ pendingUnkey
          /\ txAudioOwner' = NoClient
          /\ txOwner' = NoClient
          /\ watchdog' = 0
          /\ CallRadio(FALSE, FALSE)
       \/ /\ ~pendingUnkey
          /\ UNCHANGED <<txOwner, txAudioOwner, watchdog, ptt, suspended,
                         requests, asked>>

NoOnlineSignal ==
    UNCHANGED <<txOwner, txAudioOwner, watchdog, pendingUnkey, told,
                ptt, suspended, requests, asked>>

\* Losing the connection is reported even if the radio was offline already.
OnConnectedChanged(b) ==
    /\ ShadowConnected(b)
    /\ UNCHANGED clients
    /\ \/ connected /\ ~b /\ RadioOffline
       \/ (connected => b) /\ NoOnlineSignal

OnRadioUsableChanged(b) ==
    /\ ShadowUsable(b)
    /\ UNCHANGED clients
    /\ \/ ~Online /\ Online' /\ RadioOnline
       \/ Online /\ ~Online' /\ RadioOffline
       \/ Online' = Online /\ NoOnlineSignal

-----------------------------------------------------------------------------
ClientEvent(c) ==
    \/ OnNewConnection(c)
    \/ OnSocketDisconnected(c)
    \/ QueryState(c)
    \/ TrxOn(c)
    \/ TrxOff(c)
    \/ TxAudioStart(c)
    \/ TxAudioStop(c)
    \/ TxAudioFrame(c)

\* The worker reports a radio usable only after polls on a live connection.
RadioSignal(b) ==
    /\ backend = "rigctld"
    /\ \/ OnPttChanged(b)
       \/ OnConnectedChanged(b)
       \/ (b => connected) /\ OnRadioUsableChanged(b)

TakeRequest ==
    /\ WorkerTakes
    /\ UNCHANGED <<clients, txOwner, txAudioOwner, watchdog, pendingUnkey,
                   told, ptt, connected, usable, suspended, asked>>

ClientStep == Room /\ \E c \in Clients : ClientEvent(c) /\ UNCHANGED fixed
RadioStep == Room /\ \E b \in BOOLEAN : RadioSignal(b) /\ UNCHANGED fixed
DeviceStep == Room /\ ForceUnkey /\ UNCHANGED fixed
TimerStep == (Tick \/ OnTxWatchdogExpired) /\ UNCHANGED fixed
WorkerStep == TakeRequest /\ UNCHANGED fixed

Next == ClientStep \/ RadioStep \/ DeviceStep \/ TimerStep \/ WorkerStep

\* The timer runs and the worker takes its requests.
Spec == Init /\ [][Next]_vars /\ WF_vars(TimerStep) /\ WF_vars(WorkerStep)

-----------------------------------------------------------------------------
(***************************************************************************)
(* Safety                                                                  *)
(***************************************************************************)

(* A transmission the bridge asked for is never left unattended: as long   *)
(* as the last PTT call was "on", either the watchdog is running or an     *)
(* unkeying is pending for the radio's return.  (armTxWatchdog,            *)
(* disarmTxWatchdog, stopTransmit, onRadioOnlineChanged)                   *)
PttGuarded == asked => watchdog # 0 \/ pendingUnkey

(* The owner of the transmission is a connected client whose key-on is     *)
(* still in force and supervised, pending unkey or not.  (requestPtt,      *)
(* onSocketDisconnected)                                                   *)
OwnerOnAir == txOwner # NoClient => asked /\ watchdog # 0

(* Polling is suspended exactly while some client owns the TX audio; a     *)
(* suspension that outlived its stream would hide the radio for good.      *)
(* (setPollingSuspended in tx_audio_start, stopTxAudioStream)              *)
SuspendedForAudio == suspended <=> txAudioOwner # NoClient

(* With transmit disabled no sequence of client commands, audio frames or  *)
(* radio reports makes the bridge key the radio, and nobody is recorded as *)
(* transmitting.  (requestPtt, clientCanTransmit)                          *)
DisabledNeverKeys == ~config.transmit => ~asked /\ txOwner = NoClient

(* A pending unkey waits for an offline radio only: when the radio is      *)
(* online there is none; and no radio is online without a connection to    *)
(* it.  (stopTransmit, onRadioOnlineChanged, updateConnected)              *)
PendingOnlyOffline == (pendingUnkey => ~Online) /\ (usable => connected)

(* What a client was last told about trx is what the bridge believes,      *)
(* except for the "off" announced for a postponed unkeying and for a       *)
(* denial by disabled transmit.  (broadcastText, sendState, requestPtt)    *)
ToldTruth ==
    \A c \in clients :
        told[c] # ptt => ptt /\ (pendingUnkey \/ ~config.transmit)

(* docs/protocol-subset.md:294: with transmit disabled, key-on commands    *)
(* "are rejected and the server responds with the actual state".  The      *)
(* denial broadcasts "off" to every client, also while the radio is keyed  *)
(* by hand.                                                                *)
DenialTellsActual ==
    \A c \in clients : ~config.transmit /\ ~pendingUnkey => told[c] = ptt

(***************************************************************************)
(* Action properties                                                       *)
(***************************************************************************)

(* No step hands the transmission or the audio stream from one client to   *)
(* another: it is given up first.  (requestPtt, tx_audio_start)            *)
NoSteal ==
    [][/\ txOwner # txOwner' => NoClient \in {txOwner, txOwner'}
       /\ txAudioOwner # txAudioOwner'
             => NoClient \in {txAudioOwner, txAudioOwner'}]_vars

(* A pending unkey disappears only by being carried out, and when it is,   *)
(* the transmission it ended has no owner left.  (onRadioOnlineChanged)    *)
PendingKept ==
    [][pendingUnkey /\ ~pendingUnkey'
         => /\ ~asked' /\ ~ptt'
            /\ txOwner' = NoClient
            /\ requests' # <<>>
            /\ requests'[Len(requests')] = [op |-> "ptt", on |-> FALSE]]_vars

(* When the client that keyed the radio goes away and the configuration    *)
(* asks for it, the same step unkeys or schedules it.  (unkey_on_disconnect) *)
OwnerLossUnkeys ==
    [][config.unkeyOnDisconnect /\ txOwner \in clients \ clients'
         => ~asked' \/ pendingUnkey']_vars

(***************************************************************************)
(* Liveness                                                                *)
(***************************************************************************)

(* Once nobody renews the watchdog any more, the transmission ends: the    *)
(* timer always fires, whatever the radio reports meanwhile.               *)
SilenceEndsTx ==
    (<>[][watchdog' <= watchdog]_vars) => <>[](asked => pendingUnkey)

-----------------------------------------------------------------------------
(***************************************************************************)
(* Refinement                                                              *)
(***************************************************************************)
T == INSTANCE Transmission WITH
        Users <- Clients, Nobody <- NoClient, on <- asked,
        watched <- watchdog # 0, owed <- pendingUnkey, holder <- txOwner

(* The server with all its clients, stale radio reports, both backends and *)
(* device changes implements Transmission: every slot takes the            *)
(* transmitter through at most one of its steps.  (every slot of           *)
(* TciServer.cpp)                                                          *)
Implements == T!Spec
=============================================================================
