------------------------------- MODULE Bridge -------------------------------
(***************************************************************************)
(* The bridge in front of a radio: the transmit control on the main thread *)
(* (TciServer), the rigctld worker thread (RigctldWorker), the two queues  *)
(* between them, and the way the program ends.                             *)
(*                                                                         *)
(* The main thread believes a PTT state (ptt), the worker knows another    *)
(* (wPtt), and the radio has its own (rigPtt); asked is what the bridge    *)
(* wants.  Requests travel one way, reports the other, each in order, and  *)
(* either may be old when it is read.                                      *)
(***************************************************************************)
EXTENDS TciServer, RigctldWorker

VARIABLE
    quit          \* forceUnkey calls made since the program was told to end

serverVars == <<clients, txOwner, txAudioOwner, watchdog, pendingUnkey,
                told, ptt, connected, usable, suspended, asked>>
bridgeVars == <<vars, signals, workerVars, quit>>

BridgeInit ==
    /\ Init
    /\ config.backend = "rigctld"
    /\ WorkerInit
    /\ quit = 0

-----------------------------------------------------------------------------
(***************************************************************************)
(* The main thread.  QCoreApplication::quit() lets the event loop return   *)
(* first: between the signal handler's unkey and the rest of the shutdown  *)
(* it may still handle events.                                             *)
(***************************************************************************)
UnkeyCalls == 4

Looping == quit <= 1

Serve ==
    /\ Looping
    /\ ClientStep \/ DeviceStep
    /\ UNCHANGED <<signals, workerVars, quit>>

Timer ==
    /\ Looping
    /\ TimerStep
    /\ UNCHANGED <<signals, workerVars, quit>>

\* The oldest signal of the worker reaches the backend's slot.
Deliver ==
    /\ Looping
    /\ signals # <<>>
    /\ signals' = Tail(signals)
    /\ LET s == Head(signals) IN
       \/ s.op = "ptt" /\ OnPttChanged(s.on)
       \/ s.op = "connected" /\ OnConnectedChanged(s.on)
       \/ s.op = "usable" /\ OnRadioUsableChanged(s.on)
    /\ UNCHANGED <<fixed, workerVars, quit>>

(***************************************************************************)
(* SIGINT or SIGTERM: the signal handler's forceUnkey, one by each of the  *)
(* two aboutToQuit connections and one by the server's destructor.  The    *)
(* backend's destructor then posts stop() and waits for it.  No event loop *)
(* runs any more: what the worker still signals is never delivered.        *)
(***************************************************************************)
Quit ==
    /\ quit < UnkeyCalls
    /\ quit' = quit + 1
    /\ StopTransmit(Online)
    /\ UNCHANGED <<fixed, clients, link, signals, workerVars>>

\* Mutant: stop() does not wait behind the requests made before it.
DestroyAtOnce ==
    /\ quit = UnkeyCalls
    /\ quit' = UnkeyCalls + 1
    /\ requests' = Queued("stop", TRUE) \o requests
    /\ UNCHANGED <<fixed, serverVars, signals, workerVars>>

Destroy ==
    /\ quit = UnkeyCalls
    /\ quit' = UnkeyCalls + 1
    /\ requests' = requests \o Queued("stop", TRUE)
    /\ UNCHANGED <<fixed, serverVars, signals, workerVars>>

Discard ==
    /\ ~Looping
    /\ signals # <<>>
    /\ signals' = <<>>
    /\ UNCHANGED <<vars, workerVars, quit>>

-----------------------------------------------------------------------------
(***************************************************************************)
(* The worker thread and the radio.                                        *)
(***************************************************************************)
PollStep == (\E o \in Endings : Exchange(o)) /\ UNCHANGED <<fixed, serverVars, quit>>
RequestStep == Requested /\ UNCHANGED <<fixed, serverVars, quit>>
OutsideStep == Environment /\ UNCHANGED <<fixed, serverVars, quit>>

BridgeNext ==
    \/ Serve
    \/ Timer
    \/ Deliver
    \/ Quit
    \/ Destroy
    \/ Discard
    \/ PollStep
    \/ RequestStep
    \/ OutsideStep

(***************************************************************************)
(* The main thread delivers signals and runs its timer.  The worker thread *)
(* keeps polling, and between two polls comes back to its requests.  It is *)
(* strongly fair because the bound on waiting signals, which the program   *)
(* does not have, disables it now and then.  rigctld comes back.           *)
(***************************************************************************)
BridgeFairness ==
    /\ WF_bridgeVars(Timer)
    /\ WF_bridgeVars(Deliver)
    /\ WF_bridgeVars(Destroy)
    /\ WF_bridgeVars(Discard)
    /\ WF_bridgeVars(quit > 0 /\ Quit)
    /\ SF_bridgeVars(PollStep)
    /\ SF_bridgeVars(RequestStep)
    /\ WF_bridgeVars(RigctldUp /\ UNCHANGED <<fixed, serverVars, quit>>)

BridgeSpec == BridgeInit /\ [][BridgeNext]_bridgeVars /\ BridgeFairness

BridgeTypeOK == TypeOK /\ WorkerTypeOK /\ quit \in 0 .. UnkeyCalls + 1

-----------------------------------------------------------------------------
PttQueued == \E i \in DOMAIN requests : requests[i].op = "ptt"

NotByHand == hands = 0

(* With a rigctld that answers, commands arrive in the order they were     *)
(* given: once none is waiting, a radio nobody keys by hand transmits only *)
(* if that is what was asked last, through every start-up, suspension and  *)
(* shutdown.  (requestSetPtt, RigctldWorker::setPtt)                       *)
RigFollows == NotByHand /\ rigPtt /\ ~PttQueued => asked

(* The server is told that the radio is usable only while it believes in a *)
(* connection, whatever order things fail in.  (ensureConnected,           *)
(* notePollSuccess, forceReconnect, updateConnected)                       *)
UsableAfterConnected ==
    quit = 0 /\ signals # <<>> =>
        (Head(signals) = [op |-> "usable", on |-> TRUE] => connected)

(* A program that ends while it believes the radio online leaves it        *)
(* unkeyed, unless its operator keys it: the unkey requests are carried    *)
(* out before the worker stops.  (forceUnkey, ~TciServer, ~RigctldBackend, *)
(* RigctldWorker::stop)                                                    *)
OnlineShutdownUnkeys ==
    NotByHand /\ at = "stopped" /\ ~pendingUnkey => ~rigPtt

(* README.md:254: "Forced unkey on shutdown/watchdog where appropriate".   *)
(* While the radio is believed offline, and it is until the first complete *)
(* poll, the unkey at shutdown is only scheduled.                          *)
ShutdownUnkeys == at = "stopped" => ~rigPtt

(* Once the bridge has stopped asking for PTT, a radio nobody keys by hand *)
(* stops transmitting.  docs/protocol-subset.md:307: "If PTT remains on longer   *)
(* than this limit, the bridge forces PTT off."                            *)
UnkeyReachesRig == []NotByHand /\ <>[]~asked => <>[]~rigPtt

(* While polling goes on, the believed PTT state catches up with a radio   *)
(* that is also keyed by hand.  (pollPtt, updatePtt)                       *)
BeliefCatchesUp ==
    <>[](~asked /\ ~suspended /\ quit = 0) => <>[](ptt = rigPtt)

(* An unkeying postponed because the radio was offline is carried out once *)
(* the radio can be reached and is polled.  TciServer.cpp:791: "Radio is   *)
(* offline; will force PTT off when radio comes online".                   *)
PendingCarriedOut ==
    <>[](reachable /\ ~suspended /\ quit = 0) => []<>(~pendingUnkey)
=============================================================================
