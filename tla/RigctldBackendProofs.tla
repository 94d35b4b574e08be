------------------------ MODULE RigctldBackendProofs ------------------------
(***************************************************************************)
(* Proofs that the rigctld backend believes about the link what the worker *)
(* has made of it (NeverOptimistic, LinkReported), for every number of     *)
(* faults and requests and queues of any length, under a caller that does  *)
(* what it likes.                                                          *)
(***************************************************************************)
EXTENDS RigctldBackend, RigctldWorkerProofs

LEMMA TypesAreOK == Types <=> BackendTypeOK
BY DEF Types, WorkerTypes, Flags, Beliefs, BackendTypeOK, WorkerTypeOK

LEMMA CallTypes ==
    ASSUME Types, Call \/ Close
    PROVE  Beliefs' /\ requests' \in Seq(Request)
<1>1. \A op \in {"ptt", "suspend", "stop"}, on \in BOOLEAN :
        Queued(op, on) \in Seq(Request)
  <2> SUFFICES ASSUME NEW op \in {"ptt", "suspend", "stop"}, NEW on \in BOOLEAN
               PROVE  Queued(op, on) \in Seq(Request)
    OBVIOUS
  <2>1. [op |-> op, on |-> on] \in Request
    BY DEF Request
  <2>. QED
    BY <2>1 DEF Queued
<1>2. \A s \in BOOLEAN : SuspendRequest(s) \in Seq(Request)
  BY <1>1 DEF SuspendRequest
<1>3. requests \in Seq(Request) /\ suspended \in BOOLEAN
  BY DEF Types, Beliefs
<1>4. ASSUME NEW on \in BOOLEAN, Call, CallRadio(suspended, on)
      PROVE  Beliefs' /\ requests' \in Seq(Request)
  <2>1. /\ SuspendRequest(suspended) \in Seq(Request)
        /\ Queued("ptt", on) \in Seq(Request)
    BY <1>1, <1>2, <1>3
  <2>2. requests' \in Seq(Request)
    BY <1>3, <1>4, <2>1 DEF CallRadio
  <2>. QED
    BY <1>4, <2>2 DEF CallRadio, Call, Types, Beliefs
<1>5. ASSUME NEW s \in BOOLEAN, Call, CallSuspend(s)
      PROVE  Beliefs' /\ requests' \in Seq(Request)
  BY <1>2, <1>3, <1>5 DEF CallSuspend, Call, Types, Beliefs
<1>6. CASE Close
  <2>. DEFINE q == Queued("stop", TRUE)
  <2>1. q \in Seq(Request)
    BY <1>1
  <2>2. requests' = requests \o q
    BY <1>6 DEF Close
  <2>. HIDE DEF q
  <2>3. requests' \in Seq(Request)
    BY <1>3, <2>1, <2>2
  <2>. QED
    BY <1>6, <2>3 DEF Close, shadow, Types, Beliefs
<1>. QED
  BY <1>4, <1>5, <1>6 DEF Call

LEMMA HearTypes ==
    ASSUME Types, Hear
    PROVE  Beliefs' /\ requests' = requests /\ signals' \in Seq(Signal)
<1>1. signals \in Seq(Signal) /\ signals # <<>> /\ signals' = Tail(signals)
  BY DEF Hear, Types, WorkerTypes
<1>2. Head(signals).on \in BOOLEAN
  BY <1>1, First DEF Signal
<1>. QED
  BY <1>1, <1>2, First
     DEF Hear, ShadowPtt, ShadowConnected, ShadowUsable, Types, Beliefs

LEMMA TypesNext ==
    ASSUME Types, [BackendNext]_backendVars
    PROVE  Types'
<1>1. CASE Call \/ Close
  <2>1. WorkerTypes'
    <3>1. UNCHANGED <<signals, workerVars>>
      BY <1>1 DEF Call, Close
    <3>. QED
      BY <3>1 DEF workerVars, Types, WorkerTypes, Flags
  <2>. QED
    BY <1>1, <2>1, CallTypes DEF Types
<1>2. CASE Hear
  <2>1. WorkerTypes'
    BY <1>2, HearTypes DEF Hear, workerVars, Types, WorkerTypes, Flags
  <2>. QED
    BY <1>2, <2>1, HearTypes DEF Types
<1>3. CASE Poll
  BY <1>3, PollTypes DEF Poll, shadow, Types, Beliefs
<1>4. CASE Serve
  BY <1>4, TaskTypes DEF Serve, shadow, Types, Beliefs
<1>5. CASE Outside
  BY <1>5, OutsideTypes DEF Outside, shadow, Types, Beliefs
<1>6. CASE UNCHANGED backendVars
  BY <1>6
     DEF backendVars, shadow, wVars, workerVars, Types, WorkerTypes, Flags,
         Beliefs
<1>. QED
  BY <1>1, <1>2, <1>3, <1>4, <1>5, <1>6 DEF BackendNext

LEMMA TypesInit == BackendInit => Types
<1> SUFFICES ASSUME BackendInit PROVE Types
  OBVIOUS
<1>1. Flags
  BY DEF BackendInit, WorkerInit, Flags
<1>2. Beliefs
  BY DEF BackendInit, RadioInit, Beliefs
<1>3. /\ failures = 0 /\ faults = 0 /\ hands = 0 /\ at = "start"
      /\ signals = <<>> /\ requests = <<>>
  BY DEF BackendInit, RadioInit, WorkerInit
<1>. QED
  BY <1>1, <1>2, <1>3, WorkerAssumption DEF Types, WorkerTypes

-----------------------------------------------------------------------------
LEMMA HearKeeps ==
    ASSUME Types, LinkInv, Hear
    PROVE  LinkInv'
BY HeardKeeps DEF Hear, workerVars, ShadowPtt

LEMMA LinkInvNext ==
    ASSUME Types, LinkInv, [BackendNext]_backendVars
    PROVE  LinkInv'
<1>1. CASE UNCHANGED <<connected, usable, signals, wConnected, wUsable,
                       writeFailed>>
           /\ (socketUp' => socketUp)
  BY <1>1 DEF LinkInv
<1>2. CASE Call \/ Close
  BY <1>1, <1>2 DEF Call, Close, shadow, workerVars
<1>3. CASE Hear
  BY <1>3, HearKeeps
<1>4. CASE Poll
  BY <1>4, PollKeeps DEF Poll, shadow
<1>5. CASE Serve
  <2>1. CASE SetPollingSuspended
    BY <1>1, <1>5, <2>1 DEF Serve, shadow, SetPollingSuspended
  <2>. QED
    BY <1>5, <2>1, SetPttKeeps, StopKeeps DEF Serve, shadow, Requested
<1>6. CASE Outside
  BY <1>1, <1>6
     DEF Outside, shadow, Environment, RigctldDown, RigctldUp, HandKeys
<1>7. CASE UNCHANGED backendVars
  BY <1>1, <1>7 DEF backendVars, shadow, wVars, workerVars
<1>. QED
  BY <1>2, <1>3, <1>4, <1>5, <1>6, <1>7 DEF BackendNext

LEMMA LinkInvInit == BackendInit => LinkInv
<1> SUFFICES ASSUME BackendInit PROVE LinkInv
  OBVIOUS
<1>1. /\ signals = <<>>
      /\ ~connected /\ ~usable /\ ~wConnected /\ ~wUsable /\ ~socketUp
  BY DEF BackendInit, RadioInit, WorkerInit
<1>. QED
  BY <1>1, Nothing DEF LinkInv, Agrees

-----------------------------------------------------------------------------
(* The types of both halves of the backend, under any caller: in           *)
(* particular the count of failed polls never reaches the limit at which   *)
(* the radio is given up.  (notePollFailure)                               *)
THEOREM BackendTypes == BackendSpec => []BackendTypeOK
<1>1. BackendSpec => []Types
  BY TypesInit, TypesNext, PTL DEF BackendSpec
<1>. QED
  BY <1>1, TypesAreOK, PTL

(* When the signals under way have been heard, the connection is believed  *)
(* as the worker has it; the radio is believed usable only if the worker   *)
(* holds it to be, and exactly then while no write has failed.             *)
(* (updateConnected, updateRadioUsable, transactLines)                     *)
THEOREM LinkInvariant == BackendSpec => [](Types /\ LinkInv)
<1>1. BackendInit => Types /\ LinkInv
  BY TypesInit, LinkInvInit
<1>2. Types /\ LinkInv /\ [BackendNext]_backendVars => (Types /\ LinkInv)'
  BY TypesNext, LinkInvNext
<1>. QED
  BY <1>1, <1>2, PTL DEF BackendSpec

(* Whatever goes wrong, a radio the worker has given up is not believed    *)
(* online once every report has been heard.  (setRadioUsable,              *)
(* forceReconnect, updateConnected)                                        *)
THEOREM NeverTooOptimistic == BackendSpec => []NeverOptimistic
<1>1. Types /\ LinkInv => NeverOptimistic
  BY Nothing DEF LinkInv, NeverOptimistic, Settled, Online
<1>. QED
  BY <1>1, LinkInvariant, PTL

(* As long as no write to rigctld has failed, the belief about the link is *)
(* exact once every report has been heard.  (ensureConnected,              *)
(* notePollSuccess, updateRadioUsable)                                     *)
THEOREM LinkExact == BackendSpec => []LinkReported
<1>1. Types /\ LinkInv => LinkReported
  <2> SUFFICES ASSUME Types, LinkInv, Settled, ~writeFailed
               PROVE  Online <=> wConnected /\ wUsable
    BY DEF LinkReported
  <2>1. Mute(signals, "connected") /\ Mute(signals, "usable")
    BY Nothing DEF Settled
  <2>. QED
    BY <2>1 DEF LinkInv, Online
<1>. QED
  BY <1>1, LinkInvariant, PTL
=============================================================================
