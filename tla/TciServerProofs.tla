--------------------------- MODULE TciServerProofs ---------------------------
(***************************************************************************)
(* Proofs about TciServer, for every set of clients, every limit MaxTx and *)
(* every set of configurations: its safety, that it implements             *)
(* Transmission, and its action properties.                                *)
(***************************************************************************)
EXTENDS TciServer, TLAPS

USE DEF link, fixed, TransmitEnabled, OwnedByOther, Released

-----------------------------------------------------------------------------
(***************************************************************************)
(* What a step can be to the server, whoever takes it: a slot that runs, or *)
(* something else that may change the queue of requests.  Room, a bound of *)
(* the model, has no part in it.  Every step of Next is such a step, and so *)
(* is every step of Bridge: what is shown of Slot holds of both.           *)
(***************************************************************************)
Aside ==
    /\ UNCHANGED <<clients, txOwner, txAudioOwner, watchdog, pendingUnkey,
                   told, ptt, connected, usable, suspended, asked>>
    /\ requests' \in Seq(Request)

Slot ==
    /\ UNCHANGED fixed
    /\ \/ \E c \in Clients : ClientEvent(c)
       \/ \E b \in BOOLEAN : RadioSignal(b)
       \/ StopTransmit(Online) /\ UNCHANGED <<clients, link>>
       \/ Tick
       \/ Aside

LEMMA NextIsSlot ==
    ASSUME TypeOK, [Next]_vars
    PROVE  Slot
<1>1. CASE ClientStep
  BY <1>1 DEF ClientStep, Slot
<1>2. CASE RadioStep
  BY <1>2 DEF RadioStep, Slot
<1>3. CASE DeviceStep
  BY <1>3 DEF DeviceStep, ForceUnkey, Slot
<1>4. CASE TimerStep
  BY <1>4 DEF TimerStep, OnTxWatchdogExpired, Slot
<1>5. CASE WorkerStep
  BY <1>5 DEF WorkerStep, TakeRequest, WorkerTakes, TypeOK, Slot, Aside
<1>6. CASE UNCHANGED vars
  BY <1>6 DEF vars, radioVars, TypeOK, Slot, Aside
<1>. QED
  BY <1>1, <1>2, <1>3, <1>4, <1>5, <1>6 DEF Next

-----------------------------------------------------------------------------
(***************************************************************************)
(* What the helpers shared by the handlers leave behind.                   *)
(***************************************************************************)

\* The requests appended by a call keep the queue well-typed.
LEMMA CallTypes ==
    ASSUME TypeOK, NEW s \in BOOLEAN, NEW on \in BOOLEAN
    PROVE  /\ CallSuspend(s) =>
                /\ suspended' \in BOOLEAN /\ ptt' \in BOOLEAN
                /\ asked' \in BOOLEAN /\ requests' \in Seq(Request)
           /\ CallRadio(s, on) =>
                /\ suspended' \in BOOLEAN /\ ptt' \in BOOLEAN
                /\ asked' \in BOOLEAN /\ requests' \in Seq(Request)
<1>1. Queued("suspend", s) \in Seq(Request)
  <2>1. [op |-> "suspend", on |-> s] \in Request
    BY DEF Request
  <2>. QED
    BY <2>1 DEF Queued
<1>2. Queued("ptt", on) \in Seq(Request)
  <2>1. [op |-> "ptt", on |-> on] \in Request
    BY DEF Request
  <2>. QED
    BY <2>1 DEF Queued
<1>3. SuspendRequest(s) \in Seq(Request)
  BY <1>1 DEF SuspendRequest
<1>4. /\ requests \o SuspendRequest(s) \in Seq(Request)
      /\ requests \o SuspendRequest(s) \o Queued("ptt", on) \in Seq(Request)
  BY <1>2, <1>3 DEF TypeOK
<1>. QED
  BY <1>4 DEF CallSuspend, CallRadio, TypeOK

\* Tell changes the last message of some clients to a Boolean.
LEMMA TellTypes ==
    ASSUME TypeOK, NEW S, NEW v \in BOOLEAN, Tell(S, v)
    PROVE  told' \in [Clients -> BOOLEAN]
BY DEF Tell, TypeOK

LEMMA StopTransmitTypes ==
    ASSUME TypeOK, NEW online, StopTransmit(online), UNCHANGED fixed
    PROVE  /\ txOwner' = NoClient /\ txAudioOwner' = NoClient
           /\ watchdog' = 0
           /\ told' \in [Clients -> BOOLEAN]
           /\ pendingUnkey' \in BOOLEAN /\ suspended' \in BOOLEAN
           /\ ptt' \in BOOLEAN /\ asked' \in BOOLEAN
           /\ requests' \in Seq(Request)
<1>1. told' \in [Clients -> BOOLEAN]
  BY TellTypes DEF StopTransmit
<1>. QED
  BY <1>1, CallTypes DEF StopTransmit, TypeOK

LEMMA RequestPttTypes ==
    ASSUME TypeOK, NEW c \in clients, NEW s \in BOOLEAN, NEW R,
           RequestPttOn(c, s, R) \/ RequestPttOff(s, R)
    PROVE  /\ txOwner' \in clients \union {NoClient}
           /\ watchdog' \in 0 .. MaxTx
           /\ told' \in [Clients -> BOOLEAN]
           /\ suspended' \in BOOLEAN
           /\ ptt' \in BOOLEAN /\ asked' \in BOOLEAN
           /\ requests' \in Seq(Request)
<1>1. CASE RequestPttOn(c, s, R)
  <2>1. told' \in [Clients -> BOOLEAN]
    <3>1. CASE ~config.transmit
      BY <1>1, <3>1 DEF RequestPttOn
    <3>2. CASE config.transmit
      BY <1>1, <3>2, TellTypes DEF RequestPttOn, TypeOK
    <3>. QED
      BY <3>1, <3>2
  <2>2. CASE CallSuspend(s) /\ UNCHANGED <<txOwner, watchdog>>
    BY <2>1, <2>2, CallTypes DEF TypeOK
  <2>3. CASE txOwner' = c /\ watchdog' = MaxTx /\ CallRadio(s, TRUE)
    <3>1. /\ suspended' \in BOOLEAN /\ ptt' \in BOOLEAN
          /\ asked' \in BOOLEAN /\ requests' \in Seq(Request)
      BY <2>3, CallTypes
    <3>2. txOwner' = c /\ watchdog' = MaxTx
      BY <2>3
    <3>. QED
      BY <2>1, <3>1, <3>2, ServerAssumption
  <2>. QED
    BY <1>1, <2>2, <2>3 DEF RequestPttOn
<1>2. CASE RequestPttOff(s, R)
  <2>1. told' \in [Clients -> BOOLEAN]
    BY <1>2, TellTypes DEF RequestPttOff
  <2>2. CallRadio(s, FALSE) /\ txOwner' = NoClient /\ watchdog' = 0
    BY <1>2 DEF RequestPttOff
  <2>3. /\ suspended' \in BOOLEAN /\ ptt' \in BOOLEAN
        /\ asked' \in BOOLEAN /\ requests' \in Seq(Request)
    BY <2>2, CallTypes
  <2>4. txOwner' = NoClient /\ watchdog' = 0
    BY <2>2
  <2>. QED
    BY <2>1, <2>3, <2>4, ServerAssumption
<1>. QED
  BY <1>1, <1>2

-----------------------------------------------------------------------------
(***************************************************************************)
(* Type correctness: in particular the two owners are always connected     *)
(* clients and the watchdog never runs past its limit.                     *)
(***************************************************************************)
LEMMA InitTypes == Init => TypeOK
<1> SUFFICES ASSUME Init PROVE TypeOK
  OBVIOUS
<1>1. /\ connected \in BOOLEAN /\ usable \in BOOLEAN
      /\ pendingUnkey \in BOOLEAN
  <2>1. /\ connected = (backend = "null") /\ usable = (backend = "null")
        /\ pendingUnkey = (~config.transmit /\ config.backend = "rigctld")
    BY DEF Init, RadioInit
  <2>. QED
    BY <2>1
<1>2. told \in [Clients -> BOOLEAN]
  BY DEF Init
<1>3. /\ ptt = FALSE /\ suspended = FALSE /\ asked = FALSE
      /\ requests = <<>> /\ watchdog = 0 /\ clients = {}
      /\ txOwner = NoClient /\ txAudioOwner = NoClient
      /\ config \in Configs /\ backend = config.backend
  BY DEF Init, RadioInit
<1>4. watchdog \in 0 .. MaxTx /\ requests \in Seq(Request)
  BY <1>3, ServerAssumption
<1>. QED
  BY <1>1, <1>2, <1>3, <1>4, Zenon DEF TypeOK

LEMMA ClientTypes ==
    ASSUME TypeOK, NEW c \in Clients, ClientEvent(c), UNCHANGED fixed
    PROVE  TypeOK'
<1>1. CASE OnNewConnection(c)
  <2>1. told' \in [Clients -> BOOLEAN]
    BY <1>1, TellTypes DEF OnNewConnection, TypeOK
  <2>. QED
    BY <1>1, <2>1 DEF OnNewConnection, TypeOK, radioVars
<1>2. CASE OnSocketDisconnected(c)
  <2>1. CASE StopTransmit(Online)
    <3>1. /\ txOwner' = NoClient /\ txAudioOwner' = NoClient
          /\ watchdog' = 0
          /\ told' \in [Clients -> BOOLEAN]
          /\ pendingUnkey' \in BOOLEAN /\ suspended' \in BOOLEAN
          /\ ptt' \in BOOLEAN /\ asked' \in BOOLEAN
          /\ requests' \in Seq(Request)
      BY <2>1, StopTransmitTypes
    <3>. QED
      BY <1>2, <3>1, ServerAssumption DEF OnSocketDisconnected, TypeOK
  <2>2. CASE ~StopTransmit(Online)
    <3>1. told' \in [Clients -> BOOLEAN]
      BY <1>2, <2>2, TellTypes DEF OnSocketDisconnected
    <3>2. (suspended /\ txAudioOwner # c) \in BOOLEAN
      OBVIOUS
    <3>. QED
      BY <1>2, <2>2, <3>1, <3>2, CallTypes DEF OnSocketDisconnected, TypeOK
  <2>. QED
    BY <2>1, <2>2
<1>3. CASE QueryState(c)
  <2>1. told' \in [Clients -> BOOLEAN]
    BY <1>3, TellTypes DEF QueryState, TypeOK
  <2>. QED
    BY <1>3, <2>1 DEF QueryState, TypeOK, radioVars
<1>4. CASE TrxOn(c)
  BY <1>4, RequestPttTypes DEF TrxOn, TypeOK
<1>5. CASE TrxOff(c)
  BY <1>5, RequestPttTypes DEF TrxOff, TypeOK
<1>6. CASE TxAudioStart(c)
  BY <1>6, RequestPttTypes, CallTypes DEF TxAudioStart, TypeOK
<1>7. CASE TxAudioStop(c)
  <2>1. (suspended /\ txAudioOwner # c) \in BOOLEAN
    OBVIOUS
  <2>. QED
    BY <1>7, <2>1, RequestPttTypes, CallTypes DEF TxAudioStop, TypeOK
<1>8. CASE TxAudioFrame(c)
  BY <1>8, RequestPttTypes, ServerAssumption DEF TxAudioFrame, TypeOK
<1>. QED
  BY <1>1, <1>2, <1>3, <1>4, <1>5, <1>6, <1>7, <1>8 DEF ClientEvent

LEMMA OnlineTypes ==
    ASSUME TypeOK, UNCHANGED fixed, UNCHANGED clients,
           connected' \in BOOLEAN, usable' \in BOOLEAN,
           RadioOffline \/ RadioOnline \/ NoOnlineSignal
    PROVE  TypeOK'
<1>1. CASE RadioOffline
  <2>1. CASE StopTransmit(FALSE)
    <3>1. /\ txOwner' = NoClient /\ txAudioOwner' = NoClient
          /\ watchdog' = 0
          /\ told' \in [Clients -> BOOLEAN]
          /\ pendingUnkey' \in BOOLEAN /\ suspended' \in BOOLEAN
          /\ ptt' \in BOOLEAN /\ asked' \in BOOLEAN
          /\ requests' \in Seq(Request)
      BY <2>1, StopTransmitTypes
    <3>. QED
      BY <3>1, ServerAssumption DEF TypeOK
  <2>2. CASE ~StopTransmit(FALSE)
    BY <1>1, <2>2 DEF RadioOffline, TypeOK
  <2>. QED
    BY <2>1, <2>2
<1>2. CASE RadioOnline
  <2>1. told' \in [Clients -> BOOLEAN]
    <3>1. (ptt /\ ~pendingUnkey) \in BOOLEAN
      OBVIOUS
    <3>. QED
      BY <1>2, <3>1, TellTypes DEF RadioOnline
  <2>2. CASE CallRadio(FALSE, FALSE)
    <3>1. /\ suspended' \in BOOLEAN /\ ptt' \in BOOLEAN
          /\ asked' \in BOOLEAN /\ requests' \in Seq(Request)
      BY <2>2, CallTypes
    <3>2. /\ pendingUnkey' = FALSE
          /\ pendingUnkey => /\ txOwner' = NoClient /\ watchdog' = 0
                             /\ txAudioOwner' = NoClient
          /\ ~pendingUnkey => /\ txOwner' = txOwner /\ watchdog' = watchdog
                              /\ txAudioOwner' = txAudioOwner
      BY <1>2 DEF RadioOnline
    <3>3. watchdog' \in 0 .. MaxTx
      BY <3>2, ServerAssumption DEF TypeOK
    <3>. QED
      BY <2>1, <3>1, <3>2, <3>3, Zenon DEF TypeOK
  <2>3. CASE ~CallRadio(FALSE, FALSE)
    BY <1>2, <2>1, <2>3 DEF RadioOnline, TypeOK
  <2>. QED
    BY <2>2, <2>3
<1>3. CASE NoOnlineSignal
  BY <1>3 DEF NoOnlineSignal, TypeOK
<1>. QED
  BY <1>1, <1>2, <1>3

LEMMA RadioTypes ==
    ASSUME TypeOK, NEW b \in BOOLEAN, UNCHANGED fixed,
           OnPttChanged(b) \/ OnConnectedChanged(b) \/ OnRadioUsableChanged(b)
    PROVE  TypeOK'
<1>1. CASE OnPttChanged(b)
  <2>1. told' \in [Clients -> BOOLEAN]
    BY <1>1, TellTypes DEF OnPttChanged
  <2>. QED
    BY <1>1, <2>1 DEF OnPttChanged, ShadowPtt, TypeOK
<1>2. CASE OnConnectedChanged(b)
  BY <1>2, OnlineTypes DEF OnConnectedChanged, ShadowConnected, TypeOK
<1>3. CASE OnRadioUsableChanged(b)
  BY <1>3, OnlineTypes DEF OnRadioUsableChanged, ShadowUsable, TypeOK
<1>. QED
  BY <1>1, <1>2, <1>3

LEMMA SlotTypes ==
    ASSUME TypeOK, Slot
    PROVE  TypeOK'
<1>1. CASE \E c \in Clients : ClientEvent(c)
  BY <1>1, ClientTypes DEF Slot
<1>2. CASE \E b \in BOOLEAN : RadioSignal(b)
  BY <1>2, RadioTypes DEF Slot, RadioSignal
<1>3. CASE StopTransmit(Online) /\ UNCHANGED <<clients, link>>
  BY <1>3, StopTransmitTypes, ServerAssumption DEF Slot, TypeOK
<1>4. CASE Tick
  BY <1>4, ServerAssumption DEF Slot, Tick, TypeOK, radioVars
<1>5. CASE Aside
  BY <1>5 DEF Slot, Aside, TypeOK
<1>. QED
  BY <1>1, <1>2, <1>3, <1>4, <1>5 DEF Slot

LEMMA TypesKept ==
    ASSUME TypeOK, [Next]_vars
    PROVE  TypeOK'
BY NextIsSlot, SlotTypes

(* The state keeps its types under every step; the owners are connected    *)
(* clients.                                                                *)
THEOREM TypeCorrect == Spec => []TypeOK
BY InitTypes, TypesKept, PTL DEF Spec

-----------------------------------------------------------------------------
(***************************************************************************)
(* Safety.  The conjunction is inductive relative to the types: each part  *)
(* needs others.  An owner supervises its own transmission (OwnerOnAir),   *)
(* so clearing the owner without stopping the watchdog, as a disconnect    *)
(* may, keeps PttGuarded; a pending unkey is carried out when the radio    *)
(* comes online because only an offline radio has one.                     *)
(***************************************************************************)
Safety ==
    /\ PttGuarded
    /\ OwnerOnAir
    /\ SuspendedForAudio
    /\ DisabledNeverKeys
    /\ PendingOnlyOffline

LEMMA LimitPositive == MaxTx # 0
BY ServerAssumption

\* stopTransmit(reason, true) leaves no owner and no suspension, and either
\* unkeys or, if the radio is offline, schedules it.
LEMMA StopFacts ==
    ASSUME NEW online, StopTransmit(online)
    PROVE  /\ txOwner' = NoClient /\ txAudioOwner' = NoClient
           /\ ~suspended'
           /\ asked' => asked /\ pendingUnkey'
           /\ pendingUnkey' => pendingUnkey \/ ~online
<1>1. txOwner' = NoClient /\ txAudioOwner' = NoClient
  BY DEF StopTransmit
<1>2. CASE online /\ CallRadio(FALSE, FALSE) /\ UNCHANGED pendingUnkey
  BY <1>1, <1>2 DEF CallRadio
<1>3. CASE ~online /\ CallSuspend(FALSE) /\ pendingUnkey' = TRUE
  BY <1>1, <1>3 DEF CallSuspend
<1>. QED
  BY <1>2, <1>3 DEF StopTransmit

\* requestPtt(c, true) keys the radio with the watchdog armed, or changes
\* neither the transmission nor its owner.
LEMMA OnFacts ==
    ASSUME NEW c, NEW s, NEW R, RequestPttOn(c, s, R)
    PROVE  /\ suspended' = s
           /\ \/ /\ txOwner' = txOwner /\ watchdog' = watchdog
                 /\ asked' = asked
              \/ /\ config.transmit
                 /\ txOwner' = c /\ watchdog' = MaxTx /\ asked' = TRUE
BY DEF RequestPttOn, CallRadio, CallSuspend

LEMMA OffFacts ==
    ASSUME NEW s, NEW R, RequestPttOff(s, R)
    PROVE  suspended' = s /\ txOwner' = NoClient /\ asked' = FALSE
BY DEF RequestPttOff, CallRadio

LEMMA StopSafe ==
    ASSUME Safety, StopTransmit(Online), UNCHANGED fixed, UNCHANGED link
    PROVE  Safety'
<1>1. /\ txOwner' = NoClient /\ txAudioOwner' = NoClient /\ ~suspended'
      /\ asked' => asked /\ pendingUnkey'
      /\ pendingUnkey' => pendingUnkey \/ ~Online
  BY StopFacts
<1>2. Online' = Online /\ config' = config
  BY DEF Online
<1>3. (usable' => connected') /\ (pendingUnkey' => ~Online')
  BY <1>1, <1>2 DEF Safety, PendingOnlyOffline
<1>4. ~config'.transmit => ~asked' /\ txOwner' = NoClient
  BY <1>1, <1>2 DEF Safety, DisabledNeverKeys
<1>. QED
  BY <1>1, <1>3, <1>4
  DEF Safety, PttGuarded, OwnerOnAir, SuspendedForAudio, DisabledNeverKeys,
      PendingOnlyOffline

\* A handler that leaves the link and the pending unkey alone, keeps the
\* suspension with the audio owner, and keeps, starts or ends the
\* transmission.
LEMMA HandlerSafe ==
    ASSUME Safety, UNCHANGED fixed, UNCHANGED link, UNCHANGED pendingUnkey,
           suspended' <=> txAudioOwner' # NoClient,
           \/ /\ txOwner' \in {txOwner, NoClient}
              /\ asked' = asked
              /\ watchdog' \in {watchdog, MaxTx}
           \/ config.transmit /\ asked' /\ watchdog' = MaxTx
           \/ ~asked' /\ txOwner' = NoClient
    PROVE  Safety'
<1>1. PttGuarded'
  BY LimitPositive DEF Safety, PttGuarded
<1>2. OwnerOnAir'
  BY LimitPositive DEF Safety, OwnerOnAir
<1>3. SuspendedForAudio'
  BY DEF SuspendedForAudio
<1>4. DisabledNeverKeys'
  BY DEF Safety, DisabledNeverKeys
<1>5. PendingOnlyOffline'
  BY DEF Safety, PendingOnlyOffline, Online
<1>. QED
  BY <1>1, <1>2, <1>3, <1>4, <1>5 DEF Safety

-----------------------------------------------------------------------------
LEMMA ClientSafe ==
    ASSUME TypeOK, Safety, NEW c \in Clients, ClientEvent(c), UNCHANGED fixed
    PROVE  Safety'
<1>. c # NoClient
  BY ServerAssumption
<1>. suspended \in BOOLEAN /\ (suspended <=> txAudioOwner # NoClient)
  BY DEF TypeOK, Safety, SuspendedForAudio
<1>1. CASE OnNewConnection(c)
  <2>1. /\ suspended' <=> txAudioOwner' # NoClient
        /\ txOwner' = txOwner /\ asked' = asked /\ watchdog' = watchdog
        /\ UNCHANGED link /\ UNCHANGED pendingUnkey
    BY <1>1 DEF OnNewConnection, radioVars
  <2>. QED
    BY <2>1, HandlerSafe
<1>2. CASE OnSocketDisconnected(c)
  <2>1. CASE StopTransmit(Online)
    BY <1>2, <2>1, StopSafe DEF OnSocketDisconnected
  <2>2. CASE ~StopTransmit(Online)
    <3>1. /\ suspended' = (suspended /\ txAudioOwner # c)
          /\ txAudioOwner' = IF txAudioOwner = c THEN NoClient ELSE txAudioOwner
          /\ txOwner' \in {txOwner, NoClient}
          /\ asked' = asked /\ watchdog' = watchdog
          /\ UNCHANGED link /\ UNCHANGED pendingUnkey
      BY <1>2, <2>2 DEF OnSocketDisconnected, CallSuspend
    <3>2. suspended' <=> txAudioOwner' # NoClient
      BY <3>1
    <3>. QED
      BY <3>1, <3>2, HandlerSafe
  <2>. QED
    BY <2>1, <2>2
<1>3. CASE QueryState(c)
  <2>1. /\ suspended' <=> txAudioOwner' # NoClient
        /\ txOwner' = txOwner /\ asked' = asked /\ watchdog' = watchdog
        /\ UNCHANGED link /\ UNCHANGED pendingUnkey
    BY <1>3 DEF QueryState, radioVars
  <2>. QED
    BY <2>1, HandlerSafe
<1>4. CASE TrxOn(c)
  <2>1. /\ RequestPttOn(c, suspended, {c})
        /\ UNCHANGED <<txAudioOwner, pendingUnkey, link>>
    BY <1>4 DEF TrxOn
  <2>2. /\ suspended' = suspended
        /\ \/ /\ txOwner' = txOwner /\ watchdog' = watchdog
              /\ asked' = asked
           \/ config.transmit /\ watchdog' = MaxTx /\ asked' = TRUE
    BY <2>1, OnFacts
  <2>. QED
    BY <2>1, <2>2, HandlerSafe
<1>5. CASE TrxOff(c)
  <2>1. /\ RequestPttOff(suspended, {c})
        /\ UNCHANGED <<txAudioOwner, pendingUnkey, link>>
    BY <1>5 DEF TrxOff
  <2>2. suspended' = suspended /\ txOwner' = NoClient /\ asked' = FALSE
    BY <2>1, OffFacts
  <2>. QED
    BY <2>1, <2>2, HandlerSafe
<1>6. CASE TxAudioStart(c)
  <2>1. txAudioOwner' = c /\ UNCHANGED <<pendingUnkey, link>>
    BY <1>6 DEF TxAudioStart
  <2>2. CASE RequestPttOn(c, TRUE, {})
    <3>1. /\ suspended' = TRUE
          /\ \/ /\ txOwner' = txOwner /\ watchdog' = watchdog
                /\ asked' = asked
             \/ config.transmit /\ watchdog' = MaxTx /\ asked' = TRUE
      BY <2>2, OnFacts
    <3>. QED
      BY <2>1, <3>1, HandlerSafe
  <2>3. CASE ~RequestPttOn(c, TRUE, {})
    <3>1. /\ suspended' = TRUE /\ asked' = asked
          /\ txOwner' = txOwner /\ watchdog' = watchdog
      BY <1>6, <2>3 DEF TxAudioStart, CallSuspend
    <3>. QED
      BY <2>1, <3>1, HandlerSafe
  <2>. QED
    BY <2>2, <2>3
<1>7. CASE TxAudioStop(c)
  <2>. DEFINE s == suspended /\ txAudioOwner # c
  <2>1. /\ txAudioOwner' = IF txAudioOwner = c THEN NoClient ELSE txAudioOwner
        /\ UNCHANGED <<pendingUnkey, link>>
    BY <1>7 DEF TxAudioStop
  <2>2. s <=> txAudioOwner' # NoClient
    BY <2>1
  <2>3. CASE RequestPttOff(s, {})
    <3>1. suspended' = s /\ txOwner' = NoClient /\ asked' = FALSE
      BY <2>3, OffFacts
    <3>. QED
      BY <2>1, <2>2, <3>1, HandlerSafe
  <2>4. CASE ~RequestPttOff(s, {})
    <3>1. /\ suspended' = s /\ asked' = asked
          /\ txOwner' = txOwner /\ watchdog' = watchdog
      BY <1>7, <2>4 DEF TxAudioStop, CallSuspend
    <3>. QED
      BY <2>1, <2>2, <3>1, HandlerSafe
  <2>. QED
    BY <2>3, <2>4
<1>8. CASE TxAudioFrame(c)
  <2>1. UNCHANGED <<txAudioOwner, pendingUnkey, link>>
    BY <1>8 DEF TxAudioFrame
  <2>2. CASE RequestPttOn(c, suspended, {})
    <3>1. /\ suspended' = suspended
          /\ \/ /\ txOwner' = txOwner /\ watchdog' = watchdog
                /\ asked' = asked
             \/ config.transmit /\ watchdog' = MaxTx /\ asked' = TRUE
      BY <2>2, OnFacts
    <3>. QED
      BY <2>1, <3>1, HandlerSafe
  <2>3. CASE ~RequestPttOn(c, suspended, {})
    <3>1. /\ suspended' = suspended /\ asked' = asked
          /\ txOwner' = txOwner /\ watchdog' \in {watchdog, MaxTx}
      BY <1>8, <2>3 DEF TxAudioFrame
    <3>. QED
      BY <2>1, <3>1, HandlerSafe
  <2>. QED
    BY <2>2, <2>3
<1>. QED
  BY <1>1, <1>2, <1>3, <1>4, <1>5, <1>6, <1>7, <1>8 DEF ClientEvent

\* onRadioOnlineChanged(false), the radio being offline by then.
LEMMA OfflineSafe ==
    ASSUME Safety, RadioOffline, UNCHANGED fixed,
           ~Online', usable' => connected'
    PROVE  Safety'
<1>1. CASE StopTransmit(FALSE)
  <2>1. /\ txOwner' = NoClient /\ txAudioOwner' = NoClient /\ ~suspended'
        /\ asked' => asked /\ pendingUnkey'
    BY <1>1, StopFacts
  <2>. QED
    BY <2>1
    DEF Safety, PttGuarded, OwnerOnAir, SuspendedForAudio, DisabledNeverKeys,
        PendingOnlyOffline
<1>2. CASE ~StopTransmit(FALSE)
  <2>1. UNCHANGED <<txOwner, txAudioOwner, watchdog, pendingUnkey, asked,
                    suspended>>
    BY <1>2 DEF RadioOffline
  <2>. QED
    BY <2>1
    DEF Safety, PttGuarded, OwnerOnAir, SuspendedForAudio, DisabledNeverKeys,
        PendingOnlyOffline
<1>. QED
  BY <1>1, <1>2

\* onRadioOnlineChanged(true)
LEMMA OnlineSafe ==
    ASSUME Safety, RadioOnline, UNCHANGED fixed, usable' => connected'
    PROVE  Safety'
<1>1. ~pendingUnkey'
  BY DEF RadioOnline
<1>2. CASE pendingUnkey
  <2>1. /\ txOwner' = NoClient /\ txAudioOwner' = NoClient
        /\ suspended' = FALSE /\ asked' = FALSE
    BY <1>2 DEF RadioOnline, CallRadio
  <2>. QED
    BY <1>1, <2>1
    DEF Safety, PttGuarded, OwnerOnAir, SuspendedForAudio, DisabledNeverKeys,
        PendingOnlyOffline
<1>3. CASE ~pendingUnkey
  <2>1. UNCHANGED <<txOwner, txAudioOwner, watchdog, asked, suspended>>
    BY <1>3 DEF RadioOnline
  <2>. QED
    BY <1>1, <1>3, <2>1
    DEF Safety, PttGuarded, OwnerOnAir, SuspendedForAudio, DisabledNeverKeys,
        PendingOnlyOffline
<1>. QED
  BY <1>2, <1>3

LEMMA RadioSafe ==
    ASSUME TypeOK, Safety, NEW b \in BOOLEAN, RadioSignal(b), UNCHANGED fixed
    PROVE  Safety'
<1>. usable => connected
  BY DEF Safety, PendingOnlyOffline
<1>1. CASE OnPttChanged(b)
  <2>1. UNCHANGED <<txOwner, txAudioOwner, watchdog, pendingUnkey, asked,
                    suspended, connected, usable>>
    BY <1>1 DEF OnPttChanged, ShadowPtt
  <2>. QED
    BY <2>1
    DEF Safety, PttGuarded, OwnerOnAir, SuspendedForAudio, DisabledNeverKeys,
        PendingOnlyOffline, Online
<1>2. CASE OnConnectedChanged(b)
  <2>1. connected' = b /\ usable' = (usable /\ (b \/ ~connected))
    BY <1>2 DEF OnConnectedChanged, ShadowConnected
  <2>2. usable' => connected'
    BY <2>1
  <2>3. CASE connected /\ ~b /\ RadioOffline
    BY <2>1, <2>2, <2>3, OfflineSafe DEF Online
  <2>4. CASE (connected => b) /\ NoOnlineSignal
    <3>1. UNCHANGED <<txOwner, txAudioOwner, watchdog, pendingUnkey, asked,
                      suspended>>
      BY <2>4 DEF NoOnlineSignal
    <3>2. Online' => Online
      BY <2>1 DEF Online
    <3>. QED
      BY <2>2, <3>1, <3>2
      DEF Safety, PttGuarded, OwnerOnAir, SuspendedForAudio,
          DisabledNeverKeys, PendingOnlyOffline
  <2>. QED
    BY <1>2, <2>3, <2>4 DEF OnConnectedChanged
<1>3. CASE OnRadioUsableChanged(b) /\ (b => connected)
  <2>1. connected' = connected /\ usable' = b
    BY <1>3 DEF OnRadioUsableChanged, ShadowUsable
  <2>2. usable' => connected'
    BY <1>3, <2>1
  <2>3. CASE RadioOnline
    BY <2>2, <2>3, OnlineSafe
  <2>4. CASE ~Online' /\ RadioOffline
    BY <2>2, <2>4, OfflineSafe
  <2>5. CASE Online' = Online /\ NoOnlineSignal
    <3>1. UNCHANGED <<txOwner, txAudioOwner, watchdog, pendingUnkey, asked,
                      suspended>>
      BY <2>5 DEF NoOnlineSignal
    <3>. QED
      BY <2>2, <2>5, <3>1
      DEF Safety, PttGuarded, OwnerOnAir, SuspendedForAudio,
          DisabledNeverKeys, PendingOnlyOffline
  <2>. QED
    BY <1>3, <2>3, <2>4, <2>5 DEF OnRadioUsableChanged
<1>. QED
  BY <1>1, <1>2, <1>3 DEF RadioSignal

LEMMA InitSafe == ASSUME Init PROVE Safety
<1>1. /\ asked = FALSE /\ suspended = FALSE
      /\ txOwner = NoClient /\ txAudioOwner = NoClient
  BY DEF Init, RadioInit
<1>2. pendingUnkey => ~Online
  BY DEF Init, RadioInit, Online
<1>3. usable => connected
  BY DEF Init, RadioInit
<1>. QED
  BY <1>1, <1>2, <1>3
  DEF Safety, PttGuarded, OwnerOnAir, SuspendedForAudio, DisabledNeverKeys,
      PendingOnlyOffline

LEMMA SlotSafe ==
    ASSUME TypeOK, Safety, Slot
    PROVE  Safety'
<1>1. CASE \E c \in Clients : ClientEvent(c)
  BY <1>1, ClientSafe DEF Slot
<1>2. CASE \E b \in BOOLEAN : RadioSignal(b)
  BY <1>2, RadioSafe DEF Slot
<1>3. CASE StopTransmit(Online) /\ UNCHANGED <<clients, link>>
  BY <1>3, StopSafe DEF Slot
<1>4. CASE Tick
  <2>1. UNCHANGED <<config, txOwner, txAudioOwner, pendingUnkey, asked,
                    suspended, connected, usable>>
    BY <1>4 DEF Slot, Tick, radioVars
  <2>2. watchdog' # 0
    BY <1>4 DEF Tick, TypeOK
  <2>. QED
    BY <2>1, <2>2
    DEF Safety, PttGuarded, OwnerOnAir, SuspendedForAudio,
        DisabledNeverKeys, PendingOnlyOffline, Online
<1>5. CASE Aside
  BY <1>5
  DEF Slot, Aside, Safety, PttGuarded, OwnerOnAir, SuspendedForAudio,
      DisabledNeverKeys, PendingOnlyOffline, Online
<1>. QED
  BY <1>1, <1>2, <1>3, <1>4, <1>5 DEF Slot

LEMMA SafetyKept ==
    ASSUME TypeOK, Safety, [Next]_vars
    PROVE  Safety'
BY NextIsSlot, SlotSafe

(* In every behaviour a transmission the bridge asked for is supervised by *)
(* the watchdog or its unkeying is pending, its owner is a supervised      *)
(* client, polling is suspended exactly for an audio owner, disabled       *)
(* transmit never keys, and an online radio has no pending unkey.          *)
THEOREM SafetyHolds == Spec => []Safety
BY InitSafe, SafetyKept, TypeCorrect, PTL DEF Spec

(***************************************************************************)
(* The parts of Safety one by one.                                         *)
(***************************************************************************)

(* No transmission is left without a watchdog or a pending unkey.          *)
THEOREM PttAlwaysGuarded == Spec => []PttGuarded
BY SafetyHolds, PTL DEF Safety

(* The owner is always the supervised client of a key-on still in force.   *)
THEOREM OwnerAlwaysOnAir == Spec => []OwnerOnAir
BY SafetyHolds, PTL DEF Safety

(* Polling is never left suspended without an owner of the TX audio.       *)
THEOREM AlwaysSuspendedForAudio == Spec => []SuspendedForAudio
BY SafetyHolds, PTL DEF Safety

(* With transmit disabled the bridge never keys the radio.                 *)
THEOREM DisabledKeysNever == Spec => []DisabledNeverKeys
BY SafetyHolds, PTL DEF Safety

(* An online radio never has a pending unkey.                              *)
THEOREM PendingAlwaysOffline == Spec => []PendingOnlyOffline
BY SafetyHolds, PTL DEF Safety

-----------------------------------------------------------------------------
(***************************************************************************)
(* What a slot does to the four variables Transmission sees, as a step of  *)
(* Transmission.                                                           *)
(***************************************************************************)

LEMMA IsKey ==
    ASSUME NEW c \in Clients, txOwner \in {NoClient, c}, txOwner' = c,
           asked' = TRUE, watchdog' = MaxTx, pendingUnkey' = pendingUnkey
    PROVE  T!Next
<1>1. T!Key(c)
  BY LimitPositive DEF T!Key
<1>. QED
  BY <1>1 DEF T!Next

LEMMA IsEnd ==
    ASSUME txOwner' = NoClient, asked' = FALSE, watchdog' = 0,
           pendingUnkey' \in {pendingUnkey, FALSE}
    PROVE  T!Next
BY DEF T!Next, T!End

LEMMA IsPostpone ==
    ASSUME txOwner' = NoClient, asked' = asked, watchdog' = 0,
           pendingUnkey' = TRUE
    PROVE  T!Next
BY DEF T!Next, T!Postpone

\* Nothing, a lost holder, or a longer watch.
LEMMA IsQuiet ==
    ASSUME asked' = asked, pendingUnkey' = pendingUnkey,
           \/ txOwner' = txOwner /\ watchdog' = MaxTx
           \/ /\ txOwner' \in {txOwner, NoClient}
              /\ (watchdog' # 0) = (watchdog # 0)
    PROVE  [T!Next]_T!tVars
<1>1. CASE txOwner' = txOwner /\ watchdog' = MaxTx
  <2>1. T!Prolong
    BY <1>1, LimitPositive DEF T!Prolong
  <2>. QED
    BY <2>1 DEF T!Next
<1>2. CASE /\ txOwner' \in {txOwner, NoClient}
           /\ (watchdog' # 0) = (watchdog # 0)
  BY <1>2 DEF T!Next, T!Leave, T!tVars
<1>. QED
  BY <1>1, <1>2

-----------------------------------------------------------------------------
(***************************************************************************)
(* The helpers of the handlers as steps of Transmission.                   *)
(***************************************************************************)

LEMMA StopSteps ==
    ASSUME NEW online, StopTransmit(online)
    PROVE  T!Next
<1>1. CASE CallRadio(FALSE, FALSE) /\ UNCHANGED pendingUnkey
  BY <1>1, IsEnd DEF StopTransmit, CallRadio
<1>2. CASE CallSuspend(FALSE) /\ pendingUnkey' = TRUE
  BY <1>2, IsPostpone DEF StopTransmit, CallSuspend
<1>. QED
  BY <1>1, <1>2 DEF StopTransmit

LEMMA OnSteps ==
    ASSUME NEW c \in Clients, NEW s, NEW R, RequestPttOn(c, s, R),
           UNCHANGED pendingUnkey
    PROVE  [T!Next]_T!tVars
<1>1. CASE ~OwnedByOther(c) /\ TransmitEnabled
  BY <1>1, IsKey DEF RequestPttOn, CallRadio
<1>2. CASE ~(~OwnedByOther(c) /\ TransmitEnabled)
  BY <1>2, IsQuiet DEF RequestPttOn, CallSuspend
<1>. QED
  BY <1>1, <1>2

LEMMA OffSteps ==
    ASSUME NEW s, NEW R, RequestPttOff(s, R), UNCHANGED pendingUnkey
    PROVE  T!Next
BY IsEnd DEF RequestPttOff, CallRadio

LEMMA ClientSteps ==
    ASSUME NEW c \in Clients, ClientEvent(c)
    PROVE  [T!Next]_T!tVars
<1>1. CASE OnNewConnection(c)
  BY <1>1, IsQuiet DEF OnNewConnection, radioVars
<1>2. CASE OnSocketDisconnected(c)
  <2>1. CASE StopTransmit(Online)
    BY <2>1, StopSteps
  <2>2. CASE ~StopTransmit(Online)
    BY <1>2, <2>2, IsQuiet DEF OnSocketDisconnected, CallSuspend
  <2>. QED
    BY <2>1, <2>2
<1>3. CASE QueryState(c)
  BY <1>3, IsQuiet DEF QueryState, radioVars
<1>4. CASE TrxOn(c)
  BY <1>4, OnSteps DEF TrxOn
<1>5. CASE TrxOff(c)
  BY <1>5, OffSteps DEF TrxOff
<1>6. CASE TxAudioStart(c)
  <2>1. CASE RequestPttOn(c, TRUE, {})
    BY <1>6, <2>1, OnSteps DEF TxAudioStart
  <2>2. CASE ~RequestPttOn(c, TRUE, {})
    BY <1>6, <2>2, IsQuiet DEF TxAudioStart, CallSuspend
  <2>. QED
    BY <2>1, <2>2
<1>7. CASE TxAudioStop(c)
  <2>. DEFINE s == suspended /\ txAudioOwner # c
  <2>1. CASE RequestPttOff(s, {})
    BY <1>7, <2>1, OffSteps DEF TxAudioStop
  <2>2. CASE ~RequestPttOff(s, {})
    BY <1>7, <2>2, IsQuiet DEF TxAudioStop, CallSuspend
  <2>. QED
    BY <2>1, <2>2
<1>8. CASE TxAudioFrame(c)
  <2>1. CASE RequestPttOn(c, suspended, {})
    BY <1>8, <2>1, OnSteps DEF TxAudioFrame
  <2>2. CASE ~RequestPttOn(c, suspended, {})
    BY <1>8, <2>2, IsQuiet DEF TxAudioFrame
  <2>. QED
    BY <2>1, <2>2
<1>. QED
  BY <1>1, <1>2, <1>3, <1>4, <1>5, <1>6, <1>7, <1>8 DEF ClientEvent

\* onRadioOnlineChanged, or no such signal.
LEMMA LinkSteps ==
    ASSUME TypeOK, RadioOffline \/ RadioOnline \/ NoOnlineSignal
    PROVE  [T!Next]_T!tVars
<1>1. CASE RadioOffline
  <2>1. CASE StopTransmit(FALSE)
    BY <2>1, StopSteps
  <2>2. CASE ~StopTransmit(FALSE)
    BY <1>1, <2>2, IsQuiet DEF RadioOffline
  <2>. QED
    BY <2>1, <2>2
<1>2. CASE RadioOnline
  <2>1. CASE pendingUnkey
    BY <1>2, <2>1, IsEnd DEF RadioOnline, CallRadio
  <2>2. CASE ~pendingUnkey
    <3>1. pendingUnkey' = pendingUnkey
      BY <1>2, <2>2 DEF RadioOnline, TypeOK
    <3>. QED
      BY <1>2, <2>2, <3>1, IsQuiet DEF RadioOnline
  <2>. QED
    BY <2>1, <2>2
<1>3. CASE NoOnlineSignal
  BY <1>3, IsQuiet DEF NoOnlineSignal
<1>. QED
  BY <1>1, <1>2, <1>3

LEMMA RadioSteps ==
    ASSUME TypeOK, NEW b \in BOOLEAN, RadioSignal(b)
    PROVE  [T!Next]_T!tVars
<1>1. CASE OnPttChanged(b)
  BY <1>1, IsQuiet DEF OnPttChanged, ShadowPtt
<1>2. CASE OnConnectedChanged(b)
  BY <1>2, LinkSteps DEF OnConnectedChanged
<1>3. CASE OnRadioUsableChanged(b)
  BY <1>3, LinkSteps DEF OnRadioUsableChanged
<1>. QED
  BY <1>1, <1>2, <1>3 DEF RadioSignal

-----------------------------------------------------------------------------
(***************************************************************************)
(* ToldTruth: what each handler tells, against what the bridge believes    *)
(* after it.                                                               *)
(***************************************************************************)

LEMMA ToldEach ==
    ASSUME TypeOK, NEW S, NEW v, Tell(S, v), NEW c \in clients
    PROVE  told'[c] = IF c \in S THEN v ELSE told[c]
BY DEF Tell, TypeOK

LEMMA StopTold ==
    ASSUME TypeOK, NEW online, StopTransmit(online), clients' \subseteq clients
    PROVE  ToldTruth'
<1>1. \A c \in clients : told'[c] = FALSE
  BY ToldEach DEF StopTransmit
<1>2. CASE CallRadio(FALSE, FALSE)
  BY <1>1, <1>2 DEF CallRadio, ToldTruth
<1>3. CASE CallSuspend(FALSE) /\ pendingUnkey' = TRUE
  <2>1. ptt' \in BOOLEAN
    BY <1>3 DEF CallSuspend, TypeOK
  <2>. QED
    BY <1>1, <1>3, <2>1 DEF ToldTruth
<1>. QED
  BY <1>2, <1>3 DEF StopTransmit

LEMMA OnTold ==
    ASSUME TypeOK, ToldTruth, NEW c \in clients, NEW s \in BOOLEAN, NEW R,
           RequestPttOn(c, s, R),
           UNCHANGED <<clients, pendingUnkey, config>>
    PROVE  ToldTruth'
<1>. ptt \in BOOLEAN /\ clients \subseteq Clients
  BY DEF TypeOK
<1>1. CASE ~TransmitEnabled
  <2>1. ptt' = ptt /\ ~config'.transmit
    BY <1>1 DEF RequestPttOn, CallSuspend
  <2>2. \A d \in clients : told'[d] = (d \in R /\ ptt)
    BY <1>1 DEF RequestPttOn
  <2>. QED
    BY <2>1, <2>2 DEF ToldTruth
<1>2. CASE TransmitEnabled /\ OwnedByOther(c)
  <2>1. ptt' = ptt /\ Tell({c}, ptt)
    BY <1>2 DEF RequestPttOn, CallSuspend
  <2>2. \A d \in clients : told'[d] \in {ptt, told[d]}
    BY <2>1, ToldEach
  <2>. QED
    BY <2>1, <2>2 DEF ToldTruth
<1>3. CASE TransmitEnabled /\ ~OwnedByOther(c)
  <2>1. ptt' = TRUE /\ Tell(IF ptt THEN R ELSE clients, TRUE)
    BY <1>3 DEF RequestPttOn, CallRadio
  <2>2. CASE ptt
    <3>1. \A d \in clients : told'[d] \in {TRUE, told[d]}
      BY <2>1, <2>2, ToldEach
    <3>. QED
      BY <2>1, <2>2, <3>1 DEF ToldTruth
  <2>3. CASE ~ptt
    <3>1. \A d \in clients : told'[d] = TRUE
      BY <2>1, <2>3, ToldEach
    <3>. QED
      BY <2>1, <3>1 DEF ToldTruth
  <2>. QED
    BY <2>2, <2>3
<1>. QED
  BY <1>1, <1>2, <1>3

LEMMA OffTold ==
    ASSUME TypeOK, ToldTruth, NEW s \in BOOLEAN, NEW R,
           RequestPttOff(s, R),
           UNCHANGED <<clients, pendingUnkey, config>>
    PROVE  ToldTruth'
<1>. ptt \in BOOLEAN /\ told \in [Clients -> BOOLEAN] /\ clients \subseteq Clients
  BY DEF TypeOK
<1>1. ptt' = FALSE /\ Tell(IF ptt THEN clients ELSE R, FALSE)
  BY DEF RequestPttOff, CallRadio
<1>2. \A d \in clients : told'[d] = FALSE
  <2>1. CASE ptt
    BY <1>1, <2>1, ToldEach
  <2>2. CASE ~ptt
    <3>1. \A d \in clients : told[d] = FALSE
      BY <2>2 DEF ToldTruth
    <3>2. \A d \in clients : told'[d] \in {FALSE, told[d]}
      BY <1>1, <2>2, ToldEach
    <3>. QED
      BY <3>1, <3>2
  <2>. QED
    BY <2>1, <2>2
<1>. QED
  BY <1>1, <1>2 DEF ToldTruth

\* A handler that leaves everything ToldTruth reads alone, but for telling
\* one client the believed state.
LEMMA SameTold ==
    ASSUME TypeOK, ToldTruth, NEW c \in Clients,
           told' = told \/ Tell({c}, ptt),
           UNCHANGED <<ptt, pendingUnkey, config>>, clients' \subseteq clients \union {c},
           c \in clients \/ c \notin clients' \/ Tell({c}, ptt)
    PROVE  ToldTruth'
<1>. clients \subseteq Clients /\ told \in [Clients -> BOOLEAN]
  BY DEF TypeOK
<1>1. CASE Tell({c}, ptt)
  <2>1. told'[c] = ptt
    BY <1>1 DEF Tell
  <2>2. \A d \in clients' \ {c} : d \in clients /\ told'[d] = told[d]
    BY <1>1 DEF Tell
  <2>. QED
    BY <2>1, <2>2 DEF ToldTruth
<1>2. CASE ~Tell({c}, ptt)
  <2>1. told' = told /\ clients' \subseteq clients
    BY <1>2
  <2>. QED
    BY <2>1 DEF ToldTruth
<1>. QED
  BY <1>1, <1>2

LEMMA ClientTold ==
    ASSUME TypeOK, ToldTruth, NEW c \in Clients, ClientEvent(c), UNCHANGED fixed
    PROVE  ToldTruth'
<1>. suspended \in BOOLEAN /\ ptt \in BOOLEAN
  BY DEF TypeOK
<1>1. CASE OnNewConnection(c)
  BY <1>1, SameTold DEF OnNewConnection, radioVars
<1>2. CASE OnSocketDisconnected(c)
  <2>1. CASE StopTransmit(Online)
    BY <1>2, <2>1, StopTold DEF OnSocketDisconnected
  <2>2. CASE ~StopTransmit(Online)
    <3>1. /\ Tell({c}, FALSE) /\ clients' = clients \ {c}
          /\ ptt' = ptt /\ pendingUnkey' = pendingUnkey
      BY <1>2, <2>2 DEF OnSocketDisconnected, CallSuspend
    <3>2. \A d \in clients' : d \in clients /\ told'[d] = told[d]
      BY <3>1, ToldEach
    <3>. QED
      BY <3>1, <3>2 DEF ToldTruth
  <2>. QED
    BY <2>1, <2>2
<1>3. CASE QueryState(c)
  BY <1>3, SameTold DEF QueryState, radioVars
<1>4. CASE TrxOn(c)
  BY <1>4, OnTold DEF TrxOn
<1>5. CASE TrxOff(c)
  BY <1>5, OffTold DEF TrxOff
<1>6. CASE TxAudioStart(c)
  <2>1. CASE RequestPttOn(c, TRUE, {})
    BY <1>6, <2>1, OnTold DEF TxAudioStart
  <2>2. CASE ~RequestPttOn(c, TRUE, {})
    BY <1>6, <2>2, SameTold DEF TxAudioStart, CallSuspend
  <2>. QED
    BY <2>1, <2>2
<1>7. CASE TxAudioStop(c)
  <2>. DEFINE s == suspended /\ txAudioOwner # c
  <2>1. CASE RequestPttOff(s, {})
    BY <1>7, <2>1, OffTold DEF TxAudioStop
  <2>2. CASE ~RequestPttOff(s, {})
    BY <1>7, <2>2, SameTold DEF TxAudioStop, CallSuspend
  <2>. QED
    BY <2>1, <2>2
<1>8. CASE TxAudioFrame(c)
  <2>1. CASE RequestPttOn(c, suspended, {})
    BY <1>8, <2>1, OnTold DEF TxAudioFrame
  <2>2. CASE ~RequestPttOn(c, suspended, {})
    BY <1>8, <2>2, SameTold DEF TxAudioFrame
  <2>. QED
    BY <2>1, <2>2
<1>. QED
  BY <1>1, <1>2, <1>3, <1>4, <1>5, <1>6, <1>7, <1>8 DEF ClientEvent

LEMMA LinkTold ==
    ASSUME TypeOK, ToldTruth, UNCHANGED <<clients, config>>,
           RadioOffline \/ RadioOnline \/ NoOnlineSignal
    PROVE  ToldTruth'
<1>1. CASE \E online \in BOOLEAN : StopTransmit(online)
  BY <1>1, StopTold
<1>2. CASE UNCHANGED <<told, ptt, pendingUnkey>>
  BY <1>2 DEF ToldTruth
<1>3. CASE RadioOnline
  <2>1. \A c \in clients : told'[c] = (ptt /\ ~pendingUnkey)
    BY <1>3, ToldEach DEF RadioOnline
  <2>2. CASE pendingUnkey
    BY <1>3, <2>1, <2>2 DEF RadioOnline, CallRadio, ToldTruth
  <2>3. CASE ~pendingUnkey
    <3>1. ptt' = ptt /\ ptt \in BOOLEAN
      BY <1>3, <2>3 DEF RadioOnline, TypeOK
    <3>. QED
      BY <2>1, <2>3, <3>1 DEF ToldTruth
  <2>. QED
    BY <2>2, <2>3
<1>. QED
  BY <1>1, <1>2, <1>3 DEF RadioOffline, NoOnlineSignal

LEMMA RadioTold ==
    ASSUME TypeOK, ToldTruth, NEW b \in BOOLEAN, RadioSignal(b), UNCHANGED fixed
    PROVE  ToldTruth'
<1>1. CASE OnPttChanged(b)
  <2>1. /\ ptt' = b /\ Tell(IF ptt = b THEN {} ELSE clients, b)
        /\ UNCHANGED <<clients, pendingUnkey>>
    BY <1>1 DEF OnPttChanged, ShadowPtt
  <2>2. CASE ptt = b
    <3>1. \A c \in clients : told'[c] = told[c]
      BY <2>1, <2>2, ToldEach
    <3>. QED
      BY <2>1, <2>2, <3>1 DEF ToldTruth
  <2>3. CASE ptt # b
    <3>1. \A c \in clients : told'[c] = b
      BY <2>1, <2>3, ToldEach
    <3>. QED
      BY <2>1, <3>1 DEF ToldTruth
  <2>. QED
    BY <2>2, <2>3
<1>2. CASE OnConnectedChanged(b)
  BY <1>2, LinkTold DEF OnConnectedChanged
<1>3. CASE OnRadioUsableChanged(b)
  BY <1>3, LinkTold DEF OnRadioUsableChanged
<1>. QED
  BY <1>1, <1>2, <1>3 DEF RadioSignal

LEMMA SlotTold ==
    ASSUME TypeOK, ToldTruth, Slot
    PROVE  ToldTruth'
<1>1. CASE \E c \in Clients : ClientEvent(c)
  BY <1>1, ClientTold DEF Slot
<1>2. CASE \E b \in BOOLEAN : RadioSignal(b)
  BY <1>2, RadioTold DEF Slot
<1>3. CASE StopTransmit(Online) /\ UNCHANGED <<clients, link>>
  BY <1>3, StopTold
<1>4. CASE UNCHANGED <<config, clients, told, ptt, pendingUnkey>>
  BY <1>4 DEF ToldTruth
<1>. QED
  BY <1>1, <1>2, <1>3, <1>4 DEF Slot, Tick, Aside, radioVars

LEMMA InitTold == Init => ToldTruth
BY DEF Init, ToldTruth

(* In every behaviour, what a client was last told about trx is what the   *)
(* bridge believes, but for a postponed unkeying and disabled transmit.    *)
THEOREM AlwaysToldTruth == Spec => []ToldTruth
BY InitTold, NextIsSlot, SlotTold, TypeCorrect, PTL DEF Spec

-----------------------------------------------------------------------------
(***************************************************************************)
(* The action properties.                                                  *)
(***************************************************************************)

LEMMA SlotSteps ==
    ASSUME TypeOK, Slot
    PROVE  [T!Next]_T!tVars
<1>1. CASE \E c \in Clients : ClientEvent(c)
  BY <1>1, ClientSteps
<1>2. CASE \E b \in BOOLEAN : RadioSignal(b)
  BY <1>2, RadioSteps
<1>3. CASE StopTransmit(Online)
  BY <1>3, StopSteps
<1>4. CASE Tick
  <2>1. watchdog # 0 /\ watchdog' # 0
    BY <1>4 DEF Tick, TypeOK
  <2>. QED
    BY <1>4, <2>1, IsQuiet DEF Tick, radioVars
<1>5. CASE Aside
  BY <1>5, IsQuiet DEF Aside
<1>. QED
  BY <1>1, <1>2, <1>3, <1>4, <1>5 DEF Slot

LEMMA InitSteps == Init => T!Init
<1> SUFFICES ASSUME Init PROVE T!Init
  OBVIOUS
<1>1. /\ asked = FALSE /\ watchdog = 0 /\ txOwner = NoClient
      /\ pendingUnkey \in BOOLEAN
  BY DEF Init, RadioInit
<1>. QED
  BY <1>1 DEF T!Init, T!Off

(* Whatever clients, timers, the radio and the sound devices do, every     *)
(* slot of the server takes the transmitter through a step of Transmission *)
(* or leaves it alone.                                                     *)
THEOREM ServerImplements == Spec => Implements
BY InitSteps, NextIsSlot, SlotSteps, TypeCorrect, PTL
DEF Spec, Implements, T!Spec

\* The owner of the TX audio changes only from or to nobody.
LEMMA AudioOwnerSteps ==
    ASSUME Slot, txAudioOwner # txAudioOwner'
    PROVE  NoClient \in {txAudioOwner, txAudioOwner'}
<1>1. CASE \E c \in Clients : ClientEvent(c)
  <2>1. PICK c \in Clients : ClientEvent(c)
    BY <1>1
  <2>. QED
    BY <2>1
    DEF ClientEvent, OnNewConnection, OnSocketDisconnected, QueryState, TrxOn,
        TrxOff, TxAudioStart, TxAudioStop, TxAudioFrame, StopTransmit
<1>2. CASE \E b \in BOOLEAN : RadioSignal(b)
  BY <1>2
  DEF RadioSignal, OnPttChanged, OnConnectedChanged, OnRadioUsableChanged,
      RadioOffline, RadioOnline, NoOnlineSignal, StopTransmit
<1>3. CASE StopTransmit(Online) \/ Tick \/ Aside
  BY <1>3 DEF Tick, Aside, StopTransmit
<1>. QED
  BY <1>1, <1>2, <1>3 DEF Slot

\* The bodies of the three action properties.
NothingStolen ==
    /\ txOwner # txOwner' => NoClient \in {txOwner, txOwner'}
    /\ txAudioOwner # txAudioOwner' => NoClient \in {txAudioOwner, txAudioOwner'}

LossUnkeys ==
    config.unkeyOnDisconnect /\ txOwner \in clients \ clients'
        => ~asked' \/ pendingUnkey'

PendingDone ==
    pendingUnkey /\ ~pendingUnkey'
        => /\ ~asked' /\ ~ptt'
           /\ txOwner' = NoClient
           /\ requests' # <<>>
           /\ requests'[Len(requests')] = [op |-> "ptt", on |-> FALSE]

LEMMA SlotSteals ==
    ASSUME TypeOK, Slot
    PROVE  NothingStolen
<1>1. txOwner # txOwner' => NoClient \in {txOwner, txOwner'}
  BY SlotSteps
  DEF T!Next, T!Key, T!Prolong, T!Leave, T!End, T!Postpone, T!tVars
<1>. QED
  BY <1>1, AudioOwnerSteps DEF NothingStolen

(* No step hands the transmission or the audio stream from one client to   *)
(* another.  For the transmission this follows from Transmission.          *)
THEOREM NeverStolen == Spec => NoSteal
<1>1. TypeOK /\ [Next]_vars => [NothingStolen]_vars
  BY NextIsSlot, SlotSteals
<1>. QED
  BY <1>1, TypeCorrect, PTL DEF Spec, NoSteal, NothingStolen

LEMMA SlotLoses ==
    ASSUME Slot
    PROVE  LossUnkeys
<1> SUFFICES ASSUME config.unkeyOnDisconnect, txOwner \in clients,
                    txOwner \notin clients'
             PROVE  ~asked' \/ pendingUnkey'
  BY DEF LossUnkeys
<1>1. PICK c \in Clients : ClientEvent(c)
  BY DEF Slot, RadioSignal, OnPttChanged, OnConnectedChanged,
      OnRadioUsableChanged, Tick, Aside
<1>2. OnSocketDisconnected(c)
  BY <1>1
  DEF ClientEvent, OnNewConnection, QueryState, TrxOn, TrxOff,
      TxAudioStart, TxAudioStop, TxAudioFrame
<1>3. StopTransmit(Online)
  BY <1>2 DEF OnSocketDisconnected
<1>. QED
  BY <1>3 DEF StopTransmit, CallRadio

(* When the client that keyed the radio disconnects and the configuration  *)
(* asks for it, the same step unkeys or schedules the unkeying.            *)
THEOREM OwnerLossAlwaysUnkeys == Spec => OwnerLossUnkeys
<1>1. TypeOK /\ [Next]_vars => [LossUnkeys]_vars
  BY NextIsSlot, SlotLoses
<1>. QED
  BY <1>1, TypeCorrect, PTL DEF Spec, OwnerLossUnkeys, LossUnkeys

\* Only the radio's return makes a pending unkey disappear.
LEMMA PendingSteps ==
    ASSUME TypeOK, Slot, pendingUnkey, ~pendingUnkey'
    PROVE  RadioOnline /\ backend = "rigctld"
<1>1. ~(\E c \in Clients : ClientEvent(c))
  BY DEF ClientEvent, OnNewConnection, OnSocketDisconnected,
      QueryState, TrxOn, TrxOff, TxAudioStart, TxAudioStop, TxAudioFrame,
      StopTransmit
<1>2. ~StopTransmit(Online) /\ ~Tick /\ ~Aside
  BY DEF Tick, Aside, StopTransmit
<1>. QED
  BY <1>1, <1>2
  DEF Slot, RadioSignal, OnPttChanged, OnConnectedChanged,
      OnRadioUsableChanged, RadioOffline, NoOnlineSignal, StopTransmit

LEMMA ConcatSeq ==
    ASSUME NEW S, NEW q \in Seq(S), NEW r \in Seq(S)
    PROVE  q \o r \in Seq(S)
OBVIOUS

LEMMA SlotKeepsPending ==
    ASSUME TypeOK, Slot
    PROVE  PendingDone
<1> SUFFICES ASSUME pendingUnkey, ~pendingUnkey'
             PROVE  /\ ~asked' /\ ~ptt'
                    /\ txOwner' = NoClient
                    /\ requests' # <<>>
                    /\ requests'[Len(requests')] = [op |-> "ptt", on |-> FALSE]
  BY DEF PendingDone
<1>. DEFINE off == [op |-> "ptt", on |-> FALSE]
            q == requests \o SuspendRequest(FALSE)
<1>1. RadioOnline /\ backend = "rigctld"
  BY PendingSteps
<1>2. txOwner' = NoClient /\ CallRadio(FALSE, FALSE)
  BY <1>1 DEF RadioOnline
<1>3. ~asked' /\ ~ptt'
  BY <1>2 DEF CallRadio
<1>4. requests' = q \o <<off>>
  BY <1>1, <1>2 DEF CallRadio, Queued
<1>5. q \in Seq(Request)
  <2>1. [op |-> "suspend", on |-> FALSE] \in Request
    BY DEF Request
  <2>2. SuspendRequest(FALSE) \in Seq(Request)
    BY <2>1 DEF SuspendRequest, Queued
  <2>3. requests \in Seq(Request)
    BY DEF TypeOK
  <2>. QED
    BY <2>2, <2>3, ConcatSeq
<1>6. requests' # <<>> /\ requests'[Len(requests')] = off
  <2>. HIDE DEF q, off
  <2>1. Len(requests') = Len(q) + 1 /\ requests'[Len(q) + 1] = off
    BY <1>4, <1>5
  <2>. QED
    BY <1>4, <1>5, <2>1
<1>. QED
  BY <1>2, <1>3, <1>6

(* A pending unkey disappears only by being carried out: the last request  *)
(* queued for the worker is then "off", and nobody owns the transmission.  *)
THEOREM PendingAlwaysKept == Spec => PendingKept
<1>1. TypeOK /\ [Next]_vars => [PendingDone]_vars
  BY NextIsSlot, SlotKeepsPending
<1>. QED
  BY <1>1, TypeCorrect, PTL DEF Spec, PendingKept, PendingDone
=============================================================================
