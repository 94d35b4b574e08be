-------------------------- MODULE TxDurationProofs --------------------------
(***************************************************************************)
(* Proof that a transmission outlives its last renewal by less than the    *)
(* limit, for every set of clients, every limit and every configuration.   *)
(* The invariant behind it: what the watchdog has left and what has passed *)
(* in silence never exceed the limit together.                             *)
(***************************************************************************)
EXTENDS TxDuration, TciServerProofs

Budget ==
    /\ silence \in 0 .. MaxOnAir
    /\ watchdog # 0 => silence + watchdog <= MaxTx

TimedInv == TypeOK /\ Safety /\ Budget

-----------------------------------------------------------------------------
\* Apart from the Ticks, only a renewal leaves the watchdog longer.
LEMMA OnlyRenewals ==
    ASSUME TypeOK, ClientStep \/ RadioStep \/ DeviceStep \/ WorkerStep
    PROVE  watchdog' \in {0, watchdog} \/ (Renewal /\ watchdog' = MaxTx)
<1>1. CASE ClientStep
  <2>1. PICK c \in Clients : ClientEvent(c)
    BY <1>1 DEF ClientStep
  <2>2. CASE TrxOn(c) \/ TxAudioStart(c) \/ TxAudioFrame(c)
    <3>1. watchdog' \in {watchdog, MaxTx}
      BY <2>2
      DEF TrxOn, TxAudioStart, TxAudioFrame, RequestPttOn
    <3>2. watchdog' = MaxTx => Renewal
      BY <2>2 DEF Renewal
    <3>. QED
      BY <3>1, <3>2
  <2>3. CASE ~(TrxOn(c) \/ TxAudioStart(c) \/ TxAudioFrame(c))
    BY <2>1, <2>3
    DEF ClientEvent, OnNewConnection, OnSocketDisconnected, QueryState,
        TrxOff, TxAudioStop, StopTransmit, RequestPttOff
  <2>. QED
    BY <2>2, <2>3
<1>2. CASE RadioStep
  BY <1>2
  DEF RadioStep, RadioSignal, OnPttChanged, OnConnectedChanged,
      OnRadioUsableChanged, RadioOffline, RadioOnline, NoOnlineSignal,
      StopTransmit
<1>3. CASE DeviceStep \/ WorkerStep
  BY <1>3 DEF DeviceStep, WorkerStep, ForceUnkey, TakeRequest, StopTransmit
<1>. QED
  BY <1>1, <1>2, <1>3

LEMMA BudgetPasses ==
    ASSUME TimedInv, Passes
    PROVE  Budget'
<1>. /\ watchdog \in Nat /\ watchdog <= MaxTx
     /\ MaxTx \in Nat /\ MaxOnAir \in Nat /\ MaxOnAir > MaxTx
     /\ silence \in 0 .. MaxOnAir
  BY ServerAssumption, OnAirAssumption DEF TimedInv, TypeOK, Budget
<1>1. silence' = IF silence < MaxOnAir THEN silence + 1 ELSE silence
  BY DEF Passes, Advance
<1>2. CASE Tick
  <2>1. watchdog > 1 /\ watchdog' = watchdog - 1
    BY <1>2 DEF Tick
  <2>2. silence + watchdog <= MaxTx
    BY <2>1 DEF TimedInv, Budget
  <2>. QED
    BY <1>1, <2>1, <2>2 DEF Budget
<1>3. CASE OnTxWatchdogExpired
  <2>1. watchdog' = 0
    BY <1>3 DEF OnTxWatchdogExpired, StopTransmit
  <2>. QED
    BY <1>1, <2>1 DEF Budget
<1>. QED
  BY <1>2, <1>3 DEF Passes, TimerStep

LEMMA BudgetHappens ==
    ASSUME TimedInv, Happens
    PROVE  Budget'
<1>0. /\ watchdog \in Nat /\ watchdog <= MaxTx
      /\ MaxTx \in Nat /\ MaxOnAir \in Nat
      /\ silence \in 0 .. MaxOnAir
  BY ServerAssumption, OnAirAssumption DEF TimedInv, TypeOK, Budget
<1>1. watchdog' \in {0, watchdog} \/ (Renewal /\ watchdog' = MaxTx)
  BY OnlyRenewals DEF Happens, TimedInv
<1>2. silence' = IF Renewal THEN 0 ELSE silence
  BY DEF Happens
<1>3. CASE Renewal /\ watchdog' = MaxTx
  <2>1. silence' = 0
    BY <1>2, <1>3, Zenon
  <2>2. silence' \in 0 .. MaxOnAir /\ silence' + watchdog' <= MaxTx
    BY <1>0, <1>3, <2>1
  <2>. QED
    BY <2>2 DEF Budget
<1>4. CASE watchdog' \in {0, watchdog}
  <2>1. silence' \in {0, silence}
    BY <1>2, Zenon
  <2>2. silence' \in 0 .. MaxOnAir
    BY <1>0, <2>1
  <2>3. ASSUME watchdog' # 0 PROVE silence' + watchdog' <= MaxTx
    <3>1. watchdog' = watchdog /\ watchdog # 0
      BY <1>4, <2>3
    <3>2. silence + watchdog <= MaxTx
      BY <3>1 DEF TimedInv, Budget
    <3>3. CASE silence' = silence
      BY <3>1, <3>2, <3>3
    <3>4. CASE silence' = 0
      <4>1. silence' + watchdog' = 0 + watchdog
        BY <3>1, <3>4
      <4>. QED
        BY <1>0, <4>1
    <3>. QED
      BY <2>1, <3>3, <3>4
  <2>. QED
    BY <2>2, <2>3 DEF Budget
<1>. QED
  BY <1>1, <1>3, <1>4

LEMMA TimedInvKept ==
    ASSUME TimedInv, [Passes \/ Happens]_timedVars
    PROVE  TimedInv'
<1>1. [Next]_vars
  BY DEF Passes, Happens, Next, timedVars
<1>2. TypeOK' /\ Safety'
  BY <1>1, TypesKept, SafetyKept DEF TimedInv
<1>3. CASE Passes
  BY <1>2, <1>3, BudgetPasses DEF TimedInv
<1>4. CASE Happens
  BY <1>2, <1>4, BudgetHappens DEF TimedInv
<1>5. CASE UNCHANGED timedVars
  BY <1>2, <1>5 DEF TimedInv, Budget, timedVars, vars
<1>. QED
  BY <1>3, <1>4, <1>5

(* Whatever clients, the radio and the devices do, a transmission that is  *)
(* still asked for was renewed less than MaxTx ago, or its unkeying is     *)
(* pending.                                                                *)
THEOREM SilenceLimited == TimedSpec => []SilenceLimit
<1>1. TimedInit => TimedInv
  <2> SUFFICES ASSUME TimedInit PROVE TimedInv
    OBVIOUS
  <2>1. Init /\ silence = 0 /\ watchdog = 0
    BY DEF TimedInit, Init
  <2>. QED
    BY <2>1, InitTypes, InitSafe, OnAirAssumption DEF TimedInv, Budget
<1>2. TimedInv => SilenceLimit
  <2> SUFFICES ASSUME TimedInv, asked, ~pendingUnkey PROVE silence < MaxTx
    BY DEF SilenceLimit
  <2>1. watchdog # 0
    BY DEF TimedInv, Safety, PttGuarded
  <2>2. watchdog \in Nat /\ MaxTx \in Nat /\ silence \in Nat
    BY ServerAssumption, OnAirAssumption DEF TimedInv, TypeOK, Budget
  <2>. QED
    BY <2>1, <2>2 DEF TimedInv, Budget
<1>. QED
  BY <1>1, <1>2, TimedInvKept, PTL DEF TimedSpec
=============================================================================
