----------------------------- MODULE TxDuration -----------------------------
(***************************************************************************)
(* How long a transmission lasts: TciServer with two stop watches beside   *)
(* it.  They advance with the Ticks of the watchdog, the only clock there  *)
(* is while a transmission is supervised, and influence nothing.           *)
(***************************************************************************)
EXTENDS TciServer

CONSTANT MaxOnAir     \* bound: onAir stops counting here

ASSUME OnAirAssumption == MaxOnAir \in Nat /\ MaxOnAir > MaxTx

VARIABLES
    onAir,        \* Ticks since PTT was asked for without interruption
    silence       \* Ticks since a client last keyed or sent a TX frame

timedVars == <<vars, onAir, silence>>

\* Client steps that (re)start the watchdog.
Renewal ==
    \E c \in Clients :
        /\ \/ TrxOn(c)
           \/ TxAudioStart(c)
           \/ TxAudioFrame(c)
        /\ watchdog' = MaxTx

Advance(n) == IF n < MaxOnAir THEN n + 1 ELSE n

TimedInit == Init /\ onAir = 0 /\ silence = 0

Passes ==
    /\ TimerStep
    /\ onAir' = IF asked' THEN Advance(onAir) ELSE 0
    /\ silence' = Advance(silence)

Happens ==
    /\ ClientStep \/ RadioStep \/ DeviceStep \/ WorkerStep
    /\ onAir' = IF asked' THEN onAir ELSE 0
    /\ silence' = IF Renewal THEN 0 ELSE silence

TimedSpec ==
    /\ TimedInit /\ [][Passes \/ Happens]_timedVars
    /\ WF_timedVars(Passes)
    /\ WF_timedVars(WorkerStep /\ Happens)

-----------------------------------------------------------------------------
(* However the clients, the radio and the devices behave, a transmission   *)
(* outlives the last key-on or TX frame by less than the limit, or an      *)
(* unkeying is pending.  Nothing but these renews the watchdog.            *)
(* (armTxWatchdog, onTxWatchdogExpired)                                    *)
SilenceLimit == asked => silence < MaxTx \/ pendingUnkey

(* docs/protocol-subset.md:307: "If PTT remains on longer than this limit, *)
(* the bridge forces PTT off."  The limit is restarted by every TX audio   *)
(* frame and every repeated trx:0,true.                                    *)
DurationLimit == asked => onAir <= MaxTx \/ pendingUnkey
=============================================================================
