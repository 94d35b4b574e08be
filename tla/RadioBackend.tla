---------------------------- MODULE RadioBackend ----------------------------
(***************************************************************************)
(* The main-thread half of a radio backend (RigctldBackend.cpp,            *)
(* NullRadioBackend.cpp): the state the bridge BELIEVES the radio is in.   *)
(* The rigctld backend never waits for the radio.  setPtt changes the      *)
(* believed PTT at once and queues a request to the worker thread; what    *)
(* the worker finds out later comes back as queued signals, which the      *)
(* update operators below apply.                                           *)
(*                                                                         *)
(* TciServer calls these operators directly, on the same thread, so the    *)
(* server's actions conjoin them.  A handler makes at most one change of   *)
(* the polling suspension, then at most one PTT call, in that order:       *)
(* CallSuspend and CallRadio stand for the two kinds of handler.           *)
(*                                                                         *)
(* Frequency, mode and split, whose shadow copies work the same way, are   *)
(* modelled in CatLink.                                                    *)
(***************************************************************************)
EXTENDS Naturals, Sequences

CONSTANT MaxBacklog   \* bound: a main-thread event starts only when at most
                      \* this many requests wait for the worker

ASSUME BacklogAssumption == MaxBacklog \in Nat

VARIABLES
    backend,      \* which backend was configured: "null" or "rigctld"; fixed
    ptt,          \* ptt_: the believed PTT state
    connected,    \* connected_: the worker reported a TCP connection
    usable,       \* radio_usable_: the worker reported successful polls
    suspended,    \* polling_suspended_
    requests,     \* queued signals to the worker, oldest first
    asked         \* history: the argument of the last setPtt call

link == <<connected, usable>>
radioVars == <<backend, ptt, connected, usable, suspended, requests, asked>>

Request == [op : {"ptt", "suspend", "stop"}, on : BOOLEAN]

Online == connected /\ usable

-----------------------------------------------------------------------------
(***************************************************************************)
(* The null backend has no worker; the believed state is all it has, and   *)
(* it is always online.                                                    *)
(***************************************************************************)
RadioInit ==
    /\ ptt = FALSE
    /\ suspended = FALSE
    /\ requests = <<>>
    /\ asked = FALSE
    /\ connected = (backend = "null")
    /\ usable = (backend = "null")

Queued(op, on) ==
    IF backend = "rigctld" THEN <<[op |-> op, on |-> on]>> ELSE <<>>

\* setPollingSuspended: a call that changes nothing is not passed on.
SuspendRequest(s) == IF s = suspended THEN <<>> ELSE Queued("suspend", s)

CallSuspend(s) ==
    /\ suspended' = s
    /\ requests' = requests \o SuspendRequest(s)
    /\ UNCHANGED <<ptt, asked>>

\* Mutant: a PTT request is queued only when the believed state changes.
CallRadioIfChanged(s, on) ==
    /\ suspended' = s
    /\ ptt' = on
    /\ asked' = on
    /\ requests' = requests \o SuspendRequest(s)
                      \o IF on = ptt THEN <<>> ELSE Queued("ptt", on)

\* setPollingSuspended(s) followed by setPtt(on).  The PTT request is queued
\* even when the believed state does not change.
CallRadio(s, on) ==
    /\ suspended' = s
    /\ ptt' = on
    /\ asked' = on
    /\ requests' = requests \o SuspendRequest(s) \o Queued("ptt", on)

-----------------------------------------------------------------------------
(***************************************************************************)
(* Signals of the worker, as the backend's slots apply them: a report of   *)
(* what is believed already has no effect, and a lost connection takes     *)
(* the usability of the radio with it.                                     *)
(***************************************************************************)
\* Mutant: a PTT report is ignored while requests are under way.
ShadowPttIfIdle(b) ==
    /\ ptt' = IF requests = <<>> THEN b ELSE ptt
    /\ UNCHANGED <<connected, usable, suspended, requests, asked>>

ShadowPtt(b) ==
    /\ ptt' = b
    /\ UNCHANGED <<connected, usable, suspended, requests, asked>>

\* Mutant: losing the connection leaves the radio usable.
ShadowConnectedOnly(b) ==
    /\ connected' = b
    /\ UNCHANGED usable

ShadowConnected(b) ==
    /\ connected' = b
    /\ usable' = (usable /\ (b \/ ~connected))

ShadowUsable(b) ==
    /\ usable' = b
    /\ UNCHANGED connected

\* The worker thread takes the oldest request.
WorkerTakes ==
    /\ requests # <<>>
    /\ requests' = Tail(requests)

Room == Len(requests) <= MaxBacklog
=============================================================================
