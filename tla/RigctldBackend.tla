--------------------------- MODULE RigctldBackend ---------------------------
(***************************************************************************)
(* The rigctld backend as a whole (RigctldBackend.cpp): its main-thread    *)
(* half (RadioBackend) and its worker (RigctldWorker), joined by the two   *)
(* queues, under a caller that may key, unkey, suspend and resume as it    *)
(* likes.  What it promises its caller is here; Bridge puts the real       *)
(* caller, TciServer, in place of the arbitrary one.                       *)
(***************************************************************************)
EXTENDS RigctldWorker

shadow == <<ptt, connected, usable, suspended, asked>>
backendVars == <<backend, shadow, wVars>>

BackendInit ==
    /\ backend = "rigctld"
    /\ RadioInit
    /\ WorkerInit

-----------------------------------------------------------------------------
Ending == at = "stopped" \/ \E i \in DOMAIN requests : requests[i].op = "stop"

\* setPtt and setPollingSuspended, called from the main thread.
Call ==
    /\ ~Ending
    /\ Room
    /\ \/ \E on \in BOOLEAN : CallRadio(suspended, on)
       \/ \E s \in BOOLEAN : CallSuspend(s)
    /\ UNCHANGED <<backend, connected, usable, signals, workerVars>>

\* ~RigctldBackend
Close ==
    /\ ~Ending
    /\ requests' = requests \o Queued("stop", TRUE)
    /\ UNCHANGED <<backend, shadow, signals, workerVars>>

\* updatePtt, updateConnected and updateRadioUsable.
Hear ==
    /\ signals # <<>>
    /\ signals' = Tail(signals)
    /\ LET s == Head(signals) IN
       \/ s.op = "ptt" /\ ShadowPtt(s.on)
       \/ /\ s.op = "connected"
          /\ ShadowConnected(s.on)
          /\ UNCHANGED <<ptt, suspended, requests, asked>>
       \/ /\ s.op = "usable"
          /\ ShadowUsable(s.on)
          /\ UNCHANGED <<ptt, suspended, requests, asked>>
    /\ UNCHANGED <<backend, workerVars>>

Poll == (\E o \in Endings : Exchange(o)) /\ UNCHANGED <<backend, shadow>>
Serve == Requested /\ UNCHANGED <<backend, shadow>>
Outside == Environment /\ UNCHANGED <<backend, shadow>>

BackendNext == Call \/ Close \/ Hear \/ Poll \/ Serve \/ Outside

\* Both threads run their event loops.  Strong fairness stands in for the
\* bound on waiting signals, which the program does not have.
BackendSpec ==
    /\ BackendInit /\ [][BackendNext]_backendVars
    /\ WF_backendVars(Hear)
    /\ SF_backendVars(Poll)
    /\ SF_backendVars(Serve)

BackendTypeOK ==
    /\ WorkerTypeOK
    /\ {ptt, connected, usable, suspended, asked} \subseteq BOOLEAN
    /\ requests \in Seq(Request)

-----------------------------------------------------------------------------
Settled == signals = <<>> /\ at \in {"idle", "stopped"}

(* Whatever goes wrong, once every report has been heard the radio is not  *)
(* believed online when the worker has given it up.  (setRadioUsable,      *)
(* forceReconnect, updateConnected)                                        *)
NeverOptimistic == Settled /\ Online => wConnected /\ wUsable

(* As long as no write to rigctld has failed, the belief is exact: what    *)
(* the worker holds to be online is believed online.  (ensureConnected,    *)
(* notePollSuccess, updateRadioUsable)                                     *)
LinkReported ==
    Settled /\ ~writeFailed => (Online <=> wConnected /\ wUsable)

(* An unreachable rigctld is noticed, in whatever state its loss finds the *)
(* worker, unless polling is suspended.  (poll, ensureConnected)           *)
LossNoticed == <>[](~reachable /\ ~suspended) => <>[]~Online

(* When rigctld answers again and no write to it has failed, the radio     *)
(* comes back online by itself.  (notePollFailure, forceReconnect,         *)
(* notePollSuccess)                                                        *)
RadioReturns ==
    <>[](reachable /\ ~suspended /\ ~Ending /\ ~writeFailed)
        => <>[]Online
=============================================================================
