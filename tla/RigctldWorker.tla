---------------------------- MODULE RigctldWorker ----------------------------
(***************************************************************************)
(* The worker thread of the rigctld backend (RigctldWorker.cpp) and the    *)
(* radio behind it.  The thread runs one slot at a time: a queued request  *)
(* of the main thread, or a poll, which is a chain of blocking exchanges   *)
(* with rigctld (f, m, t, and once i, s).  Each exchange is one action:    *)
(* between two of them the main thread and the radio move on, while the    *)
(* requests wait.                                                          *)
(*                                                                         *)
(* rigctld is modelled by how an exchange can end:                         *)
(*   unreachable  no connection could be made (waitForConnected)           *)
(*   broken       the command could not be written: the socket is aborted  *)
(*   silent       no answer in time; the command may have been executed    *)
(*   refused      an error or an unreadable answer; not executed           *)
(*   done         executed and answered                                    *)
(* Frequencies and modes are read and dropped here; the order and the      *)
(* failures of reading them are kept.                                      *)
(*                                                                         *)
(* With the main-thread half (RadioBackend) the worker shares the queue of *)
(* requests and nothing else.                                              *)
(***************************************************************************)
EXTENDS RadioBackend

CONSTANTS
    MaxFailures,  \* max_consecutive_poll_failures_
    MaxSignals,   \* bound: a slot starts when at most so many signals wait
    FaultKinds,   \* which misbehaviours of rigctld or the connection occur
    MaxFaults,    \* bound: how often they occur
    MaxHand       \* bound: how often the operator keys the radio by hand

ASSUME WorkerAssumption ==
    /\ MaxFailures \in Nat \ {0}
    /\ FaultKinds \subseteq {"broken", "silent", "refused", "down"}
    /\ {MaxSignals, MaxFaults, MaxHand} \subseteq Nat

VARIABLES
    signals,         \* queued signals to the main thread, oldest first
    at,              \* the exchange the poll comes to next; "idle" otherwise
    wConnected,      \* connected_
    wUsable,         \* radio_usable_
    wPtt,            \* ptt_: the PTT state last confirmed or polled
    wSuspended,      \* polling_suspended_
    failures,        \* consecutive_poll_failures_
    allOk,           \* freqOk && modeOk of the poll under way
    optionalPolled,  \* optional_state_polled_
    socketUp,        \* socket_->state() == ConnectedState
    reachable,       \* rigctld accepts connections
    rigPtt,          \* the radio transmits
    writeFailed,     \* history: some exchange was "broken"
    faults, hands    \* bounds: misbehaviours and manual keyings so far

workerVars == <<at, wConnected, wUsable, wPtt, wSuspended, failures, allOk,
                optionalPolled, socketUp, reachable, rigPtt, writeFailed,
                faults, hands>>
wVars == <<requests, signals, workerVars>>

Signal == [op : {"ptt", "connected", "usable"}, on : BOOLEAN]

WorkerTypeOK ==
    /\ signals \in Seq(Signal)
    /\ at \in {"start", "idle", "f", "m", "t", "i", "s", "stopped"}
    /\ {wConnected, wUsable, wPtt, wSuspended, allOk, optionalPolled,
        socketUp, reachable, rigPtt, writeFailed} \subseteq BOOLEAN
    /\ failures \in 0 .. MaxFailures - 1
    /\ faults \in 0 .. MaxFaults
    /\ hands \in 0 .. MaxHand

WorkerInit ==
    /\ signals = <<>>
    /\ at = "start"
    /\ wConnected = FALSE
    /\ wUsable = FALSE
    /\ wPtt = FALSE
    /\ wSuspended = FALSE
    /\ failures = 0
    /\ allOk = FALSE
    /\ optionalPolled = FALSE
    /\ socketUp = FALSE
    /\ reachable \in BOOLEAN
    /\ rigPtt = FALSE
    /\ writeFailed = FALSE
    /\ faults = 0
    /\ hands = 0

-----------------------------------------------------------------------------
(***************************************************************************)
(* transactLines, ensureConnected included: how exchange ending o leaves   *)
(* the connection, and the signals this emits.  A write failure takes the  *)
(* connection down without a word about the usability of the radio.        *)
(***************************************************************************)
Endings == {"unreachable", "broken", "silent", "refused", "done"}

Ends(o) ==
    /\ o = "unreachable" <=> ~socketUp /\ ~reachable
    /\ writeFailed' = (writeFailed \/ o = "broken")
    /\ \/ o \in {"unreachable", "done"} /\ UNCHANGED faults
       \/ o \in FaultKinds /\ faults < MaxFaults /\ faults' = faults + 1

\* Mutants of Dropped, UsableAfter and LinkSignals: nothing is emitted; the
\* radio stays usable; a new connection is not reported.
DroppedSilently(op, was) == <<>>
UsableKept(o) == wUsable

Emit(op, on) == <<[op |-> op, on |-> on]>>
Dropped(op, was) == IF was THEN Emit(op, FALSE) ELSE <<>>

UpAfter(o) == o \in {"silent", "refused", "done"}
UsableAfter(o) == wUsable /\ o # "unreachable"

LinkSignalsQuiet(o) ==
    IF o = "unreachable"
    THEN Dropped("usable", wUsable) \o Dropped("connected", wConnected)
    ELSE Dropped("connected", o = "broken")

LinkSignals(o) ==
    IF o = "unreachable"
    THEN Dropped("usable", wUsable) \o Dropped("connected", wConnected)
    ELSE (IF socketUp THEN <<>> ELSE Emit("connected", TRUE))
           \o Dropped("connected", o = "broken")

Link(o) ==
    /\ Ends(o)
    /\ socketUp' = UpAfter(o)
    /\ wConnected' = UpAfter(o)
    /\ wUsable' = UsableAfter(o)

\* A slot starts, or a poll goes on, while the main thread keeps up.
Ready(S) == at \in S /\ Len(signals) <= MaxSignals

\* Mutant: the radio is given up one failure later.
GiveUpLate == failures >= MaxFailures

GiveUp == failures + 1 >= MaxFailures

(***************************************************************************)
(* A poll exchange that fails: notePollFailure.  At MaxFailures in a row   *)
(* the radio is given up and the connection is aborted (forceReconnect).   *)
(***************************************************************************)
NotePollFailure(o) ==
    /\ o # "done"
    /\ UNCHANGED wPtt
    /\ \/ /\ ~GiveUp
          /\ Link(o)
          /\ failures' = failures + 1
          /\ signals' = signals \o LinkSignals(o)
       \/ /\ GiveUp
          /\ Ends(o)
          /\ failures' = 0
          /\ socketUp' = FALSE
          /\ wConnected' = FALSE
          /\ wUsable' = FALSE
          /\ signals' = signals \o LinkSignals(o)
                          \o Dropped("usable", UsableAfter(o))
                          \o Dropped("connected", UpAfter(o))

-----------------------------------------------------------------------------
\* start(): connect, then poll at once.
Start(o) ==
    /\ Ready({"start"})
    /\ at' = "f"
    /\ o \in {"unreachable", "done"}
    /\ Link(o)
    /\ signals' = signals \o LinkSignals(o)
    /\ UNCHANGED <<requests, wPtt, wSuspended, failures, allOk,
                   optionalPolled, reachable, rigPtt, hands>>

\* poll() begins: by start(), or by the timer unless polling is suspended.
PollFrequency(o) ==
    /\ Ready({"f"}) \/ (Ready({"idle"}) /\ ~wSuspended)
    /\ at' = "m"
    /\ allOk' = (o = "done")
    /\ \/ NotePollFailure(o)
       \/ /\ o = "done"
          /\ Link(o)
          /\ signals' = signals \o LinkSignals(o)
          /\ UNCHANGED <<wPtt, failures>>
    /\ UNCHANGED <<requests, wSuspended, optionalPolled, reachable, rigPtt,
                   hands>>

(***************************************************************************)
(* Any line is a mode to pollMode: an error answer counts as a success     *)
(* (CatLink shows what becomes of it), only silence is a failure.          *)
(***************************************************************************)
PollMode(o) ==
    /\ Ready({"m"})
    /\ at' = "t"
    /\ allOk' = (allOk /\ o \in {"refused", "done"})
    /\ \/ o # "refused" /\ NotePollFailure(o)
       \/ /\ o \in {"refused", "done"}
          /\ Link(o)
          /\ signals' = signals \o LinkSignals(o)
          /\ UNCHANGED <<wPtt, failures>>
    /\ UNCHANGED <<requests, wSuspended, optionalPolled, reachable, rigPtt,
                   hands>>

(***************************************************************************)
(* The PTT state is reported only when it differs from the worker's own    *)
(* copy.  If all three exchanges succeeded the radio is usable again.      *)
(***************************************************************************)
PollPtt(o) ==
    /\ Ready({"t"})
    /\ \/ NotePollFailure(o)
       \/ /\ o = "done"
          /\ Ends(o)
          /\ socketUp' = TRUE
          /\ wConnected' = TRUE
          /\ wPtt' = rigPtt
          /\ wUsable' = (wUsable \/ allOk)
          /\ failures' = IF allOk THEN 0 ELSE failures
          /\ signals' = signals \o LinkSignals(o)
                \o (IF wPtt # rigPtt THEN Emit("ptt", rigPtt) ELSE <<>>)
                \o (IF allOk /\ ~wUsable THEN Emit("usable", TRUE) ELSE <<>>)
    /\ optionalPolled' = (optionalPolled \/ wUsable')
    /\ at' = IF optionalPolled' # optionalPolled THEN "i" ELSE "idle"
    /\ UNCHANGED <<requests, wSuspended, allOk, reachable, rigPtt, hands>>

\* pollOptionalStateOnce(): TX frequency, then split; failures do not count.
PollOptional(o) ==
    /\ Ready({"i", "s"})
    /\ at' = IF at = "i" THEN "s" ELSE "idle"
    /\ Link(o)
    /\ signals' = signals \o LinkSignals(o)
    /\ UNCHANGED <<requests, wPtt, wSuspended, failures, allOk,
                   optionalPolled, reachable, rigPtt, hands>>

-----------------------------------------------------------------------------
Takes(op) ==
    /\ Ready({"idle"})
    /\ requests # <<>>
    /\ Head(requests).op = op
    /\ requests' = Tail(requests)

\* Only an answered command changes the worker's copy; nothing is retried.
SetPtt(o) ==
    /\ Takes("ptt")
    /\ Link(o)
    /\ LET on == Head(requests).on IN
       /\ rigPtt' \in CASE o = "done"   -> {on}
                        [] o = "silent" -> {rigPtt, on}
                        [] OTHER        -> {rigPtt}
       /\ wPtt' = IF o = "done" THEN on ELSE wPtt
       /\ signals' = signals \o LinkSignals(o)
                       \o (IF wPtt' # wPtt THEN Emit("ptt", on) ELSE <<>>)
    /\ UNCHANGED <<at, wSuspended, failures, allOk, optionalPolled,
                   reachable, hands>>

SetPollingSuspended ==
    /\ Takes("suspend")
    /\ wSuspended' = Head(requests).on
    /\ UNCHANGED <<signals, at, wConnected, wUsable, wPtt, failures, allOk,
                   optionalPolled, socketUp, reachable, rigPtt, writeFailed,
                   faults, hands>>

\* stop(), behind every request made before it; then the thread ends.
Stop ==
    /\ Takes("stop")
    /\ at' = "stopped"
    /\ socketUp' = FALSE
    /\ wUsable' = FALSE
    /\ wConnected' = FALSE
    /\ signals' = signals \o Dropped("usable", wUsable)
                          \o Dropped("connected", wConnected)
    /\ UNCHANGED <<wPtt, wSuspended, failures, allOk, optionalPolled,
                   reachable, rigPtt, writeFailed, faults, hands>>

-----------------------------------------------------------------------------
(* What happens to the radio and to rigctld by themselves.                 *)

RigctldDown ==
    /\ "down" \in FaultKinds
    /\ faults < MaxFaults
    /\ faults' = faults + 1
    /\ reachable
    /\ reachable' = FALSE
    /\ socketUp' = FALSE
    /\ UNCHANGED <<requests, signals, at, wConnected, wUsable, wPtt,
                   wSuspended, failures, allOk, optionalPolled, rigPtt,
                   writeFailed, hands>>

RigctldUp ==
    /\ ~reachable
    /\ reachable' = TRUE
    /\ UNCHANGED <<requests, signals, at, wConnected, wUsable, wPtt,
                   wSuspended, failures, allOk, optionalPolled, socketUp,
                   rigPtt, writeFailed, faults, hands>>

HandKeys ==
    /\ hands < MaxHand
    /\ hands' = hands + 1
    /\ rigPtt' = ~rigPtt
    /\ UNCHANGED <<requests, signals, at, wConnected, wUsable, wPtt,
                   wSuspended, failures, allOk, optionalPolled, socketUp,
                   reachable, writeFailed, faults>>

-----------------------------------------------------------------------------
Exchange(o) ==
    \/ Start(o)
    \/ PollFrequency(o)
    \/ PollMode(o)
    \/ PollPtt(o)
    \/ PollOptional(o)

Requested ==
    \/ \E o \in Endings : SetPtt(o)
    \/ SetPollingSuspended
    \/ Stop

Environment == RigctldDown \/ RigctldUp \/ HandKeys
=============================================================================
