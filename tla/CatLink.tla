------------------------------- MODULE CatLink -------------------------------
(***************************************************************************)
(* Frequency, mode, PTT, TX frequency and split on their way between the   *)
(* clients and the radio: the optimistic copies of the main thread         *)
(* (RigctldBackend.cpp), the copies of the worker (RigctldWorker.cpp), and *)
(* the line protocol with rigctld between the worker and the radio.        *)
(*                                                                         *)
(* The protocol carries no tags.  An answer is told from another by its    *)
(* position only, so that an answer which misses its deadline is read by   *)
(* whatever the worker asks next.  Answers are sequences of lines, and a   *)
(* line is a string to whoever reads it, a number or not: what the worker  *)
(* makes of the wrong answer is in Readable and Value.                     *)
(*                                                                         *)
(* rigctld is external.  It executes commands in order and answers each    *)
(* with one write, which TCP delivers whole.  Failures of the connection   *)
(* itself are the subject of RigctldWorker; here it can always be made.    *)
(***************************************************************************)
EXTENDS Naturals, Sequences, SequencesExt

CONSTANTS
    Settable,     \* the fields that change: all by clients, f, m and t also
                  \* by the operator
    MaxFailures,  \* max_consecutive_poll_failures_
    MaxSignals,   \* bound: a command starts when so many signals wait
    MaxSets,      \* bound: how many changes the clients ask for
    MaxLate,      \* bound: how many answers miss their deadline
    MaxRefused,   \* bound: how many commands rigctld answers with an error
    MaxHands      \* bound: how many changes the operator makes

\* f frequency, m mode, t PTT, i TX frequency, s split
Field == {"f", "m", "t", "i", "s"}
Polled == {"f", "m", "t"}

ASSUME CatAssumption ==
    /\ Settable \subseteq Field
    /\ MaxFailures \in Nat \ {0}
    /\ {MaxSignals, MaxSets, MaxLate, MaxRefused, MaxHands} \subseteq Nat

VARIABLES
    belief,          \* RigctldBackend's copies, what clients are told
    requests,        \* queued calls to the worker, oldest first
    signals,         \* queued signals of the worker, oldest first
    worker,          \* RigctldWorker's copies
    next,            \* the query the poll comes to next; "idle" otherwise
    suspended,       \* polling_suspended_
    cmd,             \* the command the worker waits for, or NoCmd
    todo,            \* commands rigctld has not executed yet, oldest first
    inbox,           \* answers the worker has not read yet, oldest first
    rig,             \* the radio
    failures,        \* consecutive_poll_failures_
    allOk,           \* freqOk && modeOk of the poll under way
    usable,          \* radio_usable_
    optionalPolled,  \* optional_state_polled_
    splitWorks,      \* split_set_works_
    wrong,           \* history: fields whose last set failed, and of which
                     \* the worker has had nothing new to report since
    everKeyed,       \* history: at some time the radio has transmitted, or
                     \* a client has asked it to
    sets, late, refused, hands  \* bounds: how often each has happened

mainVars == <<belief, requests>>
copyVars == <<worker, signals, wrong>>
pollVars == <<next, suspended, failures, allOk, usable, optionalPolled>>
lineVars == <<cmd, todo, inbox>>
bounds == <<sets, late, refused, hands>>
catVars == <<mainVars, copyVars, pollVars, lineVars, splitWorks, rig,
             everKeyed, bounds>>

-----------------------------------------------------------------------------
\* What a client may ask for, and what the operator may turn the radio to.
Wishes(x) == CASE x \in {"f", "i"} -> {"7", "14"}
               [] x = "m"          -> {"usb", "digu"}
               [] x \in {"t", "s"} -> {"0", "1"}

Dialled(x) == IF x = "m" THEN {"USB", "PKTUSB"} ELSE Wishes(x)

\* normalizeModeForRigctld, normalizeModeFromRigctld, and their composition.
ForRig(v) ==
    IF v = "usb" THEN "USB" ELSE IF v = "digu" THEN "PKTUSB" ELSE v

FromRig(v) ==
    IF v = "usb" THEN "USB" ELSE IF v = "PKTUSB" THEN "DIGU" ELSE v

AsRead(v) == FromRig(ForRig(v))

Query(x) == [set |-> FALSE, of |-> x, to |-> "", mute |-> FALSE]
Change(x, v) == [set |-> TRUE, of |-> x, to |-> v, mute |-> FALSE]
NoCmd == [set |-> FALSE, of |-> "none", to |-> "", mute |-> FALSE]

\* How rigctld answers command c of radio r when it executes it.
Answer(c, r) ==
    IF c.set THEN <<"RPRT 0">>
    ELSE CASE c.of = "m" -> <<r.m, "2400">>
           [] c.of = "s" -> <<r.s, "VFOB">>
           [] OTHER      -> <<r[c.of]>>

Positive(v) == v \in {"1", "7", "14", "2400"}
Number(v) == v = "0" \/ Positive(v)
Error(v) == v \in {"RPRT 0", "RPRT -1"}

(***************************************************************************)
(* transactLines: these lines end the wait for the answer to c.            *)
(***************************************************************************)
Terminated(c, lines) ==
    \/ \E n \in DOMAIN lines : Error(lines[n])
    \/ ~c.set /\ c.of # "m" /\ lines # <<>>
    \/ ~c.set /\ c.of = "m" /\ Len(lines) >= 2

(***************************************************************************)
(* What the poll functions accept, and what they take it for: frequency    *)
(* and PTT want exactly one line that is a number, TX frequency and split  *)
(* look at the first line only, and any line at all is a mode.             *)
(***************************************************************************)
Readable(x, lines) ==
    /\ lines # <<>>
    /\ x \in {"f", "t"} => Len(lines) = 1
    /\ x \in {"f", "i"} => Positive(lines[1])
    /\ x \in {"t", "s"} => Number(lines[1])

\* Mutant: a polled mode keeps the radio's name.
ValueRaw(x, lines) ==
    CASE x \in {"f", "i", "m"} -> lines[1]
      [] x \in {"t", "s"} -> IF lines[1] = "0" THEN "0" ELSE "1"

Value(x, lines) ==
    CASE x \in {"f", "i"} -> lines[1]
      [] x = "m"          -> FromRig(lines[1])
      [] x \in {"t", "s"} -> IF lines[1] = "0" THEN "0" ELSE "1"

CatInit ==
    /\ belief = [f |-> "0", m |-> "USB", t |-> "0", i |-> "0", s |-> "0"]
    /\ worker = belief
    /\ rig = [f |-> "7", m |-> "USB", t |-> "0", i |-> "14", s |-> "0"]
    /\ requests = <<>>
    /\ signals = <<>>
    /\ todo = <<>>
    /\ inbox = <<>>
    /\ next = "idle"
    /\ suspended = FALSE
    /\ cmd = NoCmd
    /\ failures = 0
    /\ allOk = FALSE
    /\ usable = FALSE
    /\ optionalPolled = FALSE
    /\ splitWorks = TRUE
    /\ wrong = {}
    /\ everKeyed = FALSE
    /\ sets = 0
    /\ late = 0
    /\ refused = 0
    /\ hands = 0

-----------------------------------------------------------------------------
(* The main thread.                                                        *)

(* setFrequencyHz, setMode, setPtt, setTxFrequencyHz and setSplitEnabled:  *)
(* the copy changes at once, and the worker is told in any case.           *)
Set(x, v) ==
    /\ sets < MaxSets
    /\ sets' = sets + 1
    /\ belief' = [belief EXCEPT ![x] = v]
    /\ requests' = Append(requests, Change(x, v))
    /\ everKeyed' = (everKeyed \/ (x = "t" /\ v = "1"))
    /\ UNCHANGED <<copyVars, pollVars, lineVars, splitWorks, rig, late,
                   refused, hands>>

\* updateFrequency, updateMode, updatePtt, updateTxFrequency, updateSplit
Update ==
    /\ signals # <<>>
    /\ LET s == Head(signals) IN belief' = [belief EXCEPT ![s.of] = s.to]
    /\ signals' = Tail(signals)
    /\ UNCHANGED <<requests, worker, wrong, pollVars, lineVars, splitWorks,
                   rig, everKeyed, bounds>>

-----------------------------------------------------------------------------
(* The worker thread.                                                      *)

Report(x, v) == Append(signals, [of |-> x, to |-> v])

\* Mutant: a change is reported when a poll sees it, not when a set makes it.
LearnQuietly(x, v) ==
    /\ worker' = [worker EXCEPT ![x] = v]
    /\ signals' = IF worker[x] = v \/ cmd.set THEN signals ELSE Report(x, v)
    /\ wrong' = IF worker[x] = v \/ cmd.set THEN wrong ELSE wrong \ {x}

\* The copy of field x becomes v; a change is reported.
Learn(x, v) ==
    /\ worker' = [worker EXCEPT ![x] = v]
    /\ signals' = IF worker[x] = v THEN signals ELSE Report(x, v)
    /\ wrong' = IF worker[x] = v THEN wrong ELSE wrong \ {x}

(***************************************************************************)
(* The command is written after what Qt has of older answers is discarded. *)
(* It has taken some of them off the socket, from none to all: the thread  *)
(* does not return to its event loop within a poll.                        *)
(***************************************************************************)
Send(c) ==
    /\ cmd' = c
    /\ todo' = Append(todo, c)
    /\ \E n \in 0 .. Len(inbox) : inbox' = SubSeq(inbox, n + 1, Len(inbox))

Ready == cmd = NoCmd /\ Len(signals) <= MaxSignals

\* The queued call is taken between polls.  When clients begin and end TX
\* audio, which is what suspends and resumes polling, is left open here.
SetPollingSuspended ==
    /\ cmd = NoCmd
    /\ next = "idle"
    /\ suspended' = ~suspended
    /\ UNCHANGED <<mainVars, copyVars, next, failures, allOk, usable,
                   optionalPolled, lineVars, splitWorks, rig, everKeyed,
                   bounds>>

\* poll(): the timer starts it, unless polling is suspended, and each query
\* leads to the next.
SendQuery ==
    /\ Ready
    /\ next = "idle" => ~suspended
    /\ Send(Query(IF next = "idle" THEN "f" ELSE next))
    /\ UNCHANGED <<mainVars, copyVars, pollVars, splitWorks, rig, everKeyed,
                   bounds>>

(***************************************************************************)
(* The set slots.  TX frequency and split are taken over and reported      *)
(* before rigctld is asked; split is not even sent after it failed once.   *)
(***************************************************************************)
TakeSet ==
    /\ Ready
    /\ next = "idle"
    /\ requests # <<>>
    /\ requests' = Tail(requests)
    /\ LET r == Head(requests) IN
       /\ \/ /\ r.of \in Polled
             /\ UNCHANGED <<worker, signals>>
          \/ /\ r.of \notin Polled
             /\ worker' = [worker EXCEPT ![r.of] = r.to]
             /\ signals' = Report(r.of, r.to)
       /\ \/ /\ r.of = "s" /\ ~splitWorks
             /\ UNCHANGED lineVars
          \/ /\ r.of = "s" => splitWorks
             /\ Send(Change(r.of, ForRig(r.to)))
    /\ UNCHANGED <<belief, wrong, pollVars, splitWorks, rig, everKeyed,
                   bounds>>

\* The wait ends: with the lines that have come, all of which are read.
Lines == FlattenSeq(inbox)

Received ==
    /\ cmd # NoCmd
    /\ cmd' = NoCmd
    /\ \/ Terminated(cmd, Lines) /\ UNCHANGED late
       \/ /\ ~Terminated(cmd, Lines)
          /\ late < MaxLate
          /\ late' = late + 1

(***************************************************************************)
(* notePollFailure: at MaxFailures in a row the radio is given up and the  *)
(* connection aborted.  rigctld may still execute what it was sent, but    *)
(* nobody is there to read the answer.                                     *)
(***************************************************************************)
NotePollFailure ==
    \/ /\ failures + 1 < MaxFailures
       /\ failures' = failures + 1
       /\ inbox' = <<>>
       /\ UNCHANGED <<todo, usable>>
    \/ /\ failures + 1 >= MaxFailures
       /\ failures' = 0
       /\ usable' = FALSE
       /\ inbox' = <<>>
       /\ todo' \in {<<>>, [n \in DOMAIN todo |-> [todo[n] EXCEPT !.mute = TRUE]]}

\* Mutant: the PTT state is polled before the mode.
AfterSwapped(x) ==
    CASE x = "f" -> "t"
      [] x = "m" -> IF optionalPolled' # optionalPolled THEN "i" ELSE "idle"
      [] x = "t" -> "m"
      [] x = "i" -> "s"
      [] x = "s" -> "idle"

\* The query that follows in poll(), optionalPolled being the updated one.
After(x) ==
    CASE x = "f" -> "m"
      [] x = "m" -> "t"
      [] x = "t" -> IF optionalPolled' # optionalPolled THEN "i" ELSE "idle"
      [] x = "i" -> "s"
      [] x = "s" -> "idle"

\* pollFrequency, pollMode, pollPtt, and the ends of poll()
QueryEnds ==
    /\ ~cmd.set
    /\ Received
    /\ LET x == cmd.of
           ok == Readable(x, Lines)
       IN
       /\ allOk' = CASE x = "f" -> ok [] x = "m" -> allOk /\ ok [] OTHER -> allOk
       /\ \/ ok /\ Learn(x, Value(x, Lines))
          \/ ~ok /\ UNCHANGED copyVars
       /\ \/ ~ok /\ x \in Polled /\ NotePollFailure
          \/ /\ ok \/ x \notin Polled
             /\ inbox' = <<>>
             /\ LET success == ok /\ x = "t" /\ allOk IN
                /\ usable' = (usable \/ success)
                /\ failures' = IF success THEN 0 ELSE failures
             /\ UNCHANGED todo
       /\ optionalPolled' = (optionalPolled \/ (x = "t" /\ usable'))
       /\ next' = After(x)
    /\ UNCHANGED <<mainVars, suspended, splitWorks, rig, everKeyed, sets,
                   refused, hands>>

\* The rest of the set slots: frequency, mode and PTT are taken over only
\* after "RPRT 0"; a failure changes nothing, and nothing is retried.
SetEnds ==
    /\ cmd.set
    /\ Received
    /\ inbox' = <<>>
    /\ LET x == cmd.of
           ok == Lines # <<>> /\ Lines[1] = "RPRT 0"
       IN
       /\ \/ ok /\ x \in Polled /\ Learn(x, FromRig(cmd.to))
          \/ /\ ~ok /\ x \in Polled
             /\ wrong' = wrong \union {x}
             /\ UNCHANGED <<worker, signals>>
          \/ x \notin Polled /\ UNCHANGED copyVars
       /\ splitWorks' = (splitWorks /\ (x = "s" => ok))
    /\ UNCHANGED <<mainVars, pollVars, todo, rig, everKeyed, sets, refused,
                   hands>>

-----------------------------------------------------------------------------
(* rigctld and the radio.                                                  *)

Execute(c) ==
    /\ rig' = IF c.set THEN [rig EXCEPT ![c.of] = c.to] ELSE rig
    /\ everKeyed' = (everKeyed \/ rig'.t = "1")

Serve ==
    /\ todo # <<>>
    /\ todo' = Tail(todo)
    /\ LET c == Head(todo) IN
       \/ /\ Execute(c)
          /\ inbox' = IF c.mute THEN inbox ELSE Append(inbox, Answer(c, rig))
          /\ UNCHANGED refused
       \/ /\ refused < MaxRefused
          /\ ~c.mute
          /\ refused' = refused + 1
          /\ inbox' = Append(inbox, <<"RPRT -1">>)
          /\ UNCHANGED <<rig, everKeyed>>
    /\ UNCHANGED <<mainVars, copyVars, pollVars, cmd, splitWorks, sets, late,
                   hands>>

HandChanges(x, v) ==
    /\ hands < MaxHands
    /\ hands' = hands + 1
    /\ rig[x] # v
    /\ Execute(Change(x, v))
    /\ UNCHANGED <<mainVars, copyVars, pollVars, lineVars, splitWorks, sets,
                   late, refused>>

-----------------------------------------------------------------------------
WorkerMoves == SendQuery \/ QueryEnds \/ SetEnds

CatNext ==
    \/ \E x \in Settable : \E v \in Wishes(x) : Set(x, v)
    \/ Update
    \/ WorkerMoves
    \/ TakeSet
    \/ SetPollingSuspended
    \/ Serve
    \/ \E x \in Settable \cap Polled : \E v \in Dialled(x) : HandChanges(x, v)

(***************************************************************************)
(* Both event loops run, rigctld answers in the end, and Qt delivers a     *)
(* queued call before it lets the poll timer fire again and again.         *)
(***************************************************************************)
CatSpec ==
    /\ CatInit
    /\ [][CatNext]_catVars
    /\ WF_catVars(Update)
    /\ WF_catVars(WorkerMoves)
    /\ WF_catVars(Serve)
    /\ SF_catVars(TakeSet)

-----------------------------------------------------------------------------
(* Nothing is under way between the clients and the worker.                *)
Quiet == requests = <<>> /\ signals = <<>> /\ ~cmd.set

(* When everything queued has been delivered, the clients have been told   *)
(* what the worker holds, whatever was set, polled, turned by hand, late   *)
(* or misread meanwhile.  The exception: the last set of a field failed    *)
(* and the worker has had nothing new to say about that field since; then  *)
(* the optimistic value stays.  (setFrequencyHz and the other setters,     *)
(* transactRprt)                                                           *)
BeliefFollows ==
    Quiet => \A x \in Field \ wrong : AsRead(belief[x]) = AsRead(worker[x])

(* As long as at most one answer has been late, no answer to another query *)
(* passes for "transmitting": the worker says so only if the radio did at  *)
(* some time, or was asked to.  It takes two late answers to read a        *)
(* frequency as the PTT state, because the mode query between them waits   *)
(* for two lines.  (transactLines, pollPtt)                                *)
PttNotInvented == late <= 1 /\ worker.t = "1" => everKeyed

(* Late answers, errors and changes by hand are overcome: when they stop,  *)
(* and polling is not suspended any more, the worker's frequency, mode and *)
(* PTT are the radio's, for good, and the radio is usable.  A TX audio     *)
(* stream suspends polling as long as it lasts, and nothing is overcome    *)
(* meanwhile.  (poll, the discarding in transactLines, forceReconnect)     *)
WorkerResyncs ==
    <>[]~suspended
      => <>[](usable /\ \A x \in Polled : worker[x] = FromRig(rig[x]))
=============================================================================
