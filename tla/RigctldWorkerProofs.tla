------------------------- MODULE RigctldWorkerProofs -------------------------
(***************************************************************************)
(* Lemmas about the worker thread and what it reports, for every number of *)
(* faults and requests and queues of any length.  RigctldBackendProofs and *)
(* BridgeProofs put the two callers of the worker around them.             *)
(*                                                                         *)
(* What the signals under way will have told when all are heard is in Says *)
(* and Mute: the last one about the connection, and the last one about the *)
(* usability of the radio, or that there is none.  A slot of the worker    *)
(* appends a report to them; Reports says that a report fits what the slot *)
(* does to the worker's own state.                                         *)
(***************************************************************************)
EXTENDS RigctldWorker, WellFoundedInduction, TLAPS

\* q has a signal of kind op that says b, and no signal of kind x after it.
Final(q, op, b, x) ==
    \E n \in DOMAIN q :
        /\ q[n].op = op /\ q[n].on = b
        /\ \A k \in DOMAIN q : k > n => q[k].op # x

Mute(q, x) == \A n \in DOMAIN q : q[n].op # x

\* The last signal of kind x in q says b.
Says(q, x, b) == Final(q, x, b, x)

\* q tells of a lost connection, and afterwards nothing of the usability.
Uncovered(q) == Final(q, "connected", FALSE, "usable")

\* Either queue: what two queues say when one follows the other.
LEMMA AnyJoined ==
    ASSUME NEW S, NEW p \in Seq(S), NEW q \in Seq(S)
    PROVE  /\ p \o q \in Seq(S)
           /\ \A x : Mute(p \o q, x) <=> Mute(p, x) /\ Mute(q, x)
           /\ \A x, b : Says(p \o q, x, b) <=>
                Says(q, x, b) \/ (Mute(q, x) /\ Says(p, x, b))
           /\ Uncovered(p \o q) <=>
                Uncovered(q) \/ (Mute(q, "usable") /\ Uncovered(p))
<1>. DEFINE r == p \o q
<1>1. /\ r \in Seq(S)
      /\ Len(p) \in Nat /\ Len(q) \in Nat
      /\ DOMAIN p = 1 .. Len(p)
      /\ DOMAIN q = 1 .. Len(q)
      /\ DOMAIN r = 1 .. Len(p) + Len(q)
      /\ \A n \in 1 .. Len(p) + Len(q) :
           r[n] = IF n <= Len(p) THEN p[n] ELSE q[n - Len(p)]
  BY SMT
<1>. HIDE DEF r
<1>2. /\ \A n \in DOMAIN p : n \in DOMAIN r /\ r[n] = p[n]
      /\ \A n \in DOMAIN q : n + Len(p) \in DOMAIN r /\ r[n + Len(p)] = q[n]
      /\ \A n \in DOMAIN r : n \notin DOMAIN p =>
           n - Len(p) \in DOMAIN q /\ r[n] = q[n - Len(p)]
  BY <1>1, SMT
<1>3. ASSUME NEW x
      PROVE  Mute(r, x) <=> Mute(p, x) /\ Mute(q, x)
  BY <1>2 DEF Mute
<1>4. ASSUME NEW op, NEW on, NEW x
      PROVE  Final(r, op, on, x) <=>
               Final(q, op, on, x) \/ (Mute(q, x) /\ Final(p, op, on, x))
  <2>1. ASSUME NEW n \in DOMAIN r, r[n].op = op, r[n].on = on,
               \A k \in DOMAIN r : k > n => r[k].op # x, n \in DOMAIN p
        PROVE  /\ Mute(q, x)
               /\ p[n].op = op /\ p[n].on = on
               /\ \A k \in DOMAIN p : k > n => p[k].op # x
    <3>1. \A k \in DOMAIN q : k + Len(p) > n
      BY <1>1, <2>1, SMT
    <3>. QED
      BY <1>2, <2>1, <3>1 DEF Mute
  <2>2. ASSUME NEW n \in DOMAIN r, r[n].op = op, r[n].on = on,
               \A k \in DOMAIN r : k > n => r[k].op # x, n \notin DOMAIN p
        PROVE  /\ n - Len(p) \in DOMAIN q
               /\ q[n - Len(p)].op = op /\ q[n - Len(p)].on = on
               /\ \A k \in DOMAIN q : k > n - Len(p) => q[k].op # x
    <3>1. \A k \in DOMAIN q : k > n - Len(p) => k + Len(p) > n
      BY <1>1, <2>2, SMT
    <3>. QED
      BY <1>2, <2>2, <3>1
  <2>3. ASSUME NEW n \in DOMAIN q, q[n].op = op, q[n].on = on,
               \A k \in DOMAIN q : k > n => q[k].op # x
        PROVE  /\ n + Len(p) \in DOMAIN r
               /\ r[n + Len(p)].op = op /\ r[n + Len(p)].on = on
               /\ \A k \in DOMAIN r : k > n + Len(p) => r[k].op # x
    <3>1. ASSUME NEW k \in DOMAIN r, k > n + Len(p)
          PROVE  k \notin DOMAIN p /\ k - Len(p) > n
      BY <1>1, <2>3, <3>1, SMT
    <3>. QED
      BY <1>2, <2>3, <3>1
  <2>4. ASSUME NEW n \in DOMAIN p, p[n].op = op, p[n].on = on,
               \A k \in DOMAIN p : k > n => p[k].op # x, Mute(q, x)
        PROVE  /\ n \in DOMAIN r
               /\ r[n].op = op /\ r[n].on = on
               /\ \A k \in DOMAIN r : k > n => r[k].op # x
    BY <1>2, <2>4 DEF Mute
  <2>. QED
    BY <2>1, <2>2, <2>3, <2>4 DEF Final
<1>5. ASSUME NEW x, NEW b
      PROVE  Says(r, x, b) <=> Says(q, x, b) \/ (Mute(q, x) /\ Says(p, x, b))
  BY <1>4 DEF Says
<1>6. Uncovered(r) <=> Uncovered(q) \/ (Mute(q, "usable") /\ Uncovered(p))
  BY <1>4 DEF Uncovered
<1>. QED
  BY <1>1, <1>3, <1>5, <1>6 DEF r

LEMMA Joined ==
    ASSUME NEW p \in Seq(Signal), NEW q \in Seq(Signal)
    PROVE  /\ p \o q \in Seq(Signal)
           /\ \A x : Mute(p \o q, x) <=> Mute(p, x) /\ Mute(q, x)
           /\ \A x, b : Says(p \o q, x, b) <=>
                Says(q, x, b) \/ (Mute(q, x) /\ Says(p, x, b))
           /\ Uncovered(p \o q) <=>
                Uncovered(q) \/ (Mute(q, "usable") /\ Uncovered(p))
BY AnyJoined

\* A set of positions in a queue has a last one.
LEMMA LastOne ==
    ASSUME NEW n \in Nat, NEW T \in SUBSET (1 .. n), T # {}
    PROVE  \E m \in T : \A k \in T : k <= m
<1>. DEFINE Below == {ss \in Nat \X Nat : ss[1] < ss[2]}
            D == {i \in Nat : n - i \in T}
<1>1. IsWellFoundedOn(Below, Nat)
  <2>1. Below = OpToRel(<, Nat)
    BY DEF OpToRel
  <2>. QED
    BY <2>1, NatLessThanWellFounded
<1>2. \A t \in T : t \in 1 .. n /\ n - t \in Nat /\ n - (n - t) = t
  BY SMT
<1>3. D # {} /\ D \subseteq Nat
  BY <1>2
<1>. HIDE DEF D
<1>4. PICK x \in D : \A y \in D : ~(<<y, x>> \in Below)
  BY <1>1, <1>3, WFMin
<1>5. x \in Nat /\ n - x \in T
  BY <1>4 DEF D
<1>6. ASSUME NEW k \in T PROVE k <= n - x
  <2>1. k \in 1 .. n /\ n - k \in D /\ n - k \in Nat
    BY <1>2 DEF D
  <2>2. ~(n - k < x)
    BY <1>4, <1>5, <2>1
  <2>. QED
    BY <1>5, <2>1, <2>2, SMT
<1>. QED
  BY <1>5, <1>6

\* A queue that speaks of x has a last word on it.
LEMMA LastWord ==
    ASSUME NEW q \in Seq(Signal), NEW x, ~Mute(q, x)
    PROVE  Says(q, x, TRUE) \/ Says(q, x, FALSE)
<1>. DEFINE T == {n \in DOMAIN q : q[n].op = x}
<1>1. Len(q) \in Nat /\ DOMAIN q = 1 .. Len(q)
  OBVIOUS
<1>2. T # {} /\ T \subseteq 1 .. Len(q)
  BY <1>1 DEF Mute
<1>3. PICK m \in T : \A k \in T : k <= m
  <2>. HIDE DEF T
  <2>. QED
    BY <1>1, <1>2, LastOne
<1>4. m \in DOMAIN q /\ q[m].op = x /\ q[m].on \in BOOLEAN
  <2>1. m \in DOMAIN q /\ q[m].op = x
    BY <1>3
  <2>2. q[m] \in Signal
    BY <2>1
  <2>. QED
    BY <2>1, <2>2 DEF Signal
<1>5. \A k \in DOMAIN q : k > m => q[k].op # x
  <2>1. ASSUME NEW k \in DOMAIN q, k > m PROVE ~(k <= m)
    BY <1>1, <1>4, <2>1, SMT
  <2>. QED
    BY <1>3, <2>1
<1>. QED
  BY <1>4, <1>5 DEF Says, Final

LEMMA Nothing ==
    /\ <<>> \in Seq(Signal)
    /\ \A x : Mute(<<>>, x)
    /\ \A x, b : ~Says(<<>>, x, b)
    /\ ~Uncovered(<<>>)
<1>1. DOMAIN <<>> = {}
  BY SMT
<1>. QED
  BY <1>1, SMT DEF Mute, Says, Uncovered, Final

\* A queue of one signal.
LEMMA One ==
    ASSUME NEW s \in Signal
    PROVE  /\ <<s>> \in Seq(Signal)
           /\ \A x : Mute(<<s>>, x) <=> s.op # x
           /\ \A x : Says(<<s>>, x, TRUE) <=> s.op = x /\ s.on
           /\ \A x : Says(<<s>>, x, FALSE) <=> s.op = x /\ ~s.on
           /\ Uncovered(<<s>>) <=> s.op = "connected" /\ ~s.on
<1>1. DOMAIN <<s>> = {1} /\ <<s>>[1] = s /\ <<s>> \in Seq(Signal)
  BY SMT
<1>2. \A k \in {1} : ~(k > 1)
  BY SMT
<1>3. s.on = TRUE <=> s.on
  BY DEF Signal
<1>4. s.on = FALSE <=> ~s.on
  BY DEF Signal
<1>. QED
  BY <1>1, <1>2, <1>3, <1>4 DEF Mute, Says, Uncovered, Final

LEMMA First ==
    ASSUME NEW q \in Seq(Signal), q # <<>>
    PROVE  /\ Head(q) \in Signal
           /\ Tail(q) \in Seq(Signal)
           /\ q = <<Head(q)>> \o Tail(q)
BY SMT

LEMMA Told ==
    ASSUME NEW op \in {"ptt", "connected", "usable"}, NEW on \in BOOLEAN
    PROVE  /\ Emit(op, on) \in Seq(Signal)
           /\ \A x : Mute(Emit(op, on), x) <=> op # x
           /\ \A x : Says(Emit(op, on), x, TRUE) <=> op = x /\ on
           /\ \A x : Says(Emit(op, on), x, FALSE) <=> op = x /\ ~on
           /\ Uncovered(Emit(op, on)) <=> op = "connected" /\ ~on
<1>. DEFINE s == [op |-> op, on |-> on]
<1>1. s \in Signal /\ s.op = op /\ s.on = on
  BY DEF Signal
<1>. HIDE DEF s
<1>2. Emit(op, on) = <<s>>
  BY DEF Emit, s
<1>. QED
  BY <1>1, <1>2, One

LEMMA DroppedTold ==
    ASSUME NEW op \in {"connected", "usable"}, NEW was \in BOOLEAN
    PROVE  /\ Dropped(op, was) \in Seq(Signal)
           /\ \A x : Mute(Dropped(op, was), x) <=> ~was \/ op # x
           /\ \A x : ~Says(Dropped(op, was), x, TRUE)
           /\ \A x : Says(Dropped(op, was), x, FALSE) <=> was /\ op = x
           /\ Uncovered(Dropped(op, was)) <=> was /\ op = "connected"
<1>1. CASE was
  <2>1. Dropped(op, was) = Emit(op, FALSE)
    BY <1>1 DEF Dropped
  <2>2. op \in {"ptt", "connected", "usable"} /\ FALSE \in BOOLEAN
    OBVIOUS
  <2>3. /\ Emit(op, FALSE) \in Seq(Signal)
        /\ \A x : Mute(Emit(op, FALSE), x) <=> op # x
        /\ \A x : ~Says(Emit(op, FALSE), x, TRUE)
        /\ \A x : Says(Emit(op, FALSE), x, FALSE) <=> op = x
        /\ Uncovered(Emit(op, FALSE)) <=> op = "connected"
    BY <2>2, Told
  <2>. QED
    BY <1>1, <2>1, <2>3
<1>2. CASE ~was
  BY <1>2, Nothing DEF Dropped
<1>. QED
  BY <1>1, <1>2

-----------------------------------------------------------------------------
(***************************************************************************)
(* Types.                                                                  *)
(***************************************************************************)
Flags ==
    /\ wConnected \in BOOLEAN /\ wUsable \in BOOLEAN /\ wPtt \in BOOLEAN
    /\ wSuspended \in BOOLEAN /\ allOk \in BOOLEAN
    /\ optionalPolled \in BOOLEAN /\ socketUp \in BOOLEAN
    /\ reachable \in BOOLEAN /\ rigPtt \in BOOLEAN /\ writeFailed \in BOOLEAN

Beliefs ==
    /\ ptt \in BOOLEAN /\ connected \in BOOLEAN /\ usable \in BOOLEAN
    /\ suspended \in BOOLEAN /\ asked \in BOOLEAN

WorkerTypes ==
    /\ signals \in Seq(Signal)
    /\ at \in {"start", "idle", "f", "m", "t", "i", "s", "stopped"}
    /\ Flags
    /\ failures \in 0 .. MaxFailures - 1
    /\ faults \in 0 .. MaxFaults
    /\ hands \in 0 .. MaxHand

Types == WorkerTypes /\ Beliefs /\ requests \in Seq(Request)

LEMMA LinkSignalsTyped ==
    ASSUME Types, NEW o \in Endings
    PROVE  LinkSignals(o) \in Seq(Signal)
<1>. wUsable \in BOOLEAN /\ wConnected \in BOOLEAN
  BY DEF Types, WorkerTypes, Flags
<1>1. CASE o = "unreachable"
  BY <1>1, DroppedTold, Joined DEF LinkSignals
<1>2. CASE o # "unreachable"
  <2>1. (IF socketUp THEN <<>> ELSE Emit("connected", TRUE)) \in Seq(Signal)
    BY Told, Nothing
  <2>2. Dropped("connected", o = "broken") \in Seq(Signal)
    BY DroppedTold
  <2>. QED
    BY <1>2, <2>1, <2>2, Joined DEF LinkSignals
<1>. QED
  BY <1>1, <1>2

LEMMA LinkTyped ==
    ASSUME Types, NEW o \in Endings, Link(o)
    PROVE  /\ socketUp' \in BOOLEAN /\ wConnected' \in BOOLEAN
           /\ wUsable' \in BOOLEAN /\ writeFailed' \in BOOLEAN
           /\ faults' \in 0 .. MaxFaults
BY WorkerAssumption
   DEF Types, WorkerTypes, Flags, Link, Ends, UpAfter, UsableAfter

LEMMA PollFailureTyped ==
    ASSUME Types, NEW o \in Endings, NotePollFailure(o)
    PROVE  /\ socketUp' \in BOOLEAN /\ wConnected' \in BOOLEAN
           /\ wUsable' \in BOOLEAN /\ wPtt' \in BOOLEAN
           /\ writeFailed' \in BOOLEAN
           /\ faults' \in 0 .. MaxFaults
           /\ failures' \in 0 .. MaxFailures - 1
           /\ signals' \in Seq(Signal)
<1>. /\ wPtt' = wPtt /\ wPtt \in BOOLEAN /\ signals \in Seq(Signal)
     /\ failures \in 0 .. MaxFailures - 1 /\ MaxFailures \in Nat \ {0}
  BY WorkerAssumption DEF NotePollFailure, Types, WorkerTypes, Flags
<1>1. LinkSignals(o) \in Seq(Signal)
  BY LinkSignalsTyped
<1>2. CASE ~GiveUp /\ Link(o)
  <2>1. failures' = failures + 1 /\ failures + 1 < MaxFailures
    BY <1>2 DEF NotePollFailure, GiveUp
  <2>2. signals' = signals \o LinkSignals(o)
    BY <1>2 DEF NotePollFailure
  <2>. QED
    BY <1>1, <1>2, <2>1, <2>2, LinkTyped, Joined
<1>3. CASE GiveUp
  <2>1. /\ Dropped("usable", UsableAfter(o)) \in Seq(Signal)
        /\ Dropped("connected", UpAfter(o)) \in Seq(Signal)
    <3>1. UsableAfter(o) \in BOOLEAN /\ UpAfter(o) \in BOOLEAN
      BY DEF UsableAfter, UpAfter, Types, WorkerTypes, Flags
    <3>. QED
      BY <3>1, DroppedTold
  <2>2. signals' \in Seq(Signal)
    <3>1. signals \o LinkSignals(o) \in Seq(Signal)
      BY <1>1, Joined
    <3>2. signals \o LinkSignals(o) \o Dropped("usable", UsableAfter(o))
            \in Seq(Signal)
      BY <2>1, <3>1, Joined
    <3>3. signals' = signals \o LinkSignals(o)
                     \o Dropped("usable", UsableAfter(o))
                     \o Dropped("connected", UpAfter(o))
      BY <1>3 DEF NotePollFailure
    <3>. QED
      BY <2>1, <3>2, <3>3, Joined
  <2>3. writeFailed' \in BOOLEAN /\ faults' \in 0 .. MaxFaults
    BY <1>3, WorkerAssumption
       DEF NotePollFailure, Ends, Types, WorkerTypes, Flags
  <2>4. /\ failures' = 0 /\ socketUp' = FALSE
        /\ wConnected' = FALSE /\ wUsable' = FALSE
    BY <1>3 DEF NotePollFailure
  <2>5. 0 \in 0 .. MaxFailures - 1
    BY SMT
  <2>. QED
    BY <2>2, <2>3, <2>4, <2>5
<1>. QED
  BY <1>2, <1>3 DEF NotePollFailure

LEMMA PollTypes ==
    ASSUME Types, NEW o \in Endings, Exchange(o)
    PROVE  WorkerTypes' /\ requests' = requests
<1>. LinkSignals(o) \in Seq(Signal) /\ signals \in Seq(Signal)
  BY LinkSignalsTyped DEF Types, WorkerTypes
<1>. signals \o LinkSignals(o) \in Seq(Signal)
  BY Joined
<1>1. CASE Start(o)
  BY <1>1, LinkTyped DEF Start, Types, WorkerTypes, Flags
<1>2. CASE PollFrequency(o)
  <2>1. CASE NotePollFailure(o)
    BY <1>2, <2>1, PollFailureTyped
       DEF PollFrequency, Types, WorkerTypes, Flags
  <2>2. CASE Link(o) /\ signals' = signals \o LinkSignals(o)
             /\ UNCHANGED <<wPtt, failures>>
    BY <1>2, <2>2, LinkTyped DEF PollFrequency, Types, WorkerTypes, Flags
  <2>. QED
    BY <1>2, <2>1, <2>2 DEF PollFrequency
<1>3. CASE PollMode(o)
  <2>1. CASE NotePollFailure(o)
    BY <1>3, <2>1, PollFailureTyped DEF PollMode, Types, WorkerTypes, Flags
  <2>2. CASE Link(o) /\ signals' = signals \o LinkSignals(o)
             /\ UNCHANGED <<wPtt, failures>>
    BY <1>3, <2>2, LinkTyped DEF PollMode, Types, WorkerTypes, Flags
  <2>. QED
    BY <1>3, <2>1, <2>2 DEF PollMode
<1>4. CASE PollPtt(o)
  <2>1. /\ optionalPolled' \in BOOLEAN
        /\ at' \in {"i", "idle"}
        /\ UNCHANGED <<requests, wSuspended, allOk, reachable, rigPtt, hands>>
    <3>1. wUsable' \in BOOLEAN
      <4>1. CASE NotePollFailure(o)
        BY <4>1, PollFailureTyped
      <4>2. CASE wUsable' = (wUsable \/ allOk)
        BY <4>2 DEF Types, WorkerTypes, Flags
      <4>. QED
        BY <1>4, <4>1, <4>2 DEF PollPtt
    <3>. QED
      BY <1>4, <3>1 DEF PollPtt, Types, WorkerTypes, Flags
  <2>2. CASE NotePollFailure(o)
    BY <2>1, <2>2, PollFailureTyped DEF Types, WorkerTypes, Flags
  <2>3. CASE ~NotePollFailure(o)
    <3>1. signals' \in Seq(Signal)
      <4>1. /\ (IF wPtt # rigPtt THEN Emit("ptt", rigPtt) ELSE <<>>)
                 \in Seq(Signal)
            /\ (IF allOk /\ ~wUsable THEN Emit("usable", TRUE) ELSE <<>>)
                 \in Seq(Signal)
        BY Told, Nothing DEF Types, WorkerTypes, Flags
      <4>2. signals \o LinkSignals(o)
              \o (IF wPtt # rigPtt THEN Emit("ptt", rigPtt) ELSE <<>>)
                \in Seq(Signal)
        BY <4>1, Joined
      <4>3. signals' = signals \o LinkSignals(o)
              \o (IF wPtt # rigPtt THEN Emit("ptt", rigPtt) ELSE <<>>)
              \o (IF allOk /\ ~wUsable THEN Emit("usable", TRUE) ELSE <<>>)
        BY <1>4, <2>3 DEF PollPtt
      <4>. QED
        BY <4>1, <4>2, <4>3, Joined
    <3>2. /\ socketUp' \in BOOLEAN /\ wConnected' \in BOOLEAN
          /\ wPtt' \in BOOLEAN /\ wUsable' \in BOOLEAN
          /\ writeFailed' \in BOOLEAN
          /\ faults' \in 0 .. MaxFaults
      BY <1>4, <2>3, WorkerAssumption
         DEF PollPtt, Ends, Types, WorkerTypes, Flags
    <3>3. failures' \in 0 .. MaxFailures - 1
      <4>1. failures' \in {0, failures}
        BY <1>4, <2>3 DEF PollPtt
      <4>. QED
        BY <4>1, WorkerAssumption DEF Types, WorkerTypes
    <3>. QED
      BY <2>1, <3>1, <3>2, <3>3 DEF Types, WorkerTypes, Flags
  <2>. QED
    BY <2>2, <2>3
<1>5. CASE PollOptional(o)
  BY <1>5, LinkTyped DEF PollOptional, Types, WorkerTypes, Flags
<1>. QED
  BY <1>1, <1>2, <1>3, <1>4, <1>5 DEF Exchange

LEMMA TaskTypes ==
    ASSUME Types, Requested
    PROVE  WorkerTypes' /\ requests' \in Seq(Request)
<1>1. /\ signals \in Seq(Signal) /\ requests \in Seq(Request)
      /\ wUsable \in BOOLEAN /\ wConnected \in BOOLEAN
  BY DEF Types, WorkerTypes, Flags
<1>2. requests # <<>> /\ requests' = Tail(requests)
  BY DEF Requested, SetPtt, SetPollingSuspended, Stop, Takes
<1>3. /\ requests' \in Seq(Request)
      /\ Head(requests) \in Request
  BY <1>1, <1>2
<1>4. Head(requests).on \in BOOLEAN
  BY <1>3 DEF Request
<1>5. ASSUME NEW o \in Endings, SetPtt(o)
      PROVE  WorkerTypes'
  <2>1. rigPtt' \in BOOLEAN /\ wPtt' \in BOOLEAN
    BY <1>4, <1>5 DEF SetPtt, Types, WorkerTypes, Flags
  <2>2. LinkSignals(o) \in Seq(Signal)
    BY LinkSignalsTyped
  <2>3. (IF wPtt' # wPtt THEN Emit("ptt", Head(requests).on) ELSE <<>>)
          \in Seq(Signal)
    BY <1>4, Told, Nothing
  <2>4. signals' \in Seq(Signal)
    BY <1>1, <1>5, <2>2, <2>3, Joined DEF SetPtt
  <2>. QED
    BY <1>5, <2>1, <2>4, LinkTyped DEF SetPtt, Types, WorkerTypes, Flags
<1>6. CASE SetPollingSuspended
  <2>1. Flags'
    BY <1>4, <1>6 DEF SetPollingSuspended, Types, WorkerTypes, Flags
  <2>2. UNCHANGED <<signals, at, failures, faults, hands>>
    BY <1>6 DEF SetPollingSuspended
  <2>. QED
    BY <1>3, <2>1, <2>2 DEF Types, WorkerTypes
<1>7. CASE Stop
  <2>1. /\ Dropped("usable", wUsable) \in Seq(Signal)
        /\ Dropped("connected", wConnected) \in Seq(Signal)
    BY <1>1, DroppedTold
  <2>2. signals' \in Seq(Signal)
    <3>1. signals \o Dropped("usable", wUsable) \in Seq(Signal)
      BY <1>1, <2>1, Joined
    <3>. QED
      BY <1>7, <2>1, <3>1, Joined DEF Stop
  <2>3. Flags'
    BY <1>7 DEF Stop, Types, WorkerTypes, Flags
  <2>4. at' = "stopped" /\ UNCHANGED <<failures, faults, hands>>
    BY <1>7 DEF Stop
  <2>. QED
    BY <1>3, <2>2, <2>3, <2>4 DEF Types, WorkerTypes
<1>. QED
  BY <1>3, <1>5, <1>6, <1>7 DEF Requested

LEMMA OutsideTypes ==
    ASSUME Types, Environment
    PROVE  WorkerTypes' /\ requests' = requests
<1>1. CASE RigctldDown
  <2>1. Flags'
    BY <1>1 DEF RigctldDown, Types, WorkerTypes, Flags
  <2>2. faults' \in 0 .. MaxFaults
    BY <1>1, WorkerAssumption DEF RigctldDown, Types, WorkerTypes
  <2>. QED
    BY <1>1, <2>1, <2>2 DEF RigctldDown, Types, WorkerTypes
<1>2. CASE RigctldUp
  BY <1>2 DEF RigctldUp, Types, WorkerTypes, Flags
<1>3. CASE HandKeys
  BY <1>3, WorkerAssumption DEF HandKeys, Types, WorkerTypes, Flags
<1>. QED
  BY <1>1, <1>2, <1>3 DEF Environment

-----------------------------------------------------------------------------
(***************************************************************************)
(* The link.  When all signals under way have been heard, the backend      *)
(* believes connected what the worker has connected, and usable at most    *)
(* what the worker holds to be usable, unless a write has failed exactly   *)
(* that.                                                                   *)
(***************************************************************************)
\* The last signal of kind x in q, if there is one, says w.
Agrees(q, x, w) ==
    /\ Says(q, x, TRUE) => w
    /\ Says(q, x, FALSE) => ~w

LinkInv ==
    /\ socketUp => wConnected
    /\ Agrees(signals, "connected", wConnected)
    /\ Mute(signals, "connected") => (connected <=> wConnected)
    /\ Agrees(signals, "usable", wUsable)
    /\ Mute(signals, "usable") => (usable => wUsable)
    /\ \/ writeFailed
       \/ /\ wUsable => wConnected
          /\ Mute(signals, "usable") => (usable <=> wUsable)
          /\ Uncovered(signals) => ~wUsable

\* The report q fits a change of the worker's own state to c, connected, and
\* u, usable.  Only with a failed write it may leave a loss uncovered.
Reports(q, c, u, failed) ==
    /\ q \in Seq(Signal)
    /\ Agrees(q, "connected", c)
    /\ Mute(q, "connected") => (c <=> wConnected)
    /\ Agrees(q, "usable", u)
    /\ Mute(q, "usable") => (u <=> wUsable)
    /\ Uncovered(q) => ~u \/ failed

\* A step of the worker keeps the link in order if its report fits.
LEMMA ReportKeeps ==
    ASSUME Types, LinkInv, UNCHANGED <<connected, usable>>,
           NEW q, signals' = signals \o q,
           Reports(q, wConnected', wUsable', writeFailed'),
           writeFailed => writeFailed',
           socketUp' => wConnected',
           wUsable' => wConnected' \/ writeFailed'
    PROVE  LinkInv'
<1>1. signals \in Seq(Signal) /\ q \in Seq(Signal)
  BY DEF Types, WorkerTypes, Reports
<1>2. /\ \A x : Mute(signals', x) <=> Mute(signals, x) /\ Mute(q, x)
      /\ \A x, b : Says(signals', x, b) <=>
           Says(q, x, b) \/ (Mute(q, x) /\ Says(signals, x, b))
      /\ Uncovered(signals') <=>
           Uncovered(q) \/ (Mute(q, "usable") /\ Uncovered(signals))
  BY <1>1, Joined
<1>3. /\ Agrees(signals', "connected", wConnected')
      /\ Agrees(signals', "usable", wUsable')
  BY <1>2 DEF LinkInv, Reports, Agrees
<1>. QED
  BY <1>2, <1>3 DEF LinkInv, Reports

\* A report goes on with r.
LEMMA ReportGoesOn ==
    ASSUME NEW c \in BOOLEAN, NEW u \in BOOLEAN, NEW failed \in BOOLEAN,
           NEW q, Reports(q, c, u, failed),
           NEW c2 \in BOOLEAN, NEW u2 \in BOOLEAN,
           NEW r \in Seq(Signal),
           Agrees(r, "connected", c2), Mute(r, "connected") => (c2 <=> c),
           Agrees(r, "usable", u2), Mute(r, "usable") => (u2 <=> u),
           Uncovered(r) => ~u2 \/ failed
    PROVE  Reports(q \o r, c2, u2, failed)
<1>1. q \in Seq(Signal)
  BY DEF Reports
<1>2. /\ q \o r \in Seq(Signal)
      /\ \A x : Mute(q \o r, x) <=> Mute(q, x) /\ Mute(r, x)
      /\ \A x, b : Says(q \o r, x, b) <=>
           Says(r, x, b) \/ (Mute(r, x) /\ Says(q, x, b))
      /\ Uncovered(q \o r) <=>
           Uncovered(r) \/ (Mute(r, "usable") /\ Uncovered(q))
  BY <1>1, Joined
<1>3. Agrees(q \o r, "connected", c2) /\ Agrees(q \o r, "usable", u2)
  BY <1>2 DEF Reports, Agrees
<1>. QED
  BY <1>2, <1>3 DEF Reports

LEMMA NoReport ==
    ASSUME Types
    PROVE  Reports(<<>>, wConnected, wUsable, writeFailed)
BY Nothing DEF Reports, Agrees

LEMMA ReportUsableLost ==
    ASSUME NEW c \in BOOLEAN, NEW u \in BOOLEAN, NEW failed \in BOOLEAN,
           NEW q, Reports(q, c, u, failed)
    PROVE  Reports(q \o Dropped("usable", u), c, FALSE, failed)
<1>. DEFINE r == Dropped("usable", u)
<1>1. /\ r \in Seq(Signal)
      /\ \A x : Mute(r, x) <=> ~u \/ "usable" # x
      /\ \A x : ~Says(r, x, TRUE)
      /\ \A x : Says(r, x, FALSE) <=> u /\ "usable" = x
      /\ ~Uncovered(r)
  BY DroppedTold
<1>. HIDE DEF r
<1>2. /\ Agrees(r, "connected", c) /\ Agrees(r, "usable", FALSE)
      /\ Mute(r, "usable") => ~u
  BY <1>1 DEF Agrees
<1>3. Reports(q \o r, c, FALSE, failed)
  BY <1>1, <1>2, ReportGoesOn
<1>. QED
  BY <1>3 DEF r

LEMMA ReportConnectionLost ==
    ASSUME NEW c \in BOOLEAN, NEW u \in BOOLEAN, NEW failed \in BOOLEAN,
           NEW q, Reports(q, c, u, failed), u => failed
    PROVE  Reports(q \o Dropped("connected", c), FALSE, u, failed)
<1>. DEFINE r == Dropped("connected", c)
<1>1. /\ r \in Seq(Signal)
      /\ \A x : Mute(r, x) <=> ~c \/ "connected" # x
      /\ \A x : ~Says(r, x, TRUE)
      /\ \A x : Says(r, x, FALSE) <=> c /\ "connected" = x
  BY DroppedTold
<1>. HIDE DEF r
<1>2. /\ Agrees(r, "connected", FALSE) /\ Agrees(r, "usable", u)
      /\ Mute(r, "connected") => ~c
  BY <1>1 DEF Agrees
<1>3. Reports(q \o r, FALSE, u, failed)
  BY <1>1, <1>2, ReportGoesOn
<1>. QED
  BY <1>3 DEF r

\* The main thread hears the oldest signal.
LEMMA HeardKeeps ==
    ASSUME Types, LinkInv, signals # <<>>, signals' = Tail(signals),
           UNCHANGED <<wConnected, wUsable, socketUp, writeFailed>>,
           \/ Head(signals).op = "ptt" /\ UNCHANGED <<connected, usable>>
           \/ Head(signals).op = "connected" /\ ShadowConnected(Head(signals).on)
           \/ Head(signals).op = "usable" /\ ShadowUsable(Head(signals).on)
    PROVE  LinkInv'
<1>. DEFINE s == Head(signals)
            q == Tail(signals)
<1>1. /\ signals \in Seq(Signal) /\ signals # <<>> /\ signals' = q
      /\ connected \in BOOLEAN /\ usable \in BOOLEAN
  BY DEF Types, WorkerTypes, Beliefs
<1>2. s \in Signal /\ q \in Seq(Signal) /\ signals = <<s>> \o q
  BY <1>1, First
<1>3. UNCHANGED <<wConnected, wUsable, socketUp, writeFailed>>
  OBVIOUS
<1>4. \/ s.op = "ptt" /\ connected' = connected /\ usable' = usable
      \/ s.op = "connected" /\ ShadowConnected(s.on)
      \/ s.op = "usable" /\ ShadowUsable(s.on)
  OBVIOUS
<1>5. s.op \in {"ptt", "connected", "usable"} /\ s.on \in BOOLEAN
  BY <1>2 DEF Signal
<1>. HIDE DEF s, q
<1>6. /\ \A x : Mute(signals, x) <=> s.op # x /\ Mute(q, x)
      /\ \A x : Says(q, x, TRUE) => Says(signals, x, TRUE)
      /\ \A x : Says(q, x, FALSE) => Says(signals, x, FALSE)
      /\ Mute(q, s.op) => IF s.on THEN Says(signals, s.op, TRUE)
                                  ELSE Says(signals, s.op, FALSE)
      /\ Uncovered(q) => Uncovered(signals)
      /\ s.op = "connected" /\ ~s.on /\ Mute(q, "usable")
           => Uncovered(signals)
  <2>1. <<s>> \in Seq(Signal)
    BY <1>2, One
  <2>2. /\ \A x : Mute(signals, x) <=> Mute(<<s>>, x) /\ Mute(q, x)
        /\ \A x, b : Says(signals, x, b) <=>
             Says(q, x, b) \/ (Mute(q, x) /\ Says(<<s>>, x, b))
        /\ Uncovered(signals) <=>
             Uncovered(q) \/ (Mute(q, "usable") /\ Uncovered(<<s>>))
    BY <1>2, <2>1, Joined
  <2>. QED
    BY <1>2, <2>2, One
<1>7. /\ Agrees(q, "connected", wConnected)
      /\ Agrees(q, "usable", wUsable)
  BY <1>6 DEF LinkInv, Agrees
<1>8. Mute(q, "connected") => (connected' <=> wConnected)
  <2>1. CASE s.op = "connected"
    BY <1>4, <1>6, <2>1 DEF LinkInv, Agrees, ShadowConnected
  <2>2. CASE s.op # "connected"
    BY <1>4, <1>6, <2>2 DEF LinkInv, ShadowUsable
  <2>. QED
    BY <2>1, <2>2
<1>9. Mute(q, "usable") => (usable' => wUsable)
  <2>1. CASE s.op = "usable"
    BY <1>4, <1>6, <2>1 DEF LinkInv, Agrees, ShadowUsable
  <2>2. CASE s.op # "usable"
    BY <1>4, <1>6, <2>2 DEF LinkInv, ShadowConnected
  <2>. QED
    BY <2>1, <2>2
<1>10. ASSUME ~writeFailed, Mute(q, "usable")
       PROVE  wUsable => usable'
  <2>1. CASE s.op = "usable"
    BY <1>4, <1>6, <1>10, <2>1 DEF LinkInv, Agrees, ShadowUsable
  <2>2. CASE s.op = "connected" /\ s.on
    BY <1>4, <1>6, <1>10, <2>2 DEF LinkInv, ShadowConnected
  <2>3. CASE s.op = "connected" /\ ~s.on
    BY <1>6, <1>10, <2>3 DEF LinkInv
  <2>4. CASE s.op = "ptt"
    BY <1>4, <1>6, <1>10, <2>4 DEF LinkInv
  <2>. QED
    BY <1>5, <2>1, <2>2, <2>3, <2>4
<1>. QED
  BY ONLY LinkInv, <1>1, <1>3, <1>6, <1>7, <1>8, <1>9, <1>10 DEF LinkInv

\* What an exchange that ends with o reports about the connection.
LEMMA LinkReport ==
    ASSUME Types, LinkInv, NEW o \in Endings
    PROVE  Reports(LinkSignals(o), UpAfter(o), UsableAfter(o),
                   writeFailed \/ o = "broken")
<1>. DEFINE failed == writeFailed \/ o = "broken"
<1>1. /\ wUsable \in BOOLEAN /\ wConnected \in BOOLEAN
      /\ failed \in BOOLEAN
      /\ socketUp => wConnected
      /\ Reports(<<>>, wConnected, wUsable, failed)
  BY Nothing DEF Types, WorkerTypes, Flags, LinkInv, Reports, Agrees
<1>2. CASE o = "unreachable"
  <2>. DEFINE u == Dropped("usable", wUsable)
              c == Dropped("connected", wConnected)
  <2>1. Reports(<<>> \o u, wConnected, FALSE, failed)
    BY <1>1, ReportUsableLost
  <2>2. Reports(<<>> \o u \o c, FALSE, FALSE, failed)
    BY <1>1, <2>1, ReportConnectionLost
  <2>3. u \in Seq(Signal)
    BY <1>1, DroppedTold
  <2>4. LinkSignals(o) = <<>> \o u \o c
    <3>. HIDE DEF u, c
    <3>1. <<>> \o u = u
      BY <2>3
    <3>. QED
      BY <1>2, <3>1 DEF LinkSignals, u, c
  <2>5. ~UpAfter(o) /\ ~UsableAfter(o)
    BY <1>2 DEF UpAfter, UsableAfter
  <2>. QED
    BY <2>2, <2>4, <2>5 DEF Reports, Agrees
<1>3. CASE o # "unreachable"
  <2>. DEFINE u == IF socketUp THEN <<>> ELSE Emit("connected", TRUE)
              c == Dropped("connected", o = "broken")
  <2>1. /\ u \in Seq(Signal)
        /\ \A x : Mute(u, x) <=> socketUp \/ "connected" # x
        /\ \A x : Says(u, x, TRUE) <=> ~socketUp /\ "connected" = x
        /\ \A x : ~Says(u, x, FALSE)
        /\ ~Uncovered(u)
    <3>1. CASE socketUp
      BY <3>1, Nothing
    <3>2. CASE ~socketUp
      <4>1. u = Emit("connected", TRUE)
        BY <3>2
      <4>. QED
        BY <3>2, <4>1, Told
    <3>. QED
      BY <3>1, <3>2
  <2>2. /\ c \in Seq(Signal)
        /\ \A x : Mute(c, x) <=> o # "broken" \/ "connected" # x
        /\ \A x : ~Says(c, x, TRUE)
        /\ \A x : Says(c, x, FALSE) <=> o = "broken" /\ "connected" = x
        /\ Uncovered(c) <=> o = "broken"
    <3>1. (o = "broken") \in BOOLEAN
      OBVIOUS
    <3>. QED
      BY <3>1, DroppedTold
  <2>3. LinkSignals(o) = u \o c
    BY <1>3 DEF LinkSignals
  <2>. HIDE DEF u, c
  <2>. DEFINE c1 == TRUE
  <2>4. Reports(u, c1, wUsable, failed) /\ c1 \in BOOLEAN
    BY <1>1, <2>1 DEF Reports, Agrees
  <2>5. UsableAfter(o) <=> wUsable
    BY <1>1, <1>3 DEF UsableAfter
  <2>6. UpAfter(o) <=> o # "broken"
    BY <1>3 DEF UpAfter, Endings
  <2>7. UpAfter(o) \in BOOLEAN /\ UsableAfter(o) \in BOOLEAN
    BY <1>1 DEF UpAfter, UsableAfter
  <2>. DEFINE c2 == UpAfter(o)
              u2 == UsableAfter(o)
  <2>8. c2 \in BOOLEAN /\ u2 \in BOOLEAN /\ (u2 <=> wUsable)
    BY <2>5, <2>7
  <2>9. c2 <=> o # "broken"
    BY <2>6
  <2>. HIDE DEF c2, u2
  <2>10. /\ Agrees(c, "connected", c2)
         /\ Mute(c, "connected") => (c2 <=> c1)
         /\ Agrees(c, "usable", u2)
         /\ Uncovered(c) => ~u2 \/ failed
    BY <2>2, <2>9 DEF Agrees
  <2>11. Reports(u \o c, c2, u2, failed)
    <3>. HIDE DEF failed, c1
    <3>. QED
      BY <1>1, <2>2, <2>4, <2>8, <2>10, ReportGoesOn
  <2>. QED
    BY <2>3, <2>11 DEF c2, u2
<1>. QED
  BY <1>2, <1>3

-----------------------------------------------------------------------------
(***************************************************************************)
(* The steps of the worker.                                                *)
(***************************************************************************)
\* What is left to show of a step, besides its report.
Orderly ==
    /\ writeFailed => writeFailed'
    /\ socketUp' => wConnected'
    /\ wUsable' => wConnected' \/ writeFailed'

LEMMA LinkOrderly ==
    ASSUME Types, LinkInv, NEW o \in Endings, Link(o)
    PROVE  /\ Reports(LinkSignals(o), wConnected', wUsable', writeFailed')
           /\ Orderly
           /\ wConnected' \in BOOLEAN /\ wUsable' \in BOOLEAN
           /\ writeFailed' \in BOOLEAN
<1>1. /\ socketUp' = UpAfter(o) /\ wConnected' = UpAfter(o)
      /\ wUsable' = UsableAfter(o)
      /\ writeFailed' = (writeFailed \/ o = "broken")
  BY DEF Link, Ends
<1>2. Reports(LinkSignals(o), wConnected', wUsable', writeFailed')
  BY <1>1, LinkReport
<1>3. Orderly
  BY <1>1 DEF Orderly, UpAfter, UsableAfter, Endings
<1>. QED
  BY <1>2, <1>3, LinkTyped

LEMMA LinkKeeps ==
    ASSUME Types, LinkInv, NEW o \in Endings, Link(o),
           signals' = signals \o LinkSignals(o),
           UNCHANGED <<connected, usable>>
    PROVE  LinkInv'
BY LinkOrderly, ReportKeeps DEF Orderly

LEMMA PollFailureKeeps ==
    ASSUME Types, LinkInv, NEW o \in Endings, NotePollFailure(o),
           UNCHANGED <<connected, usable>>
    PROVE  LinkInv'
<1>1. CASE ~GiveUp
  BY <1>1, LinkKeeps DEF NotePollFailure
<1>2. CASE GiveUp
  <2>. DEFINE q == LinkSignals(o)
              c == UpAfter(o)
              u == UsableAfter(o)
              failed == writeFailed \/ o = "broken"
              d == Dropped("usable", u)
              e == Dropped("connected", c)
  <2>1. /\ c \in BOOLEAN /\ u \in BOOLEAN /\ failed \in BOOLEAN
        /\ q \in Seq(Signal) /\ signals \in Seq(Signal)
    BY LinkSignalsTyped
       DEF UpAfter, UsableAfter, Types, WorkerTypes, Flags
  <2>2. /\ signals' = signals \o q \o d \o e
        /\ ~socketUp' /\ ~wConnected' /\ ~wUsable'
        /\ writeFailed' = failed
    BY <1>2 DEF NotePollFailure, Ends
  <2>3. Reports(q, c, u, failed)
    BY LinkReport
  <2>. HIDE DEF q, c, u, failed
  <2>4. d \in Seq(Signal) /\ e \in Seq(Signal)
    BY <2>1, DroppedTold
  <2>5. Reports(q \o d, c, FALSE, failed)
    BY <2>1, <2>3, ReportUsableLost
  <2>6. Reports(q \o d \o e, FALSE, FALSE, failed)
    BY <2>1, <2>5, ReportConnectionLost
  <2>. HIDE DEF d, e
  <2>7. signals' = signals \o (q \o d \o e)
    BY <2>1, <2>2, <2>4, SMTT(90)
  <2>8. Reports(q \o d \o e, wConnected', wUsable', writeFailed')
    BY <2>2, <2>6 DEF Reports, Agrees
  <2>9. writeFailed => writeFailed'
    BY <2>2 DEF failed
  <2>. QED
    BY <2>2, <2>7, <2>8, <2>9, ReportKeeps
<1>. QED
  BY <1>1, <1>2

\* Nothing is said about the link.
LEMMA Unsaid ==
    ASSUME NEW r, r = <<>> \/ \E b \in BOOLEAN : r = Emit("ptt", b)
    PROVE  /\ r \in Seq(Signal) /\ ~Uncovered(r)
           /\ Mute(r, "connected") /\ Mute(r, "usable")
           /\ \A c : Agrees(r, "connected", c) /\ Agrees(r, "usable", c)
<1>1. CASE r = <<>>
  BY <1>1, Nothing DEF Agrees
<1>2. ASSUME NEW b \in BOOLEAN, r = Emit("ptt", b)
      PROVE  /\ r \in Seq(Signal) /\ ~Uncovered(r)
             /\ Mute(r, "connected") /\ Mute(r, "usable")
             /\ \A c : Agrees(r, "connected", c) /\ Agrees(r, "usable", c)
  BY <1>2, Told DEF Agrees
<1>. QED
  BY <1>1, <1>2

LEMMA PollPttKeeps ==
    ASSUME Types, LinkInv, NEW o \in Endings, PollPtt(o),
           UNCHANGED <<connected, usable>>
    PROVE  LinkInv'
<1>1. CASE NotePollFailure(o)
  BY <1>1, PollFailureKeeps
<1>2. CASE ~NotePollFailure(o)
  <2>. DEFINE q == LinkSignals(o)
              p == IF wPtt # rigPtt THEN Emit("ptt", rigPtt) ELSE <<>>
              t == IF allOk /\ ~wUsable THEN Emit("usable", TRUE) ELSE <<>>
              c == UpAfter(o)
              u == UsableAfter(o)
              u2 == wUsable \/ allOk
              failed == writeFailed \/ o = "broken"
  <2>1. /\ o = "done"
        /\ signals' = signals \o q \o p \o t
        /\ socketUp' = TRUE /\ wConnected' = TRUE
        /\ wUsable' = u2
        /\ writeFailed' = failed
    BY <1>2 DEF PollPtt, Ends
  <2>2. /\ c /\ c \in BOOLEAN /\ (u <=> wUsable) /\ u \in BOOLEAN
        /\ u2 \in BOOLEAN /\ failed \in BOOLEAN
        /\ q \in Seq(Signal) /\ signals \in Seq(Signal)
        /\ wUsable \in BOOLEAN /\ allOk \in BOOLEAN /\ rigPtt \in BOOLEAN
    BY <2>1, LinkSignalsTyped
       DEF UpAfter, UsableAfter, Types, WorkerTypes, Flags
  <2>3. Reports(q, c, u, failed)
    BY LinkReport
  <2>4. /\ p \in Seq(Signal) /\ ~Uncovered(p)
        /\ Mute(p, "connected") /\ Mute(p, "usable")
        /\ \A b : Agrees(p, "connected", b) /\ Agrees(p, "usable", b)
    <3>1. p = <<>> \/ \E b \in BOOLEAN : p = Emit("ptt", b)
      BY <2>2
    <3>. QED
      BY <3>1, Unsaid
  <2>5. /\ t \in Seq(Signal) /\ ~Uncovered(t)
        /\ Mute(t, "connected")
        /\ Mute(t, "usable") => ~(allOk /\ ~wUsable)
        /\ \A b : Agrees(t, "connected", b)
        /\ Says(t, "usable", TRUE) => allOk
        /\ ~Says(t, "usable", FALSE)
    <3>1. CASE allOk /\ ~wUsable
      <4>1. t = Emit("usable", TRUE)
        BY <3>1
      <4>. QED
        BY <3>1, <4>1, Told DEF Agrees
    <3>2. CASE ~(allOk /\ ~wUsable)
      <4>1. t = <<>>
        BY <3>2
      <4>. QED
        BY <3>2, <4>1, Nothing DEF Agrees
    <3>. QED
      BY <3>1, <3>2
  <2>6. Agrees(t, "usable", u2) /\ (Mute(t, "usable") => (u2 <=> u))
    BY <2>2, <2>5 DEF Agrees
  <2>. HIDE DEF q, p, t, c, u, u2, failed
  <2>7. Reports(q \o p, c, u, failed)
    <3>1. Agrees(p, "connected", c) /\ Agrees(p, "usable", u)
      BY <2>4
    <3>2. c \in BOOLEAN /\ u \in BOOLEAN /\ failed \in BOOLEAN
      BY <2>2
    <3>. QED
      BY <2>3, <2>4, <3>1, <3>2, ReportGoesOn
  <2>8. Reports(q \o p \o t, c, u2, failed)
    <3>1. Agrees(t, "connected", c)
      BY <2>5
    <3>2. /\ c \in BOOLEAN /\ u \in BOOLEAN /\ u2 \in BOOLEAN
          /\ failed \in BOOLEAN
      BY <2>2
    <3>. QED
      BY <2>5, <2>6, <2>7, <3>1, <3>2, ReportGoesOn
  <2>9. signals' = signals \o (q \o p \o t)
    BY <2>1, <2>2, <2>4, <2>5, SMTT(90)
  <2>10. Reports(q \o p \o t, wConnected', wUsable', writeFailed')
    BY <2>1, <2>2, <2>8 DEF Reports, Agrees
  <2>11. writeFailed => writeFailed'
    BY <2>1 DEF failed
  <2>. QED
    BY <2>1, <2>9, <2>10, <2>11, ReportKeeps
<1>. QED
  BY <1>1, <1>2

LEMMA PollKeeps ==
    ASSUME Types, LinkInv, NEW o \in Endings, Exchange(o),
           UNCHANGED <<connected, usable>>
    PROVE  LinkInv'
<1>1. CASE Start(o)
  BY <1>1, LinkKeeps DEF Start
<1>2. CASE PollFrequency(o)
  BY <1>2, LinkKeeps, PollFailureKeeps DEF PollFrequency
<1>3. CASE PollMode(o)
  BY <1>3, LinkKeeps, PollFailureKeeps DEF PollMode
<1>4. CASE PollOptional(o)
  BY <1>4, LinkKeeps DEF PollOptional
<1>. QED
  BY <1>1, <1>2, <1>3, <1>4, PollPttKeeps DEF Exchange

LEMMA SetPttKeeps ==
    ASSUME Types, LinkInv, NEW o \in Endings, SetPtt(o),
           UNCHANGED <<connected, usable>>
    PROVE  LinkInv'
<1>. DEFINE q == LinkSignals(o)
            on == Head(requests).on
            p == IF wPtt' # wPtt THEN Emit("ptt", on) ELSE <<>>
            c == wConnected'
            u == wUsable'
            failed == writeFailed'
<1>1. Link(o) /\ signals' = signals \o q \o p
  BY DEF SetPtt
<1>2. on \in BOOLEAN
  <2>1. requests \in Seq(Request) /\ requests # <<>>
    BY DEF SetPtt, Takes, Types
  <2>2. Head(requests) \in Request
    BY <2>1
  <2>. QED
    BY <2>2 DEF Request
<1>3. /\ Reports(q, c, u, failed) /\ Orderly
      /\ c \in BOOLEAN /\ u \in BOOLEAN /\ failed \in BOOLEAN
      /\ q \in Seq(Signal) /\ signals \in Seq(Signal)
  BY <1>1, LinkOrderly, LinkSignalsTyped DEF Types, WorkerTypes
<1>4. /\ p \in Seq(Signal) /\ ~Uncovered(p)
      /\ Mute(p, "connected") /\ Mute(p, "usable")
      /\ \A b : Agrees(p, "connected", b) /\ Agrees(p, "usable", b)
  <2>1. p = <<>> \/ \E b \in BOOLEAN : p = Emit("ptt", b)
    BY <1>2
  <2>. QED
    BY <2>1, Unsaid
<1>. HIDE DEF q, on, p, c, u, failed
<1>5. Reports(q \o p, c, u, failed)
  BY <1>3, <1>4, ReportGoesOn
<1>6. signals' = signals \o (q \o p)
  BY <1>1, <1>3, <1>4, SMTT(90)
<1>. QED
  BY <1>3, <1>5, <1>6, ReportKeeps DEF c, u, failed, Orderly

LEMMA StopKeeps ==
    ASSUME Types, LinkInv, Stop, UNCHANGED <<connected, usable>>
    PROVE  LinkInv'
<1>. DEFINE d == Dropped("usable", wUsable)
            e == Dropped("connected", wConnected)
<1>1. /\ signals' = signals \o d \o e
      /\ ~socketUp' /\ ~wConnected' /\ ~wUsable'
      /\ writeFailed' = writeFailed
  BY DEF Stop
<1>2. /\ wConnected \in BOOLEAN /\ wUsable \in BOOLEAN
      /\ writeFailed \in BOOLEAN /\ signals \in Seq(Signal)
      /\ Reports(<<>>, wConnected, wUsable, writeFailed)
  BY NoReport DEF Types, WorkerTypes, Flags
<1>3. d \in Seq(Signal) /\ e \in Seq(Signal)
  BY <1>2, DroppedTold
<1>4. Reports(<<>> \o d, wConnected, FALSE, writeFailed)
  BY <1>2, ReportUsableLost
<1>5. Reports(<<>> \o d \o e, FALSE, FALSE, writeFailed)
  BY <1>2, <1>4, ReportConnectionLost
<1>. HIDE DEF d, e
<1>6. signals' = signals \o (<<>> \o d \o e)
  BY <1>1, <1>2, <1>3, SMTT(90)
<1>7. Reports(<<>> \o d \o e, wConnected', wUsable', writeFailed')
  BY <1>1, <1>5 DEF Reports, Agrees
<1>. QED
  BY <1>1, <1>6, <1>7, ReportKeeps

=============================================================================
