----------------------------- MODULE BridgeProofs -----------------------------
(***************************************************************************)
(* Proofs about Bridge: the server, the worker, their two queues, the      *)
(* radio and the end of the program, for every set of clients and          *)
(* configurations, every number of faults and requests, and queues of any  *)
(* length.                                                                 *)
(***************************************************************************)
EXTENDS Bridge, TciServerProofs, RigctldWorkerProofs

USE DEF link, fixed

-----------------------------------------------------------------------------
(***************************************************************************)
(* Types.                                                                  *)
(***************************************************************************)
BridgeTyped ==
    /\ TypeOK
    /\ WorkerTypes
    /\ quit \in 0 .. UnkeyCalls + 1
    /\ backend = "rigctld"

LEMMA TypedIsOK == BridgeTyped => BridgeTypeOK
BY DEF BridgeTyped, BridgeTypeOK, WorkerTypes, Flags, WorkerTypeOK

LEMMA TypedIsTypes == BridgeTyped => Types
BY DEF BridgeTyped, Types, TypeOK, Beliefs

\* What Quit and the destructor leave of the types.
LEMMA EndTypes ==
    ASSUME BridgeTyped, Quit \/ Destroy
    PROVE  TypeOK'
<1>1. CASE Quit
  <2>1. UNCHANGED fixed /\ UNCHANGED clients /\ UNCHANGED link
    BY <1>1 DEF Quit
  <2>2. Slot
    BY <1>1, <2>1 DEF Quit, Slot
  <2>. QED
    BY <2>2, SlotTypes DEF BridgeTyped
<1>2. CASE Destroy
  <2>1. [op |-> "stop", on |-> TRUE] \in Request
    BY DEF Request
  <2>2. requests' \in Seq(Request)
    <3>1. requests \in Seq(Request) /\ Queued("stop", TRUE) \in Seq(Request)
      BY <2>1 DEF Queued, BridgeTyped, TypeOK
    <3>2. requests' = requests \o Queued("stop", TRUE)
      BY <1>2 DEF Destroy
    <3>. QED
      BY <3>1, <3>2, ConcatSeq
  <2>3. Slot
    BY <1>2, <2>2 DEF Destroy, serverVars, Slot, Aside
  <2>. QED
    BY <2>3, SlotTypes DEF BridgeTyped
<1>. QED
  BY <1>1, <1>2

LEMMA WorkerUntouched ==
    ASSUME BridgeTyped, UNCHANGED workerVars, signals' \in Seq(Signal)
    PROVE  WorkerTypes'
BY DEF BridgeTyped, workerVars, WorkerTypes, Flags

LEMMA DeliverTypes ==
    ASSUME BridgeTyped, Deliver
    PROVE  TypeOK' /\ signals' \in Seq(Signal)
<1>1. signals \in Seq(Signal) /\ signals # <<>> /\ signals' = Tail(signals)
  BY DEF Deliver, BridgeTyped, WorkerTypes
<1>2. Head(signals).on \in BOOLEAN
  BY <1>1, First DEF Signal
<1>3. TypeOK'
  BY <1>2, RadioTypes DEF Deliver, BridgeTyped
<1>. QED
  BY <1>1, <1>3, First

LEMMA TypedKept ==
    ASSUME BridgeTyped, [BridgeNext]_bridgeVars
    PROVE  BridgeTyped'
<1>0. /\ Types
      /\ signals \in Seq(Signal) /\ <<>> \in Seq(Signal)
      /\ quit \in 0 .. 5
  BY TypedIsTypes, Nothing DEF BridgeTyped, WorkerTypes, UnkeyCalls
<1>1. CASE Serve \/ Timer
  <2>1. [Next]_vars /\ UNCHANGED <<signals, workerVars, quit>>
    BY <1>1 DEF Serve, Timer, Next
  <2>2. backend' = backend
    BY <1>1 DEF Serve, Timer, ClientStep, DeviceStep, TimerStep
  <2>. QED
    BY <1>0, <2>1, <2>2, TypesKept, WorkerUntouched DEF BridgeTyped
<1>2. CASE Deliver
  BY <1>2, DeliverTypes, WorkerUntouched DEF BridgeTyped, Deliver
<1>3. CASE Quit \/ Destroy
  <2>1. quit' \in 0 .. 5
    <3>1. quit' = quit + 1 /\ (quit < 4 \/ quit = 4)
      BY <1>3 DEF Quit, Destroy, UnkeyCalls
    <3>. QED
      BY <1>0, <3>1
  <2>2. UNCHANGED <<signals, workerVars, backend>>
    BY <1>3 DEF Quit, Destroy
  <2>. QED
    BY <1>0, <1>3, <2>1, <2>2, EndTypes, WorkerUntouched
       DEF BridgeTyped, UnkeyCalls
<1>4. CASE Discard
  <2>1. UNCHANGED vars /\ UNCHANGED <<workerVars, quit>> /\ signals' = <<>>
    BY <1>4 DEF Discard
  <2>2. TypeOK' /\ backend' = backend
    BY <2>1, TypesKept DEF BridgeTyped, vars, radioVars
  <2>. QED
    BY <1>0, <2>1, <2>2, WorkerUntouched DEF BridgeTyped
<1>5. CASE PollStep \/ RequestStep \/ OutsideStep
  <2>1. WorkerTypes' /\ requests' \in Seq(Request)
    <3>1. requests \in Seq(Request)
      BY DEF BridgeTyped, TypeOK
    <3>. QED
      BY <1>0, <1>5, <3>1, PollTypes, TaskTypes, OutsideTypes
         DEF PollStep, RequestStep, OutsideStep
  <2>2. UNCHANGED fixed /\ UNCHANGED serverVars /\ UNCHANGED quit
    BY <1>5 DEF PollStep, RequestStep, OutsideStep
  <2>3. TypeOK'
    BY <2>1, <2>2, SlotTypes DEF BridgeTyped, Slot, Aside, serverVars
  <2>. QED
    BY <2>1, <2>2, <2>3 DEF BridgeTyped
<1>6. CASE UNCHANGED bridgeVars
  <2>1. UNCHANGED vars /\ UNCHANGED <<signals, workerVars, quit>>
    BY <1>6 DEF bridgeVars
  <2>2. TypeOK' /\ backend' = backend
    BY <2>1, TypesKept DEF BridgeTyped, vars, radioVars
  <2>. QED
    BY <1>0, <2>1, <2>2, WorkerUntouched DEF BridgeTyped
<1>. QED
  BY <1>1, <1>2, <1>3, <1>4, <1>5, <1>6 DEF BridgeNext

LEMMA TypedInitially == BridgeInit => BridgeTyped
<1> SUFFICES ASSUME BridgeInit PROVE BridgeTyped
  OBVIOUS
<1>1. TypeOK /\ backend = "rigctld"
  BY InitTypes DEF BridgeInit, Init
<1>2. Flags
  BY DEF BridgeInit, WorkerInit, Flags
<1>3. /\ failures = 0 /\ faults = 0 /\ hands = 0 /\ at = "start"
      /\ signals = <<>> /\ quit = 0
  BY DEF BridgeInit, WorkerInit
<1>4. WorkerTypes
  <2>1. failures \in 0 .. MaxFailures - 1
    BY <1>3, WorkerAssumption
  <2>2. faults \in 0 .. MaxFaults /\ hands \in 0 .. MaxHand
    BY <1>3, WorkerAssumption
  <2>. QED
    BY <1>2, <1>3, <2>1, <2>2, Nothing DEF WorkerTypes
<1>5. quit \in 0 .. UnkeyCalls + 1
  BY <1>3 DEF UnkeyCalls
<1>. QED
  BY <1>1, <1>4, <1>5 DEF BridgeTyped

(* The state of the server, of the worker and of both queues keeps its     *)
(* types while they work together, until the program has ended.            *)
THEOREM BridgeTypes == BridgeSpec => []BridgeTypeOK
<1>1. BridgeSpec => []BridgeTyped
  BY TypedInitially, TypedKept, PTL DEF BridgeSpec
<1>. QED
  BY <1>1, TypedIsOK, PTL

-----------------------------------------------------------------------------
(***************************************************************************)
(* What the server hears of the link.  After is what a server that         *)
(* believes c will believe of the connection when it has heard q; q is     *)
(* backed if every report of a usable radio in it will then be heard by a  *)
(* server that believes in a connection.                                   *)
(***************************************************************************)
After(q, c) ==
    Says(q, "connected", TRUE) \/ (Mute(q, "connected") /\ c)

Backed(q, c) ==
    \A n \in DOMAIN q :
        q[n].op = "usable" /\ q[n].on => After(SubSeq(q, 1, n - 1), c)

\* q does not report a usable radio.
Modest(q) == \A n \in DOMAIN q : q[n].op = "usable" => ~q[n].on

LEMMA AfterJoined ==
    ASSUME NEW p \in Seq(Signal), NEW q \in Seq(Signal), NEW c
    PROVE  After(p \o q, c) <=> After(q, After(p, c))
BY Joined DEF After

LEMMA AfterNothing ==
    ASSUME NEW c
    PROVE  After(<<>>, c) <=> c
BY Nothing DEF After

LEMMA FrontsJoined ==
    ASSUME NEW p \in Seq(Signal), NEW q \in Seq(Signal)
    PROVE  /\ \A n \in DOMAIN p :
                /\ n \in DOMAIN (p \o q) /\ (p \o q)[n] = p[n]
                /\ SubSeq(p \o q, 1, n - 1) = SubSeq(p, 1, n - 1)
                /\ SubSeq(p, 1, n - 1) \in Seq(Signal)
           /\ \A n \in DOMAIN q :
                /\ n + Len(p) \in DOMAIN (p \o q)
                /\ (p \o q)[n + Len(p)] = q[n]
                /\ SubSeq(p \o q, 1, n + Len(p) - 1)
                     = p \o SubSeq(q, 1, n - 1)
                /\ SubSeq(q, 1, n - 1) \in Seq(Signal)
           /\ \A n \in DOMAIN (p \o q) : n \notin DOMAIN p =>
                \E k \in DOMAIN q : n = k + Len(p)
<1>1. ASSUME NEW n \in DOMAIN p
      PROVE  /\ n \in DOMAIN (p \o q) /\ (p \o q)[n] = p[n]
             /\ SubSeq(p, 1, n - 1) \in Seq(Signal)
  BY SMT
<1>2. ASSUME NEW n \in DOMAIN p
      PROVE  SubSeq(p \o q, 1, n - 1) = SubSeq(p, 1, n - 1)
  BY SMT
<1>3. ASSUME NEW n \in DOMAIN q
      PROVE  /\ n + Len(p) \in DOMAIN (p \o q)
             /\ (p \o q)[n + Len(p)] = q[n]
             /\ SubSeq(q, 1, n - 1) \in Seq(Signal)
  BY SMT
<1>4. ASSUME NEW n \in DOMAIN q
      PROVE  SubSeq(p \o q, 1, n + Len(p) - 1) = p \o SubSeq(q, 1, n - 1)
  BY SMTT(90)
<1>5. ASSUME NEW n \in DOMAIN (p \o q), n \notin DOMAIN p
      PROVE  \E k \in DOMAIN q : n = k + Len(p)
  <2>1. n - Len(p) \in DOMAIN q /\ n = (n - Len(p)) + Len(p)
    BY <1>5, SMT
  <2>. QED
    BY <2>1
<1>. QED
  BY <1>1, <1>2, <1>3, <1>4, <1>5

LEMMA BackedJoined ==
    ASSUME NEW p \in Seq(Signal), NEW q \in Seq(Signal), NEW c
    PROVE  Backed(p \o q, c) <=> Backed(p, c) /\ Backed(q, After(p, c))
<1>. DEFINE r == p \o q
<1>1. \A n \in DOMAIN q : After(SubSeq(r, 1, n + Len(p) - 1), c)
                             <=> After(SubSeq(q, 1, n - 1), After(p, c))
  <2> SUFFICES ASSUME NEW n \in DOMAIN q
               PROVE  After(SubSeq(r, 1, n + Len(p) - 1), c)
                        <=> After(SubSeq(q, 1, n - 1), After(p, c))
    OBVIOUS
  <2>. DEFINE f == SubSeq(q, 1, n - 1)
  <2>1. f \in Seq(Signal) /\ SubSeq(r, 1, n + Len(p) - 1) = p \o f
    BY FrontsJoined
  <2>. HIDE DEF f, r
  <2>2. After(p \o f, c) <=> After(f, After(p, c))
    BY <2>1, AfterJoined
  <2>. QED
    BY <2>1, <2>2 DEF f
<1>2. /\ \A n \in DOMAIN p : /\ n \in DOMAIN r /\ r[n] = p[n]
                             /\ SubSeq(r, 1, n - 1) = SubSeq(p, 1, n - 1)
      /\ \A n \in DOMAIN q : n + Len(p) \in DOMAIN r /\ r[n + Len(p)] = q[n]
      /\ \A n \in DOMAIN r : n \notin DOMAIN p =>
           \E k \in DOMAIN q : n = k + Len(p)
  BY FrontsJoined
<1>. HIDE DEF r
<1>3. ASSUME Backed(r, c) PROVE Backed(p, c) /\ Backed(q, After(p, c))
  <2>1. Backed(p, c)
    BY <1>2, <1>3 DEF Backed
  <2>2. ASSUME NEW n \in DOMAIN q, q[n].op = "usable", q[n].on
        PROVE  After(SubSeq(q, 1, n - 1), After(p, c))
    <3>. DEFINE k == n + Len(p)
    <3>1. k \in DOMAIN r /\ r[k] = q[n]
      BY <1>2
    <3>2. After(SubSeq(r, 1, k - 1), c)
      BY <1>3, <2>2, <3>1 DEF Backed
    <3>. QED
      BY <1>1, <3>2
  <2>. QED
    BY <2>1, <2>2 DEF Backed
<1>4. ASSUME Backed(p, c), Backed(q, After(p, c)) PROVE Backed(r, c)
  <2> SUFFICES ASSUME NEW n \in DOMAIN r, r[n].op = "usable", r[n].on
               PROVE  After(SubSeq(r, 1, n - 1), c)
    BY DEF Backed
  <2>1. CASE n \in DOMAIN p
    BY <1>2, <1>4, <2>1 DEF Backed
  <2>2. CASE n \notin DOMAIN p
    <3>1. PICK k \in DOMAIN q : n = k + Len(p)
      BY <1>2, <2>2
    <3>. QED
      BY <1>1, <1>2, <1>4, <3>1 DEF Backed
  <2>. QED
    BY <2>1, <2>2
<1>. QED
  BY <1>3, <1>4 DEF r

LEMMA ModestIsBacked ==
    ASSUME NEW q, Modest(q), NEW c
    PROVE  Backed(q, c)
BY DEF Modest, Backed

LEMMA ModestJoined ==
    ASSUME NEW p \in Seq(Signal), NEW q \in Seq(Signal), Modest(p), Modest(q)
    PROVE  Modest(p \o q)
<1> SUFFICES ASSUME NEW n \in DOMAIN (p \o q), (p \o q)[n].op = "usable"
             PROVE  ~(p \o q)[n].on
  BY DEF Modest
<1>1. CASE n \in DOMAIN p
  BY <1>1, FrontsJoined DEF Modest
<1>2. CASE n \notin DOMAIN p
  <2>1. PICK k \in DOMAIN q : n = k + Len(p)
    BY <1>2, FrontsJoined
  <2>2. (p \o q)[n] = q[k]
    BY <2>1, FrontsJoined
  <2>. QED
    BY <2>2 DEF Modest
<1>. QED
  BY <1>1, <1>2

LEMMA ModestReports ==
    /\ Modest(<<>>)
    /\ \A op \in {"ptt", "connected"}, on \in BOOLEAN : Modest(Emit(op, on))
    /\ \A op \in {"connected", "usable"}, was \in BOOLEAN :
         Modest(Dropped(op, was))
    /\ \A c \in BOOLEAN : c => Backed(Emit("usable", TRUE), c)
<1>1. Modest(<<>>)
  <2>1. DOMAIN <<>> = {}
    BY SMT
  <2>. QED
    BY <2>1 DEF Modest
<1>2. \A op, on : LET s == [op |-> op, on |-> on] IN
        /\ Emit(op, on) = <<s>> /\ s.op = op /\ s.on = on
        /\ DOMAIN <<s>> = {1} /\ <<s>>[1] = s
  <2> SUFFICES ASSUME NEW s PROVE DOMAIN <<s>> = {1} /\ <<s>>[1] = s
    BY DEF Emit
  <2>. QED
    BY SMT
<1>3. \A op, on : (op = "usable" => ~on) => Modest(Emit(op, on))
  BY <1>2 DEF Modest
<1>4. \A op, was : Modest(Dropped(op, was))
  BY <1>1, <1>3 DEF Dropped
<1>5. \A c \in BOOLEAN : c => Backed(Emit("usable", TRUE), c)
  <2> SUFFICES ASSUME NEW c \in BOOLEAN, c
               PROVE  Backed(Emit("usable", TRUE), c)
    OBVIOUS
  <2>1. SubSeq(Emit("usable", TRUE), 1, 1 - 1) = <<>>
    BY SMT DEF Emit
  <2>2. After(<<>>, c)
    BY AfterNothing
  <2>. QED
    <3>. DEFINE q == Emit("usable", TRUE)
    <3>1. \A n \in DOMAIN q : n = 1
      BY SMT DEF Emit
    <3>. HIDE DEF q
    <3>. QED
      BY <2>1, <2>2, <3>1 DEF Backed, q
<1>. QED
  BY <1>1, <1>3, <1>4, <1>5

\* When all signals are heard, the connection is believed as the worker has
\* it; and so it is when the report of a step is heard after them.
LEMMA AfterSignals ==
    ASSUME Types, LinkInv
    PROVE  After(signals, connected) <=> wConnected
<1>1. signals \in Seq(Signal)
  BY DEF Types, WorkerTypes
<1>2. ~Mute(signals, "connected") =>
        Says(signals, "connected", TRUE) \/ Says(signals, "connected", FALSE)
  BY <1>1, LastWord
<1>. QED
  BY <1>2 DEF LinkInv, Agrees, After

LEMMA AfterReport ==
    ASSUME NEW q, NEW c, NEW u, NEW failed, Reports(q, c, u, failed)
    PROVE  After(q, wConnected) <=> c
<1>1. ~Mute(q, "connected") =>
        Says(q, "connected", TRUE) \/ Says(q, "connected", FALSE)
  BY LastWord DEF Reports
<1>. QED
  BY <1>1 DEF Reports, Agrees, After

LEMMA LinkModest ==
    ASSUME Types, NEW o \in Endings
    PROVE  Modest(LinkSignals(o))
<1>. wUsable \in BOOLEAN /\ wConnected \in BOOLEAN
  BY DEF Types, WorkerTypes, Flags
<1>1. CASE o = "unreachable"
  <2>. DEFINE d == Dropped("usable", wUsable)
              e == Dropped("connected", wConnected)
  <2>1. d \in Seq(Signal) /\ e \in Seq(Signal)
    BY DroppedTold
  <2>2. Modest(d) /\ Modest(e)
    BY ModestReports
  <2>3. LinkSignals(o) = d \o e
    BY <1>1 DEF LinkSignals
  <2>. HIDE DEF d, e
  <2>. QED
    BY <2>1, <2>2, <2>3, ModestJoined
<1>2. CASE o # "unreachable"
  <2>. DEFINE d == IF socketUp THEN <<>> ELSE Emit("connected", TRUE)
              e == Dropped("connected", o = "broken")
  <2>1. d \in Seq(Signal) /\ e \in Seq(Signal)
    <3>1. (o = "broken") \in BOOLEAN
      OBVIOUS
    <3>. QED
      BY <3>1, Told, Nothing, DroppedTold
  <2>2. Modest(d) /\ Modest(e)
    <3>1. (o = "broken") \in BOOLEAN
      OBVIOUS
    <3>. QED
      BY <3>1, ModestReports
  <2>3. LinkSignals(o) = d \o e
    BY <1>2 DEF LinkSignals
  <2>. HIDE DEF d, e
  <2>. QED
    BY <2>1, <2>2, <2>3, ModestJoined
<1>. QED
  BY <1>1, <1>2

\* A step of the worker appends a report that is backed by its connection.
Extends ==
    \E q \in Seq(Signal) : signals' = signals \o q /\ Backed(q, wConnected)

LEMMA ModestExtends ==
    ASSUME NEW q \in Seq(Signal), Modest(q), signals' = signals \o q
    PROVE  Extends
BY ModestIsBacked DEF Extends

LEMMA FailureExtends ==
    ASSUME Types, NEW o \in Endings, NotePollFailure(o)
    PROVE  Extends
<1>. DEFINE q == LinkSignals(o)
            d == Dropped("usable", UsableAfter(o))
            e == Dropped("connected", UpAfter(o))
<1>1. q \in Seq(Signal) /\ Modest(q) /\ signals \in Seq(Signal)
  BY LinkSignalsTyped, LinkModest DEF Types, WorkerTypes
<1>2. /\ d \in Seq(Signal) /\ e \in Seq(Signal)
      /\ Modest(d) /\ Modest(e)
  <2>1. UsableAfter(o) \in BOOLEAN /\ UpAfter(o) \in BOOLEAN
    BY DEF UsableAfter, UpAfter, Types, WorkerTypes, Flags
  <2>. QED
    BY <2>1, DroppedTold, ModestReports
<1>3. signals' = signals \o q \/ signals' = signals \o q \o d \o e
  BY DEF NotePollFailure
<1>. HIDE DEF q, d, e
<1>4. CASE signals' = signals \o q
  BY <1>1, <1>4, ModestExtends
<1>5. CASE signals' = signals \o q \o d \o e
  <2>1. q \o d \in Seq(Signal) /\ Modest(q \o d)
    BY <1>1, <1>2, ModestJoined, Joined
  <2>2. q \o d \o e \in Seq(Signal) /\ Modest(q \o d \o e)
    BY <1>2, <2>1, ModestJoined, Joined
  <2>3. signals' = signals \o (q \o d \o e)
    BY <1>1, <1>2, <1>5, SMTT(90)
  <2>. QED
    BY <2>2, <2>3, ModestExtends
<1>. QED
  BY <1>3, <1>4, <1>5

\* The only report of a usable radio is made over a connection that is up,
\* and behind the report of that connection.
LEMMA PttExtends ==
    ASSUME Types, LinkInv, NEW o \in Endings, PollPtt(o)
    PROVE  Extends
<1>1. CASE NotePollFailure(o)
  BY <1>1, FailureExtends
<1>2. CASE ~NotePollFailure(o)
  <2>. DEFINE q == LinkSignals(o)
              p == IF wPtt # rigPtt THEN Emit("ptt", rigPtt) ELSE <<>>
              t == IF allOk /\ ~wUsable THEN Emit("usable", TRUE) ELSE <<>>
  <2>1. o = "done" /\ signals' = signals \o q \o p \o t
    BY <1>2 DEF PollPtt
  <2>2. /\ q \in Seq(Signal) /\ signals \in Seq(Signal) /\ Modest(q)
        /\ rigPtt \in BOOLEAN
    BY LinkSignalsTyped, LinkModest DEF Types, WorkerTypes, Flags
  <2>3. /\ p \in Seq(Signal) /\ Mute(p, "connected") /\ Modest(p)
    <3>1. p = <<>> \/ \E b \in BOOLEAN : p = Emit("ptt", b)
      BY <2>2
    <3>2. Modest(p)
      BY <3>1, ModestReports
    <3>. QED
      BY <3>1, <3>2, Unsaid
  <2>4. t \in Seq(Signal) /\ \A c \in BOOLEAN : c => Backed(t, c)
    <3>1. t = <<>> \/ t = Emit("usable", TRUE)
      OBVIOUS
    <3>2. Emit("usable", TRUE) \in Seq(Signal) /\ <<>> \in Seq(Signal)
      BY Told, Nothing
    <3>3. \A c : Backed(<<>>, c)
      BY ModestReports, ModestIsBacked
    <3>. QED
      BY <3>1, <3>2, <3>3, ModestReports
  <2>5. After(q, wConnected)
    <3>1. UpAfter(o)
      BY <2>1 DEF UpAfter
    <3>. QED
      BY <3>1, LinkReport, AfterReport
  <2>. HIDE DEF q, p, t
  <2>6. /\ q \o p \in Seq(Signal) /\ Modest(q \o p)
        /\ After(q \o p, wConnected)
    <3>1. Says(q \o p, "connected", TRUE) <=> Says(q, "connected", TRUE)
      <4>1. ~Says(p, "connected", TRUE)
        BY <2>3 DEF Says, Mute, Final
      <4>. QED
        BY <2>2, <2>3, <4>1, Joined
    <3>2. Mute(q \o p, "connected") <=> Mute(q, "connected")
      BY <2>2, <2>3, Joined
    <3>. QED
      BY <2>2, <2>3, <2>5, <3>1, <3>2, Joined, ModestJoined DEF After
  <2>7. q \o p \o t \in Seq(Signal) /\ Backed(q \o p \o t, wConnected)
    <3>. DEFINE a == q \o p
                c == After(a, wConnected)
    <3>1. a \in Seq(Signal) /\ Backed(a, wConnected) /\ c /\ c \in BOOLEAN
      BY <2>6, ModestIsBacked DEF After
    <3>. HIDE DEF a
    <3>2. Backed(t, c)
      BY <2>4, <3>1
    <3>3. a \o t \in Seq(Signal) /\ Backed(a \o t, wConnected)
      BY <2>4, <3>1, <3>2, BackedJoined, Joined
    <3>. QED
      BY <3>3 DEF a
  <2>8. signals' = signals \o (q \o p \o t)
    BY <2>1, <2>2, <2>3, <2>4, SMTT(90)
  <2>. QED
    BY <2>7, <2>8 DEF Extends
<1>. QED
  BY <1>1, <1>2

LEMMA PollExtends ==
    ASSUME Types, LinkInv, NEW o \in Endings, Exchange(o)
    PROVE  Extends
<1>1. CASE NotePollFailure(o)
  BY <1>1, FailureExtends
<1>2. CASE signals' = signals \o LinkSignals(o)
  BY <1>2, LinkSignalsTyped, LinkModest, ModestExtends
<1>3. CASE PollPtt(o)
  BY <1>3, PttExtends
<1>. QED
  BY <1>1, <1>2, <1>3
     DEF Exchange, Start, PollFrequency, PollMode, PollOptional

LEMMA TaskExtends ==
    ASSUME Types, Requested
    PROVE  Extends
<1>1. /\ signals \in Seq(Signal) /\ requests \in Seq(Request)
      /\ wUsable \in BOOLEAN /\ wConnected \in BOOLEAN
  BY DEF Types, WorkerTypes, Flags
<1>2. ASSUME NEW o \in Endings, SetPtt(o)
      PROVE  Extends
  <2>. DEFINE q == LinkSignals(o)
              p == IF wPtt' # wPtt THEN Emit("ptt", Head(requests).on) ELSE <<>>
  <2>1. signals' = signals \o q \o p
    BY <1>2 DEF SetPtt
  <2>2. q \in Seq(Signal) /\ Modest(q)
    BY LinkSignalsTyped, LinkModest
  <2>3. p \in Seq(Signal) /\ Modest(p)
    <3>1. Head(requests).on \in BOOLEAN
      <4>1. Head(requests) \in Request
        BY <1>1, <1>2 DEF SetPtt, Takes
      <4>. QED
        BY <4>1 DEF Request
    <3>. QED
      BY <3>1, Told, Nothing, ModestReports
  <2>. HIDE DEF q, p
  <2>4. q \o p \in Seq(Signal) /\ Modest(q \o p)
    BY <2>2, <2>3, Joined, ModestJoined
  <2>5. signals' = signals \o (q \o p)
    BY <1>1, <2>1, <2>2, <2>3, SMTT(90)
  <2>. QED
    BY <2>4, <2>5, ModestExtends
<1>3. CASE SetPollingSuspended
  <2>1. signals' = signals \o <<>>
    BY <1>1, <1>3 DEF SetPollingSuspended
  <2>. QED
    BY <2>1, Nothing, ModestReports, ModestExtends
<1>4. CASE Stop
  <2>. DEFINE d == Dropped("usable", wUsable)
              e == Dropped("connected", wConnected)
  <2>1. signals' = signals \o d \o e
    BY <1>4 DEF Stop
  <2>2. /\ d \in Seq(Signal) /\ e \in Seq(Signal)
        /\ Modest(d) /\ Modest(e)
    BY <1>1, DroppedTold, ModestReports
  <2>. HIDE DEF d, e
  <2>3. d \o e \in Seq(Signal) /\ Modest(d \o e)
    BY <2>2, Joined, ModestJoined
  <2>4. signals' = signals \o (d \o e)
    BY <1>1, <2>1, <2>2, SMTT(90)
  <2>. QED
    BY <2>3, <2>4, ModestExtends
<1>. QED
  BY <1>2, <1>3, <1>4 DEF Requested

\* Appended behind the signals under way, such a report is backed by what
\* the server believes.
LEMMA ExtendsKeeps ==
    ASSUME Types, LinkInv, Backed(signals, connected), Extends,
           UNCHANGED connected
    PROVE  Backed(signals', connected')
<1>1. PICK q \in Seq(Signal) : signals' = signals \o q /\ Backed(q, wConnected)
  BY DEF Extends
<1>2. signals \in Seq(Signal)
  BY DEF Types, WorkerTypes
<1>3. Backed(q, After(signals, connected))
  BY <1>1, AfterSignals DEF Backed, After
<1>. QED
  BY <1>1, <1>2, <1>3, BackedJoined

\* The oldest signal, heard.
LEMMA HeardBacked ==
    ASSUME Types, Backed(signals, connected), signals # <<>>,
           signals' = Tail(signals),
           \/ Head(signals).op # "connected" /\ connected' = connected
           \/ /\ Head(signals).op = "connected"
              /\ connected' = Head(signals).on
    PROVE  /\ Backed(signals', connected')
           /\ Head(signals).op = "usable" /\ Head(signals).on => connected
<1>. DEFINE s == Head(signals)
            q == Tail(signals)
<1>1. s \in Signal /\ q \in Seq(Signal) /\ signals = <<s>> \o q
  BY First DEF Types, WorkerTypes
<1>2. s.on \in BOOLEAN /\ connected \in BOOLEAN
  BY <1>1 DEF Signal, Types, Beliefs
<1>3. signals' = q
  OBVIOUS
<1>4. \/ s.op # "connected" /\ connected' = connected
      \/ s.op = "connected" /\ connected' = s.on
  OBVIOUS
<1>. HIDE DEF s, q
<1>5. <<s>> \in Seq(Signal)
  BY <1>1, One
<1>6. Backed(<<s>>, connected) /\ Backed(q, After(<<s>>, connected))
  BY <1>1, <1>5, BackedJoined
<1>7. After(<<s>>, connected) <=> connected'
  BY <1>1, <1>2, <1>4, One DEF After
<1>8. Backed(q, connected')
  BY <1>6, <1>7 DEF Backed, After
<1>9. s.op = "usable" /\ s.on => connected
  <2>1. 1 \in DOMAIN <<s>> /\ <<s>>[1] = s /\ SubSeq(<<s>>, 1, 1 - 1) = <<>>
    BY SMT
  <2>2. s.op = "usable" /\ s.on => After(<<>>, connected)
    BY <1>6, <2>1 DEF Backed
  <2>. QED
    BY <2>2, AfterNothing
<1>. QED
  BY <1>3, <1>8, <1>9 DEF s

\* What the main thread and the worker hold about the link while the event
\* loop runs; afterwards signals are thrown away.
LinkHeard == Looping => LinkInv /\ Backed(signals, connected)

LEMMA LinkUntouched ==
    ASSUME Serve \/ Timer
    PROVE  UNCHANGED <<connected, usable>>
<1>1. ASSUME NEW c \in Clients, ClientEvent(c)
      PROVE  UNCHANGED <<connected, usable>>
  BY <1>1
     DEF ClientEvent, OnNewConnection, OnSocketDisconnected, QueryState, TrxOn,
         TrxOff, TxAudioStart, TxAudioStop, TxAudioFrame, radioVars
<1>2. CASE ForceUnkey \/ Tick \/ OnTxWatchdogExpired
  BY <1>2 DEF ForceUnkey, Tick, OnTxWatchdogExpired, radioVars
<1>. QED
  BY <1>1, <1>2 DEF Serve, Timer, ClientStep, DeviceStep, TimerStep

LEMMA DeliverHeard ==
    ASSUME BridgeTyped, LinkHeard, Deliver
    PROVE  /\ LinkInv' /\ Backed(signals', connected')
           /\ Head(signals).op = "usable" /\ Head(signals).on => connected
<1>1. Types /\ LinkInv /\ Backed(signals, connected)
  BY TypedIsTypes DEF LinkHeard, Deliver
<1>2. /\ signals # <<>> /\ signals' = Tail(signals)
      /\ UNCHANGED <<wConnected, wUsable, socketUp, writeFailed>>
  BY DEF Deliver, workerVars
<1>3. \/ Head(signals).op = "ptt" /\ UNCHANGED <<connected, usable>>
      \/ Head(signals).op = "connected" /\ ShadowConnected(Head(signals).on)
      \/ Head(signals).op = "usable" /\ ShadowUsable(Head(signals).on)
  BY DEF Deliver, OnPttChanged, ShadowPtt, OnConnectedChanged,
         OnRadioUsableChanged
<1>4. \/ Head(signals).op # "connected" /\ connected' = connected
      \/ Head(signals).op = "connected" /\ connected' = Head(signals).on
  BY <1>3 DEF ShadowConnected, ShadowUsable
<1>. QED
  BY <1>1, <1>2, <1>3, <1>4, HeardKeeps, HeardBacked

LEMMA LinkHeardKept ==
    ASSUME BridgeTyped, LinkHeard, [BridgeNext]_bridgeVars
    PROVE  LinkHeard'
<1> SUFFICES ASSUME Looping' PROVE LinkInv' /\ Backed(signals', connected')
  BY DEF LinkHeard
<1>1. Looping /\ LinkInv /\ Backed(signals, connected)
  <2>1. quit \in 0 .. 5
    BY DEF BridgeTyped, UnkeyCalls
  <2>2. quit' = quit \/ quit' = quit + 1
    BY DEF BridgeNext, Serve, Timer, Deliver, Quit, Destroy, Discard, PollStep,
           RequestStep, OutsideStep, bridgeVars
  <2>3. Looping
    BY <2>1, <2>2 DEF Looping
  <2>. QED
    BY <2>3 DEF LinkHeard
<1>2. Types
  BY TypedIsTypes
<1>3. CASE /\ UNCHANGED <<connected, usable, signals, wConnected, wUsable,
                          writeFailed>>
           /\ socketUp' => socketUp
  <2>1. LinkInv'
    BY <1>1, <1>3 DEF LinkInv
  <2>2. signals' = signals /\ connected' = connected
    BY <1>3
  <2>. QED
    BY <1>1, <2>1, <2>2
<1>4. CASE Serve \/ Timer
  BY <1>3, <1>4, LinkUntouched DEF Serve, Timer, workerVars
<1>5. CASE Quit \/ Destroy
  BY <1>3, <1>5 DEF Quit, Destroy, workerVars, serverVars
<1>6. CASE Deliver
  BY <1>6, DeliverHeard
<1>7. CASE Discard
  BY <1>1, <1>7 DEF Discard
<1>8. CASE PollStep
  BY <1>1, <1>2, <1>8, PollKeeps, PollExtends, ExtendsKeeps
     DEF PollStep, serverVars
<1>9. CASE RequestStep
  <2>1. Requested /\ UNCHANGED <<connected, usable>>
    BY <1>9 DEF RequestStep, serverVars
  <2>2. Backed(signals', connected')
    BY <1>1, <1>2, <2>1, TaskExtends, ExtendsKeeps
  <2>3. CASE SetPollingSuspended
    BY <1>3, <2>1, <2>3 DEF SetPollingSuspended
  <2>4. CASE Stop \/ \E o \in Endings : SetPtt(o)
    BY <1>1, <1>2, <2>1, <2>2, <2>4, SetPttKeeps, StopKeeps
  <2>. QED
    BY <2>1, <2>3, <2>4 DEF Requested
<1>10. CASE OutsideStep
  BY <1>3, <1>10
     DEF OutsideStep, serverVars, Environment, RigctldDown, RigctldUp, HandKeys
<1>11. CASE UNCHANGED bridgeVars
  BY <1>3, <1>11 DEF bridgeVars, vars, radioVars, workerVars
<1>. QED
  BY <1>4, <1>5, <1>6, <1>7, <1>8, <1>9, <1>10, <1>11 DEF BridgeNext

-----------------------------------------------------------------------------
(***************************************************************************)
(* Every step of the bridge is, to the server, a slot of the server: its   *)
(* assumption about the worker (RadioSignal) is met.                       *)
(***************************************************************************)
LEMMA BridgeIsSlot ==
    ASSUME BridgeTyped, LinkHeard, [BridgeNext]_bridgeVars
    PROVE  Slot
<1>0. requests \in Seq(Request) /\ TypeOK /\ backend = "rigctld"
  BY DEF BridgeTyped, TypeOK
<1>1. CASE Serve \/ Timer
  <2>1. [Next]_vars
    BY <1>1 DEF Serve, Timer, Next
  <2>. QED
    BY <1>0, <2>1, NextIsSlot
<1>2. CASE Deliver
  <2>. DEFINE b == Head(signals).on
  <2>1. b \in BOOLEAN /\ UNCHANGED fixed
    BY <1>2, First DEF Deliver, Signal, BridgeTyped, WorkerTypes
  <2>2. \/ OnPttChanged(b)
        \/ OnConnectedChanged(b)
        \/ (b => connected) /\ OnRadioUsableChanged(b)
    BY <1>2, DeliverHeard DEF Deliver
  <2>. HIDE DEF b
  <2>3. RadioSignal(b)
    BY <1>0, <2>2 DEF RadioSignal
  <2>. QED
    BY <2>1, <2>3 DEF Slot
<1>3. CASE Quit
  BY <1>3 DEF Quit, Slot
<1>4. CASE Destroy
  <2>1. requests' \in Seq(Request)
    BY <1>4, EndTypes DEF TypeOK
  <2>. QED
    BY <1>4, <2>1 DEF Destroy, serverVars, Slot, Aside
<1>5. CASE Discard \/ UNCHANGED bridgeVars
  <2>1. UNCHANGED vars
    BY <1>5 DEF Discard, bridgeVars
  <2>. QED
    BY <1>0, <2>1, NextIsSlot
<1>6. CASE PollStep \/ RequestStep \/ OutsideStep
  <2>1. requests' \in Seq(Request)
    BY <1>0, <1>6, TypedIsTypes, PollTypes, TaskTypes, OutsideTypes
       DEF PollStep, RequestStep, OutsideStep
  <2>2. UNCHANGED fixed /\ UNCHANGED serverVars
    BY <1>6 DEF PollStep, RequestStep, OutsideStep
  <2>. QED
    BY <2>1, <2>2 DEF serverVars, Slot, Aside
<1>. QED
  BY <1>1, <1>2, <1>3, <1>4, <1>5, <1>6 DEF BridgeNext

BridgeInv == BridgeTyped /\ LinkHeard /\ Safety /\ ToldTruth

LEMMA BridgeInvInitially == BridgeInit => BridgeInv
<1> SUFFICES ASSUME BridgeInit PROVE BridgeInv
  OBVIOUS
<1>1. Init /\ signals = <<>>
  BY DEF BridgeInit, WorkerInit
<1>2. ~connected /\ ~usable /\ ~wConnected /\ ~wUsable /\ ~socketUp
  BY DEF BridgeInit, WorkerInit, Init, RadioInit
<1>3. LinkInv
  BY <1>1, <1>2, Nothing DEF LinkInv, Agrees
<1>4. Backed(<<>>, connected)
  BY ModestReports, ModestIsBacked
<1>. QED
  BY <1>1, <1>3, <1>4, TypedInitially, InitSafe, InitTold
     DEF BridgeInv, LinkHeard

LEMMA BridgeInvKept ==
    ASSUME BridgeInv, [BridgeNext]_bridgeVars
    PROVE  BridgeInv'
<1>1. BridgeTyped /\ LinkHeard /\ Slot /\ TypeOK
  BY BridgeIsSlot DEF BridgeInv, BridgeTyped
<1>. QED
  BY <1>1, TypedKept, LinkHeardKept, SlotSafe, SlotTold DEF BridgeInv

LEMMA BridgeAlways == BridgeSpec => []BridgeInv
BY BridgeInvInitially, BridgeInvKept, PTL DEF BridgeSpec

(* The server is told that the radio is usable only while it believes in a *)
(* connection, whatever order things fail in: what RadioSignal assumes of  *)
(* the worker is what the worker does.  (ensureConnected, notePollSuccess, *)
(* forceReconnect, updateConnected)                                        *)
THEOREM AlwaysUsableAfterConnected == BridgeSpec => []UsableAfterConnected
<1>1. BridgeInv => UsableAfterConnected
  <2> SUFFICES ASSUME BridgeInv, quit = 0, signals # <<>>,
                      Head(signals) = [op |-> "usable", on |-> TRUE]
               PROVE  connected
    BY DEF UsableAfterConnected
  <2>1. signals \in Seq(Signal) /\ Backed(signals, connected)
    BY DEF BridgeInv, BridgeTyped, WorkerTypes, LinkHeard, Looping
  <2>2. /\ 1 \in DOMAIN signals /\ signals[1] = Head(signals)
        /\ SubSeq(signals, 1, 1 - 1) = <<>>
    BY <2>1, SMT
  <2>3. After(<<>>, connected)
    <3>1. signals[1].op = "usable" /\ signals[1].on
      BY <2>2
    <3>2. After(SubSeq(signals, 1, 1 - 1), connected)
      BY <2>1, <2>2, <3>1 DEF Backed
    <3>. QED
      BY <2>2, <3>2
  <2>. QED
    BY <2>3, AfterNothing
<1>. QED
  BY <1>1, BridgeAlways, PTL

(* In front of a real worker the server keeps what it promises of a        *)
(* transmission: it is guarded, its owner is on the air, polling is        *)
(* suspended for its audio alone, disabled transmit never keys, and an     *)
(* unkeying is pending only for an offline radio.  (every slot of          *)
(* TciServer.cpp, forceUnkey at the end of the program)                    *)
THEOREM BridgeSafe == BridgeSpec => []Safety
<1>1. BridgeInv => Safety
  BY DEF BridgeInv
<1>. QED
  BY <1>1, BridgeAlways, PTL

(* What the clients of the bridge were last told about trx is what it      *)
(* believes, up to the end of the program.  (broadcastText, sendState)     *)
THEOREM BridgeToldTruth == BridgeSpec => []ToldTruth
<1>1. BridgeInv => ToldTruth
  BY DEF BridgeInv
<1>. QED
  BY <1>1, BridgeAlways, PTL

(* The bridge, its worker and its shutdown included, implements            *)
(* Transmission: nothing the worker does moves the transmitter past the    *)
(* server.  (TciServer, RigctldBackend)                                    *)
THEOREM BridgeImplements == BridgeSpec => Implements
<1>1. BridgeInit => T!Init
  BY InitSteps DEF BridgeInit
<1>2. BridgeInv /\ [BridgeNext]_bridgeVars => [T!Next]_T!tVars
  BY BridgeIsSlot, SlotSteps DEF BridgeInv, BridgeTyped
<1>. QED
  BY <1>1, <1>2, BridgeAlways, PTL DEF BridgeSpec, Implements, T!Spec

(* No step of the bridge, the unkeyings of a shutdown included, hands the  *)
(* transmission or the TX audio from one client to another.                *)
(* (requestPtt, tx_audio_start)                                            *)
THEOREM BridgeNeverSteals == BridgeSpec => NoSteal
<1>1. BridgeInv /\ [BridgeNext]_bridgeVars => [NothingStolen]_vars
  BY BridgeIsSlot, SlotSteals DEF BridgeInv, BridgeTyped
<1>. QED
  BY <1>1, BridgeAlways, PTL DEF BridgeSpec, NoSteal, NothingStolen

(* An unkeying the bridge owes is forgotten by no step of either thread:   *)
(* it ends in a request to unkey, the youngest in the queue.               *)
(* (onRadioOnlineChanged)                                                  *)
THEOREM BridgeKeepsPending == BridgeSpec => PendingKept
<1>1. BridgeInv /\ [BridgeNext]_bridgeVars => [PendingDone]_vars
  BY BridgeIsSlot, SlotKeepsPending DEF BridgeInv, BridgeTyped
<1>. QED
  BY <1>1, BridgeAlways, PTL DEF BridgeSpec, PendingKept, PendingDone

(* When the client that keyed the radio goes away and the configuration    *)
(* asks for it, the same step of the bridge unkeys or schedules it.        *)
(* (unkey_on_disconnect)                                                   *)
THEOREM BridgeLossUnkeys == BridgeSpec => OwnerLossUnkeys
<1>1. BridgeInv /\ [BridgeNext]_bridgeVars => [LossUnkeys]_vars
  BY BridgeIsSlot, SlotLoses DEF BridgeInv, BridgeTyped
<1>. QED
  BY <1>1, BridgeAlways, PTL DEF BridgeSpec, OwnerLossUnkeys, LossUnkeys

-----------------------------------------------------------------------------
(***************************************************************************)
(* What the server asks for.  A slot of the server appends to the requests *)
(* what says exactly how asked changes, and never a stop.                  *)
(***************************************************************************)
Calls ==
    \/ UNCHANGED <<requests, asked>>
    \/ \E s \in BOOLEAN : CallSuspend(s)
    \/ \E s \in BOOLEAN, on \in BOOLEAN : CallRadio(s, on)

Asks ==
    \E r \in Seq(Request) :
        /\ requests' = requests \o r
        /\ Mute(r, "stop")
        /\ Agrees(r, "ptt", asked')
        /\ Mute(r, "ptt") => asked' = asked

LEMMA StopCalls ==
    ASSUME NEW online, StopTransmit(online)
    PROVE  Calls
BY DEF StopTransmit, Calls

LEMMA RequestCalls ==
    ASSUME NEW c, NEW s \in BOOLEAN, NEW R,
           RequestPttOn(c, s, R) \/ RequestPttOff(s, R)
    PROVE  Calls
BY DEF RequestPttOn, RequestPttOff, Calls

LEMMA ClientCalls ==
    ASSUME TypeOK, NEW c \in Clients, ClientEvent(c)
    PROVE  Calls
<1>0. suspended \in BOOLEAN /\ TRUE \in BOOLEAN
      /\ (suspended /\ txAudioOwner # c) \in BOOLEAN
  BY DEF TypeOK
<1>1. CASE OnNewConnection(c) \/ QueryState(c)
  BY <1>1 DEF OnNewConnection, QueryState, radioVars, Calls
<1>2. CASE OnSocketDisconnected(c)
  <2>1. CASE StopTransmit(Online)
    BY <2>1, StopCalls
  <2>2. CASE CallSuspend(suspended /\ txAudioOwner # c)
    BY <1>0, <2>2 DEF Calls
  <2>. QED
    BY <1>2, <2>1, <2>2 DEF OnSocketDisconnected
<1>3. CASE TrxOn(c) \/ TrxOff(c)
  BY <1>0, <1>3, RequestCalls DEF TrxOn, TrxOff
<1>4. CASE TxAudioStart(c)
  <2>1. CASE RequestPttOn(c, TRUE, {})
    BY <1>0, <2>1, RequestCalls
  <2>2. CASE CallSuspend(TRUE)
    BY <1>0, <2>2 DEF Calls
  <2>. QED
    BY <1>4, <2>1, <2>2 DEF TxAudioStart
<1>5. CASE TxAudioStop(c)
  <2>1. CASE RequestPttOff(suspended /\ txAudioOwner # c, {})
    BY <1>0, <2>1, RequestCalls
  <2>2. CASE CallSuspend(suspended /\ txAudioOwner # c)
    BY <1>0, <2>2 DEF Calls
  <2>. QED
    BY <1>5, <2>1, <2>2 DEF TxAudioStop
<1>6. CASE TxAudioFrame(c)
  <2>1. CASE RequestPttOn(c, suspended, {})
    BY <1>0, <2>1, RequestCalls
  <2>2. CASE UNCHANGED <<requests, asked>>
    BY <2>2 DEF Calls
  <2>. QED
    BY <1>6, <2>1, <2>2 DEF TxAudioFrame
<1>. QED
  BY <1>1, <1>2, <1>3, <1>4, <1>5, <1>6 DEF ClientEvent

LEMMA MainCalls ==
    ASSUME TypeOK, Serve \/ Timer \/ Deliver \/ Quit
    PROVE  Calls
<1>1. ASSUME RadioOffline \/ RadioOnline \/ NoOnlineSignal
      PROVE  Calls
  <2>1. CASE RadioOffline
    BY <2>1, StopCalls DEF RadioOffline, Calls
  <2>2. CASE RadioOnline \/ NoOnlineSignal
    BY <2>2 DEF RadioOnline, NoOnlineSignal, Calls
  <2>. QED
    BY <1>1, <2>1, <2>2
<1>2. ASSUME NEW b, OnPttChanged(b) \/ OnConnectedChanged(b)
                      \/ OnRadioUsableChanged(b)
      PROVE  Calls
  <2>1. CASE OnPttChanged(b)
    BY <2>1 DEF OnPttChanged, ShadowPtt, Calls
  <2>2. CASE OnConnectedChanged(b) \/ OnRadioUsableChanged(b)
    BY <1>1, <2>2 DEF OnConnectedChanged, OnRadioUsableChanged
  <2>. QED
    BY <1>2, <2>1, <2>2
<1>3. CASE Serve
  BY <1>3, ClientCalls, StopCalls
     DEF Serve, ClientStep, DeviceStep, ForceUnkey
<1>4. CASE Timer
  BY <1>4, StopCalls
     DEF Timer, TimerStep, OnTxWatchdogExpired, Tick, radioVars, Calls
<1>5. CASE Deliver
  BY <1>2, <1>5 DEF Deliver
<1>6. CASE Quit
  BY <1>6, StopCalls DEF Quit
<1>. QED
  BY <1>3, <1>4, <1>5, <1>6

\* Requests, empty or of one.
LEMMA NoRequest ==
    /\ <<>> \in Seq(Request)
    /\ \A x : Mute(<<>>, x)
    /\ \A w : Agrees(<<>>, "ptt", w)
<1>1. DOMAIN <<>> = {}
  BY SMT
<1>. QED
  BY <1>1, SMT DEF Mute, Says, Final, Agrees

LEMMA OneRequest ==
    ASSUME NEW h \in Request
    PROVE  /\ <<h>> \in Seq(Request)
           /\ \A x : Mute(<<h>>, x) <=> h.op # x
           /\ \A w \in BOOLEAN : Agrees(<<h>>, "ptt", w) <=>
                (h.op = "ptt" => (h.on <=> w))
<1>1. DOMAIN <<h>> = {1} /\ <<h>>[1] = h /\ <<h>> \in Seq(Request)
  BY SMT
<1>2. \A k \in {1} : ~(k > 1)
  BY SMT
<1>3. (h.on = TRUE <=> h.on) /\ (h.on = FALSE <=> ~h.on)
  BY DEF Request
<1>4. /\ Says(<<h>>, "ptt", TRUE) <=> h.op = "ptt" /\ h.on
      /\ Says(<<h>>, "ptt", FALSE) <=> h.op = "ptt" /\ ~h.on
  BY <1>1, <1>2, <1>3 DEF Says, Final
<1>. QED
  BY <1>1, <1>4 DEF Mute, Agrees

LEMMA QueuedFacts ==
    ASSUME backend = "rigctld", NEW op \in {"ptt", "suspend", "stop"},
           NEW on \in BOOLEAN
    PROVE  /\ Queued(op, on) \in Seq(Request)
           /\ \A x : Mute(Queued(op, on), x) <=> op # x
           /\ \A w \in BOOLEAN : Agrees(Queued(op, on), "ptt", w) <=>
                (op = "ptt" => (on <=> w))
<1>. DEFINE h == [op |-> op, on |-> on]
<1>1. h \in Request /\ h.op = op /\ h.on = on /\ Queued(op, on) = <<h>>
  BY DEF Request, Queued
<1>. HIDE DEF h
<1>. QED
  BY <1>1, OneRequest

LEMMA SuspendFacts ==
    ASSUME backend = "rigctld", NEW s \in BOOLEAN
    PROVE  /\ SuspendRequest(s) \in Seq(Request)
           /\ Mute(SuspendRequest(s), "ptt") /\ Mute(SuspendRequest(s), "stop")
BY QueuedFacts, NoRequest DEF SuspendRequest

LEMMA CallsAsk ==
    ASSUME TypeOK, backend = "rigctld", Calls
    PROVE  Asks
<1>0. requests \in Seq(Request) /\ asked \in BOOLEAN
  BY DEF TypeOK
<1>1. CASE UNCHANGED <<requests, asked>>
  <2>1. requests' = requests \o <<>> /\ asked' = asked
    BY <1>0, <1>1, SMT
  <2>. QED
    BY <2>1, NoRequest DEF Asks
<1>2. ASSUME NEW s \in BOOLEAN, CallSuspend(s)
      PROVE  Asks
  <2>1. asked' = asked /\ requests' = requests \o SuspendRequest(s)
    BY <1>2 DEF CallSuspend
  <2>2. Agrees(SuspendRequest(s), "ptt", asked')
    BY SuspendFacts DEF Agrees, Says, Final, Mute
  <2>. QED
    BY <2>1, <2>2, SuspendFacts DEF Asks
<1>3. ASSUME NEW s \in BOOLEAN, NEW on \in BOOLEAN, CallRadio(s, on)
      PROVE  Asks
  <2>. DEFINE q == SuspendRequest(s)
              r == Queued("ptt", on)
  <2>1. asked' = on /\ requests' = requests \o q \o r
    BY <1>3 DEF CallRadio
  <2>2. q \in Seq(Request) /\ Mute(q, "ptt") /\ Mute(q, "stop")
    BY SuspendFacts
  <2>3. /\ r \in Seq(Request) /\ ~Mute(r, "ptt") /\ Mute(r, "stop")
        /\ Agrees(r, "ptt", on)
    BY QueuedFacts
  <2>. HIDE DEF q, r
  <2>4. /\ q \o r \in Seq(Request)
        /\ \A x : Mute(q \o r, x) <=> Mute(q, x) /\ Mute(r, x)
        /\ \A x, b : Says(q \o r, x, b) <=>
             Says(r, x, b) \/ (Mute(r, x) /\ Says(q, x, b))
    BY <2>2, <2>3, AnyJoined
  <2>5. Agrees(q \o r, "ptt", on)
    BY <2>3, <2>4 DEF Agrees
  <2>6. requests' = requests \o (q \o r)
    BY <1>0, <2>1, <2>2, <2>3, SMTT(90)
  <2>7. Agrees(q \o r, "ptt", asked')
    BY <2>1, <2>5
  <2>. QED
    BY <2>2, <2>3, <2>4, <2>6, <2>7 DEF Asks
<1>. QED
  BY <1>1, <1>2, <1>3 DEF Calls

-----------------------------------------------------------------------------
(***************************************************************************)
(* The radio.  As long as nothing goes wrong with rigctld, and nobody keys *)
(* it by hand, it has done what was asked when no command waits any more:  *)
(* a radio that transmits has been reached once, and rigctld that answered *)
(* once answers always.                                                    *)
(***************************************************************************)
Undisturbed == faults = 0 /\ hands = 0

RigInv ==
    /\ socketUp => reachable
    /\ Agrees(requests, "ptt", asked)
    /\ Undisturbed /\ rigPtt =>
         reachable /\ (Mute(requests, "ptt") => asked)

LEMMA EndsFacts ==
    ASSUME Types, NEW o \in Endings, Ends(o)
    PROVE  /\ faults' = 0 => faults = 0 /\ o \in {"unreachable", "done"}
           /\ o = "unreachable" <=> ~socketUp /\ ~reachable
<1>1. faults \in Nat
  BY WorkerAssumption DEF Types, WorkerTypes
<1>. QED
  BY <1>1 DEF Ends

LEMMA ExchangeLinks ==
    ASSUME Types, NEW o \in Endings, Exchange(o), socketUp => reachable
    PROVE  /\ UNCHANGED <<requests, rigPtt, reachable, hands>>
           /\ faults' = 0 => faults = 0
           /\ socketUp' => reachable'
<1>1. UNCHANGED <<requests, rigPtt, reachable, hands>>
  BY DEF Exchange, Start, PollFrequency, PollMode, PollPtt, PollOptional
<1>2. Ends(o) /\ (socketUp' => UpAfter(o))
  BY DEF Exchange, Start, PollFrequency, PollMode, PollPtt, PollOptional,
         NotePollFailure, Link, UpAfter
<1>. QED
  BY <1>1, <1>2, EndsFacts DEF UpAfter

LEMMA MainRig ==
    ASSUME Types, RigInv, UNCHANGED workerVars,
           NEW r \in Seq(Request),
           requests' = requests \o r,
           Agrees(r, "ptt", asked'),
           Mute(r, "ptt") => asked' = asked
    PROVE  RigInv'
<1>1. /\ Mute(requests', "ptt") <=> Mute(requests, "ptt") /\ Mute(r, "ptt")
      /\ Says(requests', "ptt", TRUE) <=> Says(r, "ptt", TRUE)
           \/ (Mute(r, "ptt") /\ Says(requests, "ptt", TRUE))
      /\ Says(requests', "ptt", FALSE) <=> Says(r, "ptt", FALSE)
           \/ (Mute(r, "ptt") /\ Says(requests, "ptt", FALSE))
  BY AnyJoined DEF Types
<1>2. Mute(r, "ptt") => (asked' <=> asked)
  OBVIOUS
<1>3. Agrees(requests', "ptt", asked')
  BY <1>1, <1>2 DEF RigInv, Agrees
<1>4. UNCHANGED <<socketUp, reachable, rigPtt, faults, hands>>
  BY DEF workerVars
<1>. QED
  BY <1>1, <1>2, <1>3, <1>4 DEF RigInv, Undisturbed

\* The worker takes the oldest request h.
LEMMA TakenFacts ==
    ASSUME NEW S, NEW q \in Seq(S), q # <<>>
    PROVE  /\ Head(q) \in S /\ Tail(q) \in Seq(S)
           /\ q = <<Head(q)>> \o Tail(q)
BY SMT

LEMMA TakenRig ==
    ASSUME Types, Agrees(requests, "ptt", asked),
           requests # <<>>, requests' = Tail(requests), UNCHANGED asked
    PROVE  /\ Agrees(requests', "ptt", asked')
           /\ Mute(requests', "ptt") =>
                IF Head(requests).op = "ptt" THEN Head(requests).on <=> asked
                                             ELSE Mute(requests, "ptt")
<1>. DEFINE h == Head(requests)
            t == Tail(requests)
<1>1. h \in Request /\ t \in Seq(Request) /\ requests = <<h>> \o t
  BY TakenFacts DEF Types
<1>2. requests' = t /\ asked' = asked /\ asked \in BOOLEAN
  BY DEF Types, Beliefs
<1>. HIDE DEF h, t
<1>3. <<h>> \in Seq(Request) /\ (Mute(<<h>>, "ptt") <=> h.op # "ptt")
  BY <1>1, OneRequest
<1>4. /\ Mute(requests, "ptt") <=> Mute(<<h>>, "ptt") /\ Mute(t, "ptt")
      /\ \A b : Says(requests, "ptt", b) <=>
           Says(t, "ptt", b) \/ (Mute(t, "ptt") /\ Says(<<h>>, "ptt", b))
  BY <1>1, <1>3, AnyJoined
<1>5. Agrees(t, "ptt", asked)
  BY <1>4 DEF Agrees
<1>6. Mute(t, "ptt") => Agrees(<<h>>, "ptt", asked)
  BY <1>4 DEF Agrees
<1>7. Mute(t, "ptt") /\ h.op = "ptt" => (h.on <=> asked)
  BY <1>1, <1>2, <1>6, OneRequest
<1>8. Agrees(requests', "ptt", asked')
  <2>1. asked' <=> asked
    BY <1>2
  <2>. QED
    BY <1>2, <1>5, <2>1 DEF Agrees
<1>. QED
  BY <1>2, <1>3, <1>4, <1>7, <1>8 DEF h

LEMMA TaskRig ==
    ASSUME Types, RigInv, Requested, UNCHANGED asked
    PROVE  RigInv'
<1>. DEFINE h == Head(requests)
<1>1. requests # <<>> /\ requests' = Tail(requests)
  BY DEF Requested, SetPtt, SetPollingSuspended, Stop, Takes
<1>2. /\ Agrees(requests', "ptt", asked')
      /\ Mute(requests', "ptt") =>
           IF h.op = "ptt" THEN h.on <=> asked ELSE Mute(requests, "ptt")
  BY <1>1, TakenRig DEF RigInv
<1>. HIDE DEF h
<1>3. ASSUME NEW o \in Endings, SetPtt(o)
      PROVE  RigInv'
  <2>1. /\ Ends(o) /\ (socketUp' <=> UpAfter(o)) /\ h.op = "ptt"
        /\ UNCHANGED <<reachable, hands>>
    BY <1>3 DEF SetPtt, Takes, Link, h
  <2>2. socketUp' => reachable'
    BY <2>1, EndsFacts DEF RigInv, UpAfter
  <2>3. ASSUME Undisturbed', rigPtt'
        PROVE  reachable' /\ (Mute(requests', "ptt") => asked')
    <3>1. Undisturbed /\ o \in {"unreachable", "done"}
      BY <2>1, <2>3, EndsFacts DEF Undisturbed
    <3>2. CASE o = "unreachable"
      <4>1. rigPtt /\ ~reachable
        BY <1>3, <2>1, <2>3, <3>2, EndsFacts DEF SetPtt
      <4>. QED
        BY <3>1, <4>1 DEF RigInv
    <3>3. CASE o = "done"
      <4>1. reachable'
        BY <2>1, <3>3, EndsFacts DEF RigInv
      <4>2. h.on
        <5>1. rigPtt' = h.on
          BY <1>3, <3>3 DEF SetPtt, h
        <5>. QED
          BY <2>3, <5>1
      <4>. QED
        BY <1>2, <2>1, <4>1, <4>2
    <3>. QED
      BY <3>1, <3>2, <3>3
  <2>. QED
    BY <1>2, <2>2, <2>3 DEF RigInv
<1>4. CASE SetPollingSuspended \/ Stop
  <2>1. h.op # "ptt" /\ (socketUp' => socketUp)
    BY <1>4 DEF SetPollingSuspended, Stop, Takes, h
  <2>2. UNCHANGED <<reachable, rigPtt, faults, hands>>
    BY <1>4 DEF SetPollingSuspended, Stop
  <2>. QED
    BY <1>2, <2>1, <2>2 DEF RigInv, Undisturbed
<1>. QED
  BY <1>3, <1>4 DEF Requested

LEMMA OutsideRig ==
    ASSUME Types, RigInv, Environment, UNCHANGED asked
    PROVE  RigInv'
<1>1. faults \in Nat /\ hands \in Nat
  BY WorkerAssumption DEF Types, WorkerTypes
<1>2. CASE RigctldDown
  BY <1>1, <1>2 DEF RigctldDown, RigInv, Undisturbed
<1>3. CASE RigctldUp
  BY <1>3 DEF RigctldUp, RigInv, Undisturbed
<1>4. CASE HandKeys
  BY <1>1, <1>4 DEF HandKeys, RigInv, Undisturbed
<1>. QED
  BY <1>2, <1>3, <1>4 DEF Environment

LEMMA RigKept ==
    ASSUME BridgeTyped, RigInv, [BridgeNext]_bridgeVars
    PROVE  RigInv'
<1>0. Types /\ TypeOK /\ backend = "rigctld"
  BY TypedIsTypes DEF BridgeTyped
<1>1. CASE Serve \/ Timer \/ Deliver \/ Quit
  <2>1. UNCHANGED workerVars
    BY <1>1 DEF Serve, Timer, Deliver, Quit
  <2>2. Asks
    BY <1>0, <1>1, MainCalls, CallsAsk
  <2>. QED
    BY <1>0, <2>1, <2>2, MainRig DEF Asks
<1>2. CASE Destroy
  <2>. DEFINE r == Queued("stop", TRUE)
  <2>1. /\ requests' = requests \o r /\ asked' = asked
        /\ UNCHANGED workerVars
    BY <1>2 DEF Destroy, serverVars
  <2>2. r \in Seq(Request) /\ Agrees(r, "ptt", asked')
    BY <1>0, <2>1, QueuedFacts DEF TypeOK
  <2>. HIDE DEF r
  <2>. QED
    BY <1>0, <2>1, <2>2, MainRig
<1>3. CASE PollStep
  <2>1. PICK o \in Endings : Exchange(o) /\ UNCHANGED asked
    BY <1>3 DEF PollStep, serverVars
  <2>. QED
    BY <1>0, <2>1, ExchangeLinks DEF RigInv, Undisturbed
<1>4. CASE RequestStep
  BY <1>0, <1>4, TaskRig DEF RequestStep, serverVars
<1>5. CASE OutsideStep
  BY <1>0, <1>5, OutsideRig DEF OutsideStep, serverVars
<1>6. CASE Discard \/ UNCHANGED bridgeVars
  <2>1. UNCHANGED <<requests, asked, socketUp, reachable, rigPtt, faults, hands>>
    BY <1>6 DEF Discard, bridgeVars, vars, radioVars, workerVars
  <2>. QED
    BY <2>1 DEF RigInv, Undisturbed
<1>. QED
  BY <1>1, <1>2, <1>3, <1>4, <1>5, <1>6 DEF BridgeNext

LEMMA RigInitially == BridgeInit => RigInv
<1> SUFFICES ASSUME BridgeInit PROVE RigInv
  OBVIOUS
<1>1. requests = <<>> /\ ~socketUp /\ ~rigPtt
  BY DEF BridgeInit, WorkerInit, Init, RadioInit
<1>. QED
  BY <1>1, NoRequest DEF RigInv

LEMMA RigAlways == BridgeSpec => [](BridgeInv /\ RigInv)
<1>1. BridgeInv /\ RigInv /\ [BridgeNext]_bridgeVars => RigInv'
  BY RigKept DEF BridgeInv
<1>. QED
  BY <1>1, RigInitially, BridgeAlways, PTL DEF BridgeSpec

(* As long as rigctld has answered everything, once no PTT command waits   *)
(* any more, a radio nobody keys by hand transmits only if that is what    *)
(* was asked last.  (requestSetPtt, RigctldWorker::setPtt)                 *)
THEOREM RigFollowsUntilFault == BridgeSpec => [](faults = 0 => RigFollows)
<1>1. RigInv => (faults = 0 => RigFollows)
  BY DEF RigInv, RigFollows, NotByHand, Undisturbed, PttQueued, Mute
<1>. QED
  BY <1>1, RigAlways, PTL

\* Without kinds of faults there are none.
LEMMA FaultsKept ==
    ASSUME FaultKinds = {}, faults = 0, [BridgeNext]_bridgeVars
    PROVE  faults' = 0
<1>1. ASSUME NEW o \in Endings, Ends(o)
      PROVE  faults' = 0
  BY <1>1 DEF Ends
<1>2. ASSUME NEW o \in Endings, Exchange(o)
      PROVE  faults' = 0
  BY <1>1, <1>2
     DEF Exchange, Start, PollFrequency, PollMode, PollPtt, PollOptional,
         NotePollFailure, Link
<1>3. CASE Requested
  BY <1>1, <1>3 DEF Requested, SetPtt, SetPollingSuspended, Stop, Link
<1>4. CASE Environment
  BY <1>4 DEF Environment, RigctldDown, RigctldUp, HandKeys
<1>. QED
  BY <1>2, <1>3, <1>4
     DEF BridgeNext, Serve, Timer, Deliver, Quit, Destroy, Discard, PollStep,
         RequestStep, OutsideStep, workerVars, bridgeVars

LEMMA NeverFaults == ASSUME FaultKinds = {} PROVE BridgeSpec => [](faults = 0)
<1>1. BridgeInit => faults = 0
  BY DEF BridgeInit, WorkerInit
<1>2. faults = 0 /\ [BridgeNext]_bridgeVars => (faults = 0)'
  BY FaultsKept
<1>. QED
  BY <1>1, <1>2, PTL DEF BridgeSpec

(* With a rigctld that always answers, though it may come up late, the     *)
(* radio follows the commands, through every start-up, suspension and      *)
(* shutdown.  (requestSetPtt, RigctldWorker::setPtt)                       *)
THEOREM RigAlwaysFollows ==
    ASSUME FaultKinds = {} PROVE BridgeSpec => []RigFollows
BY RigFollowsUntilFault, NeverFaults, PTL

-----------------------------------------------------------------------------
(***************************************************************************)
(* The end of the program.  stop() is the last request there is; behind it *)
(* the worker has nothing left to do.  From the second unkeying on, the    *)
(* bridge has asked for PTT no more, or owes the unkeying to the radio.    *)
(***************************************************************************)
EndInv ==
    /\ \A n \in DOMAIN requests : requests[n].op = "stop" =>
         n = Len(requests) /\ quit = UnkeyCalls + 1
    /\ at = "stopped" => quit = UnkeyCalls + 1 /\ requests = <<>>
    /\ quit >= 2 => ~asked \/ pendingUnkey

\* Nothing is asked of the worker behind stop().
LEMMA MainEnd ==
    ASSUME BridgeTyped, EndInv, quit <= UnkeyCalls, UNCHANGED at,
           NEW r \in Seq(Request), requests' = requests \o r, Mute(r, "stop")
    PROVE  Mute(requests', "stop") /\ at # "stopped"
<1>1. quit \in 0 .. 5 /\ quit <= 4 /\ requests \in Seq(Request)
  BY DEF BridgeTyped, UnkeyCalls, TypeOK
<1>2. quit # UnkeyCalls + 1
  BY <1>1 DEF UnkeyCalls
<1>3. Mute(requests, "stop") /\ at # "stopped"
  BY <1>2 DEF EndInv, Mute
<1>. QED
  BY <1>1, <1>3, AnyJoined

LEMMA MainEndKept ==
    ASSUME BridgeTyped, EndInv, Serve \/ Timer \/ Deliver \/ Quit
    PROVE  EndInv'
<1>1. quit \in 0 .. 5 /\ TypeOK /\ backend = "rigctld"
  BY DEF BridgeTyped, UnkeyCalls
<1>2. UNCHANGED at /\ quit <= UnkeyCalls
  BY <1>1
     DEF Serve, Timer, Deliver, Quit, workerVars, Looping, UnkeyCalls
<1>3. PICK r \in Seq(Request) : requests' = requests \o r /\ Mute(r, "stop")
  BY <1>1, MainCalls, CallsAsk DEF Asks
<1>4. Mute(requests', "stop") /\ at' # "stopped"
  BY <1>2, <1>3, MainEnd
<1>5. ASSUME quit' >= 2
      PROVE  ~asked' \/ pendingUnkey'
  <2>1. CASE Quit
    BY <2>1, StopFacts DEF Quit
  <2>2. CASE Serve \/ Timer \/ Deliver
    <3>1. quit <= 1 /\ quit' = quit
      BY <2>2 DEF Serve, Timer, Deliver, Looping
    <3>. QED
      BY <1>1, <1>5, <3>1
  <2>. QED
    BY <2>1, <2>2
<1>. QED
  BY <1>4, <1>5 DEF EndInv, Mute

LEMMA DestroyEnd ==
    ASSUME BridgeTyped, EndInv, Destroy
    PROVE  EndInv'
<1>. DEFINE h == [op |-> "stop", on |-> TRUE]
<1>1. /\ quit = 4 /\ quit' = UnkeyCalls + 1 /\ requests \in Seq(Request)
      /\ UNCHANGED <<at, asked, pendingUnkey>>
  BY DEF Destroy, BridgeTyped, TypeOK, UnkeyCalls, serverVars, workerVars
<1>2. requests' = requests \o <<h>> /\ h \in Request
  BY DEF Destroy, Queued, BridgeTyped, Request
<1>3. quit # UnkeyCalls + 1 /\ quit >= 2
  BY <1>1 DEF UnkeyCalls
<1>4. at' # "stopped"
  BY <1>1, <1>3 DEF EndInv
<1>5. \A n \in DOMAIN requests : requests[n].op # "stop"
  BY <1>3 DEF EndInv
<1>. HIDE DEF h
<1>6. \A n \in DOMAIN requests' : n # Len(requests') =>
        n \in DOMAIN requests /\ requests'[n] = requests[n]
  BY <1>1, <1>2, SMT
<1>7. ~asked' \/ pendingUnkey'
  BY <1>1, <1>3 DEF EndInv
<1>. QED
  BY <1>1, <1>4, <1>5, <1>6, <1>7 DEF EndInv

LEMMA TaskEnd ==
    ASSUME BridgeTyped, EndInv, RequestStep
    PROVE  EndInv'
<1>1. /\ requests \in Seq(Request) /\ requests # <<>>
      /\ requests' = Tail(requests)
      /\ UNCHANGED <<quit, asked, pendingUnkey>>
  BY DEF RequestStep, Requested, SetPtt, SetPollingSuspended, Stop, Takes,
         BridgeTyped, TypeOK, serverVars
<1>2. /\ 1 \in DOMAIN requests /\ requests[1] = Head(requests)
      /\ Len(requests') = Len(requests) - 1
      /\ \A n \in DOMAIN requests' :
           n + 1 \in DOMAIN requests /\ requests'[n] = requests[n + 1]
      /\ 1 = Len(requests) => requests' = <<>>
      /\ Len(requests) \in Nat
  BY <1>1, SMT
<1>3. ASSUME NEW n \in DOMAIN requests', requests'[n].op = "stop"
      PROVE  n = Len(requests') /\ quit' = UnkeyCalls + 1
  <2>1. n + 1 = Len(requests) /\ quit = UnkeyCalls + 1
    BY <1>2, <1>3 DEF EndInv
  <2>2. n \in Nat
    BY <1>1, <1>3, SMT
  <2>. QED
    BY <1>1, <1>2, <2>1, <2>2, SMT
<1>4. at # "stopped"
  BY <1>1 DEF EndInv
<1>5. ASSUME at' = "stopped"
      PROVE  quit' = UnkeyCalls + 1 /\ requests' = <<>>
  <2>1. Head(requests).op = "stop"
    BY <1>4, <1>5 DEF RequestStep, Requested, SetPtt, SetPollingSuspended,
                      Stop, Takes
  <2>2. 1 = Len(requests) /\ quit = UnkeyCalls + 1
    BY <1>2, <2>1 DEF EndInv
  <2>. QED
    BY <1>1, <1>2, <2>2
<1>. QED
  BY <1>1, <1>3, <1>5 DEF EndInv

LEMMA EndKept ==
    ASSUME BridgeTyped, EndInv, [BridgeNext]_bridgeVars
    PROVE  EndInv'
<1>1. CASE UNCHANGED <<requests, quit, asked, pendingUnkey>>
           /\ (at' = "stopped" => at = "stopped")
  BY <1>1 DEF EndInv
<1>2. CASE PollStep
  <2>1. PICK o \in Endings : Exchange(o)
    BY <1>2 DEF PollStep
  <2>2. requests' = requests
    BY <2>1, TypedIsTypes, PollTypes
  <2>3. at' # "stopped"
    BY <2>1 DEF Exchange, Start, PollFrequency, PollMode, PollPtt,
                PollOptional
  <2>. QED
    BY <1>1, <1>2, <2>2, <2>3 DEF PollStep, serverVars
<1>3. CASE OutsideStep
  BY <1>1, <1>3
     DEF OutsideStep, serverVars, Environment, RigctldDown, RigctldUp, HandKeys
<1>4. CASE Discard \/ UNCHANGED bridgeVars
  BY <1>1, <1>4 DEF Discard, bridgeVars, vars, radioVars, workerVars
<1>. QED
  BY <1>2, <1>3, <1>4, MainEndKept, DestroyEnd, TaskEnd DEF BridgeNext

LEMMA EndInitially == BridgeInit => EndInv
<1> SUFFICES ASSUME BridgeInit PROVE EndInv
  OBVIOUS
<1>1. requests = <<>> /\ at = "start" /\ quit = 0
  BY DEF BridgeInit, WorkerInit, Init, RadioInit
<1>2. DOMAIN <<>> = {}
  BY SMT
<1>. QED
  BY <1>1, <1>2 DEF EndInv

LEMMA EndAlways == BridgeSpec => [](BridgeInv /\ RigInv /\ EndInv)
<1>1. BridgeInv /\ EndInv /\ [BridgeNext]_bridgeVars => EndInv'
  BY EndKept DEF BridgeInv
<1>. QED
  BY <1>1, EndInitially, RigAlways, PTL DEF BridgeSpec

LEMMA EndUnkeys ==
    ASSUME BridgeTyped, RigInv, EndInv, faults = 0
    PROVE  OnlineShutdownUnkeys
<1> SUFFICES ASSUME NotByHand, at = "stopped", ~pendingUnkey, rigPtt
             PROVE  FALSE
  BY DEF OnlineShutdownUnkeys
<1>1. requests = <<>> /\ quit >= 2
  BY DEF EndInv, UnkeyCalls
<1>2. asked
  BY <1>1, NoRequest DEF RigInv, Undisturbed, NotByHand
<1>. QED
  BY <1>1, <1>2 DEF EndInv

(* As long as rigctld has answered everything, a program that ends while   *)
(* it believes the radio online leaves it unkeyed: four unkeyings are      *)
(* asked for, all of them are carried out, and then the worker stops.      *)
(* (forceUnkey, ~TciServer, ~RigctldBackend, RigctldWorker::stop)          *)
THEOREM UnkeyedAtShutdown == BridgeSpec => [](faults = 0 => OnlineShutdownUnkeys)
<1>1. BridgeInv /\ RigInv /\ EndInv => (faults = 0 => OnlineShutdownUnkeys)
  BY EndUnkeys DEF BridgeInv
<1>. QED
  BY <1>1, EndAlways, PTL

(* With a rigctld that always answers, every orderly end of the program    *)
(* that believes the radio online leaves it unkeyed.  (the same)           *)
THEOREM AlwaysUnkeyedAtShutdown ==
    ASSUME FaultKinds = {} PROVE BridgeSpec => []OnlineShutdownUnkeys
BY UnkeyedAtShutdown, NeverFaults, PTL
=============================================================================
