---------------------------- MODULE CatLinkProofs ----------------------------
(***************************************************************************)
(* Proofs that the clients know what the worker holds when everything is   *)
(* delivered (BeliefFollows), and that one late answer does not make the   *)
(* worker hear a transmission (PttNotInvented), for any number of sets,    *)
(* refused answers and changes by hand, and queues of any length.          *)
(*                                                                         *)
(* The invariant behind the first relates the two copies of a field        *)
(* through the queues: the last signal about a field says what the worker  *)
(* holds, and without a signal under way a difference is explained by a    *)
(* set that is still to be confirmed, or by one that failed.               *)
(***************************************************************************)
EXTENDS CatLink, SequenceTheorems, TLAPS

\* Element n of queue q is the last one about x.
LastAbout(q, x, n) ==
    /\ n \in DOMAIN q
    /\ q[n].of = x
    /\ \A k \in DOMAIN q : k > n => q[k].of # x

About(q, x) == \E n \in DOMAIN q : q[n].of = x

Same(v, w) == AsRead(v) = AsRead(w)

SignalsTrue ==
    \A x \in Field : About(signals, x) =>
        \E n \in DOMAIN signals :
            LastAbout(signals, x, n) /\ signals[n].to = worker[x]

\* The last set of x under way asks for what the main thread believes.
Requested(x) ==
    \E n \in DOMAIN requests :
        LastAbout(requests, x, n) /\ Same(requests[n].to, belief[x])

Awaited(x) ==
    /\ x \in Polled
    /\ ~About(requests, x)
    /\ cmd.set /\ cmd.of = x
    /\ FromRig(cmd.to) = AsRead(belief[x])

BeliefExplained ==
    \A x \in Field :
        \/ About(signals, x)
        \/ x \in wrong
        \/ Same(belief[x], worker[x])
        \/ Requested(x)
        \/ Awaited(x)

\* The values of the fields matter only in comparisons, and have no type.
Copies(f) == f = [x \in Field |-> f[x]]

Queue(q) ==
    /\ \E S : q \in Seq(S)
    /\ \A n \in DOMAIN q : q[n].of \in Field

CatShape ==
    /\ Copies(belief)
    /\ Copies(worker)
    /\ Queue(requests)
    /\ Queue(signals)
    /\ cmd = NoCmd \/ cmd.of \in Field
    /\ next \in Field \union {"idle"}

CatInv == CatShape /\ SignalsTrue /\ BeliefExplained

-----------------------------------------------------------------------------
\* g is f with v for x.
ChangedTo(f, g, x, v) ==
    /\ Copies(g)
    /\ g[x] = v
    /\ \A y \in Field : y # x => g[y] = f[y]

\* r is q with e behind it, as far as About and LastAbout can tell.
Longer(q, r, e) ==
    /\ Queue(r)
    /\ \E n \in DOMAIN r : LastAbout(r, e.of, n) /\ r[n] = e
    /\ \A x \in Field \ {e.of} : About(r, x) <=> About(q, x)
    /\ \A x \in Field \ {e.of} : \A n \in DOMAIN q :
         LastAbout(q, x, n) => n \in DOMAIN r /\ LastAbout(r, x, n) /\ r[n] = q[n]

\* r is q without its first element, likewise.
Shorter(q, r) ==
    /\ Queue(r)
    /\ 1 \in DOMAIN q /\ Head(q) = q[1] /\ q[1].of \in Field
    /\ \A x \in Field : About(r, x) => About(q, x)
    /\ \A x \in Field : x # q[1].of /\ About(q, x) => About(r, x)
    /\ \A x \in Field : \A n \in DOMAIN q : LastAbout(q, x, n) =>
         \/ ~About(r, x) /\ n = 1
         \/ \E k \in DOMAIN r : LastAbout(r, x, k) /\ r[k] = q[n]

LEMMA CopyChanged ==
    ASSUME NEW f, Copies(f), NEW x \in Field, NEW v
    PROVE  ChangedTo(f, [f EXCEPT ![x] = v], x, v)
BY SMT DEF Copies, ChangedTo

LEMMA Appended ==
    ASSUME NEW q, Queue(q), NEW e, e.of \in Field
    PROVE  Longer(q, Append(q, e), e)
<1>. DEFINE r == Append(q, e)
<1>1. PICK S : q \in Seq(S)
  BY DEF Queue
<1>2. /\ r \in Seq(S \union {e})
      /\ Len(q) \in Nat
      /\ DOMAIN q = 1 .. Len(q)
      /\ DOMAIN r = 1 .. Len(q) + 1
      /\ r[Len(q) + 1] = e
      /\ \A n \in 1 .. Len(q) : r[n] = q[n]
  <2>1. q \in Seq(S \union {e})
    BY <1>1
  <2>. QED
    BY <2>1, SMT
<1>. HIDE DEF r
<1>3. Queue(r)
  BY <1>2, SMT DEF Queue
<1>4. LastAbout(r, e.of, Len(q) + 1)
  BY <1>2, SMT DEF LastAbout
<1>5. ASSUME NEW x \in Field \ {e.of}
      PROVE  About(r, x) <=> About(q, x)
  BY <1>2, SMT DEF About
<1>6. ASSUME NEW x \in Field \ {e.of}, NEW n \in DOMAIN q, LastAbout(q, x, n)
      PROVE  n \in DOMAIN r /\ LastAbout(r, x, n) /\ r[n] = q[n]
  BY <1>2, <1>6, SMT DEF LastAbout
<1>7. Len(q) + 1 \in DOMAIN r
  BY <1>2, SMT
<1>. QED
  BY <1>2, <1>3, <1>4, <1>5, <1>6, <1>7 DEF Longer, r

LEMMA Shortened ==
    ASSUME NEW q, Queue(q), q # <<>>
    PROVE  Shorter(q, Tail(q))
<1>. DEFINE r == Tail(q)
<1>1. PICK S : q \in Seq(S)
  BY DEF Queue
<1>2. /\ r \in Seq(S)
      /\ Len(q) \in Nat \ {0}
      /\ DOMAIN q = 1 .. Len(q)
      /\ DOMAIN r = 1 .. Len(q) - 1
      /\ \A n \in 1 .. Len(q) - 1 : r[n] = q[n + 1]
      /\ Head(q) = q[1]
  BY <1>1, SMT
<1>. HIDE DEF r
<1>3. \A n \in DOMAIN r : n + 1 \in DOMAIN q /\ r[n] = q[n + 1]
  BY <1>2, SMT
<1>4. Queue(r)
  BY <1>2, <1>3, SMT DEF Queue
<1>5. 1 \in DOMAIN q /\ q[1].of \in Field
  BY <1>2, SMT DEF Queue
<1>6. ASSUME NEW x \in Field, About(r, x)
      PROVE  About(q, x)
  BY <1>3, <1>6 DEF About
<1>7. ASSUME NEW x \in Field, x # q[1].of, About(q, x)
      PROVE  About(r, x)
  <2>1. PICK n \in DOMAIN q : q[n].of = x
    BY <1>7 DEF About
  <2>2. n - 1 \in DOMAIN r /\ r[n - 1] = q[n]
    BY <1>2, <1>7, <2>1, SMT
  <2>. QED
    BY <2>1, <2>2 DEF About
<1>8. ASSUME NEW x \in Field, NEW n \in DOMAIN q, LastAbout(q, x, n)
      PROVE  \/ ~About(r, x) /\ n = 1
             \/ \E k \in DOMAIN r : LastAbout(r, x, k) /\ r[k] = q[n]
  <2>1. CASE n = 1
    <3>1. ASSUME NEW k \in DOMAIN r PROVE r[k].of # x
      <4>1. k + 1 \in DOMAIN q /\ k + 1 > n /\ r[k] = q[k + 1]
        BY <1>2, <2>1, <3>1, SMT
      <4>. QED
        BY <1>8, <4>1 DEF LastAbout
    <3>. QED
      BY <2>1, <3>1 DEF About
  <2>2. CASE n # 1
    <3>1. n - 1 \in DOMAIN r /\ r[n - 1] = q[n]
      BY <1>2, <2>2, SMT
    <3>2. ASSUME NEW k \in DOMAIN r, k > n - 1 PROVE r[k].of # x
      <4>1. k + 1 \in DOMAIN q /\ k + 1 > n /\ r[k] = q[k + 1]
        BY <1>2, <3>2, SMT
      <4>. QED
        BY <1>8, <4>1 DEF LastAbout
    <3>3. LastAbout(r, x, n - 1)
      BY <1>8, <3>1, <3>2 DEF LastAbout
    <3>. QED
      BY <3>1, <3>3
  <2>. QED
    BY <2>1, <2>2
<1>. QED
  BY <1>2, <1>4, <1>5, <1>6, <1>7, <1>8 DEF Shorter, r

LEMMA SameTwice ==
    ASSUME NEW v
    PROVE  AsRead(AsRead(v)) = AsRead(v)
BY SMT DEF AsRead, ForRig, FromRig

-----------------------------------------------------------------------------
\* A new signal about x, with what the worker then holds.
LEMMA ReportKeeps ==
    ASSUME CatInv, NEW x \in Field, NEW v,
           worker' = [worker EXCEPT ![x] = v], signals' = Report(x, v)
    PROVE  /\ Copies(worker') /\ Queue(signals') /\ SignalsTrue'
           /\ About(signals', x)
           /\ \A y \in Field : y # x =>
                /\ worker'[y] = worker[y]
                /\ About(signals, y) => About(signals', y)
<1>. DEFINE e == [of |-> x, to |-> v]
<1>1. e.of = x /\ e.to = v
  OBVIOUS
<1>2. /\ Copies(worker')
      /\ worker'[x] = v
      /\ \A y \in Field : y # x => worker'[y] = worker[y]
  <2>1. Copies(worker)
    BY DEF CatInv, CatShape
  <2>2. ChangedTo(worker, worker', x, v)
    BY <2>1, CopyChanged
  <2>. QED
    BY <2>2 DEF ChangedTo
<1>3. Queue(signals) /\ signals' = Append(signals, e)
  BY DEF CatInv, CatShape, Report
<1>. HIDE DEF e
<1>4. /\ Queue(signals')
      /\ \E n \in DOMAIN signals' : LastAbout(signals', x, n) /\ signals'[n] = e
      /\ \A y \in Field \ {x} : About(signals', y) <=> About(signals, y)
      /\ \A y \in Field \ {x} : \A n \in DOMAIN signals :
           LastAbout(signals, y, n) =>
             /\ n \in DOMAIN signals'
             /\ LastAbout(signals', y, n)
             /\ signals'[n] = signals[n]
  <2>1. Longer(signals, signals', e)
    BY <1>1, <1>3, Appended
  <2>. QED
    BY <1>1, <2>1 DEF Longer
<1>5. ASSUME NEW y \in Field, About(signals', y)
      PROVE  \E n \in DOMAIN signals' :
               LastAbout(signals', y, n) /\ signals'[n].to = worker'[y]
  <2>1. CASE y = x
    BY <1>1, <1>2, <1>4, <2>1
  <2>2. CASE y # x
    <3>1. About(signals, y)
      BY <1>4, <1>5, <2>2
    <3>2. PICK n \in DOMAIN signals :
             LastAbout(signals, y, n) /\ signals[n].to = worker[y]
      BY <3>1 DEF CatInv, SignalsTrue
    <3>. QED
      BY <1>2, <1>4, <2>2, <3>2
  <2>. QED
    BY <2>1, <2>2
<1>6. About(signals', x)
  BY <1>1, <1>4 DEF About
<1>. QED
  BY <1>2, <1>4, <1>5, <1>6 DEF SignalsTrue

\* What Learn does to the copies, when a command ends.
LEMMA LearnKeeps ==
    ASSUME CatInv, NEW x \in Field, NEW v, Learn(x, v),
           UNCHANGED mainVars, cmd' = NoCmd,
           cmd.set /\ cmd.of \in Polled => x = cmd.of /\ v = FromRig(cmd.to)
    PROVE  Copies(worker') /\ Queue(signals') /\ SignalsTrue' /\ BeliefExplained'
<1>1. ASSUME NEW y \in Field, Awaited(y)
      PROVE  y = x /\ v = AsRead(belief[y])
  BY <1>1 DEF Awaited
<1>2. \A y \in Field : Requested(y) => Requested(y)'
  BY DEF Requested, mainVars
<1>3. CASE worker[x] = v
  <2>1. worker' = worker /\ signals' = signals /\ wrong' = wrong
    BY <1>3, SMT DEF Learn, CatInv, CatShape, Copies
  <2>2. ASSUME NEW y \in Field, Awaited(y)
        PROVE  Same(belief[y], worker[y])
    BY <1>1, <1>3, <2>2, SameTwice DEF Same
  <2>3. BeliefExplained'
    BY <1>2, <2>1, <2>2 DEF CatInv, BeliefExplained, mainVars, Same
  <2>. QED
    BY <2>1, <2>3 DEF CatInv, CatShape, SignalsTrue
<1>4. CASE worker[x] # v
  <2>1. /\ worker' = [worker EXCEPT ![x] = v]
        /\ signals' = Report(x, v)
        /\ wrong' = wrong \ {x}
    BY <1>4 DEF Learn
  <2>2. /\ Copies(worker') /\ Queue(signals') /\ SignalsTrue'
        /\ About(signals', x)
        /\ \A y \in Field : y # x =>
             /\ worker'[y] = worker[y]
             /\ About(signals, y) => About(signals', y)
    BY <2>1, ReportKeeps
  <2>3. ASSUME NEW y \in Field, y # x
        PROVE  \/ About(signals', y)
               \/ y \in wrong'
               \/ Same(belief'[y], worker'[y])
               \/ Requested(y)'
    BY <1>1, <1>2, <2>1, <2>2, <2>3 DEF CatInv, BeliefExplained, mainVars
  <2>4. BeliefExplained'
    BY <2>2, <2>3 DEF BeliefExplained
  <2>. QED
    BY <2>2, <2>4
<1>. QED
  BY <1>3, <1>4

-----------------------------------------------------------------------------
\* The steps of the main thread.
LEMMA SetKeeps ==
    ASSUME CatInv, NEW x \in Field, NEW v, Set(x, v)
    PROVE  CatInv'
<1>. DEFINE e == Change(x, v)
<1>1. e.of = x /\ e.to = v
  BY DEF Change
<1>2. /\ Copies(belief')
      /\ belief'[x] = v
      /\ \A y \in Field : y # x => belief'[y] = belief[y]
  <2>1. Copies(belief) /\ belief' = [belief EXCEPT ![x] = v]
    BY DEF CatInv, CatShape, Set
  <2>2. ChangedTo(belief, belief', x, v)
    BY <2>1, CopyChanged
  <2>. QED
    BY <2>2 DEF ChangedTo
<1>3. Queue(requests) /\ requests' = Append(requests, e)
  BY DEF CatInv, CatShape, Set
<1>. HIDE DEF e
<1>4. /\ Queue(requests')
      /\ \E n \in DOMAIN requests' : LastAbout(requests', x, n) /\ requests'[n] = e
      /\ \A y \in Field \ {x} : About(requests', y) <=> About(requests, y)
      /\ \A y \in Field \ {x} : \A n \in DOMAIN requests :
           LastAbout(requests, y, n) =>
             /\ n \in DOMAIN requests'
             /\ LastAbout(requests', y, n)
             /\ requests'[n] = requests[n]
  <2>1. Longer(requests, requests', e)
    BY <1>1, <1>3, Appended
  <2>. QED
    BY <1>1, <2>1 DEF Longer
<1>5. UNCHANGED <<worker, signals, wrong, cmd, next>>
  BY DEF Set, copyVars, pollVars, lineVars
<1>6. Requested(x)'
  BY <1>1, <1>2, <1>4 DEF Requested, Same
<1>7. ASSUME NEW y \in Field, y # x
      PROVE  /\ Requested(y) => Requested(y)'
             /\ Awaited(y) => Awaited(y)'
  BY <1>2, <1>4, <1>5, <1>7 DEF Requested, Awaited
<1>8. BeliefExplained'
  BY <1>2, <1>5, <1>6, <1>7 DEF CatInv, BeliefExplained
<1>9. SignalsTrue'
  BY <1>5 DEF CatInv, SignalsTrue
<1>10. CatShape'
  BY <1>2, <1>4, <1>5 DEF CatInv, CatShape
<1>. QED
  BY <1>8, <1>9, <1>10 DEF CatInv

LEMMA UpdateKeeps ==
    ASSUME CatInv, Update
    PROVE  CatInv'
<1>. DEFINE s == signals[1]
<1>1. /\ Queue(signals') /\ 1 \in DOMAIN signals
      /\ Head(signals) = s /\ s.of \in Field
      /\ \A x \in Field : About(signals', x) => About(signals, x)
      /\ \A x \in Field : x # s.of /\ About(signals, x) => About(signals', x)
      /\ \A x \in Field : \A n \in DOMAIN signals : LastAbout(signals, x, n) =>
           \/ ~About(signals', x) /\ n = 1
           \/ \E k \in DOMAIN signals' :
                LastAbout(signals', x, k) /\ signals'[k] = signals[n]
  <2>1. Queue(signals) /\ signals # <<>> /\ signals' = Tail(signals)
    BY DEF CatInv, CatShape, Update
  <2>2. Shorter(signals, signals')
    BY <2>1, Shortened
  <2>. QED
    BY <2>2 DEF Shorter
<1>2. UNCHANGED <<requests, worker, wrong, cmd, next>>
  BY DEF Update, pollVars, lineVars
<1>3. belief' = [belief EXCEPT ![s.of] = s.to]
  BY <1>1 DEF Update
<1>. HIDE DEF s
<1>4. /\ Copies(belief')
      /\ belief'[s.of] = s.to
      /\ \A y \in Field : y # s.of => belief'[y] = belief[y]
  <2>1. Copies(belief) /\ s.of \in Field
    BY <1>1 DEF CatInv, CatShape
  <2>2. ChangedTo(belief, belief', s.of, s.to)
    BY <1>3, <2>1, CopyChanged
  <2>. QED
    BY <2>2 DEF ChangedTo
<1>5. SignalsTrue'
  <2> SUFFICES ASSUME NEW x \in Field, About(signals', x)
               PROVE  \E n \in DOMAIN signals' :
                        LastAbout(signals', x, n) /\ signals'[n].to = worker'[x]
    BY DEF SignalsTrue
  <2>1. PICK n \in DOMAIN signals :
           LastAbout(signals, x, n) /\ signals[n].to = worker[x]
    BY <1>1 DEF CatInv, SignalsTrue
  <2>. QED
    BY <1>1, <1>2, <2>1
<1>6. ASSUME NEW x \in Field, x # s.of
      PROVE  /\ Requested(x) => Requested(x)'
             /\ Awaited(x) => Awaited(x)'
             /\ Same(belief[x], worker[x]) => Same(belief'[x], worker'[x])
  BY <1>2, <1>4, <1>6 DEF Requested, Awaited
<1>7. About(signals', s.of) \/ Same(belief'[s.of], worker'[s.of])
  <2>1. About(signals, s.of)
    BY <1>1 DEF About, s
  <2>2. PICK n \in DOMAIN signals :
           LastAbout(signals, s.of, n) /\ signals[n].to = worker[s.of]
    BY <1>1, <2>1 DEF CatInv, SignalsTrue
  <2>3. CASE n = 1
    BY <1>2, <1>4, <2>2, <2>3 DEF Same, s
  <2>4. CASE n # 1
    <3>1. PICK k \in DOMAIN signals' : LastAbout(signals', s.of, k)
      BY <1>1, <2>2, <2>4
    <3>. QED
      BY <3>1 DEF LastAbout, About
  <2>. QED
    BY <2>3, <2>4
<1>8. BeliefExplained'
  BY <1>1, <1>2, <1>6, <1>7 DEF CatInv, BeliefExplained
<1>9. CatShape'
  BY <1>1, <1>2, <1>4 DEF CatInv, CatShape
<1>. QED
  BY <1>5, <1>8, <1>9 DEF CatInv

-----------------------------------------------------------------------------
\* The steps of the worker.
LEMMA SendKeeps ==
    ASSUME CatInv, SendQuery
    PROVE  CatInv'
<1>1. /\ UNCHANGED <<belief, requests, worker, signals, wrong, next>>
      /\ cmd = NoCmd
      /\ cmd' = Query(IF next = "idle" THEN "f" ELSE next)
  BY DEF SendQuery, Send, Ready, mainVars, copyVars, pollVars
<1>2. cmd'.of \in Field
  BY <1>1 DEF Query, CatInv, CatShape, Field
<1>3. ASSUME NEW x \in Field PROVE ~Awaited(x)
  BY <1>1 DEF Awaited, NoCmd
<1>4. \A x \in Field : Requested(x) => Requested(x)'
  BY <1>1 DEF Requested
<1>5. BeliefExplained'
  BY <1>1, <1>3, <1>4 DEF CatInv, BeliefExplained
<1>. QED
  BY <1>1, <1>2, <1>5 DEF CatInv, CatShape, SignalsTrue

\* The oldest request is taken: about others than its field all stays.
LEMMA TakeFacts ==
    ASSUME CatInv, TakeSet, NEW r, r = requests[1]
    PROVE  /\ Head(requests) = r
           /\ r.of \in Field
           /\ Queue(requests')
           /\ UNCHANGED <<belief, wrong, next>>
           /\ cmd = NoCmd
           /\ \A x \in Field : x # r.of /\ Requested(x) => Requested(x)'
           /\ Requested(r.of) => \/ Requested(r.of)'
                                 \/ /\ Same(r.to, belief[r.of])
                                    /\ ~About(requests', r.of)
<1>1. Shorter(requests, requests')
  <2>1. Queue(requests) /\ requests # <<>> /\ requests' = Tail(requests)
    BY DEF CatInv, CatShape, TakeSet
  <2>. QED
    BY <2>1, Shortened
<1>2. UNCHANGED <<belief, wrong, next>> /\ cmd = NoCmd
  BY DEF TakeSet, Ready, pollVars
<1>3. ASSUME NEW x \in Field, Requested(x)
      PROVE  \/ Requested(x)'
             \/ /\ Same(r.to, belief[x])
                /\ r.of = x
                /\ ~About(requests', x)
  <2>1. PICK n \in DOMAIN requests :
           LastAbout(requests, x, n) /\ Same(requests[n].to, belief[x])
    BY <1>3 DEF Requested
  <2>2. \/ ~About(requests', x) /\ n = 1
        \/ \E k \in DOMAIN requests' :
             LastAbout(requests', x, k) /\ requests'[k] = requests[n]
    BY <1>1, <2>1 DEF Shorter
  <2>3. CASE ~About(requests', x) /\ n = 1
    BY <2>1, <2>3 DEF LastAbout
  <2>4. CASE \E k \in DOMAIN requests' :
               LastAbout(requests', x, k) /\ requests'[k] = requests[n]
    BY <1>2, <2>1, <2>4 DEF Requested
  <2>. QED
    BY <2>2, <2>3, <2>4
<1>4. Head(requests) = r /\ r.of \in Field /\ Queue(requests')
  BY <1>1 DEF Shorter
<1>. QED
  BY <1>2, <1>3, <1>4

LEMMA TakeKeeps ==
    ASSUME CatInv, TakeSet
    PROVE  CatInv'
<1> SUFFICES ASSUME NEW r, r = requests[1] PROVE CatInv'
  OBVIOUS
<1>1. /\ r.of \in Field
      /\ Queue(requests')
      /\ UNCHANGED <<belief, wrong, next>>
      /\ cmd = NoCmd
      /\ \A x \in Field : x # r.of /\ Requested(x) => Requested(x)'
      /\ Requested(r.of) => \/ Requested(r.of)'
                            \/ Same(r.to, belief[r.of]) /\ ~About(requests', r.of)
  BY TakeFacts
<1>2. Head(requests) = r
  BY TakeFacts
<1>3. \A x \in Field : ~Awaited(x)
  BY <1>1 DEF Awaited, NoCmd
<1>4. cmd' = cmd \/ cmd' = Change(r.of, ForRig(r.to))
  BY <1>2 DEF TakeSet, Send, lineVars
<1>5. CASE r.of \in Polled
  <2>1. UNCHANGED <<worker, signals>> /\ cmd' = Change(r.of, ForRig(r.to))
    BY <1>2, <1>5 DEF TakeSet, Send, Polled
  <2>2. Same(r.to, belief[r.of]) /\ ~About(requests', r.of) => Awaited(r.of)'
    BY <1>1, <1>5, <2>1 DEF Awaited, Change, Same, AsRead
  <2>3. BeliefExplained'
    BY <1>1, <1>3, <2>1, <2>2 DEF CatInv, BeliefExplained
  <2>4. CatShape' /\ SignalsTrue'
    BY <1>1, <2>1 DEF CatInv, CatShape, SignalsTrue, Change
  <2>. QED
    BY <2>3, <2>4 DEF CatInv
<1>6. CASE r.of \notin Polled
  <2>1. worker' = [worker EXCEPT ![r.of] = r.to] /\ signals' = Report(r.of, r.to)
    BY <1>2, <1>6 DEF TakeSet
  <2>2. /\ Copies(worker') /\ Queue(signals') /\ SignalsTrue'
        /\ About(signals', r.of)
        /\ \A y \in Field : y # r.of =>
             /\ worker'[y] = worker[y]
             /\ About(signals, y) => About(signals', y)
    BY <1>1, <2>1, ReportKeeps
  <2>3. BeliefExplained'
    BY <1>1, <1>3, <2>2 DEF CatInv, BeliefExplained
  <2>4. CatShape'
    BY <1>1, <1>4, <2>2 DEF CatInv, CatShape, Change
  <2>. QED
    BY <2>2, <2>3, <2>4 DEF CatInv
<1>. QED
  BY <1>5, <1>6

LEMMA QueryKeeps ==
    ASSUME CatInv, QueryEnds
    PROVE  CatInv'
<1>1. /\ UNCHANGED <<belief, requests>> /\ ~cmd.set /\ cmd # NoCmd
      /\ cmd' = NoCmd /\ next' = After(cmd.of)
  BY DEF QueryEnds, Received, mainVars
<1>2. cmd.of \in Field
  BY <1>1 DEF CatInv, CatShape
<1>3. next' \in Field \union {"idle"}
  BY <1>1, <1>2 DEF After, Field
<1>4. Copies(worker') /\ Queue(signals') /\ SignalsTrue' /\ BeliefExplained'
  <2>1. CASE Learn(cmd.of, Value(cmd.of, Lines))
    BY <1>1, <1>2, <2>1, LearnKeeps DEF mainVars
  <2>2. CASE UNCHANGED copyVars
    <3>1. UNCHANGED <<worker, signals, wrong>>
      BY <2>2 DEF copyVars
    <3>2. \A x \in Field : ~Awaited(x) /\ (Requested(x) => Requested(x)')
      BY <1>1 DEF Awaited, Requested
    <3>3. BeliefExplained'
      BY <1>1, <3>1, <3>2 DEF CatInv, BeliefExplained
    <3>. QED
      BY <3>1, <3>3 DEF CatInv, CatShape, SignalsTrue
  <2>. QED
    BY <2>1, <2>2 DEF QueryEnds
<1>. QED
  BY <1>1, <1>3, <1>4 DEF CatInv, CatShape

LEMMA SetEndKeeps ==
    ASSUME CatInv, SetEnds
    PROVE  CatInv'
<1>1. /\ UNCHANGED <<belief, requests, next>> /\ cmd.set /\ cmd # NoCmd
      /\ cmd' = NoCmd
  BY DEF SetEnds, Received, mainVars, pollVars
<1>2. cmd.of \in Field
  BY <1>1 DEF CatInv, CatShape
<1>3. \A x \in Field : Requested(x) => Requested(x)'
  BY <1>1 DEF Requested
<1>4. Copies(worker') /\ Queue(signals') /\ SignalsTrue' /\ BeliefExplained'
  <2>1. CASE Learn(cmd.of, FromRig(cmd.to))
    BY <1>1, <1>2, <2>1, LearnKeeps DEF mainVars
  <2>2. CASE wrong' = wrong \union {cmd.of} /\ UNCHANGED <<worker, signals>>
    <3>1. \A x \in Field : Awaited(x) => x \in wrong'
      BY <2>2 DEF Awaited
    <3>2. BeliefExplained'
      BY <1>1, <1>3, <2>2, <3>1 DEF CatInv, BeliefExplained
    <3>. QED
      BY <2>2, <3>2 DEF CatInv, CatShape, SignalsTrue
  <2>3. CASE cmd.of \notin Polled /\ UNCHANGED copyVars
    <3>1. UNCHANGED <<worker, signals, wrong>>
      BY <2>3 DEF copyVars
    <3>2. \A x \in Field : ~Awaited(x)
      BY <2>3 DEF Awaited
    <3>3. BeliefExplained'
      BY <1>1, <1>3, <3>1, <3>2 DEF CatInv, BeliefExplained
    <3>. QED
      BY <3>1, <3>3 DEF CatInv, CatShape, SignalsTrue
  <2>. QED
    BY <2>1, <2>2, <2>3 DEF SetEnds
<1>. QED
  BY <1>1, <1>4 DEF CatInv, CatShape

\* rigctld, the operator, and nobody.
LEMMA OutsideKeeps ==
    ASSUME CatInv, UNCHANGED <<mainVars, copyVars, cmd, next>>
    PROVE  CatInv'
<1>1. UNCHANGED <<belief, requests, worker, signals, wrong>>
  BY DEF mainVars, copyVars
<1>2. \A x \in Field : /\ Requested(x) => Requested(x)'
                       /\ Awaited(x) => Awaited(x)'
  BY <1>1 DEF Requested, Awaited
<1>3. BeliefExplained'
  BY <1>1, <1>2 DEF CatInv, BeliefExplained
<1>. QED
  BY <1>1, <1>3 DEF CatInv, CatShape, SignalsTrue

-----------------------------------------------------------------------------
LEMMA CatInvInit == CatInit => CatInv
<1> SUFFICES ASSUME CatInit PROVE CatInv
  OBVIOUS
<1>1. Copies(belief) /\ worker = belief
  BY SMT DEF CatInit, Copies, Field
<1>2. Queue(<<>>)
  <2>1. <<>> \in Seq({}) /\ DOMAIN <<>> = {}
    BY SMT
  <2>. QED
    BY <2>1 DEF Queue
<1>3. requests = <<>> /\ signals = <<>> /\ cmd = NoCmd /\ next = "idle"
  BY DEF CatInit
<1>4. \A x \in Field : ~About(signals, x)
  <2>1. DOMAIN <<>> = {}
    BY SMT
  <2>. QED
    BY <1>3, <2>1 DEF About
<1>. QED
  BY <1>1, <1>2, <1>3, <1>4
  DEF CatInv, CatShape, SignalsTrue, BeliefExplained, Same

(* The signals under way tell the truth, and whatever the main thread      *)
(* believes beyond them is what the worker holds, is being asked for, or   *)
(* was refused: for every bound and every choice of fields that change.    *)
(* (the update and set slots of both halves of the backend)                *)
THEOREM CatInvariant == CatSpec => []CatInv
<1>1. CatInv /\ [CatNext]_catVars => CatInv'
  <2> SUFFICES ASSUME CatInv, [CatNext]_catVars PROVE CatInv'
    OBVIOUS
  <2>1. ASSUME NEW x \in Settable, NEW v \in Wishes(x), Set(x, v)
        PROVE  CatInv'
    BY <2>1, SetKeeps, CatAssumption
  <2>2. CASE Update
    BY <2>2, UpdateKeeps
  <2>3. CASE WorkerMoves
    BY <2>3, SendKeeps, QueryKeeps, SetEndKeeps DEF WorkerMoves
  <2>4. CASE TakeSet
    BY <2>4, TakeKeeps
  <2>5. CASE Serve
    BY <2>5, OutsideKeeps DEF Serve, pollVars
  <2>6. ASSUME NEW x \in Settable \intersect Polled, NEW v \in Dialled(x),
               HandChanges(x, v)
        PROVE  CatInv'
    BY <2>6, OutsideKeeps DEF HandChanges, pollVars, lineVars
  <2>7. CASE UNCHANGED catVars
    BY <2>7, OutsideKeeps DEF catVars, pollVars, lineVars
  <2>8. CASE SetPollingSuspended
    BY <2>8, OutsideKeeps DEF SetPollingSuspended, lineVars
  <2>. QED
    BY <2>1, <2>2, <2>3, <2>4, <2>5, <2>6, <2>7, <2>8 DEF CatNext
<1>. QED
  BY <1>1, CatInvInit, PTL DEF CatSpec

(* With everything delivered, the clients have been told what the worker   *)
(* holds, but for fields whose last set failed.                            *)
THEOREM BeliefAlwaysFollows == CatSpec => []BeliefFollows
<1>1. CatInv => BeliefFollows
  <2> SUFFICES ASSUME CatInv, Quiet, NEW x \in Field \ wrong
               PROVE  AsRead(belief[x]) = AsRead(worker[x])
    BY DEF BeliefFollows
  <2>1. DOMAIN requests = {} /\ DOMAIN signals = {}
    BY SMT DEF Quiet
  <2>2. ~About(signals, x) /\ ~Requested(x) /\ ~Awaited(x)
    BY <2>1 DEF About, Requested, Awaited, Quiet
  <2>. QED
    BY <2>2 DEF CatInv, BeliefExplained, Same
<1>. QED
  BY <1>1, CatInvariant, PTL

-----------------------------------------------------------------------------
(***************************************************************************)
(* What the worker takes for the state of PTT.  The invariant counts the   *)
(* answers outstanding: at most as many as have been late, and the one the *)
(* worker waits for, which is the last.  When PTT is queried after one     *)
(* late answer, the other one can only be that of the mode query before.   *)
(***************************************************************************)
\* The lines that can occur.
Word == {"", "0", "1", "7", "14", "2400", "VFOB", "usb", "digu", "USB", "PKTUSB",
         "RPRT 0", "RPRT -1"}
Reply == Seq(Word) \ {<<>>}

LEMMA FlattenFew ==
    ASSUME NEW q \in Seq(Reply), Len(q) \in {1, 2}
    PROVE  FlattenSeq(q) = IF Len(q) = 1 THEN q[1] ELSE q[1] \o q[2]
<1>. DEFINE Step(f) == [i \in 1 .. Len(q) |->
                          IF i = 1 THEN q[i] ELSE f[i - 1] \o q[i]]
            flat == CHOOSE f : f = Step(f)
            g == [i \in 1 .. Len(q) |-> IF i = 1 THEN q[1] ELSE q[1] \o q[2]]
<1>1. g = Step(g)
  <2>1. ASSUME NEW i \in 1 .. Len(q) PROVE g[i] = Step(g)[i]
    <3>1. CASE i = 1
      BY <3>1
    <3>2. CASE i = 2
      <4>1. 1 \in 1 .. Len(q) /\ 2 \in 1 .. Len(q)
        BY <3>2, SMT
      <4>2. g[1] = q[1] /\ g[2] = q[1] \o q[2]
        <5>1. g[1] = q[1]
          BY <4>1, Zenon
        <5>2. g[2] = IF 2 = 1 THEN q[1] ELSE q[1] \o q[2]
          BY <4>1, Zenon
        <5>. HIDE DEF g
        <5>. QED
          BY <5>1, <5>2
      <4>. HIDE DEF g
      <4>3. Step(g)[2] = g[1] \o q[2]
        <5>1. 2 # 1 /\ 2 - 1 = 1
          OBVIOUS
        <5>. QED
          BY <4>1, <5>1
      <4>. QED
        BY <3>2, <4>2, <4>3
    <3>. QED
      BY <3>1, <3>2
  <2>. QED
    BY <2>1
<1>2. flat = Step(flat)
  BY <1>1
<1>3. FlattenSeq(q) = flat[Len(q)]
  BY DEF FlattenSeq
<1>. HIDE DEF flat
<1>4. flat[1] = q[1]
  BY <1>2
<1>5. Len(q) = 2 => flat[2] = flat[1] \o q[2]
  BY <1>2
<1>. QED
  BY <1>3, <1>4, <1>5

Command == [set : BOOLEAN, of : Field, to : Word, mute : BOOLEAN]
Order == {c \in Command : c.set}

LineTypes ==
    /\ requests \in Seq(Order) /\ todo \in Seq(Command)
    /\ cmd \in Command \union {NoCmd}
    /\ inbox \in Seq(Reply)
    /\ rig \in [Field -> Word]
    /\ next \in Field \union {"idle"}
    /\ late \in Nat
    /\ everKeyed \in BOOLEAN

\* The states of PTT that are not invented.
Possible == IF everKeyed THEN {"0", "1"} ELSE {"0"}

\* Command c asks for no other state of PTT than those of P.
Within(c, P) == c.set /\ c.of = "t" => c.to \in P

AllWithin(q, P) == \A n \in DOMAIN q : Within(q[n], P)

PttKnown ==
    /\ rig.t \in Possible
    /\ Within(cmd, Possible)
    /\ AllWithin(requests, Possible)
    /\ AllWithin(todo, Possible)

InTurn ==
    cmd # NoCmd => IF cmd.set THEN next = "idle"
                   ELSE cmd.of = IF next = "idle" THEN "f" ELSE next

\* The answer to c is no number, or the state of PTT.
Plain(c) == c.set \/ c.of \in {"m", "t", "s"}

\* If answer a passes for a state of PTT, then for one of P.
Harmless(a, P) == Len(a) = 1 /\ Number(a[1]) => a[1] \in P

Waiting == IF cmd = NoCmd THEN 0 ELSE 1

(***************************************************************************)
(* Nobody reads the answers to the first k commands of todo.  Of the       *)
(* others at most as many are outstanding as have been late, and the one   *)
(* the worker waits for, which is the last.                                *)
(***************************************************************************)
Behind(k) ==
    /\ \A n \in 1 .. k : todo[n].mute
    /\ Len(todo) - k + Len(inbox) <= late + Waiting
    /\ cmd # NoCmd /\ k < Len(todo) => todo[Len(todo)] = cmd
    /\ late <= 1 /\ next = "t" =>
         /\ \A n \in k + 1 .. Len(todo) : Plain(todo[n])
         /\ \A n \in DOMAIN inbox : Harmless(inbox[n], Possible)

FewBehind == \E k \in 0 .. Len(todo) : Behind(k)

Heard == late <= 1 => worker.t \in Possible

PttInv == LineTypes /\ PttKnown /\ InTurn /\ FewBehind /\ Heard

LEMMA OneLine ==
    ASSUME inbox \in Seq(Reply), Len(inbox) <= 2, Len(Lines) = 1
    PROVE  \E n \in DOMAIN inbox : Len(inbox[n]) = 1 /\ inbox[n][1] = Lines[1]
<1>1. \A n \in DOMAIN inbox : inbox[n] \in Seq(Word) /\ Len(inbox[n]) >= 1
  <2> SUFFICES ASSUME NEW n \in DOMAIN inbox
               PROVE  inbox[n] \in Seq(Word) /\ Len(inbox[n]) >= 1
    OBVIOUS
  <2>1. inbox[n] \in Seq(Word) /\ inbox[n] # <<>>
    BY DEF Reply
  <2>. QED
    BY <2>1, EmptySeq
<1>2. Len(inbox) # 0
  <2>1. Len(inbox) = 0 => Lines = inbox
    BY Zenon DEF Lines, FlattenSeq
  <2>. QED
    BY <2>1
<1>3. Len(inbox) \in {1, 2} /\ DOMAIN inbox = 1 .. Len(inbox)
  <2>1. Len(inbox) \in Nat
    OBVIOUS
  <2>2. \A n \in Nat : n <= 2 /\ n # 0 => n \in {1, 2}
    OBVIOUS
  <2>3. Len(inbox) \in {1, 2}
    BY <1>2, <2>1, <2>2
  <2>. QED
    BY <2>3
<1>4. Lines = IF Len(inbox) = 1 THEN inbox[1] ELSE inbox[1] \o inbox[2]
  BY <1>3, FlattenFew DEF Lines
<1>5. CASE Len(inbox) = 1
  <2>1. Lines = inbox[1] /\ 1 \in DOMAIN inbox
    BY <1>3, <1>4, <1>5
  <2>. QED
    BY <2>1
<1>6. CASE Len(inbox) = 2
  <2>1. 1 \in DOMAIN inbox /\ 2 \in DOMAIN inbox
    BY <1>3, <1>6
  <2>2. Len(inbox[1] \o inbox[2]) = Len(inbox[1]) + Len(inbox[2])
    BY <1>1, <2>1
  <2>. QED
    BY <1>1, <1>4, <1>6, <2>1, <2>2
<1>. QED
  BY <1>3, <1>5, <1>6

LEMMA Answers ==
    ASSUME NEW c \in Command, rig \in [Field -> Word], NEW P, rig.t \in P
    PROVE  /\ Answer(c, rig) \in Reply
           /\ Plain(c) => Harmless(Answer(c, rig), P)
<1>1. \A x \in Field : rig[x] \in Word
  OBVIOUS
<1>2. c.of \in Field /\ c.set \in BOOLEAN
  BY DEF Command
<1>3. rig.m \in Word /\ rig.s \in Word /\ rig.t \in Word
  BY DEF Field
<1>4. \A v \in Word : <<v>> \in Reply
  BY DEF Reply
<1>5. CASE c.set
  <2>1. Answer(c, rig) = <<"RPRT 0">>
    BY <1>5 DEF Answer
  <2>2. Harmless(<<"RPRT 0">>, P)
    BY DEF Number, Positive, Harmless
  <2>3. <<"RPRT 0">> \in Reply
    BY <1>4 DEF Word
  <2>. QED
    BY <2>1, <2>2, <2>3
<1>6. CASE ~c.set /\ c.of \in {"m", "s"}
  <2>1. \A v, w \in Word : <<v, w>> \in Reply /\ Harmless(<<v, w>>, P)
    BY DEF Reply, Harmless
  <2>2. Answer(c, rig) \in {<<rig.m, "2400">>, <<rig.s, "VFOB">>}
    BY <1>6 DEF Answer
  <2>3. "2400" \in Word /\ "VFOB" \in Word
    BY DEF Word
  <2>. QED
    BY <1>3, <2>1, <2>2, <2>3
<1>7. CASE ~c.set /\ c.of = "t"
  <2>1. Answer(c, rig) = <<rig.t>>
    BY <1>7 DEF Answer
  <2>2. Harmless(<<rig.t>>, P)
    BY <1>3 DEF Harmless
  <2>. QED
    BY <1>3, <1>4, <2>1, <2>2
<1>8. CASE ~c.set /\ c.of \notin {"m", "s", "t"}
  <2>1. Answer(c, rig) = <<rig[c.of]>> /\ ~Plain(c)
    BY <1>8 DEF Answer, Plain
  <2>. QED
    BY <1>1, <1>2, <1>4, <2>1
<1>. QED
  BY <1>2, <1>5, <1>6, <1>7, <1>8

-----------------------------------------------------------------------------
LEMMA Words ==
    /\ \A v \in Word : ForRig(v) \in Word
    /\ \A v \in {"0", "1"} : ForRig(v) = v /\ FromRig(v) = v
    /\ \A x \in Field : Wishes(x) \subseteq Word /\ Dialled(x) \subseteq Word
<1>1. \A v \in Word : ForRig(v) \in Word
  BY DEF Word, ForRig
<1>2. \A v \in {"0", "1"} : ForRig(v) = v /\ FromRig(v) = v
  BY DEF ForRig, FromRig
<1>3. \A x \in Field : Wishes(x) \subseteq Word /\ Dialled(x) \subseteq Word
  BY DEF Field, Wishes, Dialled, Word
<1>. QED
  BY <1>1, <1>2, <1>3

\* What is possible stays possible.
LEMMA StillPossible ==
    ASSUME everKeyed => everKeyed'
    PROVE  Possible \subseteq Possible'
BY DEF Possible

LEMMA WithinMore ==
    ASSUME NEW P, NEW Q, P \subseteq Q
    PROVE  /\ \A c : Within(c, P) => Within(c, Q)
           /\ \A q : AllWithin(q, P) => AllWithin(q, Q)
           /\ \A a : Harmless(a, P) => Harmless(a, Q)
BY DEF Within, AllWithin, Harmless

LEMMA WithinLonger ==
    ASSUME NEW S, NEW q \in Seq(S), NEW c \in S, NEW P,
           AllWithin(q, P), Within(c, P)
    PROVE  Append(q, c) \in Seq(S) /\ AllWithin(Append(q, c), P)
<1>1. \A n \in DOMAIN Append(q, c) :
        Append(q, c)[n] = c \/ (n \in DOMAIN q /\ Append(q, c)[n] = q[n])
  BY SMT
<1>2. Append(q, c) \in Seq(S)
  OBVIOUS
<1>. QED
  BY <1>1, <1>2 DEF AllWithin

LEMMA WithinShorter ==
    ASSUME NEW S, NEW q \in Seq(S), q # <<>>, NEW P, AllWithin(q, P)
    PROVE  /\ Head(q) \in S /\ Within(Head(q), P)
           /\ Tail(q) \in Seq(S) /\ AllWithin(Tail(q), P)
<1>1. /\ \A n \in DOMAIN Tail(q) : n + 1 \in DOMAIN q /\ Tail(q)[n] = q[n + 1]
      /\ 1 \in DOMAIN q /\ Head(q) = q[1]
  BY SMT
<1>2. Head(q) \in S /\ Tail(q) \in Seq(S)
  BY SMT
<1>. QED
  BY <1>1, <1>2 DEF AllWithin

\* Nothing happens on the line.
LEMMA LineAside ==
    ASSUME LineTypes, InTurn, FewBehind, UNCHANGED <<lineVars, next, late>>,
           Possible \subseteq Possible'
    PROVE  InTurn' /\ FewBehind'
<1>1. UNCHANGED <<cmd, todo, inbox, next, late>>
  BY DEF lineVars
<1>2. InTurn'
  BY <1>1 DEF InTurn
<1>3. ASSUME NEW k \in 0 .. Len(todo), Behind(k)
      PROVE  Behind(k)'
  BY <1>1, <1>3, WithinMore DEF Behind, Waiting
<1>. QED
  BY <1>1, <1>2, <1>3 DEF FewBehind

LEMMA SetPtt ==
    ASSUME PttInv, NEW x \in Field, NEW v \in Wishes(x), Set(x, v)
    PROVE  PttInv'
<1>. DEFINE c == Change(x, v)
<1>1. /\ requests' = Append(requests, c)
      /\ everKeyed' = (everKeyed \/ (x = "t" /\ v = "1"))
      /\ UNCHANGED <<worker, cmd, todo, inbox, next, late, rig>>
  BY DEF Set, copyVars, pollVars, lineVars
<1>2. everKeyed' \in BOOLEAN /\ Possible \subseteq Possible'
  BY <1>1, StillPossible DEF PttInv, LineTypes
<1>3. c \in Order /\ Within(c, Possible')
  <2>1. v \in Word /\ (x = "t" => v \in {"0", "1"})
    BY Words DEF Wishes
  <2>. QED
    BY <1>1, <2>1 DEF Order, Command, Change, Within, Possible
<1>. HIDE DEF c
<1>4. requests' \in Seq(Order) /\ AllWithin(requests', Possible')
  BY <1>1, <1>2, <1>3, WithinMore, WithinLonger
     DEF PttInv, LineTypes, PttKnown
<1>5. InTurn' /\ FewBehind'
  BY <1>1, <1>2, LineAside DEF PttInv, lineVars
<1>6. LineTypes'
  BY <1>1, <1>2, <1>4 DEF PttInv, LineTypes
<1>7. PttKnown' /\ Heard'
  BY <1>1, <1>2, <1>4, WithinMore DEF PttInv, PttKnown, Heard
<1>. QED
  BY <1>5, <1>6, <1>7 DEF PttInv

LEMMA UntouchedPtt ==
    ASSUME PttInv,
           UNCHANGED <<requests, worker, lineVars, next, late, rig, everKeyed>>
    PROVE  PttInv'
<1>1. Possible' = Possible /\ UNCHANGED <<cmd, todo, inbox>>
  BY DEF Possible, lineVars
<1>2. InTurn' /\ FewBehind'
  BY <1>1, LineAside DEF PttInv
<1>. QED
  BY <1>1, <1>2 DEF PttInv, LineTypes, PttKnown, Heard

\* What c does to the radio.
LEMMA Executed ==
    ASSUME rig \in [Field -> Word], everKeyed \in BOOLEAN,
           rig.t \in Possible, NEW c, Execute(c),
           c.set => c.of \in Field /\ c.to \in Word,
           Within(c, {"0", "1"})
    PROVE  /\ rig' \in [Field -> Word] /\ everKeyed' \in BOOLEAN
           /\ Possible \subseteq Possible' /\ rig'.t \in Possible'
<1>1. rig' \in [Field -> Word]
  BY DEF Execute
<1>2. everKeyed' \in BOOLEAN /\ (everKeyed => everKeyed')
  BY DEF Execute
<1>3. rig'.t \in {"0", "1"}
  <2>1. rig.t \in {"0", "1"}
    BY DEF Possible
  <2>2. CASE c.set
    <3>1. rig' = [rig EXCEPT ![c.of] = c.to] /\ "t" \in Field
      BY <2>2 DEF Execute, Field
    <3>2. CASE c.of = "t"
      BY <2>2, <3>1, <3>2 DEF Within
    <3>3. CASE c.of # "t"
      BY <2>1, <2>2, <3>1, <3>3
    <3>. QED
      BY <3>2, <3>3
  <2>3. CASE ~c.set
    BY <2>1, <2>3 DEF Execute
  <2>. QED
    BY <2>2, <2>3
<1>4. rig'.t = "1" => everKeyed'
  BY DEF Execute
<1>5. rig'.t \in Possible'
  BY <1>3, <1>4 DEF Possible
<1>. QED
  BY <1>1, <1>2, <1>5, StillPossible

LEMMA HandPtt ==
    ASSUME PttInv, NEW x \in Field, NEW v \in Dialled(x), HandChanges(x, v)
    PROVE  PttInv'
<1>. DEFINE c == Change(x, v)
<1>1. /\ Execute(c)
      /\ UNCHANGED <<requests, worker, cmd, todo, inbox, next, late, lineVars>>
  BY DEF HandChanges, mainVars, copyVars, pollVars, lineVars
<1>2. c.of \in Field /\ c.to \in Word /\ Within(c, {"0", "1"})
  <2>1. v \in Word /\ (x = "t" => v \in {"0", "1"})
    BY Words DEF Dialled, Wishes
  <2>. QED
    BY <2>1 DEF Change, Within
<1>. HIDE DEF c
<1>3. /\ rig' \in [Field -> Word] /\ everKeyed' \in BOOLEAN
      /\ Possible \subseteq Possible' /\ rig'.t \in Possible'
  BY <1>1, <1>2, Executed DEF PttInv, LineTypes, PttKnown
<1>4. InTurn' /\ FewBehind'
  BY <1>1, <1>3, LineAside DEF PttInv
<1>. QED
  BY <1>1, <1>3, <1>4, WithinMore DEF PttInv, LineTypes, PttKnown, Heard

-----------------------------------------------------------------------------
\* A command is sent: it joins those outstanding as the last one.
LEMMA Sending ==
    ASSUME LineTypes, FewBehind, cmd = NoCmd, NEW c \in Command, Send(c),
           UNCHANGED <<next, late, everKeyed>>, next = "t" => Plain(c)
    PROVE  /\ cmd' = c /\ c # NoCmd
           /\ todo' = Append(todo, c) /\ inbox' \in Seq(Reply)
           /\ FewBehind'
<1>1. cmd' = c /\ todo' = Append(todo, c) /\ c # NoCmd
  <2>1. c.of \in Field /\ NoCmd.of \notin Field
    BY DEF Command, NoCmd, Field
  <2>. QED
    BY <2>1 DEF Send
<1>2. todo \in Seq(Command) /\ inbox \in Seq(Reply) /\ late \in Nat
  BY DEF LineTypes
<1>3. PICK n \in 0 .. Len(inbox) : inbox' = SubSeq(inbox, n + 1, Len(inbox))
  BY DEF Send
<1>4. /\ inbox' \in Seq(Reply) /\ Len(inbox') <= Len(inbox)
      /\ \A i \in DOMAIN inbox' : \E j \in DOMAIN inbox : inbox'[i] = inbox[j]
  <2>1. /\ n + 1 \in 1 .. Len(inbox) + 1 /\ Len(inbox) \in Nat
    BY <1>2, <1>3
  <2>2. /\ inbox' \in Seq(Reply) /\ Len(inbox') = Len(inbox) - n
        /\ \A i \in 1 .. Len(inbox) - n : inbox'[i] = inbox[n + i]
    BY <1>2, <1>3, <2>1, SubSeqProperties
  <2>3. \A i \in DOMAIN inbox' : n + i \in DOMAIN inbox
    BY <1>2, <1>3, <2>1, <2>2
  <2>4. DOMAIN inbox' = 1 .. Len(inbox) - n
    BY <2>2
  <2>5. Len(inbox') <= Len(inbox)
    BY <2>1, <2>2
  <2>6. ASSUME NEW i \in DOMAIN inbox'
        PROVE  \E j \in DOMAIN inbox : inbox'[i] = inbox[j]
    <3>1. inbox'[i] = inbox[n + i]
      BY <2>2, <2>4
    <3>. QED
      BY <2>3, <3>1
  <2>7. inbox' \in Seq(Reply)
    BY <2>2
  <2>. QED
    BY <2>5, <2>6, <2>7, Zenon
<1>5. PICK k \in 0 .. Len(todo) : Behind(k)
  BY DEF FewBehind
<1>6. /\ Len(todo') = Len(todo) + 1 /\ todo'[Len(todo) + 1] = c
      /\ \A i \in 1 .. Len(todo) : todo'[i] = todo[i]
      /\ Len(todo) \in Nat /\ Len(inbox) \in Nat /\ Len(inbox') \in Nat
  <2>1. Len(todo) \in Nat /\ Len(inbox) \in Nat /\ Len(inbox') \in Nat
    BY <1>2, <1>4
  <2>2. Len(todo') = Len(todo) + 1 /\ todo'[Len(todo) + 1] = c
    BY <1>1, <1>2
  <2>3. \A i \in 1 .. Len(todo) : todo'[i] = todo[i]
    BY <1>1, <1>2
  <2>. QED
    BY <2>1, <2>2, <2>3
<1>7. Behind(k)'
  <2>1. \A i \in 1 .. k : todo'[i].mute
    BY <1>5, <1>6 DEF Behind
  <2>2. Len(todo') - k + Len(inbox') <= late' + Waiting'
    <3>1. Waiting = 0 /\ Waiting' = 1
      BY <1>1 DEF Waiting
    <3>2. Len(todo) - k + Len(inbox) <= late + 0
      BY <1>5, <3>1 DEF Behind
    <3>. QED
      BY <1>2, <1>4, <1>6, <3>1, <3>2
  <2>3. todo'[Len(todo')] = cmd'
    BY <1>1, <1>6
  <2>4. ASSUME late' <= 1, next' = "t"
        PROVE  /\ \A i \in k + 1 .. Len(todo') : Plain(todo'[i])
               /\ \A i \in DOMAIN inbox' : Harmless(inbox'[i], Possible')
    <3>1. /\ \A i \in k + 1 .. Len(todo) : Plain(todo[i])
          /\ \A i \in DOMAIN inbox : Harmless(inbox[i], Possible)
          /\ Plain(c) /\ Possible' = Possible
      BY <1>5, <2>4 DEF Behind, Possible
    <3>2. ASSUME NEW i \in k + 1 .. Len(todo')
          PROVE  Plain(todo'[i])
      <4>1. CASE i = Len(todo) + 1
        BY <1>6, <3>1, <4>1
      <4>2. CASE i # Len(todo) + 1
        <5>1. i \in k + 1 .. Len(todo) /\ i \in 1 .. Len(todo)
          BY <1>6, <4>2
        <5>. QED
          BY <1>6, <3>1, <5>1
      <4>. QED
        BY <4>1, <4>2
    <3>. QED
      BY <1>4, <3>1, <3>2
  <2>. QED
    BY <2>1, <2>2, <2>3, <2>4 DEF Behind
<1>8. k \in 0 .. Len(todo')
  BY <1>6
<1>. QED
  BY <1>1, <1>4, <1>7, <1>8 DEF FewBehind

LEMMA SendPtt ==
    ASSUME PttInv, SendQuery
    PROVE  PttInv'
<1>. DEFINE x == IF next = "idle" THEN "f" ELSE next
            c == Query(x)
<1>1. /\ cmd = NoCmd /\ Send(c)
      /\ UNCHANGED <<next, late, everKeyed, rig, requests, worker>>
  BY DEF SendQuery, Ready, mainVars, copyVars, pollVars, bounds
<1>2. /\ c \in Command /\ Within(c, Possible) /\ (next = "t" => Plain(c))
      /\ ~c.set /\ c.of = x
  <2>1. x \in Field /\ "" \in Word
    BY DEF PttInv, LineTypes, Field, Word
  <2>2. c \in Command
    BY <2>1 DEF Query, Command
  <2>. QED
    BY <2>2 DEF Query, Within, Plain
<1>. HIDE DEF c
<1>3. /\ cmd' = c /\ c # NoCmd
      /\ todo' = Append(todo, c) /\ inbox' \in Seq(Reply) /\ FewBehind'
  BY <1>1, <1>2, Sending DEF PttInv
<1>4. Possible' = Possible
  BY <1>1 DEF Possible
<1>5. todo' \in Seq(Command) /\ AllWithin(todo', Possible)
  BY <1>2, <1>3, WithinLonger DEF PttInv, LineTypes, PttKnown
<1>6. InTurn'
  BY <1>1, <1>2, <1>3 DEF InTurn
<1>7. LineTypes'
  BY <1>1, <1>2, <1>3, <1>5 DEF PttInv, LineTypes
<1>. QED
  BY <1>1, <1>2, <1>3, <1>4, <1>5, <1>6, <1>7 DEF PttInv, PttKnown, Heard

LEMMA TakePtt ==
    ASSUME PttInv, Copies(worker), TakeSet
    PROVE  PttInv'
<1>. DEFINE r == Head(requests)
            c == Change(r.of, ForRig(r.to))
<1>1. /\ cmd = NoCmd /\ next = "idle" /\ requests # <<>>
      /\ requests' = Tail(requests)
      /\ UNCHANGED <<next, late, everKeyed, rig>>
  BY DEF TakeSet, Ready, pollVars, bounds
<1>2. /\ r \in Order /\ Within(r, Possible)
      /\ requests' \in Seq(Order) /\ AllWithin(requests', Possible)
  BY <1>1, WithinShorter DEF PttInv, LineTypes, PttKnown
<1>3. Possible' = Possible
  BY <1>1 DEF Possible
<1>4. worker'.t = worker.t
  <2>1. CASE UNCHANGED <<worker, signals>>
    BY <2>1
  <2>2. CASE r.of \notin Polled /\ worker' = [worker EXCEPT ![r.of] = r.to]
    <3>1. ChangedTo(worker, worker', r.of, r.to)
      BY <1>2, <2>2, CopyChanged DEF Order, Command
    <3>. QED
      BY <2>2, <3>1 DEF ChangedTo, Polled, Field
  <2>. QED
    BY <2>1, <2>2 DEF TakeSet
<1>5. CASE UNCHANGED lineVars
  <2>1. UNCHANGED <<cmd, todo, inbox>>
    BY <1>5 DEF lineVars
  <2>2. InTurn' /\ FewBehind'
    BY <1>1, <1>3, <1>5, LineAside DEF PttInv
  <2>. QED
    BY <1>1, <1>2, <1>3, <1>4, <2>1, <2>2
       DEF PttInv, LineTypes, PttKnown, Heard
<1>6. CASE Send(c)
  <2>1. c \in Command /\ c.set /\ Plain(c)
    BY <1>2, Words DEF Change, Order, Command, Plain
  <2>2. Within(c, Possible)
    <3>1. \A v \in Possible : ForRig(v) = v
      BY Words DEF Possible
    <3>. QED
      BY <1>2, <3>1 DEF Within, Change, Order
  <2>. HIDE DEF c
  <2>3. /\ cmd' = c /\ c # NoCmd
        /\ todo' = Append(todo, c) /\ inbox' \in Seq(Reply) /\ FewBehind'
    BY <1>1, <1>6, <2>1, Sending DEF PttInv
  <2>4. todo' \in Seq(Command) /\ AllWithin(todo', Possible)
    BY <2>1, <2>2, <2>3, WithinLonger DEF PttInv, LineTypes, PttKnown
  <2>5. InTurn'
    BY <1>1, <2>1, <2>3 DEF InTurn
  <2>6. LineTypes'
    BY <1>1, <1>2, <2>1, <2>3, <2>4 DEF PttInv, LineTypes
  <2>. QED
    BY <1>1, <1>2, <1>3, <1>4, <2>2, <2>3, <2>4, <2>5, <2>6
       DEF PttInv, PttKnown, Heard
<1>. QED
  BY <1>5, <1>6 DEF TakeSet

-----------------------------------------------------------------------------
Muted(q) == [n \in DOMAIN q |-> [q[n] EXCEPT !.mute = TRUE]]

LEMMA MutedFacts ==
    ASSUME NEW q \in Seq(Command), NEW P, AllWithin(q, P)
    PROVE  /\ Muted(q) \in Seq(Command) /\ Len(Muted(q)) = Len(q)
           /\ AllWithin(Muted(q), P)
           /\ \A n \in 1 .. Len(q) : Muted(q)[n].mute
<1>1. /\ Len(q) \in Nat /\ DOMAIN q = 1 .. Len(q)
      /\ \A n \in DOMAIN q : q[n] \in Command
  OBVIOUS
<1>2. ASSUME NEW c \in Command
      PROVE  /\ [c EXCEPT !.mute = TRUE] \in Command
             /\ [c EXCEPT !.mute = TRUE].mute
             /\ Within(c, P) => Within([c EXCEPT !.mute = TRUE], P)
  BY DEF Command, Within
<1>3. \A n \in DOMAIN q : Muted(q)[n] = [q[n] EXCEPT !.mute = TRUE]
  BY DEF Muted
<1>4. DOMAIN Muted(q) = 1 .. Len(q)
  BY <1>1 DEF Muted
<1>5. Muted(q) \in [1 .. Len(q) -> Command]
  BY <1>1, <1>2 DEF Muted
<1>6. Muted(q) \in Seq(Command)
  BY <1>1, <1>5, SeqDef
<1>7. Len(Muted(q)) = Len(q)
  BY <1>1, <1>4, <1>6
<1>8. AllWithin(Muted(q), P)
  BY <1>1, <1>2, <1>3, <1>4 DEF AllWithin
<1>9. \A n \in 1 .. Len(q) : Muted(q)[n].mute
  BY <1>1, <1>2, <1>3
<1>. QED
  BY <1>6, <1>7, <1>8, <1>9

\* Something must have been read for the wait to end in time.
LEMMA SomethingRead ==
    ASSUME inbox \in Seq(Reply), Terminated(cmd, Lines)
    PROVE  Len(inbox) >= 1
<1>1. Len(inbox) \in Nat
  OBVIOUS
<1>2. CASE Len(inbox) = 0
  <2>1. inbox = <<>> /\ Lines = inbox
    BY <1>2, EmptySeq DEF Lines, FlattenSeq
  <2>2. DOMAIN Lines = {} /\ Len(Lines) = 0 /\ Lines = <<>>
    BY <2>1
  <2>. QED
    BY <2>2 DEF Terminated
<1>3. \A n \in Nat : n # 0 => n >= 1
  OBVIOUS
<1>. QED
  BY <1>1, <1>2, <1>3

\* A wait ends.  What is outstanding then was late, and if it is only one
\* answer, then that to the command the worker has waited for.
LEMMA Ending ==
    ASSUME LineTypes, FewBehind, Received, inbox' = <<>>,
           todo' \in {todo, <<>>, Muted(todo)}, NEW P, AllWithin(todo, P),
           next' = "t" => Plain(cmd)
    PROVE  /\ cmd' = NoCmd /\ late' \in Nat /\ late <= late'
           /\ todo' \in Seq(Command) /\ AllWithin(todo', P) /\ FewBehind'
<1>1. /\ cmd # NoCmd /\ cmd' = NoCmd
      /\ todo \in Seq(Command) /\ inbox \in Seq(Reply) /\ late \in Nat
      /\ Len(todo) \in Nat /\ Len(inbox) \in Nat
  BY DEF Received, LineTypes
<1>2. /\ late' \in Nat /\ late <= late' /\ late' <= late + 1
      /\ late + 1 <= late' + Len(inbox)
  <2>1. CASE Terminated(cmd, Lines) /\ UNCHANGED late
    BY <1>1, <2>1, SomethingRead
  <2>2. CASE late' = late + 1
    BY <1>1, <2>2
  <2>. QED
    BY <2>1, <2>2 DEF Received
<1>3. Waiting = 1 /\ Waiting' = 0 /\ Len(inbox') = 0 /\ DOMAIN inbox' = {}
  BY <1>1 DEF Waiting
<1>4. CASE todo' = todo
  <2>1. PICK k \in 0 .. Len(todo) : Behind(k)
    BY DEF FewBehind
  <2>2. \A n \in 1 .. k : todo'[n].mute
    BY <1>4, <2>1 DEF Behind
  <2>3. Len(todo') - k + Len(inbox') <= late' + Waiting'
    <3>1. Len(todo) - k + Len(inbox) <= late + 1
      BY <1>3, <2>1 DEF Behind
    <3>. QED
      BY <1>1, <1>2, <1>3, <1>4, <3>1
  <2>4. ASSUME late' <= 1, next' = "t", NEW n \in k + 1 .. Len(todo')
        PROVE  Plain(todo'[n])
    <3>1. n = Len(todo) /\ k < Len(todo)
      BY <1>1, <1>2, <1>3, <1>4, <2>3, <2>4
    <3>2. todo[Len(todo)] = cmd
      BY <1>1, <2>1, <3>1 DEF Behind
    <3>. QED
      BY <1>4, <2>4, <3>1, <3>2
  <2>5. Behind(k)'
    BY <1>1, <1>3, <2>2, <2>3, <2>4 DEF Behind
  <2>. QED
    BY <1>1, <1>2, <1>4, <2>5 DEF FewBehind
<1>5. ASSUME NEW q \in Seq(Command), todo' = q,
             \A n \in 1 .. Len(q) : q[n].mute
      PROVE  FewBehind'
  <2>1. Len(q) \in Nat /\ Len(q) \in 0 .. Len(q)
    OBVIOUS
  <2>2. Len(todo') - Len(q) + Len(inbox') <= late' + Waiting'
    <3>1. Len(todo') = Len(q)
      BY <1>5
    <3>2. Len(q) - Len(q) + 0 <= late' + 0
      <4>1. \A m, l \in Nat : m - m + 0 <= l + 0
        OBVIOUS
      <4>. QED
        BY <1>2, <2>1, <4>1
    <3>. QED
      BY <1>3, <3>1, <3>2
  <2>3. Len(q) + 1 .. Len(todo') = {}
    BY <1>5, <2>1
  <2>4. Behind(Len(q))'
    BY <1>1, <1>3, <1>5, <2>2, <2>3 DEF Behind
  <2>. QED
    BY <1>5, <2>1, <2>4 DEF FewBehind
<1>6. CASE todo' = <<>>
  <2>1. /\ <<>> \in Seq(Command) /\ AllWithin(<<>>, P)
        /\ \A n \in 1 .. Len(<<>>) : <<>>[n].mute
    BY DEF AllWithin
  <2>. QED
    BY <1>1, <1>2, <1>5, <1>6, <2>1
<1>7. CASE todo' = Muted(todo)
  <2>1. /\ Muted(todo) \in Seq(Command) /\ AllWithin(Muted(todo), P)
        /\ \A n \in 1 .. Len(Muted(todo)) : Muted(todo)[n].mute
    BY <1>1, MutedFacts
  <2>. QED
    BY <1>1, <1>2, <1>5, <1>7, <2>1
<1>. QED
  BY <1>4, <1>6, <1>7

LEMMA LearnedPtt ==
    ASSUME Copies(worker), NEW x \in Field, NEW v, Learn(x, v), NEW P,
           worker.t \in P, x = "t" => v \in P
    PROVE  worker'.t \in P
<1>1. ChangedTo(worker, worker', x, v)
  BY CopyChanged DEF Learn
<1>2. "t" \in Field
  BY DEF Field
<1>. QED
  BY <1>1, <1>2 DEF ChangedTo

\* A PTT query hears a state of PTT, if at most one answer has been late:
\* an answer to an earlier command can only be to the query of the mode.
LEMMA HeardPtt ==
    ASSUME PttInv, late <= 1, next = "t", cmd # NoCmd, Readable("t", Lines)
    PROVE  Value("t", Lines) \in Possible
<1>1. PICK k \in 0 .. Len(todo) : Behind(k)
  BY DEF PttInv, FewBehind
<1>2. /\ inbox \in Seq(Reply) /\ late \in Nat
      /\ Len(todo) \in Nat /\ Len(inbox) \in Nat
  BY DEF PttInv, LineTypes
<1>3. Len(inbox) <= 2
  <2>1. Len(todo) - k + Len(inbox) <= late + 1
    BY <1>1 DEF Behind, Waiting
  <2>. QED
    BY <1>2, <2>1
<1>4. Len(Lines) = 1 /\ Number(Lines[1])
  BY DEF Readable
<1>5. PICK n \in DOMAIN inbox :
        Len(inbox[n]) = 1 /\ inbox[n][1] = Lines[1]
  BY <1>2, <1>3, <1>4, OneLine
<1>6. Lines[1] \in Possible
  BY <1>1, <1>4, <1>5 DEF Behind, Harmless
<1>. QED
  BY <1>6 DEF Value, Possible

LEMMA QueryPtt ==
    ASSUME PttInv, CatShape, QueryEnds
    PROVE  PttInv'
<1>1. /\ ~cmd.set /\ cmd # NoCmd /\ Received /\ next' = After(cmd.of)
      /\ cmd \in Command /\ cmd.of \in Field
      /\ UNCHANGED <<requests, rig, everKeyed>>
  BY DEF QueryEnds, Received, mainVars, PttInv, LineTypes, Command
<1>2. inbox' = <<>> /\ todo' \in {todo, <<>>, Muted(todo)}
  BY DEF QueryEnds, NotePollFailure, Muted
<1>3. next' \in Field \union {"idle"} /\ (next' = "t" => cmd.of = "m")
  BY <1>1 DEF After, Field
<1>4. next' = "t" => Plain(cmd)
  BY <1>3 DEF Plain
<1>5. /\ cmd' = NoCmd /\ late' \in Nat /\ late <= late'
      /\ todo' \in Seq(Command) /\ AllWithin(todo', Possible) /\ FewBehind'
  BY <1>1, <1>2, <1>4, Ending DEF PttInv, PttKnown
<1>6. Possible' = Possible
  BY <1>1 DEF Possible
<1>7. ASSUME late' <= 1
      PROVE  worker'.t \in Possible
  <2>1. late <= 1 /\ worker.t \in Possible
    BY <1>5, <1>7 DEF PttInv, LineTypes, Heard
  <2>2. CASE UNCHANGED copyVars
    BY <2>1, <2>2 DEF copyVars
  <2>3. CASE /\ Readable(cmd.of, Lines)
             /\ Learn(cmd.of, Value(cmd.of, Lines))
    <3>1. cmd.of = "t" => next = "t"
      BY <1>1 DEF PttInv, InTurn
    <3>2. cmd.of = "t" => Value(cmd.of, Lines) \in Possible
      BY <1>1, <2>1, <2>3, <3>1, HeardPtt
    <3>. QED
      BY <1>1, <2>1, <2>3, <3>2, LearnedPtt DEF CatShape
  <2>. QED
    BY <2>2, <2>3 DEF QueryEnds
<1>8. /\ <<>> \in Seq(Reply) /\ Within(NoCmd, Possible)
  BY DEF Within, NoCmd
<1>. QED
  BY <1>1, <1>2, <1>3, <1>5, <1>6, <1>7, <1>8
     DEF PttInv, LineTypes, PttKnown, InTurn, Heard

LEMMA SetEndsPtt ==
    ASSUME PttInv, CatShape, SetEnds
    PROVE  PttInv'
<1>1. /\ cmd.set /\ cmd # NoCmd /\ Received /\ inbox' = <<>>
      /\ cmd \in Command /\ cmd.of \in Field
      /\ UNCHANGED <<requests, rig, everKeyed, todo, next>>
  BY DEF SetEnds, Received, mainVars, pollVars, PttInv, LineTypes, Command
<1>2. /\ cmd' = NoCmd /\ late' \in Nat /\ late <= late'
      /\ todo' \in Seq(Command) /\ AllWithin(todo', Possible) /\ FewBehind'
  BY <1>1, Ending DEF PttInv, PttKnown, Plain
<1>3. Possible' = Possible
  BY <1>1 DEF Possible
<1>4. ASSUME late' <= 1
      PROVE  worker'.t \in Possible
  <2>1. worker.t \in Possible
    BY <1>2, <1>4 DEF PttInv, LineTypes, Heard
  <2>2. CASE UNCHANGED worker
    BY <2>1, <2>2
  <2>3. CASE Learn(cmd.of, FromRig(cmd.to))
    <3>1. cmd.of = "t" => FromRig(cmd.to) \in Possible
      <4>1. \A v \in Possible : FromRig(v) = v
        BY Words DEF Possible
      <4>. QED
        BY <1>1, <4>1 DEF PttInv, PttKnown, Within
    <3>. QED
      BY <1>1, <2>1, <2>3, <3>1, LearnedPtt DEF CatShape
  <2>. QED
    BY <2>2, <2>3 DEF SetEnds, copyVars
<1>5. /\ <<>> \in Seq(Reply) /\ Within(NoCmd, Possible)
  BY DEF Within, NoCmd
<1>. QED
  BY <1>1, <1>2, <1>3, <1>4, <1>5
     DEF PttInv, LineTypes, PttKnown, InTurn, Heard

LEMMA ServePtt ==
    ASSUME PttInv, Serve
    PROVE  PttInv'
<1>. DEFINE c == Head(todo)
<1>1. /\ todo # <<>> /\ todo' = Tail(todo)
      /\ UNCHANGED <<requests, worker, cmd, next, late>>
  BY DEF Serve, mainVars, copyVars, pollVars
<1>2. /\ c \in Command /\ Within(c, Possible)
      /\ todo' \in Seq(Command) /\ AllWithin(todo', Possible)
  BY <1>1, WithinShorter DEF PttInv, LineTypes, PttKnown
<1>3. /\ rig' \in [Field -> Word] /\ everKeyed' \in BOOLEAN
      /\ Possible \subseteq Possible' /\ rig'.t \in Possible'
  <2>1. CASE Execute(c)
    <3>1. c.of \in Field /\ c.to \in Word
      BY <1>2 DEF Command
    <3>2. Within(c, {"0", "1"})
      BY <1>2, WithinMore DEF Possible
    <3>. HIDE DEF c
    <3>. QED
      BY <2>1, <3>1, <3>2, Executed DEF PttInv, LineTypes, PttKnown
  <2>2. CASE UNCHANGED <<rig, everKeyed>>
    BY <2>2 DEF PttInv, LineTypes, PttKnown, Possible
  <2>. QED
    BY <2>1, <2>2 DEF Serve
<1>4. /\ c.mute => inbox' = inbox
      /\ inbox' = inbox \/ \E a \in Reply :
           inbox' = Append(inbox, a) /\ (Plain(c) => Harmless(a, Possible'))
  <2>1. /\ Answer(c, rig) \in Reply
        /\ Plain(c) => Harmless(Answer(c, rig), Possible')
    BY <1>2, <1>3, Answers, WithinMore DEF PttInv, LineTypes, PttKnown
  <2>2. <<"RPRT -1">> \in Reply /\ Harmless(<<"RPRT -1">>, Possible')
    <3>1. <<"RPRT -1">> \in Reply
      BY DEF Reply, Word
    <3>2. Harmless(<<"RPRT -1">>, Possible')
      BY DEF Harmless, Number, Positive
    <3>. QED
      BY <3>1, <3>2
  <2>. HIDE DEF c
  <2>. QED
    BY <2>1, <2>2 DEF Serve, c
<1>5. PICK k \in 0 .. Len(todo) : Behind(k)
  BY DEF PttInv, FewBehind
<1>6. /\ todo \in Seq(Command) /\ inbox \in Seq(Reply) /\ late \in Nat
  BY DEF PttInv, LineTypes
<1>7. /\ Len(todo) \in Nat \ {0} /\ Len(todo') = Len(todo) - 1
      /\ c = todo[1]
      /\ \A n \in 1 .. Len(todo) - 1 : todo'[n] = todo[n + 1]
  BY <1>1, <1>6, SMT
<1>8. /\ inbox' \in Seq(Reply)
      /\ Len(inbox) \in Nat /\ Len(inbox') \in {Len(inbox), Len(inbox) + 1}
      /\ c.mute => Len(inbox') = Len(inbox)
      /\ \A n \in DOMAIN inbox' :
           \/ n \in DOMAIN inbox /\ inbox'[n] = inbox[n]
           \/ Plain(c) => Harmless(inbox'[n], Possible')
  <2>1. CASE inbox' = inbox
    BY <1>6, <2>1
  <2>2. ASSUME NEW a \in Reply, inbox' = Append(inbox, a), ~c.mute,
               Plain(c) => Harmless(a, Possible')
        PROVE  /\ inbox' \in Seq(Reply)
               /\ Len(inbox) \in Nat /\ Len(inbox') = Len(inbox) + 1
               /\ \A n \in DOMAIN inbox' :
                    \/ n \in DOMAIN inbox /\ inbox'[n] = inbox[n]
                    \/ Plain(c) => Harmless(inbox'[n], Possible')
    <3>1. /\ inbox' \in Seq(Reply)
          /\ Len(inbox) \in Nat /\ Len(inbox') = Len(inbox) + 1
      BY <1>6, <2>2
    <3>2. \A n \in DOMAIN inbox' :
            (n \in DOMAIN inbox /\ inbox'[n] = inbox[n]) \/ inbox'[n] = a
      BY <1>6, <2>2, SMT
    <3>. QED
      BY <2>2, <3>1, <3>2
  <2>. HIDE DEF c
  <2>3. CASE inbox' # inbox
    <3>1. ~c.mute
      BY <1>4, <2>3
    <3>. QED
      BY <1>4, <2>2, <2>3, <3>1
  <2>. QED
    BY <2>1, <2>3
<1>. HIDE DEF c
<1>9. FewBehind'
  <2>. DEFINE j == IF k = 0 THEN 0 ELSE k - 1
  <2>1. j \in 0 .. Len(todo') /\ j + 1 \in k .. k + 1 /\ k \in Nat
    BY <1>7
  <2>2. k # 0 => c.mute
    BY <1>5, <1>7 DEF Behind
  <2>3. \A n \in 1 .. j : todo'[n].mute
    <3>1. \A n \in 1 .. j : n \in 1 .. Len(todo) - 1 /\ n + 1 \in 1 .. k
      BY <1>7
    <3>. QED
      BY <1>5, <1>7, <3>1 DEF Behind
  <2>4. Len(todo') - j + Len(inbox') <= late' + Waiting'
    <3>1. Len(todo) - k + Len(inbox) <= late + Waiting
      BY <1>5 DEF Behind
    <3>2. Waiting' = Waiting /\ late' = late /\ Waiting \in Nat
      BY <1>1 DEF Waiting
    <3>3. CASE k = 0
      BY <1>6, <1>7, <1>8, <3>1, <3>2, <3>3
    <3>4. CASE k # 0
      BY <1>6, <1>7, <1>8, <2>2, <3>1, <3>2, <3>4
    <3>. QED
      BY <3>3, <3>4
  <2>5. ASSUME cmd' # NoCmd, j < Len(todo')
        PROVE  todo'[Len(todo')] = cmd'
    <3>1. k < Len(todo) /\ Len(todo) - 1 \in 1 .. Len(todo) - 1
      BY <1>7, <2>5
    <3>2. todo[Len(todo)] = cmd
      BY <1>1, <1>5, <2>5, <3>1 DEF Behind
    <3>. QED
      BY <1>1, <1>7, <3>1, <3>2
  <2>6. ASSUME late' <= 1, next' = "t"
        PROVE  /\ \A n \in j + 1 .. Len(todo') : Plain(todo'[n])
               /\ \A n \in DOMAIN inbox' : Harmless(inbox'[n], Possible')
    <3>1. /\ \A n \in k + 1 .. Len(todo) : Plain(todo[n])
          /\ \A n \in DOMAIN inbox : Harmless(inbox[n], Possible')
      BY <1>1, <1>3, <1>5, <2>6, WithinMore DEF Behind
    <3>2. \A n \in j + 1 .. Len(todo') :
            n \in 1 .. Len(todo) - 1 /\ n + 1 \in k + 1 .. Len(todo)
      BY <1>7
    <3>3. k = 0 => Plain(c)
      BY <1>7, <3>1
    <3>4. ASSUME NEW n \in DOMAIN inbox'
          PROVE  Harmless(inbox'[n], Possible')
      <4>1. CASE k = 0
        BY <1>8, <3>1, <3>3, <4>1
      <4>2. CASE k # 0
        BY <1>4, <2>2, <3>1, <4>2
      <4>. QED
        BY <4>1, <4>2
    <3>. QED
      BY <1>7, <3>1, <3>2, <3>4
  <2>7. Behind(j)'
    <3>. HIDE DEF j
    <3>. QED
      BY <2>3, <2>4, <2>5, <2>6 DEF Behind
  <2>. QED
    BY <2>1, <2>7 DEF FewBehind
<1>10. LineTypes' /\ InTurn'
  BY <1>1, <1>2, <1>3, <1>8 DEF PttInv, LineTypes, InTurn
<1>11. PttKnown' /\ Heard'
  BY <1>1, <1>2, <1>3, WithinMore DEF PttInv, PttKnown, Heard
<1>. QED
  BY <1>9, <1>10, <1>11 DEF PttInv

LEMMA PttInvInit == CatInit => PttInv
<1> SUFFICES ASSUME CatInit PROVE PttInv
  OBVIOUS
<1>1. /\ requests = <<>> /\ todo = <<>> /\ inbox = <<>> /\ cmd = NoCmd
      /\ next = "idle" /\ late = 0 /\ everKeyed = FALSE
      /\ rig = [f |-> "7", m |-> "USB", t |-> "0", i |-> "14", s |-> "0"]
      /\ worker.t = "0"
  BY DEF CatInit
<1>2. rig \in [Field -> Word]
  <2>1. rig = [x \in Field |-> rig[x]]
    BY <1>1, SMT DEF Field
  <2>2. \A x \in Field : rig[x] \in {"7", "USB", "0", "14"}
    BY <1>1, SMT DEF Field
  <2>3. {"7", "USB", "0", "14"} \subseteq Word
    BY DEF Word
  <2>. QED
    BY <2>1, <2>2, <2>3
<1>3. /\ \A S : <<>> \in Seq(S)
      /\ DOMAIN <<>> = {} /\ Len(<<>>) = 0
  OBVIOUS
<1>4. LineTypes
  BY <1>1, <1>2, <1>3 DEF LineTypes
<1>5. Possible = {"0"}
  BY <1>1 DEF Possible
<1>6. PttKnown /\ InTurn /\ Heard
  BY <1>1, <1>3, <1>5 DEF PttKnown, AllWithin, Within, NoCmd, InTurn, Heard
<1>7. Behind(0)
  BY <1>1, <1>3 DEF Behind, Waiting
<1>8. FewBehind
  BY <1>1, <1>3, <1>7 DEF FewBehind
<1>. QED
  BY <1>4, <1>6, <1>8 DEF PttInv

\* Whatever the bounds and the fields that change.
LEMMA PttKept ==
    ASSUME PttInv, CatShape, [CatNext]_catVars
    PROVE  PttInv'
<1>1. ASSUME NEW x \in Settable, NEW v \in Wishes(x), Set(x, v)
      PROVE  PttInv'
  BY <1>1, SetPtt, CatAssumption
<1>2. CASE Update
  BY <1>2, UntouchedPtt DEF Update, pollVars, bounds
<1>3. CASE WorkerMoves
  BY <1>3, SendPtt, QueryPtt, SetEndsPtt DEF WorkerMoves
<1>4. CASE TakeSet
  BY <1>4, TakePtt DEF CatShape
<1>5. CASE Serve
  BY <1>5, ServePtt
<1>6. ASSUME NEW x \in Settable \intersect Polled, NEW v \in Dialled(x),
             HandChanges(x, v)
      PROVE  PttInv'
  BY <1>6, HandPtt, CatAssumption
<1>7. CASE UNCHANGED catVars
  BY <1>7, UntouchedPtt DEF catVars, mainVars, copyVars, pollVars, bounds
<1>8. CASE SetPollingSuspended
  BY <1>8, UntouchedPtt DEF SetPollingSuspended, mainVars, copyVars, bounds
<1>. QED
  BY <1>1, <1>2, <1>3, <1>4, <1>5, <1>6, <1>7, <1>8 DEF CatNext

(* As long as at most one answer has been late the worker takes no other   *)
(* answer for a transmission: for every bound, every choice of fields that *)
(* change, and any number of sets, refusals and changes by hand.           *)
(* (transactLines, pollPtt, forceReconnect)                                *)
THEOREM PttNeverInvented == CatSpec => []PttNotInvented
<1>1. CatInv => CatShape
  BY DEF CatInv
<1>2. PttInv /\ CatShape /\ [CatNext]_catVars => PttInv'
  BY PttKept
<1>3. PttInv => PttNotInvented
  BY DEF PttInv, Heard, PttNotInvented, Possible
<1>. QED
  BY <1>1, <1>2, <1>3, PttInvInit, CatInvariant, PTL DEF CatSpec
=============================================================================
