---------------------------- MODULE SessionProofs ----------------------------
(***************************************************************************)
(* Proofs about a session of the test client beside any other clients, for *)
(* every configuration, frame size and length of the session: the types,   *)
(* and when the radio may be left keyed for its tone.                      *)
(***************************************************************************)
EXTENDS Session, TciServerProofs, SequenceTheorems

USE DEF link, fixed

Messages == {"samples", "channels", "audio_start", "audio_stop",
             "tx_audio_start", "tx_audio_stop", "frame", "bye"}

SessionTyped ==
    /\ TypeOK
    /\ audioClients \subseteq clients
    /\ perFrame \in Sizes \union {Preferred}
    /\ channels \in {1, 2}
    /\ acc \in Nat
    /\ phase \in {"off", "open", "closing", "gone"}
    /\ rxFrames \in 0 .. FrameLimit
    /\ tone \in BOOLEAN /\ leaving \in BOOLEAN
    /\ lost \in BOOLEAN /\ keyedByTone \in BOOLEAN
    /\ up \in Seq(Messages)
    /\ down \in Seq(Nat)

(***************************************************************************)
(* The order in which the test client speaks.  Nothing follows its "bye",  *)
(* the only thing it can still say when its socket closes; "ready" is the  *)
(* first thing it hears, before the frames that make it leave.             *)
(***************************************************************************)
Orderly ==
    /\ tone => Tone
    /\ phase = "off" => Harness \notin clients /\ ~tone
    /\ leaving => ~tone /\ phase # "off"
    /\ phase = "closing" => leaving
    /\ phase = "gone" => ~tone
    /\ phase = "open" => Harness \in clients \/ lost
    /\ Harness \notin clients => up = <<>>
    /\ \A n \in DOMAIN up :
          up[n] = "bye" => n = Len(up) /\ phase # "open" /\ leaving
    /\ \A n \in DOMAIN down : down[n] = Ready => n = 1 /\ ~leaving

Keys == {"tx_audio_start", "frame"}

Occurs(q, m) == \E n \in DOMAIN q : q[n] = m

\* Whatever keys the radio in q is followed by the end of the tone.
Covered(q) ==
    \A n \in DOMAIN q : q[n] \in Keys =>
        \E k \in DOMAIN q : k > n /\ q[k] = "tx_audio_stop"

\* The tone goes on, or was broken off before the test client could end it.
Unfinished == tone \/ lost \/ (phase = "gone" /\ ~leaving)

\* What leaves a transmission asked for without an owner.
Excused == pendingUnkey \/ ~config.unkeyOnDisconnect

(***************************************************************************)
(* Once the tone has been ended in order, the radio is keyed for it only   *)
(* while its end is under way to the server, behind everything that could  *)
(* key again.                                                              *)
(***************************************************************************)
ToneInv ==
    /\ txOwner = Harness => keyedByTone
    /\ keyedByTone => config.keysPtt /\ asked
    /\ keyedByTone /\ txOwner # Harness => Excused
    /\ Harness \notin clients /\ keyedByTone => lost
    /\ Unfinished \/ (keyedByTone => Occurs(up, "tx_audio_stop"))
    /\ Unfinished \/ Covered(up)

-----------------------------------------------------------------------------
(* Sequences of messages.                                                  *)

LEMMA Joined ==
    ASSUME NEW S, NEW q \in Seq(S), NEW m \in Seq(S)
    PROVE  /\ q \o m \in Seq(S)
           /\ Len(q \o m) = Len(q) + Len(m)
           /\ \A n \in DOMAIN q : n \in DOMAIN (q \o m) /\ (q \o m)[n] = q[n]
           /\ \A n \in DOMAIN m : /\ n + Len(q) \in DOMAIN (q \o m)
                                  /\ (q \o m)[n + Len(q)] = m[n]
           /\ \A n \in DOMAIN (q \o m) : n \notin DOMAIN q =>
                \E k \in DOMAIN m : n = k + Len(q)
<1>. DEFINE r == q \o m
<1>1. /\ r \in Seq(S)
      /\ Len(q) \in Nat /\ Len(m) \in Nat /\ Len(r) = Len(q) + Len(m)
      /\ DOMAIN q = 1 .. Len(q)
      /\ DOMAIN m = 1 .. Len(m)
      /\ DOMAIN r = 1 .. Len(q) + Len(m)
      /\ \A n \in 1 .. Len(q) + Len(m) :
           r[n] = IF n <= Len(q) THEN q[n] ELSE m[n - Len(q)]
  BY SMT
<1>. HIDE DEF r
<1>2. /\ \A n \in DOMAIN q : n \in DOMAIN r /\ r[n] = q[n]
      /\ \A n \in DOMAIN m : n + Len(q) \in DOMAIN r /\ r[n + Len(q)] = m[n]
      /\ \A n \in DOMAIN r : n \notin DOMAIN q =>
           n - Len(q) \in DOMAIN m /\ n = (n - Len(q)) + Len(q)
  BY <1>1, SMT
<1>. QED
  BY <1>1, <1>2 DEF r

LEMMA Dropped ==
    ASSUME NEW S, NEW q \in Seq(S), q # <<>>
    PROVE  /\ Head(q) \in S /\ Tail(q) \in Seq(S)
           /\ Len(q) \in Nat /\ Len(Tail(q)) = Len(q) - 1
           /\ 1 \in DOMAIN q /\ q[1] = Head(q)
           /\ \A n \in DOMAIN Tail(q) :
                n \in Nat /\ n + 1 \in DOMAIN q /\ Tail(q)[n] = q[n + 1]
           /\ \A n \in DOMAIN q : n # 1 =>
                n - 1 \in DOMAIN Tail(q) /\ Tail(q)[n - 1] = q[n]
           /\ 1 = Len(q) => Tail(q) = <<>>
<1>. DEFINE t == Tail(q)
<1>1. /\ Head(q) \in S /\ t \in Seq(S) /\ q[1] = Head(q)
      /\ Len(q) \in Nat /\ Len(q) # 0 /\ Len(t) = Len(q) - 1
      /\ DOMAIN q = 1 .. Len(q) /\ DOMAIN t = 1 .. Len(q) - 1
  <2>1. Head(q) \in S /\ t \in Seq(S) /\ Len(q) \in Nat /\ Len(q) # 0
    BY SMT
  <2>2. q[1] = Head(q) /\ Len(t) = Len(q) - 1
    BY SMT
  <2>3. DOMAIN q = 1 .. Len(q)
    BY SMT
  <2>4. DOMAIN t = 1 .. Len(q) - 1
    <3>1. DOMAIN t = 1 .. Len(t)
      BY <2>1
    <3>. QED
      BY <2>2, <3>1
  <2>. QED
    BY <2>1, <2>2, <2>3, <2>4
<1>2. \A n \in 1 .. Len(q) - 1 : t[n] = q[n + 1]
  BY SMT
<1>. HIDE DEF t
<1>3. 1 = Len(q) => t = <<>>
  <2>1. 1 = Len(q) => Len(t) = 0
    BY <1>1
  <2>. QED
    BY <1>1, <2>1, EmptySeq
<1>4. 1 \in DOMAIN q
  BY <1>1, SMT
<1>5. \A n \in DOMAIN t : n \in Nat /\ n + 1 \in DOMAIN q /\ t[n] = q[n + 1]
  BY <1>1, <1>2, SMT
<1>6. ASSUME NEW n \in DOMAIN q, n # 1
      PROVE  n - 1 \in DOMAIN t /\ t[n - 1] = q[n]
  <2>1. n - 1 \in 1 .. Len(q) - 1 /\ (n - 1) + 1 = n
    BY <1>1, <1>6, SMT
  <2>. QED
    BY <1>1, <1>2, <2>1
<1>. QED
  BY <1>1, <1>3, <1>4, <1>5, <1>6 DEF t

LEMMA CoveredJoined ==
    ASSUME NEW q \in Seq(Messages), NEW m \in Seq(Messages),
           \/ Covered(q) /\ Covered(m)
           \/ /\ \A n \in DOMAIN m : m[n] \notin Keys
              /\ Occurs(m, "tx_audio_stop")
    PROVE  Covered(q \o m)
<1>. DEFINE r == q \o m
<1>1. /\ \A n \in DOMAIN q : n \in DOMAIN r /\ r[n] = q[n]
      /\ \A n \in DOMAIN m : n + Len(q) \in DOMAIN r /\ r[n + Len(q)] = m[n]
      /\ \A n \in DOMAIN r : n \notin DOMAIN q =>
           \E k \in DOMAIN m : n = k + Len(q)
      /\ DOMAIN q = 1 .. Len(q) /\ Len(q) \in Nat
      /\ DOMAIN m = 1 .. Len(m) /\ Len(m) \in Nat
  BY Joined
<1>. HIDE DEF r
<1>2. \A n \in DOMAIN q, k \in DOMAIN m : k + Len(q) > n
  BY <1>1, SMT
<1>3. \A n \in DOMAIN m, k \in DOMAIN m : k > n => k + Len(q) > n + Len(q)
  BY <1>1, SMT
<1> SUFFICES ASSUME NEW n \in DOMAIN r, r[n] \in Keys
             PROVE  \E k \in DOMAIN r : k > n /\ r[k] = "tx_audio_stop"
  BY DEF Covered, r
<1>4. CASE n \in DOMAIN q
  <2>1. r[n] = q[n]
    BY <1>1, <1>4
  <2>2. CASE Covered(q)
    BY <1>1, <1>4, <2>1, <2>2 DEF Covered
  <2>3. CASE Occurs(m, "tx_audio_stop")
    BY <1>1, <1>2, <1>4, <2>3 DEF Occurs
  <2>. QED
    BY <2>2, <2>3
<1>5. CASE n \notin DOMAIN q
  <2>1. PICK j \in DOMAIN m : n = j + Len(q)
    BY <1>1, <1>5
  <2>2. m[j] \in Keys /\ Covered(m)
    BY <1>1, <2>1
  <2>3. PICK k \in DOMAIN m : k > j /\ m[k] = "tx_audio_stop"
    BY <2>2 DEF Covered
  <2>. QED
    BY <1>1, <1>3, <2>1, <2>3
<1>. QED
  BY <1>4, <1>5

LEMMA CoveredDropped ==
    ASSUME NEW q \in Seq(Messages), q # <<>>, Covered(q)
    PROVE  /\ Covered(Tail(q))
           /\ Head(q) \in Keys => Occurs(Tail(q), "tx_audio_stop")
<1>1. \A n \in DOMAIN q : n \in Nat /\ n # 0 /\ (n # 1 => n > 1)
  BY SMT
<1>2. ASSUME NEW n \in DOMAIN Tail(q), Tail(q)[n] \in Keys
      PROVE  \E k \in DOMAIN Tail(q) : k > n /\ Tail(q)[k] = "tx_audio_stop"
  <2>1. n \in Nat /\ n + 1 \in DOMAIN q /\ q[n + 1] \in Keys
    BY <1>2, Dropped
  <2>2. PICK k \in DOMAIN q : k > n + 1 /\ q[k] = "tx_audio_stop"
    BY <2>1 DEF Covered
  <2>3. k # 1 /\ k - 1 > n
    BY <1>1, <2>1, <2>2, SMT
  <2>. QED
    BY <2>2, <2>3, Dropped
<1>3. ASSUME Head(q) \in Keys
      PROVE  Occurs(Tail(q), "tx_audio_stop")
  <2>1. 1 \in DOMAIN q /\ q[1] \in Keys
    BY <1>3, Dropped
  <2>2. PICK k \in DOMAIN q : k > 1 /\ q[k] = "tx_audio_stop"
    BY <2>1 DEF Covered
  <2>3. k # 1
    BY <2>2, <1>1
  <2>. QED
    <3>1. k - 1 \in DOMAIN Tail(q) /\ Tail(q)[k - 1] = "tx_audio_stop"
      BY <2>2, <2>3, Dropped
    <3>. QED
      BY <3>1 DEF Occurs
<1>. QED
  BY <1>2, <1>3 DEF Covered

-----------------------------------------------------------------------------
(* What a session's steps are to the server.                               *)

LEMMA SessionIsSlot ==
    ASSUME TypeOK, [SessionNext]_sessionVars
    PROVE  Slot
<1>1. CASE UNCHANGED vars
  BY <1>1, NextIsSlot
<1>2. ASSUME NEW c \in Clients, ClientEvent(c), UNCHANGED fixed
      PROVE  Slot
  BY <1>2 DEF Slot
<1>3. Harness \in Clients
  BY SessionAssumption
<1>4. CASE Connect
  BY <1>2, <1>3, <1>4 DEF Connect, ClientEvent
<1>5. CASE Hear \/ Leave \/ Quit \/ TxTimer \/ SendRxAudio
  BY <1>1, <1>5 DEF Hear, Leave, Quit, TxTimer, SendRxAudio
<1>6. CASE Read
  BY <1>1, <1>2, <1>3, <1>6
     DEF Read, ReadsRx, ReadsTx, ReadsBye, ClientEvent
<1>7. CASE Watchdog
  <2>1. [Next]_vars
    BY <1>7 DEF Watchdog, Next
  <2>. QED
    BY <2>1, NextIsSlot
<1>8. ASSUME NEW c \in Clients \ {Harness}, OtherClient(c)
      PROVE  Slot
  BY <1>1, <1>2, <1>8 DEF OtherClient
<1>9. CASE ConnectionLost
  BY <1>2, <1>3, <1>9 DEF ConnectionLost, ClientEvent
<1>10. CASE UNCHANGED sessionVars
  BY <1>1, <1>10 DEF sessionVars
<1>. QED
  BY <1>4, <1>5, <1>6, <1>7, <1>8, <1>9, <1>10 DEF SessionNext

\* A client's own events make only that client the owner, and its audio does
\* so only if the configuration lets audio key.
LEMMA OwnerSteps ==
    ASSUME NEW c \in Clients, ClientEvent(c)
    PROVE  /\ txOwner' \in {txOwner, NoClient, c}
           /\ clients' \in {clients \union {c}, clients, clients \ {c}}
<1>1. CASE OnNewConnection(c) \/ QueryState(c)
  BY <1>1 DEF OnNewConnection, QueryState
<1>2. CASE OnSocketDisconnected(c)
  BY <1>2, StopFacts DEF OnSocketDisconnected, Released
<1>3. CASE TrxOn(c) \/ TrxOff(c)
  BY <1>3, OnFacts, OffFacts DEF TrxOn, TrxOff
<1>4. CASE TxAudioStart(c)
  BY <1>4, OnFacts DEF TxAudioStart
<1>5. CASE TxAudioStop(c)
  BY <1>5, OffFacts DEF TxAudioStop
<1>6. CASE TxAudioFrame(c)
  BY <1>6, OnFacts DEF TxAudioFrame
<1>. QED
  BY <1>1, <1>2, <1>3, <1>4, <1>5, <1>6 DEF ClientEvent

\* A transmission goes on without an owner only if it did so before, if its
\* unkeying is postponed, or if a disconnect does not unkey.
LEMMA Abandoned ==
    ASSUME NEW c \in Clients, ClientEvent(c), config' = config, asked',
           txOwner' = NoClient
    PROVE  Excused' \/ (txOwner = NoClient /\ (Excused => Excused'))
<1>. USE DEF Excused
<1>1. c # NoClient
  BY ServerAssumption
<1>2. CASE OnNewConnection(c) \/ QueryState(c)
  BY <1>2 DEF OnNewConnection, QueryState
<1>3. CASE OnSocketDisconnected(c)
  BY <1>3, StopFacts DEF OnSocketDisconnected, Released
<1>4. CASE TrxOn(c) \/ TrxOff(c)
  BY <1>1, <1>4, OnFacts, OffFacts DEF TrxOn, TrxOff
<1>5. CASE TxAudioStart(c)
  BY <1>1, <1>5, OnFacts DEF TxAudioStart
<1>6. CASE TxAudioStop(c)
  BY <1>6, OffFacts DEF TxAudioStop
<1>7. CASE TxAudioFrame(c)
  BY <1>1, <1>7, OnFacts DEF TxAudioFrame
<1>. QED
  BY <1>2, <1>3, <1>4, <1>5, <1>6, <1>7 DEF ClientEvent

LEMMA ExpiryAbandons ==
    ASSUME TimerStep, config' = config, asked', txOwner' = NoClient
    PROVE  Excused' \/ (txOwner = NoClient /\ (Excused => Excused'))
BY StopFacts DEF TimerStep, Tick, OnTxWatchdogExpired, Excused

LEMMA AudioKeys ==
    ASSUME NEW c, TxAudioStart(c) \/ TxAudioFrame(c)
    PROVE  txOwner' = txOwner \/ config.keysPtt
BY OnFacts DEF TxAudioStart, TxAudioFrame

LEMMA AudioUnkeys ==
    ASSUME NEW c, TxAudioStop(c)
    PROVE  /\ txOwner' \in {txOwner, NoClient}
           /\ config.keysPtt => ~asked'
BY OffFacts DEF TxAudioStop

-----------------------------------------------------------------------------
(* Types.                                                                  *)

LEMMA SizesPositive == SessionTyped => perFrame \in Nat /\ perFrame > 0
BY SessionAssumption DEF SessionTyped

\* What a capture leaves, and the frames it sends.
LEMMA FramedFacts ==
    ASSUME SessionTyped, NEW n \in 1 .. MaxCapture, Framed(n)
    PROVE  /\ acc' \in Nat
           /\ channels' = 1
           /\ \/ down' = down
              \/ \E m \in Seq(Nat) :
                   /\ down' = down \o m
                   /\ \A j \in DOMAIN m : m[j] # Ready
<1>1. /\ perFrame \in Nat /\ perFrame > 0 /\ acc \in Nat /\ n \in Nat
  BY SizesPositive, SessionAssumption DEF SessionTyped
<1>2. PICK k \in 0 .. acc + n :
        /\ Rounds(acc + n, k)
        /\ acc' = acc + n - k * perFrame
        /\ down' = Sent(k)
  BY DEF Framed
<1>3. k \in Nat /\ channels' = 1
  BY <1>1 DEF Framed
<1>. DEFINE m == [j \in 1 .. k |-> 1]
<1>4. m \in Seq(Nat) /\ \A j \in DOMAIN m : m[j] # Ready
  <2>1. m \in Seq(Nat)
    BY <1>3, IsASeq
  <2>. QED
    BY <2>1 DEF Ready
<1>5. down' = down \/ down' = down \o m
  BY <1>2, <1>3 DEF Sent
<1>6. acc' \in Nat
  <2>1. CASE k = 0
    BY <1>1, <1>2, <2>1
  <2>2. CASE k # 0
    <3>1. k - 1 \in 0 .. k - 1
      BY <1>3, <2>2
    <3>2. \A j \in 0 .. k - 1 : acc + n - j * perFrame >= perFrame
      <4>1. Rounds(acc + n, k)
        BY <1>2
      <4>. QED
        BY <1>1, <1>3, <4>1, SMTT(30) DEF Rounds
    <3>3. acc + n - (k - 1) * perFrame >= perFrame
      BY <3>1, <3>2, Zenon
    <3>4. \A p, q \in Nat : (q - 1) * p = q * p - p /\ q * p \in Nat
      OBVIOUS
    <3>5. (k - 1) * perFrame = k * perFrame - perFrame /\ k * perFrame \in Nat
      BY <1>1, <1>3, <3>4
    <3>. QED
      BY <1>1, <1>2, <3>3, <3>5
  <2>. QED
    BY <2>1, <2>2
<1>. HIDE DEF m
<1>. QED
  BY <1>3, <1>4, <1>5, <1>6

LEMMA SaysTyped ==
    ASSUME SessionTyped, NEW m \in Seq(Messages), Says(m)
    PROVE  up' \in Seq(Messages)
BY Joined DEF SessionTyped, Says

\* The messages of each slot of the test client.
LEMMA Vocabulary ==
    /\ <<>> \in Seq(Messages)
    /\ <<"channels", "samples", "audio_start">> \in Seq(Messages)
    /\ <<"tx_audio_start">> \in Seq(Messages)
    /\ <<"audio_stop">> \in Seq(Messages)
    /\ <<"tx_audio_stop">> \in Seq(Messages)
    /\ <<"frame">> \in Seq(Messages)
    /\ <<"bye">> \in Seq(Messages)
BY SMT DEF Messages

\* What the test client says when it hears "ready", and a frame.
ReadySaid == <<"channels", "samples", "audio_start">>
               \o IF Tone THEN <<"tx_audio_start">> ELSE <<>>

Enough == FrameLimit > 0 /\ rxFrames + 1 >= FrameLimit

FrameSaid ==
    IF ~Enough THEN <<>>
    ELSE <<"audio_stop">> \o IF Tone THEN <<"tx_audio_stop">> ELSE <<>>

LEMMA SaidTyped == ReadySaid \in Seq(Messages) /\ FrameSaid \in Seq(Messages)
<1>1. (IF Tone THEN <<"tx_audio_start">> ELSE <<>>) \in Seq(Messages)
  BY Vocabulary
<1>2. (IF Tone THEN <<"tx_audio_stop">> ELSE <<>>) \in Seq(Messages)
  BY Vocabulary
<1>3. ReadySaid \in Seq(Messages)
  BY <1>1, Vocabulary, ConcatSeq DEF ReadySaid
<1>4. FrameSaid \in Seq(Messages)
  BY <1>2, Vocabulary, ConcatSeq DEF FrameSaid
<1>. QED
  BY <1>3, <1>4

LEMMA AttributeTyped == ASSUME Attribute PROVE keyedByTone' \in BOOLEAN
BY DEF Attribute

LEMMA HearTyped ==
    ASSUME SessionTyped, Hear
    PROVE  /\ down' \in Seq(Nat) /\ up' \in Seq(Messages)
           /\ phase' = phase
           /\ rxFrames' \in 0 .. FrameLimit
           /\ tone' \in BOOLEAN /\ leaving' \in BOOLEAN
<1>1. down' \in Seq(Nat)
  BY Dropped DEF Hear, SessionTyped
<1>2. /\ FrameLimit \in Nat /\ Tone \in BOOLEAN
      /\ rxFrames \in 0 .. FrameLimit
  BY SessionAssumption DEF SessionTyped
<1>3. CASE OnReady
  <2>1. Says(ReadySaid)
    BY <1>3 DEF OnReady, ReadySaid
  <2>. QED
    BY <1>1, <1>2, <1>3, <2>1, SaysTyped, SaidTyped DEF OnReady, SessionTyped
<1>4. CASE OnRxFrame
  <2>1. Says(FrameSaid)
    BY <1>4 DEF OnRxFrame, FrameSaid, Enough
  <2>2. rxFrames' \in 0 .. FrameLimit
    BY <1>2, <1>4 DEF OnRxFrame
  <2>3. tone' \in BOOLEAN /\ leaving' \in BOOLEAN /\ phase' = phase
    BY <1>4 DEF OnRxFrame
  <2>. QED
    BY <1>1, <2>1, <2>2, <2>3, SaysTyped, SaidTyped
<1>5. CASE UNCHANGED <<harnessVars, up>>
  BY <1>1, <1>5 DEF harnessVars, SessionTyped
<1>. QED
  BY <1>3, <1>4, <1>5 DEF Hear

\* Only a connected test client is subscribed: nothing is read from it when
\* it has gone.
LEMMA ReadTyped ==
    ASSUME SessionTyped, Orderly, Read
    PROVE  /\ up' \in Seq(Messages)
           /\ audioClients' \subseteq clients'
           /\ perFrame' \in {perFrame, Preferred}
           /\ channels' \in {channels, 1} /\ acc' = acc
<1>1. up' \in Seq(Messages)
  BY Dropped DEF Read, SessionTyped
<1>2. Harness \in clients /\ audioClients \subseteq clients
  BY DEF Read, Orderly, SessionTyped
<1>3. ASSUME NEW m, ReadsRx(m)
      PROVE  /\ audioClients' \subseteq clients'
             /\ perFrame' \in {perFrame, Preferred}
             /\ channels' \in {channels, 1} /\ acc' = acc
  <2>1. clients' = clients
    BY <1>3 DEF ReadsRx, vars
  <2>. QED
    BY <1>2, <1>3, <2>1
       DEF ReadsRx, AudioStreamSamples, AudioStreamChannels, AudioStart,
           AudioStop
<1>4. ASSUME NEW m, ReadsTx(m)
      PROVE  UNCHANGED <<clients, audioClients, perFrame, channels, acc>>
  BY <1>4
     DEF ReadsTx, rxVars, vars, TxAudioStart, TxAudioStop, TxAudioFrame
<1>5. ASSUME NEW m, ReadsBye(m)
      PROVE  /\ audioClients' \subseteq clients'
             /\ UNCHANGED <<perFrame, channels, acc>>
  BY <1>2, <1>5 DEF ReadsBye, OnSocketDisconnected
<1>. QED
  BY <1>1, <1>2, <1>3, <1>4, <1>5 DEF Read

LEMMA OtherTyped ==
    ASSUME SessionTyped, NEW c \in Clients, OtherClient(c)
    PROVE  /\ audioClients' \subseteq clients'
           /\ perFrame' \in Sizes \union {perFrame}
           /\ channels' \in {1, 2} /\ acc' = acc
<1>1. audioClients \subseteq clients /\ channels \in {1, 2}
  BY DEF SessionTyped
<1>2. CASE audioClients' = audioClients \cap clients'
           /\ UNCHANGED <<perFrame, channels, acc>>
  BY <1>1, <1>2
<1>3. CASE /\ c \in clients
           /\ \/ AudioStart(c)
              \/ AudioStop(c)
              \/ \E n \in Sizes : AudioStreamSamples(n)
              \/ \E n \in {1, 2} : AudioStreamChannels(n)
           /\ UNCHANGED vars
  <2>1. clients' = clients
    BY <1>3 DEF vars
  <2>. QED
    BY <1>1, <1>3, <2>1
       DEF AudioStart, AudioStop, AudioStreamSamples, AudioStreamChannels
<1>. QED
  BY <1>2, <1>3 DEF OtherClient

LEMMA TypedKept ==
    ASSUME SessionTyped, Orderly, [SessionNext]_sessionVars
    PROVE  SessionTyped'
<1>1. TypeOK'
  BY SessionIsSlot, SlotTypes DEF SessionTyped
<1>2. CASE Connect
  <2>1. /\ clients' = clients \union {Harness} /\ down' = <<Ready>>
        /\ UNCHANGED <<rxVars, rxFrames, tone, leaving, up, lost>>
        /\ phase' = "open" /\ keyedByTone' \in BOOLEAN
    BY <1>2, AttributeTyped DEF Connect, OnNewConnection
  <2>2. <<Ready>> \in Seq(Nat)
    BY SMT DEF Ready
  <2>. QED
    BY <1>1, <2>1, <2>2 DEF SessionTyped, rxVars
<1>3. CASE Hear
  BY <1>1, <1>3, HearTyped DEF Hear, vars, rxVars, SessionTyped
<1>4. CASE Leave \/ Quit
  <2>1. /\ up' \in Seq(Messages) /\ phase' \in {"closing", "gone"}
        /\ tone' \in BOOLEAN
    BY <1>4, SaysTyped, Vocabulary DEF Leave, Quit, SessionTyped
  <2>. QED
    BY <1>1, <1>4, <2>1 DEF Leave, Quit, vars, rxVars, SessionTyped
<1>5. CASE TxTimer
  <2>1. up' \in Seq(Messages)
    BY <1>5, SaysTyped, Vocabulary DEF TxTimer
  <2>. QED
    BY <1>1, <1>5, <2>1 DEF TxTimer, vars, rxVars, harnessVars, SessionTyped
<1>6. CASE Read
  <2>1. keyedByTone' \in BOOLEAN
    BY <1>6, AttributeTyped DEF Read
  <2>. QED
    BY <1>1, <1>6, <2>1, ReadTyped DEF Read, harnessVars, SessionTyped
<1>7. CASE SendRxAudio
  <2>1. PICK n \in 1 .. MaxCapture : Framed(n)
    BY <1>7 DEF SendRxAudio
  <2>2. acc' \in Nat /\ channels' \in {1, 2}
    BY <2>1, FramedFacts
  <2>3. down' \in Seq(Nat)
    <3>1. down \in Seq(Nat)
      BY DEF SessionTyped
    <3>2. down' = down \/ \E m \in Seq(Nat) : down' = down \o m
      BY <2>1, FramedFacts
    <3>. QED
      BY <3>1, <3>2, ConcatSeq
  <2>. QED
    BY <1>1, <1>7, <2>2, <2>3
       DEF SendRxAudio, vars, harnessVars, SessionTyped
<1>8. CASE Watchdog
  <2>1. clients' = clients
    BY <1>8 DEF Watchdog, TimerStep, Tick, OnTxWatchdogExpired
  <2>2. keyedByTone' \in BOOLEAN
    BY <1>8, AttributeTyped DEF Watchdog
  <2>. QED
    BY <1>1, <1>8, <2>1, <2>2 DEF Watchdog, rxVars, harnessVars, SessionTyped
<1>9. ASSUME NEW c \in Clients, OtherClient(c)
      PROVE  SessionTyped'
  <2>1. keyedByTone' \in BOOLEAN
    BY <1>9, AttributeTyped DEF OtherClient
  <2>. QED
    BY <1>1, <1>9, <2>1, OtherTyped DEF OtherClient, harnessVars, SessionTyped
<1>10. CASE ConnectionLost
  <2>1. /\ clients' = clients \ {Harness} /\ keyedByTone' \in BOOLEAN
        /\ audioClients' = audioClients \ {Harness}
        /\ up' = <<>> /\ lost' = TRUE
        /\ UNCHANGED <<perFrame, channels, acc, harnessVars, down>>
    BY <1>10, AttributeTyped DEF ConnectionLost, OnSocketDisconnected
  <2>. QED
    BY <1>1, <2>1, Vocabulary DEF harnessVars, SessionTyped
<1>11. CASE UNCHANGED sessionVars
  BY <1>1, <1>11 DEF sessionVars, vars, rxVars, harnessVars, SessionTyped
<1>. QED
  BY <1>2, <1>3, <1>4, <1>5, <1>6, <1>7, <1>8, <1>9, <1>10, <1>11
     DEF SessionNext

-----------------------------------------------------------------------------
(* The order of the messages.                                              *)

\* A step in which the test client says m, nothing of it being "bye".
LEMMA SaysOrderly ==
    ASSUME SessionTyped, Orderly, NEW m \in Seq(Messages), Says(m),
           ~Occurs(m, "bye")
    PROVE  /\ \A n \in DOMAIN up' : up'[n] # "bye"
           /\ Harness \notin clients => up' = <<>>
<1>1. /\ up \in Seq(Messages) /\ phase = "open"
      /\ up' = up \o m \/ up' = up
  BY DEF SessionTyped, Says
<1>2. \A n \in DOMAIN up : up[n] # "bye"
  BY <1>1 DEF Orderly
<1>3. \A n \in DOMAIN m : m[n] # "bye"
  BY DEF Occurs
<1>4. Harness \notin clients => up' = <<>>
  BY DEF Orderly, Says
<1>5. CASE up' = up
  BY <1>2, <1>4, <1>5
<1>6. CASE up' = up \o m
  <2>1. ASSUME NEW n \in DOMAIN (up \o m)
        PROVE  (up \o m)[n] # "bye"
    <3>1. CASE n \in DOMAIN up
      BY <1>1, <1>2, <3>1, Joined
    <3>2. CASE n \notin DOMAIN up
      <4>1. PICK k \in DOMAIN m : n = k + Len(up)
        BY <1>1, <3>2, Joined
      <4>. QED
        BY <1>1, <1>3, <4>1, Joined
    <3>. QED
      BY <3>1, <3>2
  <2>. QED
    BY <1>4, <1>6, <2>1
<1>. QED
  BY <1>1, <1>5, <1>6

LEMMA NoBye ==
    ~Occurs(ReadySaid, "bye") /\ ~Occurs(FrameSaid, "bye")
    /\ ~Occurs(<<"frame">>, "bye")
BY SMT DEF ReadySaid, FrameSaid, Occurs

\* "ready" is the first thing heard: after anything is heard, none is left.
LEMMA HeardReady ==
    ASSUME SessionTyped, Orderly, down # <<>>, down' = Tail(down)
    PROVE  /\ \A n \in DOMAIN down' : down'[n] # Ready
           /\ Head(down) = Ready => ~leaving
<1>1. /\ \A n \in DOMAIN down' : n \in Nat /\ n + 1 \in DOMAIN down
                                 /\ down'[n] = down[n + 1]
      /\ 1 \in DOMAIN down /\ down[1] = Head(down)
  BY Dropped DEF SessionTyped
<1>2. ASSUME NEW n \in DOMAIN down', down'[n] = Ready
      PROVE  FALSE
  <2>1. n + 1 = 1 /\ n \in Nat
    BY <1>1, <1>2 DEF Orderly
  <2>2. n = 0
    BY <2>1
  <2>3. n \in 1 .. Len(Tail(down))
    BY Dropped, <1>2 DEF SessionTyped
  <2>. QED
    BY <2>2, <2>3
<1>. QED
  BY <1>1, <1>2 DEF Orderly

LEMMA ReadClients ==
    ASSUME Read
    PROVE  \/ clients' = clients
           \/ Head(up) = "bye" /\ clients' = clients \ {Harness}
BY DEF Read, ReadsRx, ReadsTx, ReadsBye, vars, TxAudioStart, TxAudioStop,
       TxAudioFrame, OnSocketDisconnected

LEMMA ReadOrderly ==
    ASSUME SessionTyped, Orderly, Read
    PROVE  Orderly'
<1>1. /\ up \in Seq(Messages) /\ up # <<>> /\ up' = Tail(up)
      /\ UNCHANGED <<phase, tone, leaving, down>>
  BY DEF SessionTyped, Read, harnessVars
<1>2. /\ \A n \in DOMAIN up' : n \in Nat /\ n + 1 \in DOMAIN up
                               /\ up'[n] = up[n + 1]
      /\ Len(up') = Len(up) - 1 /\ Len(up) \in Nat
      /\ 1 \in DOMAIN up /\ up[1] = Head(up)
      /\ 1 = Len(up) => up' = <<>>
  BY <1>1, Dropped
<1>3. ASSUME NEW n \in DOMAIN up', up'[n] = "bye"
      PROVE  n = Len(up') /\ phase # "open" /\ leaving
  <2>1. n + 1 = Len(up) /\ phase # "open" /\ leaving /\ n \in Nat
    BY <1>2, <1>3 DEF Orderly
  <2>. QED
    BY <1>2, <2>1
<1>4. Harness \in clients
  BY <1>1 DEF Orderly
<1>5. ASSUME Harness \notin clients'
      PROVE  up' = <<>> /\ phase # "open"
  <2>1. Head(up) = "bye"
    BY <1>4, <1>5, ReadClients
  <2>. QED
    BY <1>2, <2>1 DEF Orderly
<1>6. phase # "off"
  BY <1>4 DEF Orderly
<1>. QED
  BY <1>1, <1>3, <1>5, <1>6 DEF Orderly

LEMMA HearOrderly ==
    ASSUME SessionTyped, Orderly, Hear
    PROVE  Orderly'
<1>1. /\ down # <<>> /\ down' = Tail(down) /\ clients' = clients
      /\ lost' = lost
  BY DEF Hear, vars
<1>2. \A n \in DOMAIN down' : down'[n] # Ready
  BY <1>1, HeardReady
<1>3. CASE Head(down) = Ready /\ OnReady
  <2>1. Says(ReadySaid) /\ tone' = Tone /\ UNCHANGED <<phase, leaving>>
    BY <1>3 DEF OnReady, ReadySaid
  <2>2. /\ \A n \in DOMAIN up' : up'[n] # "bye"
        /\ Harness \notin clients => up' = <<>>
    BY <2>1, SaysOrderly, SaidTyped, NoBye
  <2>3. phase = "open" /\ ~leaving
    BY <1>1, <1>3, <2>1, HeardReady DEF Says
  <2>. QED
    BY <1>1, <1>2, <2>1, <2>2, <2>3 DEF Orderly
<1>4. CASE OnRxFrame
  <2>1. /\ Says(FrameSaid) /\ phase' = phase
        /\ tone' = (tone /\ ~Enough) /\ leaving' = (leaving \/ Enough)
    BY <1>4 DEF OnRxFrame, FrameSaid, Enough
  <2>2. /\ \A n \in DOMAIN up' : up'[n] # "bye"
        /\ Harness \notin clients => up' = <<>>
    BY <2>1, SaysOrderly, SaidTyped, NoBye
  <2>3. phase = "open"
    BY <2>1 DEF Says
  <2>. QED
    BY <1>1, <1>2, <2>1, <2>2, <2>3 DEF Orderly
<1>5. CASE UNCHANGED <<harnessVars, up>>
  BY <1>1, <1>2, <1>5 DEF Orderly, harnessVars
<1>. QED
  BY <1>3, <1>4, <1>5 DEF Hear

LEMMA LeaveOrderly ==
    ASSUME SessionTyped, Orderly, Leave
    PROVE  Orderly'
<1>1. /\ up \in Seq(Messages) /\ phase = "open"
      /\ leaving /\ phase' = "closing"
      /\ UNCHANGED <<clients, tone, leaving, down, lost>>
      /\ up' = IF Harness \in clients THEN up \o <<"bye">> ELSE up
  BY DEF Leave, Says, vars, SessionTyped
<1>2. \A n \in DOMAIN up : up[n] # "bye"
  BY <1>1 DEF Orderly
<1>3. \A n \in DOMAIN up' : up'[n] = "bye" => n = Len(up')
  <2>1. CASE up' = up
    BY <1>2, <2>1
  <2>2. CASE up' = up \o <<"bye">>
    <3>1. \A n \in DOMAIN up' : n \notin DOMAIN up => n = Len(up')
      BY <1>1, <2>2, SMT
    <3>2. \A n \in DOMAIN up' : n \in DOMAIN up => up'[n] = up[n]
      BY <1>1, <2>2, Vocabulary, Joined
    <3>. QED
      BY <1>2, <3>1, <3>2
  <2>. QED
    BY <1>1, <2>1, <2>2
<1>. QED
  BY <1>1, <1>3 DEF Orderly

LEMMA OrderlyKept ==
    ASSUME SessionTyped, Orderly, [SessionNext]_sessionVars
    PROVE  Orderly'
<1>1. CASE /\ Harness \in clients' <=> Harness \in clients
           /\ UNCHANGED <<phase, tone, leaving, up, down, lost>>
  BY <1>1 DEF Orderly
<1>2. CASE Connect
  <2>1. /\ clients' = clients \union {Harness} /\ down' = <<Ready>>
        /\ phase = "off" /\ phase' = "open"
        /\ UNCHANGED <<tone, leaving, up>>
    BY <1>2 DEF Connect, OnNewConnection
  <2>2. up = <<>> /\ ~leaving
    BY <2>1 DEF Orderly
  <2>3. \A n \in DOMAIN down' : n = 1
    BY <2>1, SMT
  <2>4. DOMAIN up' = {}
    BY <2>1, <2>2, SMT
  <2>. QED
    BY <2>1, <2>2, <2>3, <2>4 DEF Orderly
<1>3. CASE TxTimer
  <2>1. /\ Says(<<"frame">>)
        /\ UNCHANGED <<clients, phase, tone, leaving, down, lost>>
    BY <1>3 DEF TxTimer, vars, harnessVars
  <2>2. /\ \A n \in DOMAIN up' : up'[n] # "bye"
        /\ Harness \notin clients => up' = <<>>
    BY <2>1, SaysOrderly, Vocabulary, NoBye
  <2>3. phase = "open"
    BY <2>1 DEF Says
  <2>. QED
    BY <2>1, <2>2, <2>3 DEF Orderly
<1>4. CASE Quit
  <2>1. /\ phase \in {"open", "closing"} /\ phase' = "gone" /\ ~tone'
        /\ UNCHANGED <<clients, leaving, up, down, lost>>
    BY <1>4 DEF Quit, vars
  <2>. QED
    BY <2>1 DEF Orderly
<1>5. CASE SendRxAudio
  <2>1. UNCHANGED <<clients, phase, tone, leaving, up, lost>>
    BY <1>5 DEF SendRxAudio, vars, harnessVars
  <2>2. PICK n \in 1 .. MaxCapture : Framed(n)
    BY <1>5 DEF SendRxAudio
  <2>3. CASE down' = down
    BY <1>1, <2>1, <2>3
  <2>4. ASSUME NEW m \in Seq(Nat), down' = down \o m,
               \A k \in DOMAIN m : m[k] # Ready
        PROVE  Orderly'
    <3>1. \A k \in DOMAIN down' : down'[k] = Ready =>
            k \in DOMAIN down /\ down[k] = Ready
      BY <2>4, Joined DEF SessionTyped
    <3>. QED
      BY <2>1, <3>1 DEF Orderly
  <2>. QED
    BY <2>2, <2>3, <2>4, FramedFacts
<1>6. CASE Watchdog
  BY <1>1, <1>6
     DEF Watchdog, TimerStep, Tick, OnTxWatchdogExpired, harnessVars
<1>7. ASSUME NEW c \in Clients \ {Harness}, OtherClient(c)
      PROVE  Orderly'
  <2>1. clients' \in {clients \union {c}, clients, clients \ {c}}
    BY <1>7, OwnerSteps DEF OtherClient, vars
  <2>. QED
    BY <1>1, <1>7, <2>1 DEF OtherClient, harnessVars
<1>8. CASE ConnectionLost
  <2>1. /\ up' = <<>> /\ lost' /\ phase # "off"
        /\ UNCHANGED <<phase, tone, leaving, down>>
    BY <1>8 DEF ConnectionLost, harnessVars, Orderly
  <2>2. DOMAIN up' = {}
    BY <2>1, SMT
  <2>. QED
    BY <2>1, <2>2 DEF Orderly
<1>9. CASE UNCHANGED sessionVars
  BY <1>1, <1>9 DEF sessionVars, vars, harnessVars
<1>. QED
  BY <1>2, <1>3, <1>4, <1>5, <1>6, <1>7, <1>8, <1>9, HearOrderly,
     LeaveOrderly, ReadOrderly DEF SessionNext

-----------------------------------------------------------------------------
(* The tone.                                                               *)

\* A step that does not make the test client the owner does not make the
\* transmission the tone's.
LEMMA AttributeFacts ==
    ASSUME SessionTyped', OwnerOnAir', ToneInv, Attribute, config' = config,
           txOwner' = Harness => txOwner = Harness \/ config.keysPtt,
           asked' /\ txOwner' = NoClient
             => Excused' \/ (txOwner = NoClient /\ (Excused => Excused'))
    PROVE  /\ txOwner' = Harness => keyedByTone'
           /\ keyedByTone' => config'.keysPtt /\ asked'
           /\ keyedByTone' /\ txOwner' # Harness => Excused'
           /\ (txOwner' = Harness => txOwner = Harness)
                => (keyedByTone' => keyedByTone)
           /\ Harness \notin clients' => (keyedByTone' => keyedByTone)
<1>1. NoClient # Harness
  BY SessionAssumption, ServerAssumption
<1>2. Harness \notin clients' => txOwner' # Harness
  BY <1>1 DEF SessionTyped, TypeOK
<1>3. keyedByTone' <=> /\ asked'
                       /\ \/ txOwner' = Harness
                          \/ keyedByTone /\ txOwner' = NoClient
  BY DEF Attribute
<1>4. txOwner' = Harness => asked'
  BY <1>1 DEF OwnerOnAir
<1>5. keyedByTone' /\ txOwner' # Harness => Excused'
  BY <1>1, <1>3 DEF ToneInv
<1>. QED
  BY <1>2, <1>3, <1>4, <1>5 DEF ToneInv

\* A step of somebody else, at most.
LEMMA ToneQuiet ==
    ASSUME SessionTyped', OwnerOnAir', ToneInv, Attribute,
           UNCHANGED <<config, tone, up, phase, leaving>>,
           lost' \in {lost, TRUE},
           txOwner' = Harness => txOwner = Harness,
           asked' /\ txOwner' = NoClient
             => Excused' \/ (txOwner = NoClient /\ (Excused => Excused')),
           Harness \notin clients' => Harness \notin clients \/ lost'
    PROVE  ToneInv'
<1>1. /\ txOwner' = Harness => keyedByTone'
      /\ keyedByTone' => config'.keysPtt /\ asked'
      /\ keyedByTone' /\ txOwner' # Harness => Excused'
      /\ keyedByTone' => keyedByTone
  BY AttributeFacts
<1>2. Unfinished => Unfinished'
  BY DEF Unfinished
<1>3. /\ Unfinished \/ (keyedByTone => Occurs(up, "tx_audio_stop"))
      /\ Unfinished \/ Covered(up)
      /\ Harness \notin clients /\ keyedByTone => lost
  BY DEF ToneInv
<1>4. Unfinished' \/ (keyedByTone' => Occurs(up', "tx_audio_stop"))
  BY <1>1, <1>2, <1>3
<1>5. Unfinished' \/ Covered(up')
  BY <1>2, <1>3
<1>6. Harness \notin clients' /\ keyedByTone' => lost'
  BY <1>1, <1>3
<1>. QED
  BY <1>1, <1>4, <1>5, <1>6 DEF ToneInv

\* A step of the test client that leaves the server alone.
LEMMA ToneSaid ==
    ASSUME SessionTyped, Orderly, ToneInv, NEW m \in Seq(Messages), Says(m),
           UNCHANGED <<txOwner, asked, pendingUnkey, config, clients, lost,
                       keyedByTone>>,
           \/ tone'
           \/ /\ \A n \in DOMAIN m : m[n] \notin Keys
              /\ Unfinished => lost \/ Occurs(m, "tx_audio_stop")
    PROVE  ToneInv'
<1>1. /\ txOwner' = Harness => keyedByTone'
      /\ keyedByTone' => config'.keysPtt /\ asked'
      /\ keyedByTone' /\ txOwner' # Harness => Excused'
      /\ Harness \notin clients' /\ keyedByTone' => lost'
  BY DEF ToneInv, Excused
<1>2. CASE tone' \/ lost
  BY <1>1, <1>2 DEF ToneInv, Unfinished
<1>3. CASE /\ ~lost
           /\ \A n \in DOMAIN m : m[n] \notin Keys
           /\ Unfinished => Occurs(m, "tx_audio_stop")
  <2>1. up' = up \o m
    BY <1>3 DEF Says, Orderly
  <2>2. /\ up \in Seq(Messages)
        /\ \A n \in DOMAIN up : n \in DOMAIN up' /\ up'[n] = up[n]
        /\ \A n \in DOMAIN m : n + Len(up) \in DOMAIN up'
                               /\ up'[n + Len(up)] = m[n]
    BY <2>1, Joined DEF SessionTyped
  <2>3. Occurs(up, "tx_audio_stop") \/ Occurs(m, "tx_audio_stop")
          => Occurs(up', "tx_audio_stop")
    BY <2>2 DEF Occurs
  <2>4. Covered(m)
    BY <1>3 DEF Covered
  <2>5. Covered(up')
    BY <1>3, <2>1, <2>2, <2>4, CoveredJoined DEF ToneInv
  <2>6. keyedByTone' => Occurs(up', "tx_audio_stop")
    BY <1>3, <2>3 DEF ToneInv
  <2>. QED
    BY <1>1, <2>5, <2>6 DEF ToneInv
<1>. QED
  BY <1>2, <1>3

LEMMA ToneHear ==
    ASSUME SessionTyped, Orderly, ToneInv, Hear
    PROVE  ToneInv'
<1>1. UNCHANGED <<txOwner, asked, pendingUnkey, config, clients, lost,
                  keyedByTone>>
  BY DEF Hear, vars, radioVars
<1>2. CASE OnReady
  <2>1. Says(ReadySaid) /\ tone' = Tone
    BY <1>2 DEF OnReady, ReadySaid
  <2>2. CASE Tone
    BY <1>1, <2>1, <2>2, SaidTyped, ToneSaid
  <2>3. CASE ~Tone
    <3>1. Unfinished => lost
      BY <2>1, <2>3 DEF Orderly, Unfinished, Says
    <3>2. \A n \in DOMAIN ReadySaid : ReadySaid[n] \notin Keys
      BY <2>3, SMT DEF ReadySaid, Keys
    <3>. QED
      BY <1>1, <2>1, <3>1, <3>2, SaidTyped, ToneSaid
  <2>. QED
    BY <2>2, <2>3
<1>3. CASE OnRxFrame
  <2>1. Says(FrameSaid) /\ tone' = (tone /\ ~Enough)
    BY <1>3 DEF OnRxFrame, FrameSaid, Enough
  <2>2. \A n \in DOMAIN FrameSaid : FrameSaid[n] \notin Keys
    BY SMT DEF FrameSaid, Keys
  <2>3. Enough /\ Tone => Occurs(FrameSaid, "tx_audio_stop")
    <3> SUFFICES ASSUME Enough, Tone
                 PROVE  Occurs(FrameSaid, "tx_audio_stop")
      OBVIOUS
    <3>1. 2 \in DOMAIN FrameSaid /\ FrameSaid[2] = "tx_audio_stop"
      BY SMT DEF FrameSaid
    <3>. QED
      BY <3>1 DEF Occurs
  <2>4. tone' \/ (Unfinished => lost \/ Occurs(FrameSaid, "tx_audio_stop"))
    BY <2>1, <2>3 DEF Orderly, Unfinished, Says
  <2>. QED
    BY <1>1, <2>1, <2>2, <2>4, SaidTyped, ToneSaid
<1>4. CASE UNCHANGED <<harnessVars, up>>
  BY <1>1, <1>4 DEF ToneInv, Unfinished, Excused, harnessVars
<1>. QED
  BY <1>2, <1>3, <1>4 DEF Hear

\* Nobody's tone is left when the server reads the test client's "bye".
LEMMA ByeQuiet ==
    ASSUME SessionTyped, Orderly, ToneInv, up # <<>>, Head(up) = "bye", ~lost
    PROVE  ~keyedByTone
<1>1. 1 \in DOMAIN up /\ up[1] = "bye" /\ DOMAIN up = 1 .. Len(up)
  BY Dropped DEF SessionTyped
<1>2. 1 = Len(up) /\ leaving
  BY <1>1 DEF Orderly
<1>3. ~Unfinished
  BY <1>2 DEF Orderly, Unfinished
<1>4. ~Occurs(up, "tx_audio_stop")
  <2>1. \A n \in DOMAIN up : n = 1
    <3>1. DOMAIN up = 1 .. 1
      BY <1>1, <1>2
    <3>2. \A n \in 1 .. 1 : n = 1
      BY SMT
    <3>. QED
      BY <3>1, <3>2
  <2>. QED
    BY <1>1, <2>1 DEF Occurs
<1>. QED
  BY <1>3, <1>4 DEF ToneInv

\* To the server, what it reads is an event of the test client or nothing.
LEMMA ReadAbandons ==
    ASSUME Read, asked', txOwner' = NoClient
    PROVE  Excused' \/ (txOwner = NoClient /\ (Excused => Excused'))
<1>1. Harness \in Clients /\ config' = config
  BY SessionAssumption DEF Read
<1>2. UNCHANGED vars \/ ClientEvent(Harness)
  BY DEF Read, ReadsRx, ReadsTx, ReadsBye, ClientEvent
<1>3. CASE UNCHANGED vars
  BY <1>3 DEF vars, Excused
<1>. QED
  BY <1>1, <1>2, <1>3, Abandoned

LEMMA ToneRead ==
    ASSUME SessionTyped, SessionTyped', OwnerOnAir', Orderly, ToneInv, Read
    PROVE  ToneInv'
<1>1. /\ up \in Seq(Messages) /\ up # <<>> /\ up' = Tail(up)
      /\ Attribute /\ UNCHANGED <<config, tone, phase, leaving, lost>>
  BY DEF SessionTyped, Read, harnessVars
<1>. DEFINE m == Head(up)
<1>2. \/ m # "tx_audio_stop" /\ txOwner' = txOwner
      \/ /\ m \in Keys
         /\ TxAudioStart(Harness) \/ TxAudioFrame(Harness)
      \/ m = "tx_audio_stop" /\ TxAudioStop(Harness)
      \/ m = "bye" /\ txOwner' \in {txOwner, NoClient}
  BY StopFacts
     DEF Read, ReadsRx, ReadsTx, ReadsBye, vars, Keys, OnSocketDisconnected,
         Released
<1>3. txOwner' = Harness => txOwner = Harness \/ config.keysPtt
  <2>1. NoClient # Harness
    BY SessionAssumption, ServerAssumption
  <2>. QED
    BY <1>2, <2>1, AudioKeys, AudioUnkeys
<1>4. /\ txOwner' = Harness => keyedByTone'
      /\ keyedByTone' => config'.keysPtt /\ asked'
      /\ keyedByTone' /\ txOwner' # Harness => Excused'
      /\ (txOwner' = Harness => txOwner = Harness)
           => (keyedByTone' => keyedByTone)
      /\ Harness \notin clients' => (keyedByTone' => keyedByTone)
  BY <1>1, <1>3, AttributeFacts, ReadAbandons
<1>5. keyedByTone' => m \in Keys \/ (keyedByTone /\ m # "tx_audio_stop")
  <2>1. NoClient # Harness
    BY SessionAssumption, ServerAssumption
  <2>2. CASE m = "tx_audio_stop" /\ TxAudioStop(Harness)
    BY <1>1, <1>4, <2>2, AudioUnkeys
  <2>3. CASE m # "tx_audio_stop" /\ txOwner' \in {txOwner, NoClient}
    BY <1>4, <2>1, <2>3
  <2>. QED
    BY <1>2, <2>2, <2>3
<1>6. Harness \notin clients' /\ keyedByTone' => lost'
  BY <1>1, <1>4, ByeQuiet, ReadClients DEF ToneInv
<1>. HIDE DEF m
<1>7. ASSUME ~Unfinished
      PROVE  /\ Covered(up')
             /\ keyedByTone' => Occurs(up', "tx_audio_stop")
  <2>1. /\ Covered(up')
        /\ m \in Keys => Occurs(up', "tx_audio_stop")
    BY <1>1, <1>7, CoveredDropped DEF ToneInv, m
  <2>2. ASSUME keyedByTone, m # "tx_audio_stop"
        PROVE  Occurs(up', "tx_audio_stop")
    <3>1. PICK n \in DOMAIN up : up[n] = "tx_audio_stop"
      BY <1>7, <2>2 DEF ToneInv, Occurs
    <3>2. n # 1
      BY <1>1, <2>2, <3>1, Dropped DEF m
    <3>3. n - 1 \in DOMAIN up' /\ up'[n - 1] = "tx_audio_stop"
      BY <1>1, <3>1, <3>2, Dropped
    <3>. QED
      BY <3>3 DEF Occurs
  <2>. QED
    BY <1>5, <2>1, <2>2
<1>8. Unfinished' <=> Unfinished
  BY <1>1 DEF Unfinished
<1>. QED
  BY <1>4, <1>6, <1>7, <1>8 DEF ToneInv

LEMMA ToneKept ==
    ASSUME SessionTyped, Safety, Orderly, ToneInv,
           [SessionNext]_sessionVars
    PROVE  ToneInv'
<1>0. SessionTyped' /\ OwnerOnAir' /\ NoClient # Harness
  BY SessionIsSlot, SlotSafe, TypedKept, SessionAssumption, ServerAssumption
     DEF SessionTyped, Safety
<1>1. CASE Connect
  <2>1. /\ Harness \in clients' /\ ~tone /\ ~leaving /\ phase = "off"
        /\ UNCHANGED <<txOwner, asked, pendingUnkey, config, tone, leaving, up,
                       lost>>
        /\ phase' = "open" /\ Attribute
    BY <1>1
       DEF Connect, OnNewConnection, radioVars, Orderly, SessionTyped, TypeOK
  <2>2. /\ Unfinished' <=> lost
        /\ Unfinished <=> lost
        /\ Excused' <=> Excused
    BY <2>1 DEF Unfinished, Excused
  <2>3. /\ keyedByTone' => keyedByTone
        /\ txOwner' = Harness => keyedByTone'
        /\ keyedByTone' => config'.keysPtt /\ asked'
        /\ keyedByTone' /\ txOwner' # Harness => Excused'
    BY <1>0, <2>1, <2>2, AttributeFacts DEF ToneInv
  <2>. QED
    BY <2>1, <2>2, <2>3 DEF ToneInv
<1>2. CASE TxTimer
  <2>1. /\ tone' /\ Says(<<"frame">>)
        /\ UNCHANGED <<txOwner, asked, pendingUnkey, config, clients, lost,
                       keyedByTone>>
    BY <1>2 DEF TxTimer, vars, radioVars, harnessVars
  <2>. QED
    BY <2>1, ToneSaid, Vocabulary
<1>3. CASE Leave
  <2>1. /\ Says(<<"bye">>) /\ (Unfinished => lost)
        /\ UNCHANGED <<txOwner, asked, pendingUnkey, config, clients, lost,
                       keyedByTone>>
    BY <1>3 DEF Leave, vars, radioVars, Orderly, Unfinished
  <2>2. \A n \in DOMAIN <<"bye">> : <<"bye">>[n] \notin Keys
    BY SMT DEF Keys
  <2>. QED
    BY <2>1, <2>2, ToneSaid, Vocabulary
<1>4. CASE Quit
  <2>1. /\ UNCHANGED <<txOwner, asked, pendingUnkey, config, clients, lost,
                       keyedByTone, up, leaving>>
        /\ phase \in {"open", "closing"} /\ phase' = "gone"
    BY <1>4 DEF Quit, vars, radioVars
  <2>2. Unfinished => Unfinished'
    BY <2>1 DEF Unfinished, Orderly
  <2>. QED
    BY <2>1, <2>2 DEF ToneInv, Excused
<1>5. CASE SendRxAudio \/ UNCHANGED sessionVars
  <2>1. UNCHANGED <<txOwner, asked, pendingUnkey, config, clients, lost,
                    keyedByTone, tone, phase, leaving, up>>
    BY <1>5 DEF SendRxAudio, sessionVars, vars, radioVars, harnessVars
  <2>. QED
    BY <2>1 DEF ToneInv, Unfinished, Excused
<1>6. CASE Watchdog
  <2>1. txOwner' \in {txOwner, NoClient} /\ clients' = clients
    BY <1>6, StopFacts DEF Watchdog, TimerStep, Tick, OnTxWatchdogExpired
  <2>2. /\ TimerStep /\ Attribute
        /\ UNCHANGED <<config, tone, up, phase, leaving, lost>>
    BY <1>6 DEF Watchdog, TimerStep, harnessVars
  <2>. QED
    BY <1>0, <2>1, <2>2, ToneQuiet, ExpiryAbandons
<1>7. ASSUME NEW c \in Clients \ {Harness}, OtherClient(c)
      PROVE  ToneInv'
  <2>1. /\ txOwner' \in {txOwner, NoClient, c}
        /\ clients' \in {clients \union {c}, clients, clients \ {c}}
    BY <1>7, OwnerSteps DEF OtherClient, vars
  <2>2. asked' /\ txOwner' = NoClient
          => Excused' \/ (txOwner = NoClient /\ (Excused => Excused'))
    <3>1. CASE UNCHANGED vars
      BY <3>1 DEF vars, Excused
    <3>. QED
      BY <1>7, <3>1, Abandoned DEF OtherClient
  <2>3. Attribute /\ UNCHANGED <<config, tone, up, phase, leaving, lost>>
    BY <1>7 DEF OtherClient, harnessVars
  <2>. QED
    BY <1>0, <2>1, <2>2, <2>3, ToneQuiet
<1>8. CASE ConnectionLost
  <2>1. /\ OnSocketDisconnected(Harness) /\ Attribute /\ lost'
        /\ UNCHANGED <<config, tone, phase, leaving>>
        /\ up' = <<>>
    BY <1>8 DEF ConnectionLost, harnessVars
  <2>2. ClientEvent(Harness) /\ Harness \in Clients
    BY <2>1, SessionAssumption DEF ClientEvent
  <2>3. txOwner' # Harness
    BY <1>0, <2>1, StopFacts DEF OnSocketDisconnected, Released
  <2>4. /\ txOwner' = Harness => keyedByTone'
        /\ keyedByTone' => config'.keysPtt /\ asked'
        /\ keyedByTone' /\ txOwner' # Harness => Excused'
    BY <1>0, <2>1, <2>2, <2>3, AttributeFacts, Abandoned
  <2>. QED
    BY <2>1, <2>4 DEF ToneInv, Unfinished
<1>. QED
  BY <1>0, <1>1, <1>2, <1>3, <1>4, <1>5, <1>6, <1>7, <1>8, ToneHear,
     ToneRead DEF SessionNext

-----------------------------------------------------------------------------
SessionInv == SessionTyped /\ Safety /\ Orderly /\ ToneInv

LEMMA SessionInitially == SessionInit => SessionInv
<1> SUFFICES ASSUME SessionInit PROVE SessionInv
  OBVIOUS
<1>1. TypeOK /\ Safety
  BY InitTypes, InitSafe DEF SessionInit
<1>2. /\ audioClients = {} /\ perFrame = Preferred /\ channels = 1 /\ acc = 0
      /\ phase = "off" /\ rxFrames = 0
      /\ tone = FALSE /\ leaving = FALSE
      /\ lost = FALSE /\ keyedByTone = FALSE
      /\ up = <<>> /\ down = <<>> /\ clients = {} /\ txOwner = NoClient
  BY DEF SessionInit, Init
<1>3. /\ <<>> \in Seq(Nat) /\ DOMAIN <<>> = {}
      /\ 0 \in 0 .. FrameLimit
  <2>1. FrameLimit \in Nat
    BY SessionAssumption
  <2>. QED
    BY <2>1, SMT
<1>4. SessionTyped
  BY <1>1, <1>2, <1>3, Vocabulary DEF SessionTyped
<1>5. Orderly
  BY <1>2, <1>3 DEF Orderly
<1>6. ToneInv
  <2>1. txOwner # Harness
    BY <1>2, SessionAssumption, ServerAssumption
  <2>. QED
    BY <1>2, <1>3, <2>1 DEF ToneInv, Covered
<1>. QED
  BY <1>1, <1>4, <1>5, <1>6 DEF SessionInv

LEMMA SessionKept ==
    ASSUME SessionInv, [SessionNext]_sessionVars
    PROVE  SessionInv'
<1>1. TypeOK /\ Slot
  BY SessionIsSlot DEF SessionInv, SessionTyped
<1>. QED
  BY <1>1, SlotSafe, TypedKept, OrderlyKept, ToneKept DEF SessionInv

LEMMA SessionAlways == SessionSpec => []SessionInv
BY SessionInitially, SessionKept, PTL DEF SessionSpec

(* The state of a whole session keeps its types, beside any other clients: *)
(* in particular only connected clients are subscribed to the RX audio.    *)
(* (audio_start, onSocketDisconnected)                                     *)
THEOREM SessionTypes == SessionSpec => []SessionTypeOK
<1>1. SessionInv => SessionTypeOK
  BY DEF SessionInv, SessionTyped, SessionTypeOK
<1>. QED
  BY <1>1, SessionAlways, PTL

(* Without reports of the radio: after a "bye" of the test client the      *)
(* bridge no longer keys the radio for its tone, whatever the              *)
(* configuration, the other clients and the watchdog did; after a lost     *)
(* connection it does so only if configured not to unkey, or with the      *)
(* unkeying postponed, and only supervised.  (tx_audio_stop,               *)
(* onBinaryMessageReceived, onSocketDisconnected)                          *)
THEOREM ToneAlwaysEnds == SessionSpec => []ToneEnds
<1>1. SessionInv => ToneEnds
  <2> SUFFICES ASSUME SessionInv, Harness \notin clients, keyedByTone
               PROVE  /\ lost
                      /\ config.unkeyOnDisconnect => pendingUnkey
                      /\ watchdog # 0 \/ pendingUnkey
    BY DEF ToneEnds
  <2>1. txOwner # Harness
    BY SessionAssumption, ServerAssumption DEF SessionInv, SessionTyped, TypeOK
  <2>2. lost /\ Excused /\ asked
    BY <2>1 DEF SessionInv, ToneInv
  <2>3. watchdog # 0 \/ pendingUnkey
    BY <2>2 DEF SessionInv, Safety, PttGuarded
  <2>. QED
    BY <2>2, <2>3 DEF Excused
<1>. QED
  BY <1>1, SessionAlways, PTL
=============================================================================
