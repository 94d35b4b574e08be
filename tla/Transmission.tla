---------------------------- MODULE Transmission ----------------------------
(***************************************************************************)
(* What the transmit control of the bridge promises about one transmitter, *)
(* without saying how: at most one holder, who got it when nobody else had *)
(* it; a transmission that is on is watched by a timer or owed an end;     *)
(* and nothing forgets an end that is owed.  TciServer implements it.      *)
(***************************************************************************)
CONSTANTS Users, Nobody

VARIABLES
    on,        \* the transmitter was last told to transmit
    watched,   \* a timer will end the transmission
    owed,      \* the transmission is ended as soon as the radio can be reached
    holder     \* who keyed it, unless that user left it running

tVars == <<on, watched, owed, holder>>

Off == on = FALSE /\ watched = FALSE /\ holder = Nobody

Init == Off /\ owed \in BOOLEAN

\* The holder, or anybody when there is none, keys or prolongs.
Key(u) ==
    /\ holder \in {Nobody, u}
    /\ holder' = u
    /\ on' = TRUE
    /\ watched' = TRUE
    /\ UNCHANGED owed

\* Audio prolongs the watch, also when the radio was keyed by hand.
Prolong ==
    /\ watched' = TRUE
    /\ UNCHANGED <<on, owed, holder>>

\* The holder goes away and leaves the transmission to the timer.
Leave ==
    /\ holder' = Nobody
    /\ UNCHANGED <<on, watched, owed>>

\* The radio is told to stop.
End ==
    /\ on' = FALSE
    /\ watched' = FALSE
    /\ holder' = Nobody
    /\ owed' \in {owed, FALSE}

\* The radio cannot be told: its stop is owed.
Postpone ==
    /\ watched' = FALSE
    /\ holder' = Nobody
    /\ owed' = TRUE
    /\ UNCHANGED on

Next == (\E u \in Users : Key(u)) \/ Prolong \/ Leave \/ End \/ Postpone

Spec == Init /\ [][Next]_tVars
=============================================================================
