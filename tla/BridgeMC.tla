------------------------------ MODULE BridgeMC ------------------------------
(* Values of the constants of Bridge for TLC. *)
EXTENDS Bridge

\* The configuration a station on the air runs with.
OnTheAir == {[backend |-> "rigctld", transmit |-> TRUE, keysPtt |-> FALSE,
              unkeyOnDisconnect |-> TRUE]}

\* The same, keyed by TX audio, and staying keyed when its owner disconnects.
AudioKeyed == {[backend |-> "rigctld", transmit |-> TRUE, keysPtt |-> TRUE,
                unkeyOnDisconnect |-> FALSE]}
=============================================================================
