------------------------------ MODULE SessionMC ------------------------------
(* Values of the constants of Session for TLC. *)
EXTENDS Session

\* The null backend with transmit enabled.
Keying == {k \in ConfigType : k.backend = "null" /\ k.transmit}
=============================================================================
