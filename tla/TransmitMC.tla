----------------------------- MODULE TransmitMC -----------------------------
(* Values of the constants of TciServer and TxDuration for TLC. *)
EXTENDS TxDuration

AllConfigs == ConfigType

\* The rigctld backend with transmit enabled, and with transmit disabled.
Transmitting == {k \in ConfigType : k.transmit /\ k.backend = "rigctld"}
Listening == {k \in ConfigType : ~k.transmit /\ k.backend = "rigctld"}
=============================================================================
