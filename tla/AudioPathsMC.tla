----------------------------- MODULE AudioPathsMC -----------------------------
(***************************************************************************)
(* AudioPaths on two sound cards, with the resolver of DeviceChoice for    *)
(* the automatic mode.  The radio's card is USB audio in the format asked  *)
(* for; the other card has none of that, but its input and output share a  *)
(* parent.  Alone, a card is chosen.  Of both cards neither leads by 30,   *)
(* and the input of one with the output of the other is below 100: twice   *)
(* the resolver refuses.                                                   *)
(***************************************************************************)
EXTENDS AudioPaths

D == INSTANCE DeviceChoice
     WITH Ids <- {1, 2}, Names <- {"radio", "other"},
          Parents <- {"none", "pci"}, NoParent <- "none"

Radio == [id |-> 1, name |-> "radio", parent |-> "none", obvious |-> FALSE,
          usb |-> TRUE, codec |-> FALSE, fits |-> TRUE]

Other == [id |-> 2, name |-> "other", parent |-> "pci", obvious |-> FALSE,
          usb |-> FALSE, codec |-> FALSE, fits |-> FALSE]

ASSUME BothRefusals ==
    /\ {Radio, Other} \subseteq D!Device
    /\ \A d \in {Radio, Other} : D!Resolved({d}, {d}) = {<<d, d>>}
    /\ D!Candidates({Radio}, {Other}) = {}
    /\ LET both == {Radio, Other}
       IN  D!Candidates(both, both) # {} /\ D!Resolved(both, both) = {}

MCDevices == {Radio, Other}

\* The other card is opened in a format that PcmConvert does not know.
MCConvertible == {Radio}

MCWanted == Radio

MCResolve(ins, outs) ==
    LET pairs == D!Resolved(ins, outs)
    IN  IF pairs = {} THEN NoPair ELSE CHOOSE p \in pairs : TRUE
=============================================================================
