----------------------------- MODULE DeviceChoice -----------------------------
(***************************************************************************)
(* How the audio device pair of the radio is found among all sound cards   *)
(* in mode auto-usb-full-duplex (AudioDeviceResolver.cpp).  A device is    *)
(* modelled by what its name and identifier say to the resolver; the       *)
(* matching of the strings themselves is left out.  AudioPaths shows what  *)
(* becomes of the result, which QtAudioBackend keeps for good.             *)
(***************************************************************************)
EXTENDS Integers

CONSTANTS
    Ids,       \* whatever tells two devices apart
    Names,     \* normalised descriptions
    Parents,   \* audioParentKey of the identifiers
    NoParent   \* an empty key

\* obvious: isObviouslyNonRadioAudio; usb: looksLikeUsbAudio; codec: has a
\* name that looksLikeKnownUsbCodec knows; fits: supportsDesiredFormat.
Device == [id : Ids, name : Names, parent : Parents, obvious : BOOLEAN,
           usb : BOOLEAN, codec : BOOLEAN, fits : BOOLEAN]

-----------------------------------------------------------------------------
SameDisplayDevice(i, o) == i.name = o.name

SameBackendFamily(i, o) == i.parent # NoParent /\ i.parent = o.parent

Points(b, n) == IF b THEN n ELSE 0

\* scorePair
Score(i, o) ==
    Points(SameDisplayDevice(i, o), 100) + Points(SameBackendFamily(i, o), 80)
      + Points(i.usb \/ o.usb, 60) + Points(i.fits, 20) + Points(o.fits, 20)
      + Points(i.codec \/ o.codec, 30)

PairScore(p) == Score(p[1], p[2])

Considered(list) == {d \in list : ~d.obvious}

\* resolveAutoUsbFullDuplex: the pairs that pass the threshold, ...
Candidates(inputs, outputs) ==
    {p \in Considered(inputs) \X Considered(outputs) : PairScore(p) >= 100}

\* ... and the winner, if it leads by 30; nothing is chosen otherwise.
Resolved(inputs, outputs) ==
    {p \in Candidates(inputs, outputs) :
        \A q \in Candidates(inputs, outputs) \ {p} :
            PairScore(p) - PairScore(q) >= 30}

=============================================================================
