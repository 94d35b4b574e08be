------------------------------ MODULE PcmConvert ------------------------------
(***************************************************************************)
(* The sample conversions of PcmConvert.cpp: from a sound card's format to *)
(* the 16-bit mono samples of the TCI stream and back.  A sample is the    *)
(* number it stands for.  A shift to the right rounds down, a division of  *)
(* C++ rounds towards zero, and a cast to qint16 keeps the low 16 bits:    *)
(* the lemmas show that the results fit, so that no sample wraps around.   *)
(*                                                                         *)
(* Float samples are in units of 1/32768, which is what a 16-bit sample    *)
(* becomes; their way back multiplies by 32767 in single precision, which  *)
(* is off by less than 64 such units, and rounds to a nearest integer.     *)
(***************************************************************************)
EXTENDS Integers

Between(low, high) == {n \in Int : low <= n /\ n <= high}

Int16 == Between(-32768, 32767)
UInt8 == Between(0, 255)
Int32 == Between(-2147483648, 2147483647)

\* bytesPerSample is positive for these.
Formats == {"UInt8", "Int16", "Int32", "Float"}

Clamp(v, low, high) == IF v < low THEN low ELSE IF v > high THEN high ELSE v

\* sampleToInt16, by format; FromFloat is the set of what it may return.
FromUInt8(b) == (b - 128) * 256
FromInt32(v) == v \div 65536
FromFloat(n) ==
    LET v == Clamp(n, -32768, 32768) IN
    {r \in Int16 : /\ 2 * (32768 * r - 32767 * v) <= 32768 + 128
                   /\ 2 * (32767 * v - 32768 * r) <= 32768 + 128}

\* appendSampleFromInt16, by format; ToFloat is the sample itself.
ToUInt8(s) == Clamp((s \div 256) + 128, 0, 255)
ToInt32(s) == s * 65536

\* One sample of toMonoInt16 for a card with two channels.
Halved(n) == IF n >= 0 THEN n \div 2 ELSE -((-n) \div 2)
Mixed(left, right) == Clamp(Halved(left + right), -32768, 32767)

\* A sample that was sent to a card in format f, and recorded from it again.
RoundTrips(s, f) ==
    CASE f = "UInt8" -> {FromUInt8(ToUInt8(s))}
      [] f = "Int16" -> {s}
      [] f = "Int32" -> {FromInt32(ToInt32(s))}
      [] f = "Float" -> FromFloat(s)

=============================================================================
