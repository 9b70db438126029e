------------------------------ MODULE SensorCrc -------------------------------
(***************************************************************************)
(* sen5x_crc8 of main/sensors.c on a word of two bytes and its checksum, as *)
(* it arrives over a bus that may flip bits.  What the sensor sends is the  *)
(* remainder of a division of polynomials, the definition of a CRC; what    *)
(* the firmware computes is a loop of shifts.                               *)
(***************************************************************************)
EXTENDS Integers, FiniteSets, FiniteSetsExt, Bitwise

CONSTANT Data       \* the words sent

VARIABLES sent, received, i, crc

vars == <<sent, received, i, crc>>

\* x^8 + x^5 + x^4 + 1
Polynomial == 256 + 49

\* The remainder of the 24 bits n, from bit k down
Remainder[n \in 0..16777215, k \in 7..23] ==
    IF k = 7 THEN n
    ELSE Remainder[IF (n \div 2^k) % 2 = 1 THEN n ^^ (Polynomial * 2^(k - 8)) ELSE n, k - 1]

\* The word, with the first byte inverted, times x^8
Checksum(word) == Remainder[(word ^^ 65280) * 256, 23]

\* No error, up to three bits anywhere, or any pattern within 8 adjacent bits
Errors ==
    {0} \cup {FoldSet(LAMBDA b, e : e + 2^b, 0, {j, k, m}) : j, k, m \in 0..23}
        \cup {pattern * 2^place : pattern \in 1..255, place \in 0..16}

Init ==
    /\ sent \in {word * 256 + Checksum(word) : word \in Data}
    /\ received \in {sent ^^ e : e \in Errors}
    /\ i = 0 /\ crc = 255

\* crc = (crc << 1) ^ 0x31 or crc <<= 1, of 8 bits
Shift_NoCarry(c) == (c * 2) % 256
Shift(c) == IF c >= 128 THEN ((c * 2) % 256) ^^ 49 ELSE c * 2

RECURSIVE Shifts(_, _)
Shifts(c, b) == IF b = 0 THEN c ELSE Shifts(Shift(c), b - 1)

Byte(k) == (received \div 256^(2 - k)) % 256

\* One round of the loop over the bytes
Round ==
    /\ i < 2
    /\ crc' = Shifts(crc ^^ Byte(i), 8)
    /\ i' = i + 1
    /\ UNCHANGED <<sent, received>>

Next == Round
Spec == Init /\ [][Next]_vars

\* sen5x_crc8(data, 2) != data[2] is not taken
Accepts == crc = received % 256

\* A word is accepted exactly when it arrived as it was sent, for every error of up to
\* three bits and every burst of up to 8: what sen5x_read_data_ready and
\* sen5x_decode_measurement accept is what the sensor measured.
AcceptsOnlyIntact == i = 2 => (Accepts <=> received = sent)
==============================================================================
