--------------------------- MODULE MCResponseHeader ---------------------------
(* Instances of ResponseHeader for TLC.                                     *)
EXTENDS ResponseHeader, Bitwise

\* utility.c, bit by bit.
NextHighestPowerOfTwo(v) ==
    LET Smear(n, shift) == n | shiftR(n, shift)
    IN  Smear(Smear(Smear(Smear(Smear(v - 1, 1), 2), 4), 8), 16) + 1

\* The counts that make ExpandBodySize run are the powers of two.
ASSUME PowersAreFixpoints ==
    \A v \in 1 .. 128 : v = NextHighestPowerOfTwo(v) <=> v \in PowersOfTwo

=============================================================================
