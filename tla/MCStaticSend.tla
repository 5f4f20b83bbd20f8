---------------------------- MODULE MCStaticSend ----------------------------
(* Instances of StaticSend for TLC.                                         *)
EXTENDS StaticSend

\* The real buffer with file lengths around every boundary: the digits of the
\* size line, one, two and three writes, and the header lengths that the
\* shortest and the longest Content-Type give.
RealFileSizes ==
    (0 .. 40) \cup (250 .. 260) \cup (4090 .. 4100) \cup (7980 .. 8080)
    \cup (8180 .. 8200) \cup (16150 .. 16270) \cup (24350 .. 24450)
RealHeaderLens == {113, 125, 191}

\* The smallest files for which TLC still meets one, two and three writes when
\* the buffer is scaled down to 64 bytes.
SmallFileSizes  == {0, 3, 40, 97, 110}

=============================================================================
