------------------------- MODULE MCHandlerConfig -------------------------
(* Frequency parsing with int scaled to 16 bits and long to 24 bits, so   *)
(* that the magnitudes below reach each case of the conversion: 0, 1, a   *)
(* value kept, the clamp, a value that wraps negative, one that wraps to  *)
(* a small positive value, and one past ULONG_MAX.                        *)
EXTENDS HandlerConfig

MCMagnitudes == {0, 1, 50, 4000, 10000, 2^15 + 5, 2^16 + 50, 2^24 + 1}

\* Magnitudes at every edge of the clamp and of both widths.
MCEdgeMagnitudes ==
  {0, 1, 2, 50, 99, 100, 3999, 4000, 4001, 10000, 2^15 - 4001, 2^23}
  \cup {2^15 + d : d \in {-1, 0, 1, 4001}}
  \cup {2^16 + d : d \in {-1, 0, 1, 4001}}
  \cup {2^24 + d : d \in {-1, 0, 1, 4001}}
  \cup {2147483647}
=============================================================================
