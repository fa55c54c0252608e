--------------------------- MODULE MCMousePackets ---------------------------
EXTENDS MousePackets

\* Bit 3 of a movement byte is set for -1 and for 255, clear for 5 and -256.
Deltas == {<<-256, 255>>, <<255, -256>>, <<-1, 5>>, <<5, -256>>, <<-256, 5>>}

MCMoves ==
  {[dx |-> d[1], dy |-> d[2], left |-> d[1] < d[2], right |-> d[1] > d[2], middle |-> d[1] = 5,
    overflow |-> o] : d \in Deltas, o \in BOOLEAN}

\* An acknowledgement (bit 3 and overflow bits), the scancodes of A pressed (bit 3)
\* and of 1 pressed (neither).
MCStrayBytes == {250, 30, 2}
=============================================================================
