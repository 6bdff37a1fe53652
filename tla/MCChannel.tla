----------------------------- MODULE MCChannel -----------------------------
(***************************************************************************)
(* Channels of every kind for TLC: a negative request is an unbuffered     *)
(* channel, and a ring of three wraps around at every fill level.  The     *)
(* first two actors are resumed again and again; the others may stop at    *)
(* any point, or meet each other endlessly.  The last one only receives.   *)
(***************************************************************************)
EXTENDS Channel

MCActor == 1..4
MCMessage == [a \in MCActor |-> IF a < 4 THEN {<<a, "x">>} ELSE {}]
MCRequest == {-1, 1, 3}
MCResumed == {1, 2}

=============================================================================
