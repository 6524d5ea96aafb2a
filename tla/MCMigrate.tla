------------------------------ MODULE MCMigrate ------------------------------
(* Two runners, either of which may fail or be killed and so leave the rest to *)
(* the other: one with all three versions, one with an image that lacks the    *)
(* middle one, as before two branches merged.  The last version, which both    *)
(* carry, has no transaction.  One gate of the full image.                     *)
EXTENDS Migrate

CONSTANTS r1, r2, g1

Runners == {r1, r2}
Gates == {g1}
Versions == 1 .. 3
Images == [p \in Runners \cup Gates |-> IF p = r2 THEN {1, 3} ELSE Versions]
NoTxs == {3}
Orders == {[op |-> "Up", to |-> 0], [op |-> "UpTo", to |-> 2],
           [op |-> "Down", to |-> 0], [op |-> "DownTo", to |-> 1]}
==============================================================================
