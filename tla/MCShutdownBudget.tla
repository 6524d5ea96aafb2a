-------------------------- MODULE MCShutdownBudget --------------------------
(* Whole chains and broken ones.  Three of them are the repository's own, in   *)
(* units of five seconds: config.toml with the grace period it asks for (a tie *)
(* in its first line), the same under the default grace period, and the        *)
(* defaults of the code, where the read timeout is off.  The others are short. *)
EXTENDS ShutdownBudget

CONSTANTS r1, r2, p1

Library == [request |-> 3, server |-> 4, ops |-> 1, lifecycle |-> 6, connect |-> 1]

Chain(q, s, o, l, c, r, d, g) ==
    [request |-> q, server |-> s, ops |-> o, lifecycle |-> l, connect |-> c,
     read |-> r, client |-> d, grace |-> g]

Chains ==
    { Chain(3, 4, 1, 6, 1, 1, 0, 8),      \* config.toml
      Chain(3, 4, 1, 6, 1, 1, 0, 6),      \* under the default grace period
      Chain(0, 0, 0, 0, 0, 0, 0, 6),      \* the defaults of the code
      Chain(1, 3, 2, 6, -1, 1, 1, 8),     \* a whole chain, with an unset timeout
      Chain(1, 3, 1, 5, -1, 1, 1, 7),     \* a ping may take as long as its drain
      Chain(1, 2, 2, 6, 1, 1, 3, 8),      \* clients may ask for more than the drain
      Chain(1, 3, 2, 2, 1, 1, 1, 4),      \* the supervisor is the first to give up
      Chain(1, 3, 2, 6, 1, 1, 1, 3) }     \* the process is killed in its drain
=============================================================================
