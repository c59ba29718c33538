----------------------------- MODULE HttpLedger -----------------------------
(***************************************************************************)
(* What the HTTP server promises about its connections, without TCP: every *)
(* connection goes forward through its phases, once; it keeps receive      *)
(* buffers only while it reads its request and no more than Limit of them; *)
(* and whatever one connection does moves buffers between itself and the   *)
(* pool only.                                                              *)
(***************************************************************************)
EXTENDS Naturals

CONSTANTS Conns, PoolSize, Limit

VARIABLES phase, held, pool

Rank == [none |-> 0, reading |-> 1, sending |-> 2, ended |-> 3]

Init == /\ phase = [c \in Conns |-> "none"]
        /\ held = [c \in Conns |-> 0]
        /\ pool = PoolSize

\* One connection advances, or reads on; a step may pass through phases.
Advance(c) ==
    \E ph \in DOMAIN Rank, n \in 0 .. Limit :
       /\ Rank[phase[c]] <= Rank[ph]
       /\ n # 0 => ph = "reading" /\ n <= held[c] + 1
       /\ ph = phase[c] => n >= held[c]
       /\ phase' = [phase EXCEPT ![c] = ph]
       /\ held' = [held EXCEPT ![c] = n]
       /\ pool + held[c] >= n
       /\ pool' = pool + held[c] - n

Next == \E c \in Conns : Advance(c)

Spec == Init /\ [][Next]_<<phase, held, pool>>
=============================================================================
