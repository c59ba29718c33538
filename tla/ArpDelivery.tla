---------------------------- MODULE ArpDelivery -----------------------------
(***************************************************************************)
(* What address resolution promises to IP: a packet waits for its next hop *)
(* or is lost; what is sent goes to the hardware address the next hop      *)
(* announced last, each packet at most once and, per next hop, in order.   *)
(***************************************************************************)
EXTENDS Naturals, SequencesExt

CONSTANTS Ips, Macs, NoMac

VARIABLES heard,     \* the hardware address each host announced last
          waiting,   \* packets waiting for each host
          out,       \* packets sent
          count      \* packets handed over so far

vars == <<heard, waiting, out, count>>

Frame(p, a, mac) == [pkt |-> p, ip |-> a, mac |-> mac]

Init == /\ heard = [a \in Ips |-> NoMac]
        /\ waiting = [a \in Ips |-> <<>>]
        /\ out = <<>>
        /\ count = 0

\* Queues may be thrown away as a whole, or lose their oldest packets.
Kept(w) == {v \in [Ips -> UNION {Suffixes(w[a]) : a \in Ips}] :
               \A a \in Ips : v[a] \in Suffixes(w[a])}

Submit(a) ==
    /\ count' = count + 1
    /\ \/ /\ heard[a] # NoMac /\ waiting[a] = <<>>
          /\ out' = Append(out, Frame(count', a, heard[a]))
          /\ UNCHANGED waiting
       \/ /\ waiting' \in Kept([waiting EXCEPT ![a] = Append(@, count')])
          /\ UNCHANGED out
       \/ /\ waiting' \in Kept(waiting)
          /\ UNCHANGED out
    /\ UNCHANGED heard

Announce(a, mac) ==
    /\ heard' = [heard EXCEPT ![a] = mac]
    /\ out' = out \o [i \in DOMAIN waiting[a] |-> Frame(waiting[a][i], a, mac)]
    /\ waiting' \in Kept([waiting EXCEPT ![a] = <<>>])
    /\ UNCHANGED count

Lose == /\ waiting' \in Kept(waiting)
        /\ UNCHANGED <<heard, out, count>>

Next == \/ \E a \in Ips : Submit(a) \/ \E mac \in Macs : Announce(a, mac)
        \/ Lose

Spec == Init /\ [][Next]_vars
=============================================================================
