----------------------------- MODULE MCIpReass ------------------------------
(* A small instance of IpReass: a datagram of three units that is cut in every *)
(* way, others of two fragments, and fragments that must be refused.           *)
EXTENDS IpReass

\* The fragments of i in the given ranges, each in a single pbuf.
Cuts(i, ranges) ==
    {[id |-> i, start |-> c[1], end |-> c[2], clen |-> 1, bad |-> FALSE] : c \in ranges}

MCLength == [i \in Ids |-> CASE i = "a" -> 3 [] i = "long" -> 4 [] OTHER -> 2]

\* Of "long" the last fragment is too long for a datagram and one ends behind the
\* largest offset; "b" has a fragment of several pbufs, one of more than the
\* limits leave room for and one with options.
MCFragments ==
    Cuts("a", {c \in (0 .. 2) \X (1 .. 3) : c[1] < c[2] /\ c # <<0, 3>>})
    \cup UNION {Cuts(i, {<<0, 1>>, <<1, 2>>}) : i \in Ids \ {"a"}}
    \cup Cuts("long", {<<2, 4>>})
    \cup {[id |-> "b", start |-> 1, end |-> 2, clen |-> 4, bad |-> FALSE],
          [id |-> "b", start |-> 1, end |-> 2, clen |-> 7, bad |-> FALSE],
          [id |-> "b", start |-> 0, end |-> 1, clen |-> 1, bad |-> TRUE]}
=============================================================================
