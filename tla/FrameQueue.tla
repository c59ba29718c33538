----------------------------- MODULE FrameQueue -----------------------------
(***************************************************************************)
(* What the receive side of the driver promises to the network stack: a     *)
(* bounded first-in first-out queue of frames that may lose frames, and     *)
(* that gives each frame whole, in arrival order, at most once.             *)
(***************************************************************************)
EXTENDS Naturals, Sequences

CONSTANT Capacity    \* frames the queue holds

VARIABLES
  queue,      \* frames kept and not yet given to the stack
  newest,     \* the frame that arrived last, kept or lost
  given       \* the frame the stack got last

qvars == <<queue, newest, given>>

QInit == queue = <<>> /\ newest = 0 /\ given = 0

\* A frame arrives. It is lost unless it is kept before the next one arrives.
Arrive ==
  /\ newest' \in Nat /\ newest' > newest
  /\ UNCHANGED <<queue, given>>

\* The newest frame is kept.
Keep ==
  /\ Len(queue) < Capacity
  /\ newest > given
  /\ \A i \in 1 .. Len(queue) : queue[i] < newest
  /\ queue' = Append(queue, newest)
  /\ UNCHANGED <<newest, given>>

\* The stack gets the oldest frame.
Give ==
  /\ queue # <<>>
  /\ given' = Head(queue)
  /\ queue' = Tail(queue)
  /\ UNCHANGED newest

QNext == Arrive \/ Keep \/ Give

QSpec == QInit /\ [][QNext]_qvars
=============================================================================
