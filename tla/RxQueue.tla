------------------------------ MODULE RxQueue ------------------------------
(***************************************************************************)
(* What the receive side of an Ethernet driver promises to NetLoop: a      *)
(* bounded queue of frames.  The network puts frames in at one end, the    *)
(* driver hands them to NetReceive from the other end, one at a time; the  *)
(* slot of a frame is free again when NetReceive has returned.  A restart  *)
(* empties the queue.  "live" is 0 from an event the driver does not       *)
(* recover from until the next restart; nothing is promised in between.    *)
(***************************************************************************)
EXTENDS Naturals, Sequences

CONSTANT Capacity

VARIABLES
  live,   \* 1 while the promise holds
  queue,  \* the frames waiting, oldest first
  taken,  \* the frames handed over since the last restart
  busy,   \* 1 while NetReceive works on the last of them
  stored  \* the number of the last frame from the network

vars == <<live, queue, taken, busy, stored>>

Empty == queue' = <<>> /\ taken' = <<>> /\ busy' = 0

Init ==
  /\ live = 1 /\ queue = <<>> /\ taken = <<>> /\ busy = 0
  /\ stored = 0

\* A frame comes from the network.
Put ==
  /\ live = 1 /\ Len(queue) + busy < Capacity
  /\ stored' = stored + 1
  /\ queue' = Append(queue, stored')
  /\ UNCHANGED <<live, taken, busy>>

\* The oldest frame goes to NetReceive.
Take ==
  /\ live = 1 /\ busy = 0 /\ queue # <<>>
  /\ taken' = Append(taken, Head(queue))
  /\ queue' = Tail(queue)
  /\ busy' = 1
  /\ UNCHANGED <<live, stored>>

\* NetReceive returns.
Done ==
  /\ live = 1 /\ busy = 1
  /\ busy' = 0
  /\ UNCHANGED <<live, queue, taken, stored>>

\* The device is started again.
Reset ==
  /\ live' = 1 /\ Empty
  /\ UNCHANGED stored

\* Something happens that the promise does not cover, or a frame after it.
Disturb ==
  /\ live' = 0 /\ Empty
  /\ stored' \in {stored, stored + 1}

Next == Put \/ Take \/ Done \/ Reset \/ Disturb

Spec == Init /\ [][Next]_vars
=============================================================================
