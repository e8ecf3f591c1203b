--------------------------- MODULE BestEffortStats ---------------------------
(***************************************************************************)
(* What the stat path promises (spec.md 4.12 and 7): snapshots are         *)
(* best-effort.  Per StatType the path is a lossy FIFO: every snapshot the *)
(* collector publishes gets the next number, any snapshot in flight may be *)
(* lost, and the server receives the oldest one still in flight.  Nothing *)
(* is received that was not published, twice, or out of order.            *)
(* The actions constrain the primed queue rather than compute it: the     *)
(* module is checked as the property another specification implements.    *)
(***************************************************************************)
EXTENDS Naturals, Sequences

CONSTANTS Types

VARIABLES
    sent,       \* snapshots published so far
    queue,      \* queue[t]: snapshots of type t in flight, oldest first
    delivered   \* the snapshots the server received, in order

vars == <<sent, queue, delivered>>

Init ==
    /\ sent = 0
    /\ queue = [t \in Types |-> <<>>]
    /\ delivered = <<>>

\* q is s with some of its elements lost: the elements q keeps appear in s
\* in the same order.
LossyCopy(q, s) ==
    \E f \in [1..Len(q) -> 1..Len(s)] :
        /\ \A i \in 1..Len(q) : q[i] = s[f[i]]
        /\ \A i \in 1..Len(q) - 1 : f[i] < f[i + 1]

\* Only type t's queue moves.
OnlyQueue(t) == DOMAIN queue' = Types /\ \A u \in Types \ {t} : queue'[u] = queue[u]

\* Publish a snapshot of type t; in the same step any snapshots of t in
\* flight, the new one included, may be lost.
Send(t) ==
    /\ sent' = sent + 1
    /\ OnlyQueue(t)
    /\ LossyCopy(queue'[t], Append(queue[t], [type |-> t, n |-> sent + 1]))
    /\ UNCHANGED delivered

\* Some snapshots of type t in flight are lost.
Lose(t) ==
    /\ OnlyQueue(t)
    /\ Len(queue'[t]) < Len(queue[t])
    /\ LossyCopy(queue'[t], queue[t])
    /\ UNCHANGED <<sent, delivered>>

\* The server receives the oldest snapshot of type t in flight.
Deliver(t) ==
    /\ queue[t] # <<>>
    /\ delivered' = Append(delivered, Head(queue[t]))
    /\ queue' = [queue EXCEPT ![t] = Tail(@)]
    /\ UNCHANGED sent

Next == \E t \in Types : Send(t) \/ Lose(t) \/ Deliver(t)

Spec == Init /\ [][Next]_vars

=============================================================================
