----------------------------- MODULE StatUpload -----------------------------
(***************************************************************************)
(* The stat upload path of the server binary: StatisticManager's           *)
(* collect_stat sends each non-empty snapshot on the broadcast channel of  *)
(* its StatType (capacity 500, rg-stat/src/lib.rs:44); EmitClient::run     *)
(* resubscribes to every channel and spawns one forwarding task per type   *)
(* that moves snapshots to an unbounded merge channel; run's own loop      *)
(* moves them to `io`, the channel ServerClient::run reads in its select   *)
(* and hands to backend.emit_stat.                                          *)
(*                                                                         *)
(* A snapshot is [type, n], n numbering the snapshots in collection order. *)
(* A tokio broadcast receiver that falls behind by more than the capacity  *)
(* loses the oldest message and its next recv returns Lagged.              *)
(***************************************************************************)
EXTENDS Naturals, Sequences, SequencesExt

CONSTANTS
    StatTypes,  \* the StatType variants main subscribes to
    Cap,        \* broadcast capacity (500 in the code)
    MaxStats    \* bound on the snapshots collect_stat sends in all

ASSUME Cap \in Nat \ {0} /\ MaxStats \in Nat

Stat == [type: StatTypes, n: 1..MaxStats]

VARIABLES
    epc,        \* EmitClient::run: "new" (not yet run) or "run"
    published,  \* snapshots sent on the broadcast channels so far
    ring,       \* ring[t]: messages the forwarder of t has not yet received
    lagged,     \* lagged[t]: the forwarder of t fell more than Cap behind
    fpc,        \* fpc[t]: forwarding task of t: "none", "recv", "done"
    merged,     \* the unbounded channel from the forwarders to run's loop
    io,         \* EmitClient.io: the channel ServerClient reads its stats from
    uploaded    \* ghost: snapshots emit_stat delivered to a live session

vars == <<epc, published, ring, lagged, fpc, merged, io, uploaded>>

TypeOK ==
    /\ epc \in {"new", "run"}
    /\ published \in 0..MaxStats
    /\ ring \in [StatTypes -> Seq(Stat)]
    /\ \A t \in StatTypes : Len(ring[t]) <= Cap
    /\ lagged \in [StatTypes -> BOOLEAN]
    /\ fpc \in [StatTypes -> {"none", "recv", "done"}]
    /\ merged \in Seq(Stat) /\ io \in Seq(Stat) /\ uploaded \in Seq(Stat)

\* main has subscribed every type (the receivers sit in EmitClient's
\* `subscribes`); nothing is collected yet.
Init ==
    /\ epc = "new"
    /\ published = 0
    /\ ring = [t \in StatTypes |-> <<>>]
    /\ lagged = [t \in StatTypes |-> FALSE]
    /\ fpc = [t \in StatTypes |-> "none"]
    /\ merged = <<>> /\ io = <<>> /\ uploaded = <<>>

\* EmitClient::run: resubscribe() gives receivers that start at the
\* channel's tail, one forwarding task each.  The receivers main passed in
\* are kept in `subscribes` and never read.
Run ==
    /\ epc = "new"
    /\ epc' = "run"
    /\ fpc' = [t \in StatTypes |-> "recv"]
    /\ UNCHANGED <<published, ring, lagged, merged, io, uploaded>>

\* One iteration of collect_stat's loop with a non-empty snapshot of type
\* t: tx.send.  Only a live resubscribed receiver sees it; a full ring
\* drops its oldest message and marks the receiver lagged.
Publish(t) ==
    /\ published < MaxStats
    /\ published' = published + 1
    /\ LET s == [type |-> t, n |-> published + 1]
       IN  IF fpc[t] = "recv"
           THEN IF Len(ring[t]) = Cap
                THEN ring' = [ring EXCEPT ![t] = Append(Tail(@), s)]
                       /\ lagged' = [lagged EXCEPT ![t] = TRUE]
                ELSE ring' = [ring EXCEPT ![t] = Append(@, s)] /\ UNCHANGED lagged
           ELSE UNCHANGED <<ring, lagged>>
    /\ UNCHANGED <<epc, fpc, merged, io, uploaded>>

\* A forwarder that hands on the message without consuming it.
ForwardKeepingHead(t) ==
    /\ fpc[t] = "recv" /\ ~lagged[t] /\ ring[t] # <<>>
    /\ merged' = Append(merged, Head(ring[t]))
    /\ UNCHANGED <<epc, published, ring, lagged, fpc, io, uploaded>>

\* subscribe.recv() returns Ok(stat): tx.send(stat) on the unbounded channel.
Forward(t) ==
    /\ fpc[t] = "recv" /\ ~lagged[t] /\ ring[t] # <<>>
    /\ merged' = Append(merged, Head(ring[t]))
    /\ ring' = [ring EXCEPT ![t] = Tail(@)]
    /\ UNCHANGED <<epc, published, lagged, fpc, io, uploaded>>

\* subscribe.recv() returns Err(Lagged): logged as a receive error, and the
\* loop breaks; the receiver is dropped and type t is never forwarded again.
ForwardLagged(t) ==
    /\ fpc[t] = "recv" /\ lagged[t]
    /\ fpc' = [fpc EXCEPT ![t] = "done"]
    /\ ring' = [ring EXCEPT ![t] = <<>>]
    /\ lagged' = [lagged EXCEPT ![t] = FALSE]
    /\ UNCHANGED <<epc, published, merged, io, uploaded>>

\* run's own loop: rx.recv() then self.io.send(stat) (unbounded, its
\* receiver held by ServerClient, so neither fails).
Pump ==
    /\ epc = "run" /\ merged # <<>>
    /\ io' = Append(io, Head(merged))
    /\ merged' = Tail(merged)
    /\ UNCHANGED <<epc, published, ring, lagged, fpc, uploaded>>

\* The stat branch of ServerClient::run's select: stat_reciever.recv() and
\* backend.emit_stat; a send on a closed session fails, is only logged,
\* and the snapshot is gone.
EmitStat(live) ==
    /\ io # <<>>
    /\ io' = Tail(io)
    /\ uploaded' = IF live THEN Append(uploaded, Head(io)) ELSE uploaded
    /\ UNCHANGED <<epc, published, ring, lagged, fpc, merged>>

\* The steps of the stat tasks, without the select that ServerClient owns.
Tasks ==
    \/ Run \/ Pump
    \/ \E t \in StatTypes : Publish(t) \/ Forward(t) \/ ForwardLagged(t)

\* The spawned tasks run when they can; collect_stat is driven by a 60 s
\* timer and is not assumed to happen.
Fairness ==
    /\ WF_vars(Run) /\ WF_vars(Pump)
    /\ \A t \in StatTypes : WF_vars(Forward(t)) /\ WF_vars(ForwardLagged(t))

-----------------------------------------------------------------------------

\* The snapshots of type t still in flight, oldest first: those in `io`,
\* then those in the merge channel, then those left in t's ring.
OfType(seq, t) == SelectSeq(seq, LAMBDA s : s.type = t)
InFlight == [t \in StatTypes |-> OfType(io, t) \o OfType(merged, t) \o ring[t]]

Abs == INSTANCE BestEffortStats
         WITH Types <- StatTypes, sent <- published, queue <- InFlight,
              delivered <- uploaded

\* The stat path is the best-effort channel of spec.md 4.12, a lossy FIFO
\* per type: through the per-type forwarder, the merge channel it shares,
\* run's loop and ServerClient's select, snapshots are lost (ring overwrite,
\* a forwarder stopped on Lagged, an emit on a closed session) but never
\* invented, repeated or reordered.
ImplementsBestEffort == Abs!Spec

=============================================================================
