----------------------------- MODULE LogConsumer -----------------------------
(***************************************************************************)
(* The request log: every tool execution publishes an entry on a Redis     *)
(* channel, and one task of the backend (run_log_consumer) collects them   *)
(* and inserts them into SQLite in batches.                                *)
(*                                                                         *)
(* The consumer treats all entries alike, so that it is enough to follow a *)
(* few of them: the marked entries 1, 2, ... are published once each and   *)
(* in this order, among any number of other entries, all written 0.        *)
(***************************************************************************)
EXTENDS Naturals, Sequences, SequencesExt

CONSTANTS
    Marked,       \* number of marked entries
    BatchSize,    \* _BATCH_SIZE
    Interval,     \* _FLUSH_INTERVAL in ticks
    Delay,        \* wait before a reconnection, in ticks
    MaxPending,   \* bound on the entries delivered and not yet read
    Mixes         \* the sets of faults to consider

AllFaults == {"redis", "database", "stop", "crash"}

ASSUME BoundsPositive == /\ BatchSize \in Nat \ {0}
                         /\ Marked \in Nat /\ MaxPending \in Nat
                         /\ Interval \in Nat /\ Delay \in Nat
ASSUME FaultsKnown == Mixes \subseteq SUBSET AllFaults

VARIABLES
    pc,       \* where the task is
    linked,   \* the subscription stands
    pending,  \* entries delivered to the subscriber and not yet read
    buffer,   \* entries read and waiting for a flush
    batch,    \* entries of the flush under way
    rows,     \* the marked entries in the table
    since,    \* ticks since last_flush, up to Interval
    wait,     \* ticks left of the wait before a reconnection
    sent,     \* number of marked entries published
    owed,     \* marked entries read and not lost in one of the ways that
              \* ReadIsKept names (history variable)
    faults    \* faults that may happen in this behaviour

vars == <<pc, linked, pending, buffer, batch, rows, since, wait, sent, owed, faults>>

Entries == 0 .. Marked
Points == {"connect", "listen", "flush", "final", "sleep", "stopped"}

\* The marked entries of a sequence.
Marks(s) == ToSet(s) \ {0}

Init ==
    /\ pc = "connect"
    /\ linked = FALSE
    /\ pending = <<>> /\ buffer = <<>> /\ batch = <<>> /\ rows = {}
    /\ since = 0
    /\ wait = 0
    /\ sent = 0
    /\ owed = {}
    /\ faults \in Mixes

-----------------------------------------------------------------------------
(* The publishers: _record of the generated server                         *)

\* The channel keeps nothing: without a subscriber the entry is gone.
Publish ==
    /\ Len(pending) < MaxPending
    /\ \E m \in {0, sent + 1} \cap Entries :
          /\ sent' = IF m = 0 THEN sent ELSE m
          /\ pending' = IF linked THEN Append(pending, m) ELSE pending
    /\ UNCHANGED <<pc, linked, buffer, batch, rows, since, wait, owed>>

-----------------------------------------------------------------------------
(* The consumer                                                            *)

Subscribe ==
    /\ pc = "connect"
    /\ pc' = "listen"
    /\ linked' = TRUE
    /\ UNCHANGED <<pending, buffer, batch, rows, since, wait, sent, owed>>

\* Mutant: a full batch is sliced one entry short, out of the buffer all the same.
TakeBatch_Short(b) ==
    /\ batch' = SubSeq(b, 1, IF Len(b) < BatchSize THEN Len(b) ELSE BatchSize - 1)
    /\ buffer' = SubSeq(b, BatchSize + 1, Len(b))

\* _flush up to its first await: the batch leaves the buffer for good.
TakeBatch(b) ==
    /\ batch' = SubSeq(b, 1, IF Len(b) < BatchSize THEN Len(b) ELSE BatchSize)
    /\ buffer' = SubSeq(b, BatchSize + 1, Len(b))

\* An entry is read; a flush is due if it fills a batch or if the last flush
\* is Interval ago.  No clock of its own triggers one.
FlushDue(b) == Len(b) >= BatchSize \/ since >= Interval

Receive ==
    /\ pc = "listen"
    /\ pending # <<>>
    /\ pending' = Tail(pending)
    /\ owed' = owed \cup ({Head(pending)} \ {0})
    /\ LET b == Append(buffer, Head(pending))
       IN  IF FlushDue(b)
           THEN TakeBatch(b) /\ pc' = "flush"
           ELSE buffer' = b /\ UNCHANGED <<pc, batch>>
    /\ UNCHANGED <<linked, rows, since, wait, sent>>

\* Mutant: the batch is left where the next flush finds it.
FlushDone_Repeated(written) ==
    /\ rows' = IF written THEN rows \cup Marks(batch) ELSE rows
    /\ owed' = IF written THEN owed ELSE owed \ Marks(batch)
    /\ batch' = <<>>
    /\ buffer' = batch \o buffer
    /\ since' = 0
    /\ UNCHANGED <<linked, pending, wait, sent>>

\* Mutant: last_flush is set to zero in place of the time of the loop.
FlushDone_Zeroed(written) ==
    /\ rows' = IF written THEN rows \cup Marks(batch) ELSE rows
    /\ owed' = IF written THEN owed ELSE owed \ Marks(batch)
    /\ batch' = <<>>
    /\ since' = Interval + 1
    /\ UNCHANGED <<linked, pending, buffer, wait, sent>>

\* The end of _flush; the batch is gone whether or not the commit succeeded.
FlushDone(written) ==
    /\ rows' = IF written THEN rows \cup Marks(batch) ELSE rows
    /\ owed' = IF written THEN owed ELSE owed \ Marks(batch)
    /\ batch' = <<>>
    /\ since' = 0
    /\ UNCHANGED <<linked, pending, buffer, wait, sent>>

Flushed ==
    /\ pc = "flush"
    /\ pc' = "listen"
    /\ \E written \in {TRUE} \cup {x \in {FALSE} : "database" \in faults} : FlushDone(written)

\* Mutant: the buffer starts anew with each connection.
NoticeBreak_Emptied ==
    /\ pc = "listen"
    /\ ~linked /\ pending = <<>>
    /\ pc' = "sleep"
    /\ wait' = Delay
    /\ buffer' = <<>>
    /\ UNCHANGED <<linked, pending, batch, rows, since, sent, owed>>

\* listen() raises once it has read what had arrived before the break.
NoticeBreak ==
    /\ pc = "listen"
    /\ ~linked /\ pending = <<>>
    /\ pc' = "sleep"
    /\ wait' = Delay
    /\ UNCHANGED <<linked, pending, buffer, batch, rows, since, sent, owed>>

SubscribeFails ==
    /\ pc = "connect"
    /\ "redis" \in faults
    /\ pc' = "sleep"
    /\ wait' = Delay
    /\ UNCHANGED <<linked, pending, buffer, batch, rows, since, sent, owed>>

WakeUp ==
    /\ pc = "sleep"
    /\ wait = 0
    /\ pc' = "connect"
    /\ UNCHANGED <<linked, pending, buffer, batch, rows, since, wait, sent, owed>>

-----------------------------------------------------------------------------
(* Shutdown: the lifespan handler cancels the task                         *)

\* Leaving the loop drops the subscription.
Leave(point) ==
    /\ pc' = point
    /\ linked' = FALSE
    /\ pending' = <<>>

\* Mutant: no flush in the handler of CancelledError.
StopListening_Unflushed ==
    /\ "stop" \in faults
    /\ pc \in {"connect", "listen"}
    /\ Leave("stopped")
    /\ UNCHANGED <<buffer, batch, rows, since, wait, sent, owed>>

\* Cancelled while it waits for an entry or for Redis: a last flush.
StopListening ==
    /\ "stop" \in faults
    /\ pc \in {"connect", "listen"}
    /\ Leave("final")
    /\ TakeBatch(buffer)
    /\ UNCHANGED <<rows, since, wait, sent, owed>>

\* Cancelled at an await of _flush: the commit may have gone through.  What
\* is left in the buffer gets the last flush.
StopFlushing ==
    /\ "stop" \in faults
    /\ pc = "flush"
    /\ rows' \in {rows, rows \cup Marks(batch)}
    /\ owed' = owed \ Marks(batch)
    /\ Leave("final")
    /\ TakeBatch(buffer)
    /\ UNCHANGED <<since, wait, sent>>

FinalFlushed ==
    /\ pc = "final"
    /\ pc' = "stopped"
    /\ \E written \in {TRUE} \cup {x \in {FALSE} : "database" \in faults} : FlushDone(written)

\* Cancelled in the wait of the other handler: nobody catches it.
StopSleeping ==
    /\ "stop" \in faults
    /\ pc = "sleep"
    /\ Leave("stopped")
    /\ owed' = owed \ Marks(buffer)
    /\ UNCHANGED <<buffer, batch, rows, since, wait, sent>>

-----------------------------------------------------------------------------
(* The environment                                                         *)

\* The connection breaks; what had arrived may still be read, or not.
Break ==
    /\ "redis" \in faults
    /\ linked
    /\ linked' = FALSE
    /\ pending' \in {pending, <<>>}
    /\ UNCHANGED <<pc, buffer, batch, rows, since, wait, sent, owed>>

Crash ==
    /\ "crash" \in faults
    /\ pc # "stopped"
    /\ rows' \in {rows, rows \cup Marks(batch)}
    /\ owed' = owed \ Marks(batch \o buffer)
    /\ Leave("stopped")
    /\ UNCHANGED <<buffer, batch, since, wait, sent>>

\* The backend starts again, with an empty buffer.
Restart ==
    /\ pc = "stopped"
    /\ pc' = "connect"
    /\ buffer' = <<>> /\ batch' = <<>>
    /\ since' = 0
    /\ wait' = 0
    /\ UNCHANGED <<linked, pending, rows, sent, owed>>

Tick ==
    /\ since' = IF since < Interval THEN since + 1 ELSE since
    /\ wait' = IF wait > 0 THEN wait - 1 ELSE 0
    /\ UNCHANGED <<pc, linked, pending, buffer, batch, rows, sent, owed>>

-----------------------------------------------------------------------------
Consumer ==
    \/ Subscribe \/ Receive \/ Flushed \/ NoticeBreak \/ WakeUp \/ FinalFlushed

Next ==
    /\ \/ Publish \/ Consumer \/ SubscribeFails
       \/ StopListening \/ StopFlushing \/ StopSleeping
       \/ Break \/ Crash \/ Restart \/ Tick
    /\ UNCHANGED faults

Spec == Init /\ [][Next]_vars

\* The event loop resumes the task when what it awaits is there, and time
\* passes.  Nothing says that entries are published.
FairSpec ==
    /\ Spec
    /\ WF_vars(Consumer /\ UNCHANGED faults)
    /\ WF_vars(Tick /\ UNCHANGED faults)
-----------------------------------------------------------------------------
(* Properties                                                              *)

\* Every variable of the task and of the channel is of its type.
TypeOK ==
    /\ pc \in Points
    /\ linked \in BOOLEAN
    /\ pending \in Seq(Entries) /\ Len(pending) <= MaxPending
    /\ buffer \in Seq(Entries)
    /\ batch \in Seq(Entries)
    /\ rows \subseteq 1 .. Marked
    /\ since \in 0 .. Interval
    /\ wait \in 0 .. Delay
    /\ sent \in Entries
    /\ owed \subseteq 1 .. Marked
    /\ faults \in Mixes

\* The entries on their way to the table, the oldest first.
InLine == IF pc = "stopped" THEN <<>> ELSE batch \o buffer \o pending

\* No entry is inserted twice and none overtakes another, whatever breaks:
\* a marked entry in line is later than all before it and all in the table.
InOrder ==
    /\ \A i, j \in DOMAIN InLine : i < j /\ InLine[j] # 0 => InLine[i] < InLine[j]
    /\ \A m \in Marks(InLine), n \in rows : n < m

\* Under every mix of faults an entry the consumer has read is in the table, or
\* in the buffer or batch of a living task, but for four ways to lose it: with the batch
\* whose commit fails, with the batch whose commit a shutdown interrupts, with
\* the buffer in a shutdown during the wait for a reconnection, and with both
\* in a crash.  So a failed commit costs its batch and not the buffer, and
\* neither a break of the connection nor a shutdown of a listening consumer
\* costs anything that was read.
ReadIsKept ==
    owed \subseteq rows \cup (IF pc = "stopped" THEN {} ELSE Marks(batch \o buffer))

\* A shutdown that does not coincide with a Redis failure loses at most the
\* batch whose commit it interrupts.
StopLosesOneBatch ==
    [][ /\ pc # "stopped" /\ "redis" \notin faults /\ {"database", "crash"} \cap faults = {}
        /\ pc' = "stopped"
        => Marks(batch \o buffer) \subseteq rows']_vars

\* While entries keep coming in and nothing fails, an entry that was read is
\* in the table at some later time: no one stays in the buffer for ever.
TrafficFlushes ==
    faults = {} /\ []<><<Publish>>_vars =>
        \A m \in 1 .. Marked : m \in owed ~> m \in rows

=============================================================================
