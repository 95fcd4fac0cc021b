----------------------------- MODULE StatsSink ------------------------------
(***************************************************************************)
(* The writer of plugin statistics (plugins/sqlite-store/src/stats_sink.rs): *)
(* the event bus hands one record per handler call to a bounded channel    *)
(* without ever blocking; a thread batches them into the store, retries,   *)
(* caps its buffer, and drains it within a deadline when the sink is       *)
(* dropped.  Records are interchangeable, so they are counted.             *)
(***************************************************************************)
EXTENDS Integers

CONSTANTS
  ChannelCapacity,   \* DEFAULT_CHANNEL_CAPACITY
  BatchSize,         \* DEFAULT_BATCH_SIZE
  MaxBuffer,         \* MAX_BUFFER_RECORDS
  MaxFailures,       \* MAX_CONSECUTIVE_FLUSH_FAILURES
  FinalAttempts,     \* flushes that fit in SHUTDOWN_FLUSH_DEADLINE
  MaxRecords         \* bound: records the bus hands over in a behaviour

ASSUME SinkAssumption ==
  /\ ChannelCapacity \in Nat \ {0} /\ BatchSize \in Nat \ {0}
  /\ MaxBuffer \in Nat \ {0} /\ MaxFailures \in Nat \ {0}
  /\ FinalAttempts \in Nat \ {0} /\ MaxRecords \in Nat

VARIABLES
  open,      \* the sink still holds the channel's sender
  sent,      \* ghost: records handed to record()
  channel,   \* records in the channel
  buf,       \* records in the writer's retry buffer
  stored,    \* rows of plugin_stats inserted by the writer
  dropped,   \* dropped_count
  evicted,   \* evicted_count
  failures,  \* consecutive_failures
  writer,    \* "loop", "final" or "exited"
  attempts   \* flushes of the final drain

sinkVars == <<open, sent, channel, buf, stored, dropped, evicted, failures,
              writer, attempts>>

SinkInit ==
  /\ open = TRUE /\ sent = 0 /\ channel = 0 /\ buf = 0 /\ stored = 0
  /\ dropped = 0 /\ evicted = 0 /\ failures = 0 /\ writer = "loop" /\ attempts = 0

\* record: try_send, and a drop that is counted when the channel is full.
Record ==
  /\ open /\ sent < MaxRecords
  /\ sent' = sent + 1
  /\ \/ /\ channel < ChannelCapacity
        /\ channel' = channel + 1 /\ UNCHANGED dropped
     \/ /\ channel >= ChannelCapacity
        /\ dropped' = dropped + 1 /\ UNCHANGED channel
  /\ UNCHANGED <<open, buf, stored, evicted, failures, writer, attempts>>

\* cap_buffer: what is left of a buffer of n records.
Capped(n) == IF n <= MaxBuffer THEN n ELSE MaxBuffer

\* flush of n buffered records, `lost' of which cap_buffer evicted before: one
\* transaction that stores all or nothing; the buffer is kept for a retry until
\* too many attempts in a row have failed.
FlushOk(n, lost) ==
  /\ stored' = stored + n /\ buf' = 0 /\ failures' = 0 /\ evicted' = evicted + lost

FlushFails(n, lost) ==
  IF failures + 1 >= MaxFailures
  THEN /\ evicted' = evicted + lost + n /\ buf' = 0 /\ failures' = 0
       /\ UNCHANGED stored
  ELSE /\ failures' = failures + 1 /\ buf' = n /\ evicted' = evicted + lost
       /\ UNCHANGED stored

Flush(n, lost) == FlushOk(n, lost) \/ FlushFails(n, lost)

\* recv_timeout returns a record: it is buffered, and flushed with the rest when
\* the batch is full or the interval has passed.
Receive ==
  /\ writer = "loop" /\ channel > 0
  /\ channel' = channel - 1
  /\ LET n == Capped(buf + 1)
         lost == buf + 1 - Capped(buf + 1)
     IN  \/ Flush(n, lost)
         \/ /\ n < BatchSize
            /\ buf' = n /\ evicted' = evicted + lost
            /\ UNCHANGED <<stored, failures>>
  /\ UNCHANGED <<open, sent, dropped, writer, attempts>>

\* The interval passes without a record.
FlushOnTimeout ==
  /\ writer = "loop" /\ open /\ channel = 0 /\ buf > 0
  /\ Flush(buf, 0)
  /\ UNCHANGED <<open, sent, channel, dropped, writer, attempts>>

\* Drop: the sender goes first, then the writer is joined.
CloseSink ==
  /\ open
  /\ open' = FALSE
  /\ UNCHANGED <<sent, channel, buf, stored, dropped, evicted, failures, writer,
                 attempts>>

\* The channel reports disconnection only once it is empty.
Disconnected ==
  /\ writer = "loop" /\ ~open /\ channel = 0
  /\ writer' = IF buf = 0 THEN "exited" ELSE "final"
  /\ UNCHANGED <<open, sent, channel, buf, stored, dropped, evicted, failures,
                 attempts>>

FinalFlush ==
  /\ writer = "final" /\ buf > 0 /\ attempts < FinalAttempts
  /\ attempts' = attempts + 1
  /\ Flush(buf, 0)
  /\ UNCHANGED <<open, sent, channel, dropped, writer>>

\* Mutant: the deadline passes and the writer exits with what it holds.
FinalExit_Silent ==
  /\ writer = "final" /\ (buf = 0 \/ attempts > 0)
  /\ writer' = "exited" /\ buf' = 0
  /\ UNCHANGED <<open, sent, channel, stored, dropped, evicted, failures, attempts>>

\* The buffer is empty, or the deadline has passed (after at least one flush)
\* and what is left is counted as evicted.
FinalExit ==
  /\ writer = "final" /\ (buf = 0 \/ attempts > 0)
  /\ writer' = "exited" /\ buf' = 0 /\ evicted' = evicted + buf
  /\ UNCHANGED <<open, sent, channel, stored, dropped, failures, attempts>>

WriterStep == Receive \/ FlushOnTimeout \/ Disconnected \/ FinalFlush \/ FinalExit

SinkNext == Record \/ CloseSink \/ WriterStep

SinkSpec == SinkInit /\ [][SinkNext]_sinkVars /\ WF_sinkVars(WriterStep)

-----------------------------------------------------------------------------
(* Properties.                                                             *)

\* Type invariant of the sink.
SinkTypeOK ==
  /\ open \in BOOLEAN /\ writer \in {"loop", "final", "exited"}
  /\ sent \in Nat /\ channel \in Nat /\ buf \in Nat /\ stored \in Nat
  /\ dropped \in Nat /\ evicted \in Nat /\ failures \in Nat /\ attempts \in Nat

\* "Never silently lost": at every moment each record handed over is in the
\* channel, in the retry buffer, in the store, or in exactly one of the two
\* loss counters (record, cap_buffer, flush and the shutdown drain together).
NeverSilentlyLost == sent = channel + buf + stored + dropped + evicted

\* The memory of the sink is bounded however long the store is unavailable:
\* channel and retry buffer keep their caps.
MemoryBounded == channel <= ChannelCapacity /\ buf <= MaxBuffer

\* Dropping the sink ends the writer: the join in Drop returns, whatever the
\* store does.
DropJoins == ~open ~> writer = "exited"

\* A plugin's statistics are written, waiting within the bounds of channel
\* and buffer, or counted as dropped, whatever the storage does
\* (SqliteStatsSink, writer_loop).
RecordsAccounted ==
  /\ NeverSilentlyLost
  /\ MemoryBounded
=============================================================================
