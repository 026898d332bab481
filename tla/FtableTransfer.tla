--------------------------- MODULE FtableTransfer ---------------------------
(***************************************************************************)
(* The way of a function table: watchtable copies it, the sender thread    *)
(* sends the copy in chunks, and process_ftable_packet puts the chunks     *)
(* together and reduces the table to an envelope of at most                *)
(* MAX_FTABLE_RENDER_BUCKETS buckets. The table may be written to at any   *)
(* time. A packet may arrive at any time, more than once, or never; the    *)
(* graph has been answered when the first is sent (WatchRegistry).         *)
(***************************************************************************)
EXTENDS Integers, Sequences, FiniteSets, FiniteSetsExt

CONSTANTS
  Lengths,             \* of function tables
  Values,              \* finite sample values
  NotFinite,           \* a NaN or an infinity
  MaxStreamSamples,    \* MAX_STREAM_SAMPLES, what a packet holds
  MaxBuckets           \* MAX_FTABLE_RENDER_BUCKETS

ASSUME FtableAssumption ==
  /\ Lengths \subseteq Nat \ {0}
  /\ Values \subseteq Int /\ 0 \in Values
  /\ NotFinite \notin Values
  /\ MaxStreamSamples \in Nat \ {0}
  /\ MaxBuckets \in Nat \ {0}

VARIABLES
  ftable,       \* the function table
  snapshot,     \* ftable_samples of the stream, or Gone
  nextSample,   \* ftable_next_sample
  sentChunks,   \* packets sent, which may yet arrive, again or for the first time
  table,        \* the table buffer of the stream in the viewer
  copied        \* history: the table that was copied, or Gone

ftableVars == <<ftable, snapshot, nextSample, sentChunks, table, copied>>

Gone == <<>>
Length == Cardinality(DOMAIN ftable)
Indices(length) == 0 .. length - 1
Samples(length) == [Indices(length) -> Values \cup {NotFinite}]

ClearedTable ==
  [allocated |-> FALSE, unsupported |-> FALSE, assembling |-> FALSE,
   samples |-> Gone, receivedChunks |-> {}, receivedCount |-> 0,
   minimum |-> 0, maximum |-> 0, hasRange |-> FALSE,
   envelope |-> Gone, displayReady |-> FALSE]

FtableTypeOK ==
  /\ \E n \in Lengths : ftable \in Samples(n)
  /\ snapshot \in Samples(Length) \cup {Gone}
  /\ nextSample \in 0 .. Length
  /\ \A p \in sentChunks : p.offset \in 0 .. Length - 1 /\ p.count \in 1 .. MaxStreamSamples
  /\ table.samples \in [Indices(Length) -> Values] \cup {Gone}
  /\ table.receivedCount \in 0 .. Length
  /\ table.minimum \in Values /\ table.maximum \in Values
  /\ copied \in Samples(Length) \cup {Gone}

FtableInit ==
  /\ \E n \in Lengths : ftable \in Samples(n)
  /\ snapshot = Gone /\ copied = Gone
  /\ nextSample = 0
  /\ sentChunks = {}
  /\ table = ClearedTable

-----------------------------------------------------------------------------
(* The plugin *)

(* watch_ftable, of which WatchRegistry models the graph and the stream *)
TakeSnapshot ==
  /\ copied = Gone
  /\ snapshot' = ftable /\ copied' = ftable
  /\ nextSample' = 0
  /\ UNCHANGED <<ftable, sentChunks, table>>

(* Csound writes a new content into the table. *)
WriteTable ==
  /\ \E v \in Values : ftable' = [i \in DOMAIN ftable |-> v]
  /\ UNCHANGED <<snapshot, nextSample, sentChunks, table, copied>>

Least(a, b) == IF a < b THEN a ELSE b
Most(a, b) == IF a > b THEN a ELSE b
ChunkCount == Least(Length - nextSample, MaxStreamSamples)

(* Mutant: the samples are read from the table, not from the copy.         *)
LiveChunk ==
  [offset |-> nextSample, count |-> ChunkCount,
   samples |-> [i \in nextSample .. nextSample + ChunkCount - 1 |-> ftable[i]]]

NextChunk ==
  [offset |-> nextSample, count |-> ChunkCount,
   samples |-> [i \in nextSample .. nextSample + ChunkCount - 1 |-> snapshot[i]]]

(* send_ftable_packets: one packet; the copy is freed with the last. That  *)
(* a pass stops after some packets, or at a socket that takes none, only   *)
(* delays the next.                                                        *)
SendTableChunk ==
  /\ snapshot # Gone
  /\ sentChunks' = sentChunks \cup {NextChunk}
  /\ nextSample' = nextSample + ChunkCount
  /\ snapshot' = IF nextSample' = Length THEN Gone ELSE snapshot
  /\ UNCHANGED <<ftable, table, copied>>

-----------------------------------------------------------------------------
(* The viewer *)

(* validate_ftable_data_packet, on the fields the model keeps *)
ValidTableChunk(p) ==
  /\ p.count > 0 /\ p.offset < Length
  /\ p.offset % MaxStreamSamples = 0
  /\ p.count = Least(Length - p.offset, MaxStreamSamples)

(* The table is on display: nothing more is needed.                        *)
Complete == table.displayReady

(* ensure_ftable_stream *)
AllocatedTable ==
  [ClearedTable EXCEPT !.allocated = TRUE, !.assembling = TRUE,
                       !.samples = [i \in Indices(Length) |-> 0]]

RejectedTable == [ClearedTable EXCEPT !.unsupported = TRUE]

Finite(sample) == IF sample \in Values THEN sample ELSE 0
ChunkIndex(p) == p.offset \div MaxStreamSamples
ChunkValues(p) == {Finite(p.samples[i]) : i \in DOMAIN p.samples}

(* data_minimum and data_maximum take in the samples of a packet.          *)
Widened(t, values) ==
  [t EXCEPT !.minimum = IF t.hasRange THEN Least(@, Min(values)) ELSE Min(values),
            !.maximum = IF t.hasRange THEN Most(@, Max(values)) ELSE Max(values),
            !.hasRange = TRUE]

Received(t, p) ==
  [Widened(t, ChunkValues(p)) EXCEPT
     !.samples = [i \in DOMAIN @ |-> IF i \in DOMAIN p.samples THEN Finite(p.samples[i])
                                     ELSE @[i]],
     !.receivedChunks = @ \cup {ChunkIndex(p)},
     !.receivedCount = @ + p.count]

Buckets(length) == Least(length, MaxBuckets)

(* Mutant: a bucket ends one sample early.                                 *)
ShortBucket(b, length) ==
  LET first == (b * length) \div Buckets(length)
      end == ((b + 1) * length) \div Buckets(length)
  IN first .. Most(first, end - 2)

Bucket(b, length) ==
  (b * length) \div Buckets(length) .. ((b + 1) * length) \div Buckets(length) - 1

(* prepare_ftable_envelope: minimum and maximum of every bucket            *)
Envelope(samples) ==
  LET length == Cardinality(DOMAIN samples)
  IN [b \in 0 .. Buckets(length) - 1 |->
        LET inBucket == {samples[i] : i \in Bucket(b, length)}
        IN <<Min(inBucket), Max(inBucket)>>]

(* The last sample has come; receivedChunks is freed.                      *)
Finished(t, ready) ==
  [t EXCEPT !.receivedChunks = {}, !.assembling = FALSE,
            !.envelope = IF ready THEN Envelope(t.samples) ELSE Gone,
            !.displayReady = ready]

(* What the early returns of process_ftable_packet let through             *)
Wanted(p) ==
  /\ ValidTableChunk(p) /\ ~Complete /\ ~table.unsupported
  /\ table.allocated => table.assembling /\ ChunkIndex(p) \notin table.receivedChunks

Filling(p) == Received(IF table.allocated THEN table ELSE AllocatedTable, p)

(* process_ftable_packet; the envelope may find no memory (ready = FALSE).  *)
ReceiveTableChunk(p) ==
  /\ Wanted(p)
  /\ \E ready \in BOOLEAN :
       table' = IF Filling(p).receivedCount = Length
                THEN Finished(Filling(p), ready) ELSE Filling(p)
  /\ UNCHANGED <<ftable, snapshot, nextSample, sentChunks, copied>>

(* There is no memory for the table.                                       *)
RejectTable(p) ==
  /\ Wanted(p) /\ ~table.allocated
  /\ table' = RejectedTable
  /\ UNCHANGED <<ftable, snapshot, nextSample, sentChunks, copied>>

FtableNext ==
  \/ TakeSnapshot \/ WriteTable \/ SendTableChunk
  \/ \E p \in sentChunks : ReceiveTableChunk(p) \/ RejectTable(p)

FtableSpec == FtableInit /\ [][FtableNext]_ftableVars

-----------------------------------------------------------------------------
(* A table is on display only when every sample has arrived, and it is the *)
(* table as it was when the opcode ran, with its own range: "no partial    *)
(* waveform is displayed" (doc/watchtable.md 16-18).                       *)
ShownTableIsSnapshot ==
  table.displayReady =>
    /\ table.samples = [i \in DOMAIN copied |-> Finite(copied[i])]
    /\ table.minimum = Min({table.samples[i] : i \in DOMAIN copied})
    /\ table.maximum = Max({table.samples[i] : i \in DOMAIN copied})

(* The envelope hides no sample: every sample is in a bucket and within    *)
(* its bounds, whatever the length of the table is a multiple of           *)
(* (watch_viewer.c 2784-2811).                                             *)
EnvelopeCoversTable ==
  table.displayReady =>
    \A i \in DOMAIN table.samples : \E b \in DOMAIN table.envelope :
      /\ i \in Bucket(b, Length)
      /\ table.envelope[b][1] <= table.samples[i]
      /\ table.samples[i] <= table.envelope[b][2]
=============================================================================
