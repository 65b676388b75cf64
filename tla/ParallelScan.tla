----------------------------- MODULE ParallelScan -----------------------------
(***************************************************************************)
(* DefaultParallelScanner of src/executor/parallel/scanner.rs: a table is  *)
(* cut into partitions, and worker threads take one after the other from   *)
(* a queue; or ParallelScanIterator reads them in order.  Every partition  *)
(* reads the table anew (scan_all), while other sessions may change it.    *)
(***************************************************************************)
EXTENDS Integers, Sequences, SequencesExt, FiniteSets, FiniteSetsExt

CONSTANTS
    ScanWorkers,    \* worker threads
    ScanConfigs,    \* ParallelScannerConfig: [strategy, size, max, adaptive, estimate],
                    \* and parallel: worker threads, or else ParallelScanIterator
    Rows,           \* bound: rows of the table at the start, 1 .. Rows
    MinPartition,   \* least size of an adaptive partition (100 in the code)
    LargeTable      \* from this estimate on, Adaptive means Hash (10000 in the code)

ASSUME ScanAssumption ==
    /\ IsFiniteSet(ScanWorkers) /\ ScanWorkers # {}
    /\ Rows \in Nat /\ MinPartition \in Nat \ {0} /\ LargeTable \in Nat
    /\ \A c \in ScanConfigs : c.size \in Nat \ {0} /\ c.max \in Nat /\ c.estimate \in Nat

VARIABLES
    config,    \* the scanner's configuration and its estimate of the table's size
    table,     \* the rows of the table
    queue,     \* partitions nobody has taken
    part,      \* the partition of each worker
    results,   \* what the finished partitions returned
    changed    \* whether another session has deleted a row

scanVars == <<config, table, queue, part, results, changed>>

NoPart == [kind |-> "none"]
WorkerCount == Cardinality(ScanWorkers)

-----------------------------------------------------------------------------
(* create_partitions *)

\* estimate_optimal_partition_size.
PartitionSize(c) ==
    IF ~c.adaptive THEN c.size
    ELSE Max({Min({Max({c.estimate \div (WorkerCount * 2), c.size \div 4}), c.size * 4}),
              c.estimate \div WorkerCount, MinPartition})

\* Mutant of RangePartitions: the ranges overlap by a row.
RangePartitionsOverlap(c) ==
    LET size == PartitionSize(c)
        count == Min({(c.estimate + size - 1) \div size, c.max})
    IN  [i \in 1 .. count |-> [kind |-> "range", start |-> (i - 1) * size,
                               end |-> Min({i * size + 1, c.estimate})]]

\* Ranges of one size until the estimate, or max_partitions, is reached.
RangePartitions(c) ==
    LET size == PartitionSize(c)
        count == Min({(c.estimate + size - 1) \div size, c.max})
    IN  [i \in 1 .. count |-> [kind |-> "range", start |-> (i - 1) * size,
                               end |-> Min({i * size, c.estimate})]]

HashPartitions(c) == [i \in 1 .. WorkerCount |-> [kind |-> "hash", rows |-> c.estimate \div WorkerCount]]

RoundRobinPartitions(c) ==
    [i \in 1 .. (WorkerCount * 2) |-> [kind |-> "range", start |-> i - 1, end |-> c.estimate]]

Partitions(c) ==
    CASE c.strategy = "Range" -> RangePartitions(c)
      [] c.strategy = "Hash" -> HashPartitions(c)
      [] c.strategy = "RoundRobin" -> RoundRobinPartitions(c)
      [] c.strategy = "Adaptive" -> IF c.estimate < LargeTable THEN RangePartitions(c) ELSE HashPartitions(c)

\* scan_partition: a range is counted off; any other partition reads the table
\* from its beginning, a row at least, until it has the rows it was estimated to have.
ScanPartition(p) ==
    IF p.kind = "range" THEN SubSeq(table, p.start + 1, Min({p.end, Len(table)}))
    ELSE SubSeq(table, 1, Min({Max({p.rows, 1}), Len(table)}))

-----------------------------------------------------------------------------
ScanInit ==
    /\ config \in ScanConfigs
    /\ table = [i \in 1 .. Rows |-> i]
    /\ queue = Partitions(config)
    /\ part = [w \in ScanWorkers |-> NoPart]
    /\ results = <<>> /\ changed = FALSE

\* process_partitions_parallel: a worker takes the first partition,
TakePartition(w) ==
    /\ config.parallel /\ part[w] = NoPart /\ queue # <<>>
    /\ part' = [part EXCEPT ![w] = Head(queue)]
    /\ queue' = Tail(queue)
    /\ UNCHANGED <<config, table, results, changed>>

\* scans it, and adds its result to the others.
FinishPartition(w) ==
    /\ part[w] # NoPart
    /\ results' = Append(results, ScanPartition(part[w]))
    /\ part' = [part EXCEPT ![w] = NoPart]
    /\ UNCHANGED <<config, table, queue, changed>>

\* ParallelScanIterator::next_row, when the rows of a partition are used up.
NextPartition ==
    /\ ~config.parallel /\ queue # <<>>
    /\ results' = Append(results, ScanPartition(Head(queue)))
    /\ queue' = Tail(queue)
    /\ UNCHANGED <<config, table, part, changed>>

\* Another session inserts, at the end of the table, or deletes.
OtherInserts ==
    /\ Len(table) = Rows /\ ~changed
    /\ table' = Append(table, Rows + 1)
    /\ UNCHANGED <<config, queue, part, results, changed>>

OtherDeletes(i) ==
    /\ i \in DOMAIN table /\ ~changed
    /\ table' = RemoveAt(table, i)
    /\ changed' = TRUE
    /\ UNCHANGED <<config, queue, part, results>>

ScanNext ==
    \/ \E w \in ScanWorkers : TakePartition(w)
    \/ \E w \in ScanWorkers : FinishPartition(w)
    \/ NextPartition
    \/ OtherInserts
    \/ \E i \in 1 .. (Rows + 1) : OtherDeletes(i)

ScanSpec == ScanInit /\ [][ScanNext]_scanVars

-----------------------------------------------------------------------------
(* Properties *)

Finished == queue = <<>> /\ \A w \in ScanWorkers : part[w] = NoPart

\* Ranges that reach the end of the table: the estimate does, and max_partitions
\* does not cut the last ones off.
RangesReach ==
    /\ config.strategy = "Range" \/ (config.strategy = "Adaptive" /\ config.estimate < LargeTable)
    /\ Rows <= Min({config.estimate, config.max * PartitionSize(config)})

\* Where a row came back: in which result, and as which of its rows.
ReadAt(row) == {place \in (1 .. Len(results)) \X (1 .. (Rows + 1)) :
                    place[2] \in DOMAIN results[place[1]] /\ results[place[1]][place[2]] = row}

\* scan_all_parallel over ranges: every row that was in the table when the scan
\* began comes back once, in whatever order workers take the partitions and
\* although each partition counts the table from its beginning while rows are added.
ScanExact ==
    Finished /\ RangesReach /\ ~changed => \A row \in 1 .. Rows : Cardinality(ReadAt(row)) = 1
=============================================================================
