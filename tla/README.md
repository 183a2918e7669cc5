# A verification project for the Prio processor

Two servers, run by two organisations, compute histograms of private data.  A
client splits its data into two encrypted shares; each server sees one share of
every row, and only together can they check a row (a secret-shared proof) and
sum the rows up.  The production pipeline exchanges files through object-store
buckets, stage by stage; two smaller services in the repository exchange
packets, row by row, through queues.

This directory holds TLA+ models of that program, the configurations under
which TLC checks them, and theorems about them that TLAPS proves.

## 1. The system

| part | source | state it keeps | operations |
| --- | --- | --- | --- |
| stage driver | `bin/process` | the stage it executes, the batch loop, the poll counter; all else is in buckets | `wait_for_data`, `verify1`, `verify2`, `aggregate`, `publish`, `rsync_delete`, `main` |
| Spark jobs | `prio_processor/spark/` | none between jobs; output directories | one job per stage and batch; pandas UDFs over libprio |
| staging | `prio_processor/origin/staging.py` | the ingest directories, one per batch and server | number a day's submissions, encode, write both servers' shares |
| test data | `spark/commands.py` (`generate`, `generate_integration`, `encode_shares`), `bin/generate` | share directories, ingest buckets, `_SUCCESS` | make rows, write them by tasks, mirror to each server |
| buckets | MinIO, `mc` (external) | objects; no directories, no transactions | `mirror --remove --overwrite`, `cp`, `stat` |
| libprio | PyPI package `prio` (external) | a server's running sum; verifiers, packets | encode, set_data, packets, isValid, aggregate, final |
| CLI stages | `prio_processor/prio/commands.py`, `examples/batched-processing/scripts/server.sh` | none between commands; one file per stage and share file, markers | the same stages on one file, under a script per server |
| CLI encoding | `prio_processor/prio/commands.py`, `encode_shares` | two output files and their buffers | one row in, one line into each file |
| object wrapper | `prio_processor/prio/wrapper.py` | libprio instances, bytes not read yet | pickling, lazy `deserialize`, the calls of the protocol |
| message-driven servers | `examples/asyncio`, `examples/docker-asyncio` | queues, a cache of verifiers | requeue, verify, aggregate |
| broker | RabbitMQ, `aio_pika` (external) | packets without an acknowledgement | deliver, deliver again |
| browser validation | `examples/browser-validation` | a cache file per date | read a day's pings, aggregate per build, compare with the clear sums |
| indexing | `prio_processor/origin/origins.py`, `indexing.py` | the fetched list of origins, the indexed output | relate positions of sums to origins |
| insertion, cleanup, bootstrap | `bin/insert`, `bin/cleanup`, `bin/dataproc` | external | scripts around `bq`, `mc`, `gcloud` |

How the parts interact.  Server `s` has a *private* and a *shared* bucket, and
may write into its peer's shared bucket.  Each of verify1, verify2 and aggregate

1. waits until a `_SUCCESS` marker exists: the ingest marker for verify1, the
   marker the *peer* put into `s`'s shared bucket for the later stages;
2. for each configured batch, skips it when one of its inputs is missing, else
   submits a Spark job that reads the server's own rows, its own previous output
   and the peer's previous output, and writes to the private bucket;
3. mirrors the whole private directory of the stage into the peer's shared
   bucket, object by object, deleting what is not in the source, and then copies
   a `_SUCCESS` file there.

publish waits in the same way and writes one record per batch.  `set -e` ends the
process on the first failing command.  The process keeps nothing between runs: a
restart begins at verify1, over whatever the buckets hold.

What is hard about it:

* **ordering**: the marker is an upload of its own after the mirror, and a
  mirror is many uploads and deletions in no particular order;
* **staleness**: the marker is looked at once, the directory many times after,
  and on a rerun the marker of the run before is still there;
* **crashes and reruns**: at any point, at either server, without the other
  noticing anything but a bucket that changes;
* **waiting**: each server waits for the other before three of four stages;
* **partial input**: rows that only one server received or could decrypt,
  batches that only one server has, batches without a usable row;
* **symmetry**: each server calls its own data "internal", but the shares must be
  combined as A's, then B's.

The message-driven servers run the same protocol without stages.  Each consumes one
queue, into which both the client (shares) and the peer (verify1 and verify2
packets) write; a packet that comes before the server can use it goes back to the
end of the queue.  `examples/docker-asyncio` runs two processes over RabbitMQ;
`examples/asyncio` runs two coroutines in one process, whose `main` waits for both
queues to be worked off and then reads the totals.  Hard about it are the order of
packets of one row against each other, what a requeued packet is overtaken by,
whether both servers end up counting the same rows, and when they are finished.

What is hard about the other parts:

* **Spark computes rows twice**: a row number, a uuid and the randomness of an
  encoding are different each time, and the tasks of one job may see different
  evaluations (staging, test data);
* **files cut off**: `encode_shares` writes two files through buffers of their own and may
  stop at any byte of either; the validation program may stop while it caches;
* **commits in steps**: the output of staging replaces that of an earlier run object by object;
* **redelivery**: the broker sends a packet again when it lost the acknowledgement, to a
  server that has acted on it;
* **objects read late**: an unpickled packet is empty until somebody reads it, and
  pickling it before that pickles the empty object;
* **joins by position**: origins, configuration and aggregates have different ages and
  are matched by position only.

The complete list, each at its line, is `hazards` in `PROJECT.json`.

## 2. Modules

| module | models | role |
| --- | --- | --- |
| `RowData` | `spark/commands.py`, `spark/udf.py` | what the jobs compute, on row multiplicities |
| `Pipeline` | `bin/process`, `bin/generate` | both servers, their buckets, crashes and restarts |
| `IdealAggregation` | - | what the two servers promise, without buckets or stages |
| `PacketExchange` | `docker-asyncio/server.py`, `client.py`, parts of `prio/wrapper.py` | two message-driven servers, their queues and caches, the client |
| `AsyncioMain` | `asyncio/main.py` | the same handlers under `main`, with counted queues and joins |
| `JointSum` | - | what two servers that exchange packets promise about their sums |
| `Redelivery` | `docker-asyncio/server.py` over RabbitMQ | `PacketExchange` with packets that come again |
| `WrapperObjects` | `prio/wrapper.py`, `examples/python-wrapper`, `swig-wrapper` | the wrapper's objects under any legal order of calls |
| `CliStages` | `prio/commands.py`, `batched-processing/scripts/server.sh`, `client.sh` | the stages as commands on files |
| `EncodeFiles` | `prio/commands.py`, `encode_shares` | one input file, two output files |
| `Staging` | `origin/staging.py` | the daily job, its tasks and its commit, object by object |
| `ShareGeneration` | `spark/commands.py`, `spark/udf.py`, `bin/generate` | test data, its tasks, its mirrors |
| `OriginIndex` | `origin/origins.py`, `origin/indexing.py` | list, configuration and aggregates drifting apart |
| `BrowserValidation` | `browser-validation/main.py`, `generate.py` | runs over a day's pings, with a cache |
| `MCPipeline`, `MCPacketExchange`, `MCAsyncioMain`, `MCRedelivery`, `MCCliStages`, `MCWrapperObjects` | - | values of the constants for TLC |
| `OriginJobs` | - | `Staging` and `OriginIndex` side by side, one of them at work in each behaviour |
| `ShareFiles` | - | `ShareGeneration`, `EncodeFiles` and `BrowserValidation`, likewise |
| `MCOrigin`, `MCShareFiles` | - | values of their constants |
| `RowDataProofs` | - | lemmas about the operators of `RowData` |
| `PipelineProofs` | - | types and the inductive invariant of `Pipeline`, and what follows from it |
| `CompletenessProofs` | - | the barrier, completeness, and the refinement of `IdealAggregation` |
| `PacketProofs` | - | the inductive invariant of `PacketExchange` and its refinement of `JointSum`; the same handlers under `main`, and under redelivery |
| `CliProofs` | - | what the files of `CliStages` hold, and how they compare with the Spark jobs |
| `WrapperProofs` | - | the inductive invariant of `WrapperObjects` |
| `OriginProofs` | - | the inductive invariants of `Staging` and of `OriginIndex` |
| `ShareFileProofs` | - | those of `ShareGeneration`, `EncodeFiles` and `BrowserValidation` |

### RowData

A dataset is a function from row ids to the number of copies of the row.  What a
job does with a row depends on three facts: whether a server can decode its share
(`Decodes[s]`, decided by `set_data` in the UDFs), whether the proof verifies
(`Honest`, decided by `isValid`) and how often a three-way inner join repeats
it (`Join`).  `Verify1Rows`, `Verify2Rows` and `AggregateRows` are the jobs
of the three stages.  The aggregate share of a server is a function of the rows
handed to it, so those rows stand for it; `TotalShare` and `PublishReport`
evaluate it.  Combining two shares that do not count the same rows gives a value
that means nothing, `Garbled`.  `Report(S)` is the reference definition: the
report of a set of rows, each counted once, forged ones as errors.

Left out: field arithmetic, keys, packets (the UDFs make a fresh server and
verifier per row, so a packet is a function of the row), and the split of the
aggregation over Spark tasks (section 7).

### Pipeline

| variable | in the code |
| --- | --- |
| `raw`, `delivered` | ingest bucket `raw/shares/batch_id=*`; its `_SUCCESS` |
| `private[s][k]` | objects under `intermediate/internal/<k>` in the private bucket |
| `shared[s][k]`, `marked[s][k]` | objects under `intermediate/external/<k>` in `s`'s shared bucket, written by the peer; `_SUCCESS` there |
| `published[s][b]` | `processed/publish/batch_id=<b>` |
| `stage`, `phase` | the shell function a server is in, and where in it (`wait`: `wait_for_data`; `batches`: head of the loop; `job`: inside `spark_submit`; `mirror`: inside `rsync_delete`), or how it stopped |
| `todo`, `job`, `retries` | batches left, the batch at hand and the peer's files it listed, failed polls |
| `run` | how often the server was started |
| `dirty` | history only: a rerun touched data its peer might still read |

| action | lines of `bin/process` |
| --- | --- |
| `FindData`, `PollAgain` | 68-90: one `mc stat`; on failure count, and exit past `RETRY_LIMIT` |
| `SkipBatch` | 118-121 and its copies: the prefix the stage looks at is empty |
| `StartJob`, `RejectJob` | 122-126 and its copies: Spark opens and lists its inputs and clears the output directory (`mode="overwrite"`), or cannot open one and the process ends |
| `FinishStageJob`, `FinishPublishJob`, `FailJob` | the job's tasks read the files listed before, and commit; or a listed file is gone |
| `EndLoop` | 127-129: the loop is over |
| `CopyObject`, `RemoveObject`, `RemoveMarker` | 63: one object of `mc mirror --remove --overwrite` |
| `Mark` | 64-65, and the return into `main` |
| `RejectMirror` | 63 with a source that does not exist |
| `Deliver` | `bin/generate` 55-61 |
| `Crash`, `Restart` | the process is killed; somebody starts it again |

Notes on faithfulness.

* The directory of a batch holds the part file of the run that wrote it, and the
  `_SUCCESS` object Spark itself leaves there (`Commit`).  Part names differ from
  run to run (Spark puts a UUID in them), which is why a mirror that has not
  finished can show the parts of two runs.  A job writes one part; several parts
  of one job would be copied one by one like the objects of several batches.
* `wait_for_data` statted a marker on the *shared* bucket; `mc mirror --remove`
  deletes that marker, since it is not in the source.  When it does so relative
  to the other objects is up to `mc`, so `RemoveMarker` may come at any time, and
  the mirror is complete only when it has.
* `HasInput` looks at what the code looks at, and nothing else: the server's
  shares in verify1, the peer's output elsewhere.  `Readable` is what Spark then
  finds.
* Older versions of `mc` refuse to mirror a source that does not exist, newer ones
  do nothing: both are allowed (`RejectMirror` and `Mark`).
* The delay between polls is not modelled: a poll takes as long as it takes, so
  every timing is allowed, including a peer that is always too late.

### IdealAggregation

The abstract specification: for each batch each server publishes the report of
the rows both received and can decode; a report is withdrawn only by a server that
was started again; only an unsafe rerun can put anything else in its place.
`Pipeline` implements it under the mapping `report <- published`,
`rerun <- {s : run[s] > 1}`, `unsafe <- dirty` (`RefinesIdeal`).

### PacketExchange, AsyncioMain and JointSum

| variable | in the code |
| --- | --- |
| `queue[s]` | the queue `prio.<server_id>`; `queue_a`, `queue_b` |
| `sent[s]` | how far the client's loop has come |
| `cache[s][i]` | the entry `(v, p1, p2)`: which of `p1`, `p2` it holds; `v` is there with `p1` |
| `added[s][i]` | calls of `server.aggregate` for row `i` |
| `alive[s]` | the process, or coroutine, has not ended in an exception |
| `unfinished`, `joined` | a queue's count of unfinished tasks; its `join()` has returned |
| `main`, `output` | where `main` is; the result of `total_share_final` |

| action | lines of `server.py` (and of `main.py`) |
| --- | --- |
| `Submit` | `client.py` 31-43: A's share, then B's, row by row |
| `Requeue` | 58-67 (50-53, 58-61): an early packet goes to the end of the queue |
| `TakeData`, `DieOfData` | 68-79 (44-48): make `p1`, send it; or `create_verifier` raises |
| `TakeVerify1` | 80-90 (49-56): make `p2`, send it |
| `TakeVerify2` | 91-97 (57-67): add the row if `is_valid` |
| `ProduceRow`, `StartConsumers`, `ReadTotals` | (73-78, 100; 102-106; 108-118) |

Notes on faithfulness.

* One packet is one step.  A server handles one packet at a time (`async for`, or
  the loop of the coroutine), its handler writes to one queue once, and what it
  does to its own cache after that only its next packet sees.  In `main.py` the
  handler does not even yield: `put` on an unbounded queue does not suspend.
* The deletion of the cache entry after verify2 is undone four lines later by
  `cache[pid] = (v, p1, p2)`, so `TakeVerify2` leaves the cache alone.
* An exception is not caught in either consumer: RabbitMQ drops the packet
  (`message.process()` rejects it), `asyncio` never marks it as done.
* `join()` waits for an event that is set when the count reaches zero.  A waiter
  that was woken returns even if the count has grown since, hence `joined` stays.
* In `docker-asyncio` the client runs next to the servers; in `asyncio` it has
  finished before the consumers start, which makes the requeueing branches dead
  (`NeverEarly`).

`JointSum` knows rows held and rows counted: a server may count a row once, if its
proof verifies and both servers hold it.  `PacketExchange` implements it with
`held[s] <- {i : "p1" \in cache[s][i]}` and `sum <- added`.

### Redelivery

`Redelivery` extends `PacketExchange`: `Deliver` is the client, `Handle` a handler with the
packet it leaves unacknowledged in `unacked[s]`, and `LoseAck` the loss of that
acknowledgement.  A server acknowledges when its handler has run (`with
message.process()`, `server.py` 48), so that a packet that comes again has been acted on;
the broker puts it where it was, ahead of the packets behind it.  The redelivery is an
assumption about RabbitMQ and `connect_robust`.  A server that is started again has
an empty cache; nothing in the repository starts one again, so it is not modelled.

### WrapperObjects

`packet[<<h, k, s, i>>]` is what holder `h` has of packet `k` of server `s` for row `i`: an
instance, and bytes not read yet (`serial`, the `_serial_data` of the code).
`Dumps`, `Loads` and `Deserialize` are `__getstate__`, `__setstate__` and
`deserialize`; `CreateVerifier` to `AggregateRow`, `TotalShares` and `Final` are the
methods of `Server`, `Verifier` and `TotalShare`.  `CarefulRepickle` is pickling as the
programs of the repository do it: only what has been made or read.

### CliStages

| variable | in the code |
| --- | --- |
| `raw[s][f]`, `delivered` | share file `f` in `raw/`; whether its `_SUCCESS` is there |
| `out[s][k][f]` | the file stage `k` wrote of it |
| `bucket[s][k]`, `marked[s][k]` | the files of stage `k` sent to the bucket of `s`, and their `_SUCCESS`: the peer's, and its own histograms |
| `local[s][k]` | the copies on the disk of `s` |
| `stage`, `phase`, `todo` | the section of `server.sh`, where in it, the files left in its loop |

`Deliver` is the end of `client.sh`, which copies the markers after all share files (61-66).
`Fetch` is `fetch_input_blocked` and the listing after it, `GiveUp` the end of
`poll_for_data`, `RunCommand` and `FailCommand` one command of the loop, `EndLoop` the end of
the loop, `SendFile` one object of `mc cp --recursive`, and `Mark` the upload of
`_SUCCESS` (`server.sh` 37-208).  Every stage begins with a poll, verify1 with one for the client's
marker, and ends with sending: to the peer, or after publish to the server's own bucket (`Target`).
What a command does is `Verify1`, `Verify2`,
`Aggregate` and `Publish` (`prio/commands.py` 103-376).  They differ from the Spark jobs: a
command indexes the packets by id and walks through the share file, so a line that repeats
a row is counted again, where the join would multiply it; and a file of packets without a line is
read like any other, where Spark finds no column to select and fails (`SparkReads`).  `AgreesWithSpark` says
when the two agree and when they do not.

All rows of a file go through one verifier and one pair of packets (`prio/commands.py` 222-237).  Each row
loads all that it uses before it uses it, and is modelled so: that a row could see what was left
of the one before is outside the model.

### EncodeFiles

`OpenA`, `OpenB` and `NoDirectoryB` open the outputs one after the other;
`EncodeRow` puts a line into each `buffer`; `Spill(o)` empties part of one of the
buffers into its file, up to any byte: some whole lines, and perhaps part of the next (`torn[o]`), whose rest stays
in the buffer.  `Finish` and `Raise` leave the `with` statement, which flushes
both, and `Kill` does not, so that a torn line stays (`prio/commands.py` 63-100).

### Staging

`messages` counts the deliveries of each ping, `id` holds the row numbers as last
computed, `task` the range of ids each fell into.  `Arrive` is a ping; `Run` reads the
day, drops duplicates, and fails if there is nothing to size; `WriteTask` writes the
lines of one task for both servers; `Recompute` is Spark evaluating the rows again for
the tasks still to run.  The commit (`load`, 149-152, with `partitionOverwriteMode=dynamic`, 185) takes one directory after
the other (`commit`): `Delete` removes what is there, all at once or an object or more at a time, and `Move` puts one
staged file after the other in its place.  `Crash` kills the job anywhere, with a directory half deleted or half
filled; the next `Run` finds it so, `Finish` ends the job.
That Spark may compute rows again, and how it commits, are
assumptions about Spark.

Each entry is taken to have a share for each server: `explode("prio")` (143) would make one line of an entry whose
map lacks a key, and the keys of the servers would then differ.

### ShareGeneration

`Start` evaluates the rows of `generate` or `generate_integration` and removes the old
output (`Emptied`); `WriteTask` writes one task, `Recompute` evaluates any of the rows again, and `Crash` kills
the job; `MirrorBatch` and `Mark` are
`bin/generate` 23-31 and 54-61, server A before server B.  Each evaluation of a row
draws a new id (`Uuid`), and with it the shares, of which nothing else is modelled.  The last row of each batch is
encoded like the others, under a configuration with an entry more (`spark/commands.py` 163, `udf.py` 23-27): it is the server that cannot
decode it, as a row outside `Decodes` in `Pipeline`.  `SparkEncodeShares` is the command
`encode-shares` of the Spark package, which fails before it writes: the row it
looks at has no `shares`, and `n_rows`, `scale` and `partition_size_mb` are not defined
(`spark/commands.py` 229-236).

### OriginIndex

The list of origins is any of `Lists`, the size of a full part any of `Cuts`, the configuration any of `Configs`: none
of them is tied to what it was before.  `FetchOrigins` is `origins.py` on the list as it is that day; `Configure`
an edit of the configuration; `Publish` an aggregate of one part,
from clients of one version, which were built with the list of some day and cut it in their own way.  An aggregate is published
only for a part that is configured with the clients' size, because submissions of another size are not decoded.
`Index`, `FailIndex` and `RejectIndex` are the job of `indexing.py`: complete; with a part it raises for (58-74), when the old
output is gone already; or without origins or aggregates, when it is not.  `read` remembers, for the properties,
what the output was made of.  `Listed` takes the lines it keeps by position (`At`) instead of
filtering a sequence, so that it can be reasoned about; TLC compares the two on every list
within its bounds (`ListedFilters` in `MCOrigin`).

### BrowserValidation

`Upload` adds a ping of the day, `Generate` writes the test file; `Run` chooses its source
(`--pings`, the cache, the bucket), `FinishCache` completes the cache file,
`AggregateGroup` and `FailGroup` are `prio_aggregate` on one build, `Crash` a kill.

## 3. Properties

*Safe* and *unsafe* reruns.  A server that is started again overwrites the
directories its peer reads.  `dirty` records that it did so while a marker it
had set was still there and its peer had not finished (`Unsafe`).  Most
properties of the pipeline are about executions without that; the finding `stale` is
about what happens with it.

| property | what it says |
| --- | --- |
| `TypeOK` | types; the poll counter never passes `RETRY_LIMIT + 1`, and past the limit only in a server that gave up |
| `ExactReports` | every published record counts the rows both servers hold and can decode, once each, forged ones as errors |
| `DoneHasEverything` | a server that finished has published every batch that has such rows, and there was no batch with rows but none in common |
| `AbortOnlyOnBadInput` | a server fails only because of its input, never because of an interleaving or an earlier crash |
| `Lockstep` | in their first runs the servers are never more than one stage apart |
| `StableInput` | what a stage reads of its peer does not change while it runs |
| `OnlyJointRows` | even after unsafe reruns an aggregate never holds a row that one server lacks or cannot decode |
| `RefinesIdeal` | the pipeline implements `IdealAggregation` |
| `Termination` | both servers stop for good |
| `ExactInv` | the inductive invariant behind `ExactReports` (section 5) |
| `Verify2InOrder` | a verify2 packet is queued only at a server that has its own `p2`, or behind the verify1 that makes it |
| `NothingLost` | a valid row both servers decoded always has the packet under way that makes a server count it |
| `ExchangeInv` | the inductive invariant behind both, and behind the refinement |
| `RefinesJointSum` | the packet exchange implements `JointSum` |
| `RowsSettle` | each row whose two shares were published is settled for good, wherever the client stops, unless a server ended |
| `MainTypeOK` | types; the count of unfinished tasks is the length of the queue, plus the packet a consumer died of |
| `NeverEarly` | in `asyncio`, a running consumer never finds an early packet |
| `MainReturns` | and `main` does not wait for ever |
| `ExcessBounded` | each lost acknowledgement makes the totals exceed the exact ones by at most one |
| `OnlyJointValid` | no repetition makes a server count a forged row, or one its peer has not decoded |
| `RowsSettleAgain` | whatever comes again, each row with both shares is counted in the end, and none of its packets goes round for ever |
| `ExactHistogram` | a histogram of the CLI counts each line of a valid joint row; where the servers hold it unequally often it means nothing |
| `CountersReconcile` | the error counters, each against a share file of its own, leave the same number of lines at both servers |
| `AgreesWithSpark` | without a joint row the Spark jobs fail where the CLI publishes zeros; otherwise they agree on whether the shares fit, and on the histogram when no row is repeated |
| `StopsInOrder` | both scripts stop, and one fails only for want of a file its peer never had |
| `Serializable` | objects keep what they stand for, however they travel |
| `VerdictsRight`, `OutputRight` | `is_valid` tells forged rows from others at both servers, and the output counts the valid ones once |
| `Matched` | after a run of staging the servers hold, under one key, shares of one submission, even if rows were computed twice |
| `KeysComplete` | both servers have the keys 1, 2, ... without a gap |
| `EachOnce` | unless rows were computed twice, each submission is there once, however often its ping came |
| `NoKeyTwice` | no directory ever has two lines under one key: not during the commit, not after a crash in it, not after the next run |
| `NeverSwapped` | one origin's count is never reported as another's, if the list has only grown at its end since (or before) the clients were built, and the first part is configured with the clients' size |
| `NothingDropped` | and no count is lost either, if the list is not shorter than the clients' |
| `EachRowOnce` | a generator whose rows were evaluated once leaves each of them once, whatever was in the directories and buckets before |
| `SameRows` | when `bin/generate` ends, both buckets hold the same rows, of the last job only |
| `OneIsPrefix` | wherever `encode_shares` stops, the whole lines of one output are the first whole lines of the other |
| `EncodesSameRows` | unless it is killed, both outputs have the same rows and no torn line: all, or those before the first it cannot encode |
| `DiffExplained` | a difference between clear and aggregated sums is that of the rejected pings, which the counters count |
| `ReportOfDay` | a validation report is about the pings asked for, or the one whole cache file of the date |

Each has a mutant in `PROJECT.json`: a plausible bug in the code (marking before
the mirror is done, mirroring without `--remove`, waiting for the wrong marker,
ignoring `isValid`, not swapping the shares, a left join, a counter that is not
incremented or compared off by one, a packet dropped or sent to the wrong queue, a
queue that is not first in first out, a missing `task_done`, a cache entry that stays
deleted, only one of two packet indexes looked at, an unread object pickled, rows cut
into tasks after they were split by server, duplicates dropped after `explode` instead of before, a wrong offset,
a directory that is not emptied first, an output that is not flushed) under which TLC finds the property violated.

## 4. Runs

The runs of `Pipeline` use three rows, `good`, `forged` (both servers decode it, its
proof fails) and `lost` (its proof is fine, B cannot decode its share), so that each
way a row can fail has a representative; in a dataset of multiplicities more rows
of a kind only repeat it.  The runs of `CliStages`, `PacketExchange` and `Redelivery`
use the same rows.

| run | bounds | states | checks | result |
| --- | --- | --- | --- | --- |
| `inputs` | 2 batches: all 64 inputs of one with the other absent, and three kinds of incomplete second batch; 2 polls, 1 run each | 144,000 | `TypeOK`, `DoneHasEverything`, `AbortOnlyOnBadInput`, `Lockstep`, `ExactReports`, `Termination` | holds |
| `reruns` | 1 batch, all rows, 1 poll, 2 runs each | 654,000 | `OnlyJointRows`, `ExactInv`, `StableInput`, `RefinesIdeal` | holds |
| `exchange` | 3 rows | 7,100 | `Verify2InOrder`, `NothingLost`, `ExchangeInv`, `RefinesJointSum`, `RowsSettle` | holds |
| `joins` | 3 rows, all good | 990 | `MainTypeOK`, `NeverEarly`, `MainReturns` | holds |
| `redelivery` | 3 rows, 1 lost acknowledgement | 141,000 | `ExcessBounded`, `OnlyJointValid`, `RowsSettleAgain` | holds |
| `cli` | 2 files: one with each row 0 to 2 times at either server and no second, and a second that is equal, unequal or missing | 194,000 | `ExactHistogram`, `CountersReconcile`, `AgreesWithSpark`, `StopsInOrder` | holds |
| `wrapper` | 2 rows, one forged, 2 pickles | 97,000 | `Serializable`, `VerdictsRight`, `OutputRight` | holds |
| `origin` | staging: 2 pings with 3 entries in 2 batches, each delivered twice, 2 tasks, 2 runs; indexing: 4 lists, parts of 2 or 3, 7 configurations, 2 aggregates | 897,000 | `Matched`, `KeysComplete`, `EachOnce`, `NoKeyTwice`, `NeverSwapped`, `NothingDropped` | holds |
| `sharefiles` | generation: 2 configured batches, 1 dropped, 2 rows, scale 2, 2 tasks, 3 evaluations; encoding: 3 rows, 2 runs; validation: 6 pings, 2 prefixes, 2 runs | 2,594,000 | `EachRowOnce`, `SameRows`, `OneIsPrefix`, `EncodesSameRows`, `DiffExplained`, `ReportOfDay` | holds |
| `stale` | as `reruns` | | `CompletedBatches` | violated |
| `onesided` | 2 batches, the second at A only | | `MissingBatchIsSkipped` | violated |
| `output` | 2 rows | | `OutputExpected` | violated |

Bounds.  `RetryLimit` is 0 or 1: the counter is compared with one number, and one
poll below it and one at it are the interesting cases.  `MaxRuns` is 2: a server is in
its first run, over empty buckets, or in a later one, over leftovers; a third run
meets the leftovers of a second, which are of the same kind.  Two batches suffice for
skipping one while processing the other; which is processed first is left open
(`todo` is a set).  Servers stop for good, so deadlock is not checked; that none
stops for a bad reason is `AbortOnlyOnBadInput` and `Termination`.

The packet exchange has no bound but its rows: a row causes six packets, and the
queues hold each at most once.  Two rows can overtake each other; the third is the
forged or the undecodable one.  A client may stop before the row that ends server B,
so that `RowsSettle` is about servers that live too.  With one lost acknowledgement,
each of the six packets of each row comes again in some behaviour.

In `cli`, two copies of a row tell a join from an index, and two files tell a script that
goes on from one that stops.  In `wrapper`, two pickles are enough for an object that is
pickled again before it was read.  Two tasks are enough for rows of one job that were
computed at different times, two runs for the output of one over that of
another; three evaluations leave one for a run and two for the next.  The lists of
`origin` are one of three origins, the same with a fourth at its end and a comment, the same with another in the middle, and one without
any, in any order: the list grows, shrinks and shifts.  The configurations fit some of the clients, have a wrong size for the first part, lack it, or have
a part too many; with parts of two or three positions the list grows from the first part into the second, and an aggregate of one
cut meets the offset of the other.

`origin` and `sharefiles` hold programs that run by themselves and share no data; a
variable `program` says which one a behaviour is about, so that their states add up
instead of multiplying.

Fairness.  `FairSpec` of `Pipeline`: each server's own steps are weakly fair, because a running
process is scheduled and its polls are bounded.  Nothing obliges the ingest data to
arrive, a process to crash, or anyone to restart one.  `CliStages`: likewise, the scripts run on.
In `PacketExchange` a running server goes on consuming (its loop only ever
waits for the next packet), and nothing obliges the client, which may stop
between the two shares of a row; the verify1 packet of such a row then circulates for ever
among the others, which settle all the same.  In `Redelivery` a server goes on
handling what is delivered, losses are bounded, and none has to happen.  In `AsyncioMain` the event
loop runs `main` and both consumers, whose random sleeps are below a second.

Deadlock is not checked in any run: every program here stops, in the end, or waits for input
that nobody has to send.

### What the violated runs show

* **stale**.  `wait_for_data` takes the appearance of `_SUCCESS` for a completed
  batch (`bin/process` 69-70).  On a rerun `_SUCCESS` has been there all along.
  TLC's trace: A finishes verify1 and marks it; A is killed and started again
  and mirrors its new output; B polls before the old marker is deleted, and reads a
  batch with no part yet, or with the parts of both runs.
* **onesided**.  verify1 looks for the server's own shares of a batch; the later
  stages look for the peer's output.  A server without the shares skips the batch in
  verify1, finds the peer's output in verify2, submits a job whose `--input` does not
  exist, and ends - before any batch is aggregated.  Missing batches are
  expected (`bin/generate` 39) as long as they are missing at both servers.
* **output**.  `main.py` asserts that the output counts every client (116).  The join
  of a queue returns once that queue has been empty, even when the consumer of the
  other is about to put packets into it.  TLC's trace: A handles its two shares
  before B answers any, which empties A's queue; B then handles everything in its
  own, the last packet being A's verify1; both joins have returned, four packets
  are in A's queue, and the totals that are read count no row.

Five smaller disagreements need no run of their own.  `index-origins` says that it maps "the indices to their original origins"
(`indexing.py` 108); it does so under the two conditions of `NeverSwapped`, does not check either, and without one of
them reports counts under other origins.  The guide (470-471) says the processor clears the
buckets when it is done; `main` of `bin/process` does not, and nothing calls
`bin/cleanup`.  `prio-spark encode-shares` cannot run (`spark/commands.py` 227-236).
`--groupby` of the validation program takes "comma-delimited" keys (`main.py` 132)
and splits them at white space (178).  An unpickled packet that is pickled before it is
read becomes an empty one (`wrapper.py` 200-205): `Serializable` holds because no program
of the repository does that, and fails in the mutant that does.

## 5. Proofs

Every invariant, every action property and both refinements that the passing runs check are
also proved by TLAPS, for every finite set of rows, pings and submissions, every set of batches and files,
every set of inputs, of lists and configurations, files of any length, and every number of polls, runs, tasks, evaluations,
pickles and lost acknowledgements:

| theorem | module | statement |
| --- | --- | --- |
| `TypeCorrect` | `PipelineProofs` | `Spec => []TypeOK` |
| `Inductive` | `PipelineProofs` | `Spec => []ExactInv` |
| `Exactness` | `PipelineProofs` | `Spec => []ExactReports` |
| `Stability` | `PipelineProofs` | `Spec => StableInput` |
| `Barrier` | `CompletenessProofs` | `Spec => []Lockstep` |
| `JointRows` | `CompletenessProofs` | `Spec => []OnlyJointRows` |
| `CompleteInductive` | `CompletenessProofs` | `Spec => []CompleteInv` |
| `NothingSkipped` | `CompletenessProofs` | `Spec => []DoneHasEverything` |
| `NoFalseAborts` | `CompletenessProofs` | `Spec => []AbortOnlyOnBadInput` |
| `ImplementsIdeal` | `CompletenessProofs` | `Spec => RefinesIdeal` |
| `PacketTypeCorrect` | `PacketProofs` | `Spec => []TypeOK` of `PacketExchange` |
| `ExchangeInductive` | `PacketProofs` | `Spec => []ExchangeInv` |
| `InOrder` | `PacketProofs` | `Spec => []Verify2InOrder` |
| `Lossless` | `PacketProofs` | `Spec => []NothingLost` |
| `ImplementsJointSum` | `PacketProofs` | `Spec => RefinesJointSum` |
| `CountersCount` | `PacketProofs` | `MainSpec => []MainTypeOK` |
| `NothingPutBack` | `PacketProofs` | `MainSpec => []NeverEarly` |
| `FilesDetermined` | `CliProofs` | `Spec => [](TypeOK /\ FilesExact /\ FilesFollow)` |
| `HistogramsExact` | `CliProofs` | `Spec => []ExactHistogram` |
| `CountersFit` | `CliProofs` | `Spec => []CountersReconcile` |
| `RedeliveryInvariant` | `PacketProofs` | `RSpec => []RedeliveryInv` |
| `RepeatsAreValid` | `PacketProofs` | `RSpec => []OnlyJointValid` |
| `RepeatsAreBounded` | `PacketProofs` | `RSpec => []ExcessBounded` |
| `ImplementationsAgree` | `CliProofs` | `Spec => []AgreesWithSpark` |
| `ScriptsProgress` | `CliProofs` | `Spec => []ProgressInv` |
| `FailuresAreForWant` | `CliProofs` | `Spec => []FailedForWant` |
| `ScriptsPublishAll` | `CliProofs` | `Spec => []DonePublished` |
| `WrapperInvariant` | `WrapperProofs` | `Spec => []WrapperInv` |
| `PicklesKeep` | `WrapperProofs` | `Spec => []Serializable` |
| `VerdictsTellForged` | `WrapperProofs` | `Spec => []VerdictsRight` |
| `OutputCounts` | `WrapperProofs` | `Spec => []OutputRight` |
| `StagingInvariant` | `OriginProofs` | `OriginSpec => []StagingInv` |
| `StagedSharesMatch` | `OriginProofs` | `OriginSpec => []Matched` |
| `StagedKeysAreComplete` | `OriginProofs` | `OriginSpec => []KeysComplete` |
| `StagedOnce` | `OriginProofs` | `OriginSpec => []EachOnce` |
| `KeysAreUnique` | `OriginProofs` | `OriginSpec => []NoKeyTwice` |
| `IndexInvariant` | `OriginProofs` | `OriginSpec => []IndexInv` |
| `CountsStayWithOrigins` | `OriginProofs` | `OriginSpec => []NeverSwapped` |
| `NoCountIsDropped` | `OriginProofs` | `OriginSpec => []NothingDropped` |
| `GenerationInvariant` | `ShareFileProofs` | `FilesSpec => []GenerationInv` |
| `JobsWriteEachRowOnce` | `ShareFileProofs` | `FilesSpec => []EachRowOnce` |
| `BucketsHaveSameRows` | `ShareFileProofs` | `FilesSpec => []SameRows` |
| `EncodingInvariant` | `ShareFileProofs` | `FilesSpec => []EncodingInv` |
| `FilesFit` | `ShareFileProofs` | `FilesSpec => []OneIsPrefix` |
| `FilesHaveSameRows` | `ShareFileProofs` | `FilesSpec => []EncodesSameRows` |
| `ValidationInvariant` | `ShareFileProofs` | `FilesSpec => []ValidationInv` |
| `DifferencesAreExplained` | `ShareFileProofs` | `FilesSpec => []DiffExplained` |
| `ReportsAreOfTheDay` | `ShareFileProofs` | `FilesSpec => []ReportOfDay` |

Assumptions, named in the modules that declare the constants and evaluated by TLC in every run:

* the two servers differ, `Ids` is finite, `Decodes`, `Honest` and `Inputs` have their
  types, and the bounds are numbers, positive where the code needs one of something
  (`BoundsType`, `LossesAreNat`, `CopiesAreNat`, `TasksArePositive`, `CutsArePositive`);
* what stands for "nothing", "unusable" or "unknown" is no row, list, file, content, packet or
  number (`NoneIsNoContent`, `GarbledNotRows`, `NoneIsNothing`, `NothingIsNoPacket`, `NoneIsNoCache`,
  `NoneIsNoList`, `UnknownIsNoOrigin`, `OddIsNoPart`);
* indexing: a list is of origins and comments, a configuration of parts and their sizes (`ListsOfLines`, `ConfigsOfParts`);
* staging: an entry belongs to one ping, and there are finitely many (`EntriesAreOfPings`, `EntriesAreFinite`);
* test data: there is a row to generate (`SomeRows`, the code's own `assert n_rows > 0`);
* validation: finitely many pings, each as the schema of the ping says, and builds that are numbers
  (`PingsType`, `PingsAreFinite`, `BuildsAreNumbers`).

The argument for the pipeline.  `ExactReports` is not inductive: that a record is exact depends on
what publish read, hence on what the peer's aggregate directory held when the marker was
seen, hence on everything before.  `ExactInv` adds

* `SingleParts`: a private directory holds at most one part per batch (a job clears
  its output first), and a job that runs has found rows in both inputs;
* `Faithful`: for each stage a server has marked *in this run*, the peer's copy
  equals the private directory and the marker is there.  This is where
  `MirrorComplete` is used;
* `Trust`: a marker that an unfinished server can see belongs to a stage its peer is
  past; a server that reads does so under such a marker; and the job it runs has
  listed exactly the parts that are there.  Only an unsafe rerun breaks it;
* `ExactParts`: every part has the rows of its stage: the decodable ones after
  verify1, the joint ones after verify2 and aggregate.

The proof is by cases over groups of actions: those that touch no bucket (`Quiet`),
those that write the output of the current stage (`Output`; by `Trust` nobody reads
it), `Mark`, and `Restart`.  Finite sets enter once: reading a directory with one part
yields the rows of that part (`LoadSingleton`), and joining sets without duplicates
is intersection (`JoinRowSet`).

`DoneHasEverything` and `AbortOnlyOnBadInput` are about what is *there*, where `ExactInv` is
about what it holds.  `CompleteInv` adds to it that a directory exists only where the
input has rows for it (`Supported`), that a stage a server is past has left a directory for every batch it
should have (`Complete`), and that a failed server has an excuse in its input (`Excused`), all three unless an
unsafe rerun came between.  `Lockstep` has an invariant of its own, `LockInv`, about
markers and stages only.  The refinement maps each step to a step of `IdealAggregation` or a stutter;
with the invariants, `FinishPublishJob` is the step that publishes, `StartJob`
of publish the one that withdraws, and all others leave the mapping alone.

The argument for the packet exchange.  That a row is counted at most once depends on
how often verify2 can be in a queue, which depends on how often verify1 could be, and so
on back to the share.  `ExchangeInv` says it for each type of packet: `DataOnce`,
`Verify1Once` and `Verify2Once` relate the packets in one server's queue to what its
peer's cache holds (from what the packet was made) and to what its own holds (whether it
has been used), and `QueueOrder` says that no packet is queued twice and verify1 stays
ahead of verify2 of the same row.  Requeueing moves a packet behind all others; it keeps
`QueueOrder` because a verify1 packet is early only while the server has no `p1`, and
then its peer has no `p2` and no verify2 is queued.  Two lemmas on sequences
(`TakeFirst`, `PutLast`) turn `Head`, `Tail` and `Append` into statements about which
packets a queue contains; after them the proof, one lemma per action, no longer mentions
positions.

Under `main` the same lemmas serve: the client has finished before a consumer
starts (`AllProduced`), so the share of a row is queued or has been taken
(`SharesTaken`) and comes before the packets made from it (`SharesFirst`); hence no packet is early.

With redelivery a queue may hold a packet twice, and the order of packets says nothing any more;
`RedeliveryInv` is about numbers of packets.  `MadeFrom` says from what a packet was made that is
queued, or handled and not acknowledged: the caches only grow, so this stays true
however often it comes, and a server that counts a row has its own `p2`, which it made with its peer's `p1`
(`OnlyJointValid`).  `Ways` is how often a server can still count a row: it adds up
what it has counted, the verify2 packets in its queue, the verify1 packets at its peer that a verify2 will be
made from, its own share from which that verify1 is made, and the share the client has not sent.
Handling a packet moves one way along, a lost acknowledgement opens one.
`Charged` says that the ways beyond the first, of every server and row, can be paid for by
lost acknowledgements, each charged to one row of one server (`credit`); so the rows counted
beyond the first time are no more than the losses (`ExcessBounded`).

The files of `CliStages` need no order of events at all: `FilesExact` says that every copy of
every file is a function of the share files (`Yield`), which is inductive with types and
`FilesFollow`; the histogram and the counters are arithmetic on it (sums over
rows, from `RowDataProofs`).  `AgreesWithSpark` needs no invariant beyond that one, but the multiplicities of the Spark
jobs: in two joins a joint row that a server holds `n` times and its peer `m` times comes to
`n^4 * m^3` copies at the one and `m^4 * n^3` at the other (`SparkRows`), equal if and only if `n = m` (`SpreadCompares`).

When the scripts end does depend on order.  `ProgressInv` says that the stages a server is past have
a file for each of its share files (`WrittenWhole`, `StillToDo`), that the files next to a marker are all of the peer's (`SentWhole`), and
hence those that were fetched (`FetchedWhole`).  A command thus misses a file only if the peer never had it
(`FailedForWant`, the safety part of `StopsInOrder`), and a script at its end has published all (`DonePublished`).

`WrapperInv` says of each packet and each total that what it stands for, read or not,
is what it was made with (`PacketsKeep`, `TotalsKeep`), that only honest rows were added, and that a
server whose total was collected had added them all.

`StagingInv`: numbers and ranges are always some numbering and some ranges of the rows of the day
(`Numbered`), computed again or not.  `KeysWritten` says which *keys* were written, those of the tasks that have run, and is
what survives a recomputation; `WrittenMatched` that both servers have one submission under a key, since one
task writes both lines; `WrittenOnce` which *submissions* were written, as long as nothing was recomputed.
`Moved` follows the commit: while a directory is filled it holds part of what the tasks have written, afterwards all of it
(`Committed`).  `NoKeyTwice` is part of the invariant because it must survive every step of the commit: what is left
of an old directory is a subset of one without repeated keys, and no staged file comes in before all of it is gone.

`IndexInv`: the fetched file is the numbering of the lines it was made of (`FetchedList`), an aggregate is one part of the
list of its clients (`Counted`), and the output is exactly the join by position of the file and the aggregates that the last complete job
read, from the configured start of a part to the end of the shorter of the two (`Joined`).  Nothing in it relates one list or configuration to
another.  `NeverSwapped` and `NothingDropped` then are about two positions: a row joins position `j` of the
clients' list, as they cut it, with position `j` as the job cuts it, and the conditions (`OffsetFits`, `Agree`) say that
these are one position of lists that agree there.

`GenerationInv`: both lines of a row are written by one task of one evaluation, so the two directories are equal at any
time (`SameFiles`), and each bucket of a finished script mirrors them (`Mirrored`).  As long as no row was evaluated again the
directories hold just the rows of the tasks that have written (`Written`), which gives `EachRowOnce`: nothing of an earlier job is left, and
every row fell into the range of one task.  `EncodingInv`: each file holds the whole lines of the first rows of this run
(`Streamed`) and its buffer those that follow (`Buffered`), apart from the time before the second file is opened, when it
may be that of an earlier run beside an empty first one (`OtherRun`).  `ValidationInv`: the input of a run are pings of
the date, of the prefix asked for or of a whole cache file (`InputOfRun`), and a row of the report sums up the pings of
its build (`Reported`); that the differences are those of the rejected pings is then counting.

Only model-checked: `Termination`, `RowsSettle`, `RowsSettleAgain`, `MainReturns` and
`StopsInOrder`, which are liveness under fairness and outside the prover's reach.

## 6. What would come next

1. **Polling with time**: data is found if it arrives within
   `delay * (2^limit - 1)`, and the last sleep is never followed by a look.
2. **PartitionedAggregate**: `aggregate` as grouped tasks and `total_share` as their
   merge.
3. Servers that are started again with an empty cache, should a deployment ever do so.

## 7. Not modelled

* The split of `aggregate` over Spark tasks: a partial share is a sum made by a new server, addition is
  commutative, and a task that runs again starts anew, so the split cannot show.
* Key generation, options of the command lines, and the command group of the origin package: no state.
* `bin/insert`, `bin/dataproc`, `bin/authenticate`, `bin/cleanup`, the configuration scripts,
  deployments, benchmarks and notebooks: I/O, measurements and plots without state of their own.
* The cryptography is external: which shares decode and which proofs verify are parameters.
* Access control of the buckets.
