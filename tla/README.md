# Printable: specifications of the server's state machines

TLA+ specifications of the parts of Printable whose correctness depends on the
order in which things happen: several tasks that share state, a server that may
stop at any moment, writes and external programs that may fail. They are
translated from the Rust sources under `src/crates` (paths below are relative
to `src/`; `jobs.rs` is `crates/printable-server/src/jobs.rs`, `client.rs` is
`crates/printable-blender/src/client.rs`, other names without a directory are in
`crates/printable-server/src`). `PROJECT.json` maps every definition to its lines
and lists components, runs, mutants, hazards and theorems.

Contents: [the system](#the-system) · [the modules](#the-modules) ·
[runs](#what-the-runs-check) · [findings](#where-code-and-documents-disagree) ·
[proofs](#what-is-proved) · [limits](#what-is-not-modelled) · [next](#what-comes-next)

## The system

The server speaks MCP over HTTP and turns requests into work for Blender, native
geometry programs, OpenSCAD, CAD, slicing and reconstruction workers, and a
printer service. One process, tokio tasks, one workspace directory on disk.

| Component | State it keeps | Operations | Hard behaviour | What makes it correct |
|---|---|---|---|---|
| **Render jobs** (`jobs.rs`) | registry of jobs in memory; a record per job, an index and a copied source on disk; a queue; a cancellation token per job | submit, cancel, run, recover | one worker, detached staging tasks and any number of cancelling requests write the same records; every write may fail; the server may stop between any two steps | records never move backwards; a queued job is always scheduled; a success is complete and was not reported cancelled; a restart can read what is on disk; everything ends |
| **Blender lane** (`client.rs`) | a mutex and a recovery fence for each endpoint; the bridge instance of a transaction | send, transaction, recovery transaction, readiness probe | waiting with a deadline; the fence is looked at before and after waiting; one retry of a failed connection | no command runs on a scene that is not its user's; a command is never delivered twice |
| **Workspace** (`crates/printable-workspace`) | files below one root, published by rename or link; a storage budget and scratch leases | write, commit, snapshot, reserve, clean up | a rename may succeed and be reported as an error; several processes spend one budget | a reader never sees half a file; the budget is never exceeded |
| **Uploads** (`upload.rs`) | at most eight uploads with their written length and last activity | begin, chunk, commit, expire | a chunk against a commit against the expiry; a partly appended chunk | the committed file is the acknowledged chunks, in order |
| **Published files, ingestion** (`file_transfer.rs`, `file_ingest.rs`) | published snapshots, one-use grants, receipts, expiry times | publish, authorise, download, ingest, reap | a grant used twice; expiry during a stream | a grant is used once and never outlives its file |
| **Request admission** (`admission.rs`) | four semaphores | body, request, subscription | saturation | control requests are still admitted when work is saturated |
| **Photo jobs** (`recon/photo_jobs.rs`, `recon.rs`) | job records, phases, one GPU lane | submit, enter a phase, finish, cancel, initialise | a failed write while publishing; a restart in the middle | an uncertain publication is reported as such and never replayed |
| **CAD and slicer workers** (`cad.rs`, `slicing/mod.rs`) | one permit, retained state of each request | prepare, execute, status, cancel | cancellation against completion; restart | one native process at a time; unfinished work is reported as interrupted |
| **Printer delivery** (`printers/*`) | intents and receipts as provenance records | begin, mutate, accept, observe | a stop between intent and answer | no external change without a stored intent |
| **Project revisions** (`projects/revisions.rs`) | manifests and a head per project | revise, read | two revisions of one parent; a stop between manifest and head | exactly one successor; the head is always readable |
| **Others** | — | MCP surface, configuration, health, geometry, imaging, OpenSCAD, model-library clients, the Blender add-on, Python workers, packaging | little shared state, floating-point algorithms, or code outside the server | — |

How they interact: every tool call passes admission and then calls a component.
Render jobs use the lane (the render worker's, or in the earlier mode the live
one with the fence), and publish through the workspace, which reserves storage.
Uploads, files, CAD, slicer and photo jobs publish through the workspace as well.
Printer delivery and revisions store provenance records.

Modelled are, in the order of what depends on them: the render jobs (the most
concurrency, the only state that must survive every crash together with an
external program that survives it too, and the longest list of promises in
`DECISIONS.md`), the storage that everything is published through with the
uploads as its most intricate user, the ingestion of files, the photograph jobs, the printer requests
with their evidence, and the revisions of a project. They share the workspace
and little else, so that each is checked by itself: what another component does
to it is a file that is edited (`PrintDelivery`, `Revisions`), a budget that is
spent (`Uploads` and the native worker of `ScratchStorage`), or a write that
fails.

## The modules

### `JobRecords`, `JobLedger`

`JobRecords` is the durable record of a job as far as scheduling depends on it,
and `Follows`, the order in which records of one job may succeed each other.
`JobLedger` is the abstract specification: what the files on disk promise to a
reader, whoever writes them and whenever the server stops. Its steps are
`Admit` (a record appears), `Save` (a `Successor` replaces it: a job never waits
again, frames are counted one by one while it runs, a success needs all frames
and no requested cancellation), and `Recover` (a restart requeues, ends or fails
unfinished jobs and leaves ended ones alone).

### `RenderJobs`: jobs in a separate render worker

The mode of every new job. Processes and the functions they stand for:

| Process | Code | Actions |
|---|---|---|
| worker | `job_worker`, `run_isolated_job`, `run_blender_frames`, `finish_after_blender`, `encode_video`, `complete_job`, `mark_cancelled`, `fail_job` | `Receive` … `Release` |
| stager | `stage_submission` and the detached `stage_admitted_submission`, `stage_admitted_job`; it owns the admission lock throughout | `Submit`, `Register` … `StagerReleases` |
| clients | `cancel` | `Cancel`, `CancelToken`, `CancelCopies`, `CancelWrites`, `CancelEnds` |
| the machine | `recover_state`, `new_with_render_worker` | `Restart` |

State in memory: `mem` and `order` (`RegistryState`), `queue`, `token`
(`cancellations`), `lock` (`persistence`) with `image`, the copy its owner is
writing, `blocked` (`recovery_integrity`). State on disk: `record`, `index`
(with `indexed`), `source`. `restarts`, `accepted` and `acked` only remember
what the environment has seen.

Atomicity follows the code's locks. What happens under the state lock is one
step. A write of a record is two: under the persistence lock the record is
copied out of memory, later the copy reaches the disk and the lock is free. The
blocking task that writes carries the lock, so that a dropped request does not
free it early. Between the two steps everybody else may move on. Each write ends
in one of three ways (`WriteOutcome`): done; refused with nothing changed; or
renamed but reported as an error, because the directory could not be
synchronised after the rename (`workspace.rs:348`). A restart keeps the disk,
including writes whose result nobody heard, and forgets the rest; each record
that recovery rewrites may fail to reach the disk.

Frames, not phases, are kept of a job's progress. Loading the source, checking
the worker's role, preparing motion and framing, rendering and encoding each
either work or fail, without a bound on the failures; `MaxFaults` bounds only
the failures of writes.

### `SessionRecovery`: jobs of the live session

A server without a render worker still finishes jobs that an earlier version
left (`JobExecution::LegacySession`). They render in the live Blender: the
worker saves the session to a checkpoint, loads the job's source over it,
renders, restores the checkpoint, and only then encodes. The module has the
worker, cancelling clients, users of the live Blender, and restarts with any
queue depth up to the configured one.

`scene` stands for what the live Blender holds: the number of the users' edits
in it, or `None` for the scene of a job. Blender is a process of its own:
`Restart` leaves `scene` alone. `lane` is the endpoint's lock, taken by
`recovery_transaction` and by ordinary commands, `fence` its recovery fence.
A command of Blender is one step, and a failed one may or may not have had its
effect. The two retries without a limit (of an outcome, of the restored marker)
are loops of the worker's `pc`.

The initial state has queued jobs that have not run; every later state of a
recovered job is reached from there through `Restart`.

### `ScratchStorage`, `Uploads`: one budget, several processes

`ScratchStorage` is the accounting of `workspace/storage.rs`. `controller` is
`storage/controller.lock`, an `flock` that processes take one after the other;
`Charged` is what `storage_usage_locked` counts (bytes outside scratch, plus for
every scratch directory what it holds or, while somebody has its lease, what it
has reserved if that is more); `Fits` is `require_storage_capacity`. `lease[d]`
is the set of processes that have the shared lock of `d`: a native program
inherits it (`retain_for_command`) and may outlive the worker that started it.
The module gives operations to build steps from (`CreateScratch`, `DropScratch`,
`CleanupScratch`, `AdmitWrite`, `EndWrite`) and has one client of its own, the
native worker of another process (`WorkerStages` … `WorkerKilled`: a slice in
`slicing/mod.rs`, its program, the bounded copy of its output by
`commit_generated_artifact_scoped`), an operator who cleans up and one who
changes the budget. `Unguarded` is the one case in which the code writes without
a count: a budget set while a copy that began without one is under way.

`Uploads` is `upload.rs` on top of it. A request goes through the registry's map
(`Get`), the upload's mutex (`Lock`), a permit of blocking tasks (`Start`), the
controller lock (`Admit`, `Refuse`), and its effect (`AppendChunk`, `Publish`,
`Unlink`). Up to the permit its client may drop it (`Disconnect`); from there the
blocking task owns mutex and upload and goes on. An upload is in the map
(`open`), or held by requests only, or dropped (`Drop`), upon which its staging
directory is cleaned up later and under the controller lock
(`DroppedCleansUp`). A failed append leaves a part of the chunk (`Torn`). A
publication is a copy to a temporary name, a link or rename, and the removal of
the temporary name; between the last two the bytes count twice.

### `FileIngest`

`file_ingest.rs`: a transfer is authorized (`Authorize`), receives one body and is
published once. `request` are the clients' calls that wait for the lock of a
transfer's state (`Ask`; `Put`, `Status` and `Ingest` get it; `Leave` is a client
that goes). `receiver` is the detached task of the PUT (`Frame`, `BodyEnds`,
`BodyFails`, `JobEnds`, `TimesOut`, `Settle`), `job` its blocking job, which a
timeout of the receiver does not stop (`JobForgotten`), `task` the blocking task of
`ingest`, which has the lock from its checks to the end (`Begin`, `Publish`, `Fail`,
`Succeed`, `DropStaged`). A transfer is an `Arc`: it lives, with its file and its
permit, as long as the map or one of these has it (`InHand`), so that `Prune` takes
it out of the map and no more. The bytes are a number and whether they are the right
ones; a declared digest is that of right bytes of some size. `Publish` is the rename
or link of the bounded commit, whose every other step may fail before or after it.
`writes` and `told` remember where bytes were put and what clients were told.

### `PhotoJobs`

`recon/photo_jobs.rs` with the parts of `recon.rs` and `recon/trellis.rs` that
call it. `Submit` … `Uncertain` is one submission under the mutex of the store
(`mutex`): photograph, record, index, and on failure the cleanup in the order of
the code. `Enter` writes a phase before it begins, `Lane` waits for the GPU's
permit, `Spawn` … `KilledExits` is one native process, `Publish` puts the mesh
at its destination, `Finish` writes the last record. `Cancel` is a client's,
`DirectStarts`/`DirectEnds` are requests that use the GPU without being jobs,
`Restart` keeps the files and ends the processes (they share the container of
the worker), `Initialize` reads the history and settles what was left
(`Settled`). A write that fails may have replaced the file nevertheless.

### `PrintDelivery`

`printers/print_jobs.rs`, `printers/delivery.rs` and the imports of
`printers/operations.rs`. A request of a client (`Import`, `Stage`, `Start`,
`Update`, `Cancel`) reads what it depends on (`PrinterStatus`, `Reread`,
`Retain`: the bytes are copied before they are sent), stores its intent
(`StoreIntent`), sends one request (`Send`), reads the answer or gives up
(`Answer`, `GiveUp`), and stores what was accepted (`StoreReceipt`, `Link`).
`Status` and `Observe` retain an observation. Bambuddy is external and modelled
from its client crate: `Take` carries out a request of `wire`, possibly long
after its sender has given up, or never; it refuses what does not fit the state
of the print; the printer begins and completes prints (`BeginPrinting`,
`Complete`, `ClearPlate`).

### `Revisions`

`revise` of `projects/revisions.rs`, as several processes execute it: `Revise`,
`Copy` (one snapshot for each file, before the lock), `Lock`
(`try_lock_reserved`, which does not wait), `CompareHead`, `Verify` (one
`verify_snapshot_source` for each file), `RetainInput`, `WriteRecord`,
`AdvanceHead`. `Edit` is any other tool that replaces a file, `Kill` ends a
process and frees its lock. `seen` and `moments` are for the properties only.

### `MC…`

Values of the constants for TLC. Symmetry sets (`Jobs`, `Clients`) are used in
runs of safety properties; runs of liveness properties use no symmetry.

### `RenderJobsProofs`, `RenderOutcomesProofs`, `SessionRecoveryProofs`, `UploadsProofs`, `FileIngestProofs`, `PhotoJobsProofs`, `PrintDeliveryProofs`, `RevisionsProofs`

Theorems about `RenderJobs` (the first two modules, the second on top of the
first), `SessionRecovery`, `ScratchStorage` and `Uploads` (sums of bytes, then the
uploads with everything else that uses the storage), `FileIngest`, `PhotoJobs`, `PrintDelivery`
and `Revisions`, see [below](#what-is-proved).

## What the runs check

| Run | Instance | Shows |
|---|---|---|
| `jobs_concurrent` | 2 jobs of one frame, queue and history of 2, 1 client, 1 failed write, 1 restart | `NoStaleWrite`, `QueuedIsScheduled`, `RendersFirstUnrecorded`, `SuccessIsEarned`, `CancellationHolds`, `HistoryReadable`, `NoJobForgotten`; the records on disk implement `JobLedger` (`LedgerSpec`) |
| `jobs_liveness` | a still and a video, queue and history of 1, 1 client, 1 failed write, fairness | `EveryJobEnds`, `EverySubmissionEnds` |
| `session_cancel` | 2 jobs, 1 client, 1 fault, 1 restart with a depth of 1 or 2 | `RecoveryIsScheduled`, `RecordsReadable`, `WorksOnce`, `OutcomeIsKept` |
| `session_users` | 2 jobs, 2 edits by users, 2 faults, 1 restart, fairness | `UserFindsOwnScene`, `SessionIsRecoverable`, `FenceIsLifted`; nobody cancels |
| `uploads` | 1 upload at a time of up to 2 chunks, 2 requests, a native worker with 1 program, a budget of 6 or none, 1 restart | `PublishedIsAcknowledged`, `CommitIsFinal`, `HeldIsKept`, `BudgetRespected`, `NoCircularWait` |
| `file_ingest` | 1 transfer, 2 requests, 2 destinations, bodies of up to 3 units with a limit of 2, sizes and digests declared or not, fairness | `AnswersAreTrue`, `LaterChangesSurvive`, `PermitsComeBack` |
| `photo_jobs` | a Pixal3D and a TRELLIS.2 job, room for 1 or 2, direct requests, 1 storage failure, 1 restart, fairness | `TypeOK`, `OutcomesAreTrue`, `CancellationIsKept`, `HistoryIsKept`, `OneOnTheGpu`, `LastWordStays`, `EveryJobEnds` |
| `print_delivery` | 2 clients, 3 requests, 1 new slice, 1 failed write, 1 restart | `EvidenceIsTrue`, `AnswersAreTrue`, `StartsAreOnRecord`, `ObservationsAreTrue` |
| `revisions` | 2 processes, 3 calls, 2 files, 3 edits, 1 failure, 1 killed process | `RevisionsAreSound`, `AnswersAreKept`, `HeadAdvances` |
| `photo_history` | the two jobs of `photo_jobs`, 3 storage failures | `IndexedIsRecorded` is violated |
| `jobs_queue_room` | 4 jobs, queue of 2, 1 client | `QueueHasRoom` is violated |
| `session_stale` | 1 job, 1 client, 1 edit, 1 fault, 1 restart | `NoStaleRestore` is violated |

The type invariants are proved (`TypeCorrect` of every module); only that of
`PhotoJobs`, which also bounds the admitted jobs, is part of a run.

**Bounds.** Two jobs are what the properties relate: the one in hand and one
that waits, is staged or is cancelled; the queue of two lets a cancelled job be
behind or in front of another. One frame is enough to tell an unrecorded from a
recorded frame and, with the restart, to render it twice. In `jobs_liveness`
the history has one place, so that the second job evicts the first one; what a longer
history and a queue shorter than it add (which job is evicted, a restart that finds
more waiting jobs than it can queue) is covered by the proofs of `HistoryReadBack` and
`NoneForgotten`, which bound neither: in `jobs_concurrent` no job is evicted, and what
could make a job forgotten is a restart after a failed write. One fault
and one restart can fall at any two points of a behaviour, so that every
combination of a failed write with a crash is met. More edits, frames or clients
repeat the same interleavings.

In `uploads` one upload with two requests is the smallest instance in which a
chunk meets a commit, an expiry, another chunk or a dropped request; two chunks
let a torn one lie between acknowledged ones. The budget of 6 holds the worker's
reservation or two chunks with their copies, never both. One upload never
reaches the limit of uploads, whose only effect is a refusal. In `file_ingest` one
transfer is enough, because transfers share the permits and the map only: its
requests repeat without a bound, and two of them wait behind a third that publishes.
A limit of 2 has bodies that are short of the declared size of 1, equal to it, above
it, and above the limit. What several transfers have to do with each other is how many
are staged; that is proved for any number of them (`StagedBounded`). In `photo_jobs`
two jobs compete for the queue and for the GPU, one of each model because their
phases differ, with direct requests as the third user of the GPU. In
`print_delivery` three requests are the import or stage, the start and a third
that races one of them; an import from before (attempt 0) makes room for it. In
`revisions` two files are what can be copied at different moments, three calls a
revision with two competing successors; three edits change each file and one of
them between copy and verification. Every safety property of the passing runs
is proved without these bounds, with two reservations: `HistoryIsKept` for at most
two failures of the storage, and `NoCircularWait` in a form without `ENABLED`.

The deadlock check is off because the systems may rest: no job, no request, the
bounds used up. Where waiting in a circle is the hazard, `NoCircularWait` says
that a request under way, or what it waits for, can take a step.

**Fairness.** The worker and the stager are driven to their end: commands to
Blender, waiting for the lane and the encoder have time limits, and a blocking
write is not stopped when its request is dropped, hence weak fairness of
`Worker`, `Stager` and `CancelWrites`. tokio's mutexes are first come, first
served, hence strong fairness of the steps that take the persistence lock or the
lane while others take it again and again. Nobody has to submit, to cancel, to
edit or to restart, and a cancelling request may be dropped. In
`session_users` faults are bounded, which stands for the assumption without
which `FenceIsLifted` is false: writes and restores do not fail for ever. In
`photo_jobs` the steps of admissions and tasks are weakly fair, as tokio runs
them and native processes end or meet their deadline; `Lane` needs no more than
that, since the semaphore is first come, first served, and a permit that is
given back is handed over. In `file_ingest` time
passes (`Expire`), the reaper runs, and tasks and jobs come to their end: a body has
an idle timeout and the whole reception a deadline; no client has to do anything.
`Initialize` is fair because every tool call repeats
it until the history was read; a client that never asks learns of no job either.

**Mutants.** Each module holds, next to a definition, the variant a plausible
bug would make of it (`Mutant of ...`): a dropped guard, a forgotten refresh,
an error path that keeps a lock. `PROJECT.json` names for every property the
variant under which TLC finds it violated.

## Where code and documents disagree

* **A cancelled job can be queued** (`jobs_queue_room`). `DECISIONS.md:535-538`:
  "Queued cancellation removes the pending work item before the released logical
  admission slot becomes visible, so churn cannot exhaust a separate physical
  backlog." A job being staged is marked as waiting, its record is written, and
  it is pushed (`jobs.rs:1258-1273`). A cancellation during that write ends the
  job and finds nothing to remove from the queue (`jobs.rs:1002`); the push then
  queues an ended job. It does no harm to itself (`start_job` skips it), but it
  takes a place that admission, which counts jobs that have not ended, gives
  away again: a later job is admitted, finds the queue full and fails.
* **The restored marker can be lost** (`session_stale`). `DECISIONS.md:504-506`:
  recovery "cannot … restore the stale session checkpoint over newer live work";
  `DECISIONS.md:523-526`: no "stale snapshot can still rename over a newer
  checkpoint or restoration marker". `persist_restored_marker_once` writes the
  restored record, gives up the persistence lock with the write, and then sets
  the flag in memory (`jobs.rs:1407-1419`). A `cancel` that waits for the lock
  copies the record in between and writes it, unrestored, over the marker. The
  fence is lifted and users edit. The worker's next write repairs the record;
  if the server stops before it, or that write fails (which is only logged),
  the next start puts the old checkpoint over the edits. That this copy is the
  only cause is proved (`FreshRestore`).

* **The photograph history can become unreadable** (`photo_history`).
  `recon/photo_jobs.rs:476-477`: "A durability error may follow index
  replacement. Never remove evidence that the on-disk index could reference."
  `docs/photo-object.md:100`: "Job history remains discoverable when generation
  models are absent." When an admission fails and the index does not list the
  job, its record and its photograph are removed. If the photograph cannot be
  removed after the record is gone (484-495), the job is kept as
  `outcome_unknown`; if that record cannot be written either, which is only
  logged (500-502), the job stands in the order of the store (504) without a
  record. The next submission writes an index that lists it (455-472), and after
  a restart `initialize` (202) gives up at every call. It takes three failures
  in one admission; with one, `HistoryIsKept` holds (`photo_jobs`).

The first two are races of a few instructions that no test meets, the third
needs a storage that fails for a while and then recovers. In the other
properties the code does what its documents say, with one remark:
`docs/workflow-interface.md:216` has "Printable stages at most two incoming files", and
for a moment there may be more. A transfer that expires while a blocking job of its
receiver creates or writes the staged file gives its permit back (`file_ingest.rs:364`,
377-383), but the job owns the file and goes on (445); and after an ingest the permit
(293) is dropped before the file (287). These files (`Leaving`) are gone as soon as the
job or the task ends, and are reserved in the storage budget until then; not more than
two that anybody still wants are staged (`StagedIsBounded`, proved).

## What is proved

`RenderJobsProofs`, checked by TLAPS for every value of the constants: any
finite set of jobs, any set of clients, any queue depth, history, number of
frames, restarts and faults, under the assumptions named in `JobRecords` and
`RenderJobs` (a job is not `None`; a depth of at least one and at most the
history; process names are not client names).

* `Invariance`: `Spec => []IInv`.
* `TypeCorrect`: `Spec => []TypeOK`; part of it is that the queue never exceeds
  its capacity.
* `NoStaleWrites`: `Spec => []NoStaleWrite`.

`NoStaleWrite` alone is not inductive. That the memory is ahead of the copy
needs that whoever holds the persistence lock stands where the code holds it
and writes its own job (`LockOK`); that a restart may replace the memory needs
the types; that the worker's job is still the one it took, though records may be
evicted and identities drawn anew, needs that a job in the hands of a process is
on disk (`WorkerOK`, `QueueOK`, `StagerOK`) and that a new identity is known to
nobody (`StagerOK`). `IInv` is the conjunction of these with `TypeOK` and
`NoStaleWrite`. The proof has a lemma for each kind of effect (a record is
updated to one that follows it, the lock's owner copies, the copy is written),
one lemma for each action or group of actions, and `InvariantStep`, which
splits `Next`.

`RenderOutcomesProofs`, under the same assumptions, proves what becomes of the
jobs:

* `OutcomesInvariance`: `Spec => []OInv`.
* `SuccessEarned`: `Spec => []SuccessIsEarned`; `CancellationsHold`:
  `Spec => []CancellationHolds`; `QueuedScheduled`: `Spec => []QueuedIsScheduled`;
  `FirstUnrecorded`: `Spec => []RendersFirstUnrecorded`.
* `LedgerImplemented`: `Spec => LedgerSpec`. The records on disk implement
  `JobLedger`: a write is `Admit` or `Save`, a restart is `Recover`, and every other
  step stutters.

A job exists in up to three versions: the record on disk, the copy that is being
written, and the memory, in this order of age (`NoStaleWrite`). What the ledger says
of two successive records on disk is, in the code, a statement about a record and a
copy that was made under the state lock some steps ago, while the worker has gone
on. `OInv` therefore says it of all three versions: each is `Sound` by itself (a job
that waits is not cancelled, a success is complete, uncancelled and of the job's own
source), and of two of them the later is at most one frame, and one step to success,
ahead (`Near`). That the distance does not grow is the worker's discipline: it counts
a frame, notes the end of Blender and completes a job only where the record on disk
counts what the memory counts, and then so does every copy in between, whoever makes
it (`WorkOK`, `WriterOK`). No older copy makes a job wait again: only the stager writes
records that wait, and the job that is being staged has never run (`StagingOK`,
`RunningOK`). A cancellation holds because it is in the memory before the token is
set, and the token is set before the copy is made that will be answered (`TokenOK`);
`CancellationHolds` and `QueuedIsScheduled` are themselves parts of `OInv`, because a
job whose cancellation was answered is never started, and that needs that it is not
queued. The proof sorts the steps by what they do to the versions (`MemoryStep`,
`CopyStep`, `WriteStep`, and a restart, `RestartStep`), then takes each part of `OInv`
in turn.

The second half of `RenderOutcomesProofs` is about the history:

* `HistoryInvariance`: `Spec => []HInv`.
* `HistoryReadBack`: `Spec => []HistoryReadable`; `NoneForgotten`:
  `Spec => NoJobForgotten`.

The order in memory, the records in memory, the index and the records on disk are
four lists of jobs that change at different moments. `HInv` relates them: the order
lists exactly the jobs that memory has a record of, once each (`OrderOK`); the index
lists all of these but the one that is being admitted, and every job it lists has a
record on disk, because the stager writes the record first and no record is ever
removed (`IndexOK`). So whatever a restart reads back contains every accepted job that
has not ended: the evicted one had ended, and the rejected one was never accepted
(`AcceptedOK`). The order fits the history although an eviction takes ended jobs only:
a submission passes the capacity check with fewer than `QueueDepth` active jobs, only
the stager adds one, so that a history of `MaxHistory` or more jobs without an ended
one is impossible (`RoomOK`, `FullHistory`). The records are valid because of the
frame loop: it leaves with `completed` only when all frames are counted and with
`cancelled` only when the record says so (`LoopOK`, `ToldOK`), and that is what
`validate_recovered_job` asks of a record whose Blender work has ended (`WholeOK`).
`HInv` is inductive relative to `OInv`, which it does not repeat; TLC checks it on the
instance of `jobs_concurrent` and on one with four jobs, a queue of two and a history of
three.

`SessionRecoveryProofs`, for any finite queue of jobs, any set of clients, any length
of the jobs and any number of edits, restarts and failed writes, under the assumptions
named in `SessionRecovery` (the order lists each job once and fits the queue, a job has
at least one frame, names that stand for different things are different):

* `Invariance`: `Spec => []IInv`; `TypeCorrect`: `Spec => []TypeOK`.
* `RecoveryScheduled`: `Spec => []RecoveryIsScheduled`; `ReadableRecords`:
  `Spec => []RecordsReadable`; `WorkDoneOnce`: `Spec => []WorksOnce`; `OutcomesKept`:
  `Spec => OutcomeIsKept`.
* `SceneInvariance`: `Spec /\ [][CopiesInTime]_vars => []SInv`, and under the same
  condition `OwnSceneFound` (`UserFindsOwnScene`), `SessionRecoverable`
  (`SessionIsRecoverable`) and `FreshRestore` (`NoStaleRestore`). `Undisturbed` has the
  three for every behaviour when nobody cancels.

Again a record is in three places: memory, the copy under way, the disk. With one
worker and no eviction, `IInv` can say more of them than `RenderJobs` could. `Follows`
orders the versions of a record: a captured session stays captured, a restored one
restored, an outcome stays until the restore, and a failure after it. The copy and the
disk are versions that the memory follows (`ImageOK`, `DiskOK`), except while the worker
is between the copy of the restored marker and its update of the memory, where they may
be one step ahead (`Ahead`). `WorkerOK` says for every place of the worker what its
record in memory says (`Fits`). The rest follows: what a restart finds is `Sound`, so it
refuses nothing (`ReadableRecords`), and it queues again what must be restored, whatever
its depth, because `Capacity` leaves none of them out (`RequiredTaken`). Nothing of the
proof depends on how often a write fails, since a failed write of the outcome or the
marker is repeated and the others may be lost.

The properties of the scene do not hold of every behaviour: `session_stale` shows how a
cancellation takes the marker off the disk. `CopiesInTime` excludes exactly that step, a
client's copy of the worker's record after the marker is written and before the memory
has it, and nothing else: clients may cancel the same job before and after, and other
jobs at that very moment. Under it `SInv` holds: what the memory knows to be restored is
on disk (`WrittenOK`), and at most one job must restore the session, which is the
worker's or the first in the queue and has the users' last edit in its checkpoint
(`FirstOK`). So the finding has one cause, and setting the flag before the lock is given up
would make the condition hold. The condition is an action property of
the behaviour, no assumption on the constants, and it can be satisfied: behaviours in
which nobody cancels have it (`Undisturbed`), and TLC explored those in which a client
does, where `SInv` held of 111210 states (1 job, 2 restarts, 2 faults) and of 3393097
states (2 jobs).

`PhotoJobsProofs`, for any set of jobs, any depth of the queue and any number of
failed writes and restarts, under `PhotoAssumption` and `NoneAssumption` (`None`
and the direct request are no jobs, `None` is no record, the depth is at least
one):

* `TypeCorrect`: `Spec => []TypeOK`; part of it is `QueueIsBounded`.
* `RecordsAreTrue`: `Spec => []OutcomesAreTrue`; `CancelledStaysUnpublished`:
  `Spec => []CancellationIsKept`; `LastWordIsFinal`: `Spec => LastWordStays`.
* `OneAtATime`: `Spec => []OneOnTheGpu`.

`IInv` says what a submission and a task can rely on at each step. Whoever has
the lock found room under it, and nobody was admitted since (`RoomOK`). A mesh
may be there only at the end of a task that entered `publishing`; then the file
and the record are the same, say `publishing`, and say no cancellation
(`Published`), so that whatever stops or fails next, a restart reads an unknown
outcome and never an interruption. `cancel` is refused from there on, and `enter`
looks at the cancellation in the same step in which it writes the phase; that is
why no accepted cancellation is followed by a mesh. Before a task, and after it,
records and files are what the submission or `finish` left (`Stage`). A task past
`waiting_for_gpu` holds the lane until its last process has exited (`GpuOK`). The
proof takes each action once for the job it is about (`AdmissionKeeps`, `RunKeeps`,
`CancelKeeps`), once for the lane (`JobOnGpu`), and shows that the other jobs are
left alone (`OthersStay`).

What a restart reads back is the second half of the module:

* `AcceptedStays`: `Spec => []AcceptedIsKept`. A job that was accepted and is not
  over is in the index, with its record and its photograph.
* `LastWordOnDisk`: `Spec => []LastWordIsKept`.
* `HistoryStays`: `Spec => [](faults < 3 => HistoryIsKept)`, for every bound on the
  faults; `HistoryStaysWithTwoFaults` is `Spec => []HistoryIsKept` where `MaxFaults`
  is at most two.

The first two hold however often the storage fails; they are two of the three parts of
`HistoryIsKept`. The third, that a listed job has a record, is false after three
failures in one admission (the finding above), and no assumption on the constants can
exclude them but a bound on their number. So `HistoryOK` counts: an admission that is
cleaned up has failed once, one whose photograph could not be removed twice, and a job
that memory or the index lists without a record has used up three (`Counted`). That the
count is exact is what `photo_history` shows. The rest of `HistoryOK` says where the
record and the photograph of a job are at each step of its admission and its task
(`Held`), and when memory and the index may list it (`Listing`). TLC checked it on two
jobs with three faults (1471610 states) before it was proved.

`PrintDeliveryProofs`, for any set of clients and any number of requests, slices,
failed writes and restarts, under `PrintAssumption` and `NoneAssumption`:

* `Invariance`: `Spec => []IInv`; `TypeCorrect`: `Spec => []TypeOK`.
* `EvidenceTrue`: `Spec => []EvidenceIsTrue`; `AnswersTrue`: `Spec => []AnswersAreTrue`;
  `StartsRecorded`: `Spec => []StartsAreOnRecord`; `ObservationsTrue`:
  `Spec => []ObservationsAreTrue`.

What the properties say of stored evidence depends on where the request is that it
came from, and the request outlives its client: it is in a client's hands, then on
the wire although the client may have given up or the server stopped, then carried
out or never. `IInv` follows a request by its number, not by its client, so that a
restart keeps what it says: of a request in a client's hands (`OpOK`), on the wire
(`WireOK`), carried out by Bambuddy (`LibraryOK`, `QueueOK`, `RepliesOK`), and of what
was stored of it (`IntentsOK`, `ReceiptsOK`, `LinksOK`). A number is drawn once
(`IdsOK`), so that a step for one request leaves the others alone. The start of a
staged print is on record before it is sent, and what is on the wire later has the
intent that was stored then. The bounds of the lists in `TypeOK` are a count of the
numbers that have been drawn.

`UploadsProofs`, for any finite set of clients, any set of
directories, any number and size of chunks, permits, restarts and programs, and any
budgets, under `StorageAssumption`, `UploadAssumption` and `NoneAssumption` (names
that stand for different things are different; there are finitely many clients):

* `UploadsInvariance`: `Spec => []UInv`; `TypeCorrect`: `Spec => []TypeOK`.
* `PublishedAcknowledged`: `Spec => []PublishedIsAcknowledged`; `CommitsFinal`:
  `Spec => []CommitIsFinal`; `HeldKept`: `Spec => []HeldIsKept`; `BudgetKept`:
  `Spec => []BudgetRespected`.
* `SumWithout`, about every sum over a finite set: take any element out, and the
  sum is its value and the sum of the rest.

The first half of the argument is about who has what (`FlowInv`). A request past the
lock owns the mutex of its upload, so that nobody else changes that upload or its
file (`SoleHolder`); the upload stays in the map until it is committed, its staging
directory keeps the server's lease, and the file is the acknowledged chunks with at
most one torn chunk after them, which a task cuts off before it does anything
(`OpOK`, `UpOK`). The worker and its program are the same with their directory
(`WorkOK`). Steps end a request (`Ended`), move one on (`MoveOK`), or leave the
requests alone (`UploadsKept`).

The second half is about bytes. `BudgetOK` says that under a budget whoever has been
admitted holds the controller lock, and that what is charged, the copies that were
admitted under no budget, and what the holder was admitted for stay within the
allowance together (`Room`). A step spends nothing (`Calm`), creates a reservation or
asks for room after the count under the lock (`CreateKeeps`, `AdmitKeeps`,
`CommitsKeep`), or spends what was set aside for it (`AppendKeeps`, `PublishKeeps`,
`UnlinkKeeps`, `CopyKeeps`). `PubOK` has that the bytes that were published are
still there to be taken back when the file is replaced, and those of the second name
when it goes, so that no counter of bytes goes below zero.

What is charged is a sum over the directories that exist, a recursive fold over an
arbitrary choice of elements. The library's induction theorems do not apply, but
inclusion among the subsets of a finite set is well-founded, which gives induction
over such sets without an operator as parameter (`SubsetInduction`), with it that the
recursion of the fold has a solution and only one (`StepSolution`, `SolutionsAgree`),
and from that `SumWithout` and how a sum changes (`SumMonotone`, `SumGrows`,
`SumAdds`).

The third part of the module is about waiting:

* `NobodyWaitsForever`: `Spec => []SomebodyCanGoOn`. While a request is under way, one
  of them can take a step, or the native worker's copy, which has the controller lock.

`NoCircularWait` says this with `ENABLED`, which TLAPS does not expand. `CanGoOn` says
what each step of a request waits for instead (the mutex, a permit, the controller lock),
read off the guards; that it is the same as `ENABLED Serve(c)` was checked by TLC on the
5158524 states of the run. Requests wait for three kinds of locks, and nobody waits for
an earlier kind while it has a later one: who has the mutex of an upload may wait for a
permit, who has a permit for the controller, and who has the controller waits for
nothing. What has to be proved for that is that a lock that is taken has an owner who is
at one of the steps at which the code has it: never a request that is gone, also after a
client left, a failed copy or a restart (`MutexOK`, `ControllerOK`, `LocksOK`). It takes
no fairness, and it is not the claim that every request is answered.

`FileIngestProofs`, for any finite set of transfers, any set of clients, destinations
and declarations, and any limits, under `IngestAssumption` and `NoneAssumption`:

* `Invariance`: `Spec => []IInv`; `TypeCorrect`: `Spec => []TypeOK`.
* `AnswersTrue`: `Spec => []AnswersAreTrue`; `LaterChangesStay`:
  `Spec => LaterChangesSurvive`; `StagedBounded`: `Spec => []StagedIsBounded`.

`IInv` says for each state of a transfer where its bytes have been put and what has been
told (`StateOK`): nothing before an attempt, and nobody hears of an attempt while it is
made, because the task keeps the lock (`TaskOK`). Since the state says `uncertain` before
the attempt begins, nothing that happens in it, a stop included, leaves a transfer that
could be published again; and since only the end of the same attempt changes
`uncertain`, and nobody was told of it before, an answer stays the outcome (`ToldOK`).
What is received is verified before the transfer is ready, and no longer changes then
(`ReceiverOK`). For the permits it has to be shown that a transfer has one as long as it
can be received or ingested (`PermitOK`) and that only `Authorize` adds to those with a
permit: no other step takes into hand what nobody had. Each step is about one transfer
or about none (`OrderlyKeeps`, `QuietInOrder`), so that each proof is about that one.
TLC checked `IInv` before it was proved, on the instance of `file_ingest` and on one with
two transfers that share a permit.

`RevisionsProofs`, for any set of processes and files and any number of calls,
edits, failures and killed processes, under `RevisionsAssumption` (`None` is told
apart from what it stands for; the main source is one of the files):

* `Invariance`: `Spec => []IInv`; `TypeCorrect`: `Spec => []TypeOK`.
* `Sound`: `Spec => []RevisionsAreSound`. A revision is a moment of the project.
* `HeadOnlyAdvances`: `Spec => HeadAdvances`.
* `AnswersKept`: `Spec => []AnswersAreKept`.

That the retained files are those of one moment is the point of the proof,
because they are copied one by one and verified one by one, and at no time all
together. `IInv` keeps, for each call that has compared the head, the files at
that instant (`seen`): every copy was made before, so it is not newer than
`seen`, and `seen` is not newer than the files now. A file that passes `Verify`
is the copy; then all three are equal (`CopiesOK`). When all files have passed,
the copies are `seen`, which was a moment of the project. Edits afterwards do
not matter any more. `HeadAdvances` needs that whoever has compared the head has
the lock and finds the head unchanged until its own write (`LockOK`), and that a
call's identity is its own (`IdsOK`), also after a kill.

`AnswersAreKept` speaks of `Lineage`, a recursive function. That its recursion has a
solution is a matter of sets: what is in every closed set of revisions that has `i`
(`DescentExists`). That the lineage of a retained revision never changes
(`LineageKept`), and that everything in it is retained (`LineageRetained`), is shown
at the least revision for which it would fail: its parent is a smaller one. Both need
that parents are older and retained (`ParentsOK`, part of `AInv`, which adds it and
`ToldOK` to `IInv`). With `HeadAdvances` the lineage of the head then only grows
(`HeadLineage`), so that a reported revision stays in it; a refused one never has a
record, because the refusals come before the record is written and a call's identity
is never used again.

Only model-checked: the liveness properties (`EveryJobEnds` of both kinds of jobs,
`EverySubmissionEnds`, `FenceIsLifted`, `PermitsComeBack`), because TLAPS does not reason about fairness;
and `NoCircularWait` of `Uploads` in the form with `ENABLED`. `HistoryIsKept` of
`PhotoJobs` is proved for at most two faults; with three it is false.

## What is not modelled

* Status, artifact and frame listings: they read only.
* The fields of a record that no scheduling decision reads: phases, times,
  budgets, artifacts. So the byte budget of frames, and the certification of a
  mechanical rotation, whose own fields the validation of a recovered record
  reads, are missing; both are in the list of hazards.
* Late effects of Blender: a command that timed out may still run in Blender
  after the server has gone on. A command is one step here, with or without its
  effect.
* Migration from the earlier mode to the isolated one (`RenderIsolation`): the
  two modes are separate modules, as a server runs one of them at a time once
  the earlier jobs are finished.
* A panic of the staging task, and the end of the process by choice: both look
  like a `Restart` or a failure that is modelled.
* In `Uploads`: sizes of chunks other than one, the bytes' encoding, and the
  reaper apart from its effect, which is the expiry that every `begin` performs.
* In `PhotoJobs`: a direct request whose client goes away is killed without being
  waited for (`OneOnTheGpu` does not count it); listing and status, which read.
* In `PrintDelivery`: a request that Bambuddy answers with a refusal is taken not
  to be carried out, which nothing on this side could find out otherwise; direct
  commands to a printer, archives and batches, which leave no evidence; reviews
  of a slice.
* In `Revisions`: two different contents never look the same to `fstat`, and an
  edit never restores the earlier file with its times, so that a content is one
  number; reading a revision, export and requirements, which have one step.
* One retry of a failed connection and the pinned bridge identity
  (`client.rs:336`, `517`): decisions within one call, without another actor.
* Download grants (`file_transfer.rs`): one map behind one mutex, each operation
  one step of it, so that nothing can come between the look at a grant and its
  use.
* In `FileIngest`: requests with a wrong token, which change nothing; the budget, which
  is one of the reasons why a job or a publication fails; scratch directories that a
  stopped server leaves, which the cleanup of `ScratchStorage` finds.
* The CAD worker (`cad.rs`): a state machine worth a module, see below. The slicer's retained state is simpler: one
  task writes it, under the mutex that status reads it under.
* Request admission: four counters that are tried and never waited for.
* Floating-point algorithms (geometry, imaging, body models), schemas and
  dispatch of the tools, external sites and services, Python workers, packaging.

## What comes next

1. The certification of a mechanical rotation in `RenderJobs`.
2. `CadBuilds`: a build has one retained outcome, which
   cancellation, completion and restart agree on.
