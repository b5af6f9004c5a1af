------------------------------ MODULE RenderJobs ------------------------------
(***************************************************************************)
(* The durable render-job registry of printable-server (jobs.rs) while     *)
(* rendering is isolated: jobs run in a separate background Blender and    *)
(* never touch the live scene.                                             *)
(*                                                                         *)
(* Four kinds of process share the registry.  The worker is the single     *)
(* task that takes jobs off the queue and runs them.  The stager is the    *)
(* detached task that admits one submission at a time (it owns the         *)
(* admission lock from the capacity check to the end of the staging).      *)
(* Every client may cancel a job at any moment.  The server may stop at    *)
(* any moment and start again from the metadata on disk.                   *)
(*                                                                         *)
(* The registry lives twice: in memory (mem, order, queue, token), which   *)
(* a restart loses, and on disk (record, index, source).  A write of a     *)
(* record takes the persistence lock, copies the record out of memory,     *)
(* writes the copy and frees the lock: two steps here, so that the memory  *)
(* may move on between the copy and the write.                             *)
(***************************************************************************)
EXTENDS JobRecords, Sequences, SequencesExt

CONSTANTS
  Clients,      \* clients that cancel jobs
  QueueDepth,   \* PRINTABLE_RENDER_JOB_QUEUE_DEPTH
  MaxHistory,   \* MAX_JOB_HISTORY
  MaxRestarts,  \* bound: restarts in a behaviour
  MaxFaults     \* bound: writes that fail in a behaviour, restarts apart

\* config.rs accepts a depth of 1 to 1000, and MAX_JOB_HISTORY is 1000.
ASSUME DepthAssumption   == /\ MaxHistory \in Nat
                            /\ QueueDepth \in 1 .. MaxHistory
ASSUME BoundAssumption   == MaxRestarts \in Nat /\ MaxFaults \in Nat
ASSUME ProcAssumption    == {"worker", "stager", "free"} \cap Clients = {}

VARIABLES
  \* memory
  mem,        \* [Jobs -> Record or None]: RegistryState.jobs
  order,      \* Seq(Jobs): RegistryState.order
  queue,      \* Seq(Jobs): JobQueue.items
  token,      \* [Jobs -> Token]: cancellations
  lock,       \* who owns the persistence lock
  image,      \* the copy of a record its owner is writing
  blocked,    \* recovery_integrity.blocked()
  worker,     \* [pc, job, outcome]: job_worker
  stager,     \* [pc, job]: stage_admitted_submission
  client,     \* [Clients -> [pc, job]]: cancel
  \* disk
  record,     \* [Jobs -> Record or None]: <job>/job.json
  index,      \* Seq(Jobs): the job index
  indexed,    \* the job index exists
  source,     \* the jobs whose source.blend is committed
  faults,     \* number of writes that failed so far
  \* what the environment has seen
  restarts,   \* number of restarts so far
  accepted,   \* the jobs whose submission was answered with a status
  acked       \* the jobs whose cancellation was answered with a status

memory  == <<mem, order, queue, token, lock, image, blocked>>
disk    == <<record, index, indexed, source, faults>>
history == <<restarts, accepted, acked>>
vars    == <<memory, worker, stager, client, disk, history>>

-----------------------------------------------------------------------------
(* The jobs that have not ended count against the queue depth.             *)

IsActive(j) == mem[j] # None /\ mem[j].state \notin Terminal
Active      == {j \in Jobs : IsActive(j)}

-----------------------------------------------------------------------------
(* Writing a record.                                                       *)

\* What a write through the workspace may end with: done; refused before the
\* rename, so that nothing changed; or renamed, but reported as an error
\* because the directory could not be synchronised.
WriteOutcome == {"ok", "lost", "unsynced"}

\* The medium takes the write, or fails it while the bound allows.
Medium(out) ==
  \/ out = "ok" /\ UNCHANGED faults
  \/ out # "ok" /\ faults < MaxFaults /\ faults' = faults + 1

\* The owner of the lock has copied the record of j: persist_job up to the write.
Copy(who, j) ==
  /\ lock = "free"
  /\ mem[j] # None
  /\ lock'  = who
  /\ image' = mem[j]
  /\ UNCHANGED <<mem, order, queue, token, blocked>>

\* Mutant of Write: an error path that keeps the lock.
WriteKeepsLock(who, j, out) ==
  /\ lock = who
  /\ Medium(out)
  /\ record' = IF out = "lost" THEN record ELSE [record EXCEPT ![j] = image]
  /\ lock'  = IF out = "ok" THEN "free" ELSE lock
  /\ image' = None
  /\ UNCHANGED <<mem, order, queue, token, blocked, index, indexed, source>>

\* The write itself, by the blocking task that carries the lock.
Write(who, j, out) ==
  /\ lock = who
  /\ Medium(out)
  /\ record' = IF out = "lost" THEN record ELSE [record EXCEPT ![j] = image]
  /\ lock'  = "free"
  /\ image' = None
  /\ UNCHANGED <<mem, order, queue, token, blocked, index, indexed, source>>

-----------------------------------------------------------------------------
(* The worker.  Its pc names where in job_worker, run_job and the functions *)
(* they call it stands; at a pc of WorkerSaving it waits for, or performs,  *)
(* a persist_job.  outcome is the PendingBlenderOutcome.                    *)

WorkerSaving == {"start", "load_phase", "frame_phase", "progress",
                 "outcome_save", "encode_phase", "settle"}

WorkerPc == WorkerSaving \cup
            {"idle", "popped", "run", "load", "frames", "render", "outcome",
             "finish", "encode", "complete", "cancel", "fail", "release"}

Outcome == {"none", "completed", "cancelled", "failed"}

IdleWorker == [pc |-> "idle", job |-> None, outcome |-> "none"]

At(pc) == worker.pc = pc

GoTo(pc) == worker' = [worker EXCEPT !.pc = pc]

\* run_blender_frames returns: the outcome is recorded next.
Return(outcome) == worker' = [worker EXCEPT !.pc = "outcome", !.outcome = outcome]

Cancelled == token[worker.job] = "cancelled"

\* JobQueue::receive takes the oldest queued job.
Receive ==
  /\ At("idle")
  /\ queue # <<>>
  /\ worker' = [pc |-> "popped", job |-> Head(queue), outcome |-> "none"]
  /\ queue'  = Tail(queue)
  /\ UNCHANGED <<mem, order, token, lock, image, blocked, stager, client, disk, history>>

Startable(j) == mem[j] # None /\ mem[j].state = "queued"

\* Mutant of StartJob: a job cancelled since it was received is started.
StartAnyJob ==
  /\ At("popped")
  /\ IF mem[worker.job] # None
     THEN /\ mem' = [mem EXCEPT ![worker.job].state = "running"]
          /\ GoTo("start")
     ELSE GoTo("release") /\ UNCHANGED mem
  /\ UNCHANGED <<order, queue, token, lock, image, blocked, stager, client, disk, history>>

\* start_job marks the job running, unless it is gone or no longer queued.
StartJob ==
  /\ At("popped")
  /\ IF Startable(worker.job)
     THEN /\ mem' = [mem EXCEPT ![worker.job].state = "running"]
          /\ GoTo("start")
     ELSE GoTo("release") /\ UNCHANGED mem
  /\ UNCHANGED <<order, queue, token, lock, image, blocked, stager, client, disk, history>>

\* Mutant of RunJob: finished work is run again.
RunAgain ==
  /\ At("run")
  /\ \/ Cancelled /\ GoTo("cancel")
     \/ ~Cancelled /\ (GoTo("load_phase") \/ GoTo("fail"))
  /\ UNCHANGED <<memory, stager, client, disk, history>>

\* run_isolated_job: work that finished earlier is not repeated; otherwise the
\* render worker is reached and its role checked, which may fail.
RunJob ==
  /\ At("run")
  /\ \/ mem[worker.job].finished /\ GoTo("finish")
     \/ ~mem[worker.job].finished /\ Cancelled /\ GoTo("cancel")
     \/ ~mem[worker.job].finished /\ ~Cancelled /\ (GoTo("load_phase") \/ GoTo("fail"))
  /\ UNCHANGED <<memory, stager, client, disk, history>>

\* The worker's Blender loads the source, whose digest must be the expected
\* one; then motion and framing are prepared, which may fail as well.
LoadSource ==
  /\ At("load")
  /\ \/ worker.job \in source /\ GoTo("frames")
     \/ Return("failed")
  /\ UNCHANGED <<memory, stager, client, disk, history>>

\* The head of the frame loop.
NextFrame ==
  /\ At("frames")
  /\ IF Cancelled THEN Return("cancelled")
     ELSE IF mem[worker.job].done = Total(worker.job) THEN Return("completed")
     ELSE GoTo("frame_phase")
  /\ UNCHANGED <<memory, stager, client, disk, history>>

\* Blender renders the first frame that is not recorded, or fails to.
RenderFrame ==
  /\ At("render")
  /\ \/ /\ mem' = [mem EXCEPT ![worker.job].done = @ + 1]
        /\ GoTo("progress")
     \/ Return("failed") /\ UNCHANGED mem
  /\ UNCHANGED <<order, queue, token, lock, image, blocked, stager, client, disk, history>>

\* run_isolated_job notes that Blender has finished, and with what failure.
RecordOutcome ==
  /\ At("outcome")
  /\ mem' = [mem EXCEPT ![worker.job].finished = TRUE,
                        ![worker.job].failed = (worker.outcome = "failed")]
  /\ GoTo("outcome_save")
  /\ UNCHANGED <<order, queue, token, lock, image, blocked, stager, client, disk, history>>

\* finish_after_blender.
FinishAfterBlender ==
  /\ At("finish")
  /\ GoTo(IF mem[worker.job].failed THEN "fail"
          ELSE IF Cancelled THEN "cancel"
          ELSE IF mem[worker.job].done # Total(worker.job) THEN "fail"
          ELSE IF worker.job \in Stills THEN "complete"
          ELSE "encode_phase")
  /\ UNCHANGED <<memory, stager, client, disk, history>>

\* encode_video publishes the video, fails, runs out of time, or is cancelled;
\* a cancellation that comes after its last look at the token is not seen.
EncodeVideo ==
  /\ At("encode")
  /\ \/ GoTo("complete")
     \/ GoTo("fail")
     \/ Cancelled /\ GoTo("cancel")
  /\ UNCHANGED <<memory, stager, client, disk, history>>

\* Mutant of CompleteJob: a late cancellation is overlooked.
CompleteRegardless ==
  /\ At("complete")
  /\ mem' = IF mem[worker.job].state # "running" THEN mem
            ELSE [mem EXCEPT ![worker.job].state = "succeeded"]
  /\ GoTo("settle")
  /\ UNCHANGED <<order, queue, token, lock, image, blocked, stager, client, disk, history>>

\* complete_job: a job with a requested cancellation ends cancelled.
CompleteJob ==
  /\ At("complete")
  /\ mem' = IF mem[worker.job].state # "running" THEN mem
            ELSE [mem EXCEPT ![worker.job].state =
                    IF mem[worker.job].cancel THEN "cancelled" ELSE "succeeded"]
  /\ GoTo("settle")
  /\ UNCHANGED <<order, queue, token, lock, image, blocked, stager, client, disk, history>>

\* mark_cancelled.
MarkCancelled ==
  /\ At("cancel")
  /\ mem' = IF IsActive(worker.job)
            THEN [mem EXCEPT ![worker.job].state = "cancelled",
                             ![worker.job].cancel = TRUE]
            ELSE mem
  /\ GoTo("settle")
  /\ UNCHANGED <<order, queue, token, lock, image, blocked, stager, client, disk, history>>

\* What fail_job does to the registry.
Failed(j) == IF IsActive(j)
             THEN [mem EXCEPT ![j].state = "failed", ![j].failed = TRUE]
             ELSE mem

\* fail_job: a job that has already ended is left alone and not written again.
FailJob ==
  /\ At("fail")
  /\ mem' = Failed(worker.job)
  /\ GoTo(IF IsActive(worker.job) THEN "settle" ELSE "release")
  /\ UNCHANGED <<order, queue, token, lock, image, blocked, stager, client, disk, history>>

\* persist_job by the worker, up to the write.
WorkerCopies ==
  /\ worker.pc \in WorkerSaving
  /\ Copy("worker", worker.job)
  /\ UNCHANGED <<worker, stager, client, disk, history>>

\* Where the worker goes on when its record is written, and when it is not:
\* inside run_blender_frames an error becomes the outcome, elsewhere it fails
\* the job, and an error while settling is only logged.
Resume(saved) ==
  CASE worker.pc = "settle" -> GoTo("release")
    [] saved /\ worker.pc = "start"        -> GoTo("run")
    [] saved /\ worker.pc = "load_phase"   -> GoTo("load")
    [] saved /\ worker.pc = "frame_phase"  -> GoTo("render")
    [] saved /\ worker.pc = "progress"     -> GoTo("frames")
    [] saved /\ worker.pc = "encode_phase" -> GoTo("encode")
    [] saved /\ worker.pc = "outcome_save" ->
         GoTo(CASE worker.outcome = "completed" -> "finish"
                [] worker.outcome = "cancelled" -> "cancel"
                [] OTHER                        -> "fail")
    [] ~saved /\ worker.pc \in {"load_phase", "frame_phase", "progress"} ->
         Return("failed")
    [] OTHER -> GoTo("fail")

WorkerWrites ==
  /\ worker.pc \in WorkerSaving
  /\ \E out \in WriteOutcome : Write("worker", worker.job, out) /\ Resume(out = "ok")
  /\ UNCHANGED <<stager, client, history>>

\* The job was evicted from the history before its last write.
WorkerFindsNoJob ==
  /\ worker.pc \in WorkerSaving
  /\ lock = "free"
  /\ mem[worker.job] = None
  /\ Resume(FALSE)
  /\ UNCHANGED <<memory, stager, client, disk, history>>

\* job_worker forgets the cancellation token and takes the next job.
Release ==
  /\ At("release")
  /\ token' = [token EXCEPT ![worker.job] = "absent"]
  /\ worker' = IdleWorker
  /\ UNCHANGED <<mem, order, queue, lock, image, blocked, stager, client, disk, history>>

Worker == \/ Receive \/ StartJob \/ RunJob \/ LoadSource \/ NextFrame
          \/ RenderFrame \/ RecordOutcome \/ FinishAfterBlender \/ EncodeVideo
          \/ CompleteJob \/ MarkCancelled \/ FailJob \/ WorkerCopies
          \/ WorkerWrites \/ WorkerFindsNoJob \/ Release

-----------------------------------------------------------------------------
(* Admission and staging of a submission, one at a time.                    *)

StagerSaving == {"wait", "settle"}

StagerPc == StagerSaving \cup
            {"idle", "snapshot", "admit", "record", "index", "reject",
             "commit", "enqueue", "push", "fail", "release"}

IdleStager == [pc |-> "idle", job |-> None]

Staging(pc) == stager.pc = pc

StagerTo(pc) == stager' = [stager EXCEPT !.pc = pc]

\* The submission is answered with the job's status.
Answer == /\ stager'   = IdleStager
          /\ accepted' = accepted \cup {stager.job}
          /\ UNCHANGED <<restarts, acked>>

\* A random identity that nothing refers to.
Fresh(j) == /\ mem[j] = None /\ record[j] = None
            /\ worker.job # j /\ stager.job # j
            /\ \A c \in Clients : client[c].job # j

\* stage_submission, up to the start of the detached staging task.
Submit ==
  /\ Staging("idle")
  /\ ~blocked
  /\ Cardinality(Active) < QueueDepth
  /\ \E j \in Jobs : Fresh(j) /\ stager' = [pc |-> "snapshot", job |-> j]
  /\ UNCHANGED <<memory, worker, client, disk, history>>

\* The oldest ended job leaves the history when it is full.  The history is
\* never longer than MaxHistory, so that the loop of evict_oldest_terminal
\* makes at most one round.
Evict(evicted, kept) ==
  \/ /\ Len(order) < MaxHistory \/ \A i \in DOMAIN order : IsActive(order[i])
     /\ evicted = None
     /\ kept = order
  \/ /\ Len(order) >= MaxHistory
     /\ \E i \in DOMAIN order :
          /\ ~IsActive(order[i])
          /\ \A k \in 1 .. i - 1 : IsActive(order[k])
          /\ evicted = order[i]
          /\ kept = RemoveAt(order, i)

\* The source was copied and hashed: the job enters the registry.
Register ==
  /\ Staging("snapshot")
  /\ \E evicted \in {order[i] : i \in DOMAIN order} \cup {None} :
       \E kept \in {order} \cup {RemoveAt(order, i) : i \in DOMAIN order} :
         /\ Evict(evicted, kept)
         /\ order' = Append(kept, stager.job)
         /\ mem'   = [j \in Jobs |-> IF j = stager.job THEN NewRecord
                                     ELSE IF j = evicted THEN None ELSE mem[j]]
         /\ token' = [j \in Jobs |-> IF j = stager.job THEN "live"
                                     ELSE IF j = evicted THEN "absent" ELSE token[j]]
  /\ StagerTo("admit")
  /\ UNCHANGED <<queue, lock, image, blocked, worker, client, disk, history>>

\* The source could not be copied within its bounds: the submission fails.
SnapshotFails ==
  /\ Staging("snapshot")
  /\ stager' = IdleStager
  /\ UNCHANGED <<memory, worker, client, disk, history>>

\* persist_job_and_index copies the record and the index.  Only the stager
\* changes the order, so that the index it writes is the order it copied.
CopyRecordAndIndex ==
  /\ Staging("admit")
  /\ Copy("stager", stager.job)
  /\ StagerTo("record")
  /\ UNCHANGED <<worker, client, disk, history>>

\* Mutant of WriteAdmittedRecord: the index is written whether or not the
\* record was.
AdmitUnwritten ==
  /\ Staging("record")
  /\ \E out \in WriteOutcome :
       /\ Medium(out)
       /\ record' = IF out = "lost" THEN record ELSE [record EXCEPT ![stager.job] = image]
       /\ StagerTo("index") /\ UNCHANGED <<lock, image>>
  /\ UNCHANGED <<mem, order, queue, token, blocked, worker, client,
                 index, indexed, source, history>>

WriteAdmittedRecord ==
  /\ Staging("record")
  /\ \E out \in WriteOutcome :
       /\ Medium(out)
       /\ record' = IF out = "lost" THEN record ELSE [record EXCEPT ![stager.job] = image]
       /\ IF out = "ok" THEN StagerTo("index") /\ UNCHANGED <<lock, image>>
                        ELSE StagerTo("reject") /\ lock' = "free" /\ image' = None
  /\ UNCHANGED <<mem, order, queue, token, blocked, worker, client,
                 index, indexed, source, history>>

\* Mutant of WriteIndex: a job is accepted although the index was not written.
WriteIndexAnyhow ==
  /\ Staging("index")
  /\ lock' = "free"
  /\ image' = None
  /\ \E out \in WriteOutcome :
       /\ Medium(out)
       /\ IF out = "lost" THEN UNCHANGED <<index, indexed>>
                          ELSE index' = order /\ indexed' = TRUE
       /\ StagerTo("commit")
  /\ UNCHANGED <<mem, order, queue, token, blocked, worker, client,
                 record, source, history>>

WriteIndex ==
  /\ Staging("index")
  /\ lock' = "free"
  /\ image' = None
  /\ \E out \in WriteOutcome :
       /\ Medium(out)
       /\ IF out = "lost" THEN UNCHANGED <<index, indexed>>
                          ELSE index' = order /\ indexed' = TRUE
       /\ StagerTo(IF out = "ok" THEN "commit" ELSE "reject")
  /\ UNCHANGED <<mem, order, queue, token, blocked, worker, client,
                 record, source, history>>

\* remove_job: the submission is answered with an error.
Reject ==
  /\ Staging("reject")
  /\ \E i \in DOMAIN order : /\ order[i] = stager.job
                             /\ order' = RemoveAt(order, i)
  /\ mem'   = [mem EXCEPT ![stager.job] = None]
  /\ token' = [token EXCEPT ![stager.job] = "absent"]
  /\ stager' = IdleStager
  /\ UNCHANGED <<queue, lock, image, blocked, worker, client, disk, history>>

\* The copied source is committed as the job's own.
CommitSource ==
  /\ Staging("commit")
  /\ \E out \in WriteOutcome :
       /\ Medium(out)
       /\ source' = IF out = "lost" THEN source ELSE source \cup {stager.job}
       /\ StagerTo(IF out = "ok" THEN "enqueue" ELSE "fail")
  /\ UNCHANGED <<memory, worker, client, record, index, indexed, history>>

\* mark_waiting_for_enqueue: a job cancelled meanwhile is not queued.
MarkWaiting ==
  /\ Staging("enqueue")
  /\ IF mem[stager.job].state # "queued" \/ mem[stager.job].cancel
     THEN Answer
     ELSE StagerTo("wait") /\ UNCHANGED history
  /\ UNCHANGED <<memory, worker, client, disk>>

\* Mutant of Push: a job the queue refuses is left waiting.
PushSilently ==
  /\ Staging("push")
  /\ queue' = IF Len(queue) < QueueDepth THEN Append(queue, stager.job) ELSE queue
  /\ Answer
  /\ UNCHANGED <<mem, order, token, lock, image, blocked, worker, client, disk>>

\* JobQueue::push.
Push ==
  /\ Staging("push")
  /\ IF Len(queue) < QueueDepth
     THEN queue' = Append(queue, stager.job) /\ Answer
     ELSE StagerTo("fail") /\ UNCHANGED <<queue, history>>
  /\ UNCHANGED <<mem, order, token, lock, image, blocked, worker, client, disk>>

\* fail_job by the stager.
StagingFails ==
  /\ Staging("fail")
  /\ mem' = Failed(stager.job)
  /\ StagerTo(IF IsActive(stager.job) THEN "settle" ELSE "release")
  /\ UNCHANGED <<order, queue, token, lock, image, blocked, worker, client, disk, history>>

StagerCopies ==
  /\ stager.pc \in StagerSaving
  /\ Copy("stager", stager.job)
  /\ UNCHANGED <<worker, stager, client, disk, history>>

StagerWrites ==
  /\ stager.pc \in StagerSaving
  /\ \E out \in WriteOutcome :
       /\ Write("stager", stager.job, out)
       /\ StagerTo(IF Staging("settle") THEN "release"
                   ELSE IF out = "ok" THEN "push" ELSE "fail")
  /\ UNCHANGED <<worker, client, history>>

\* The end of fail_job.
StagerReleases ==
  /\ Staging("release")
  /\ token' = [token EXCEPT ![stager.job] = "absent"]
  /\ Answer
  /\ UNCHANGED <<mem, order, queue, lock, image, blocked, worker, client, disk>>

Stager == \/ Register \/ SnapshotFails \/ CopyRecordAndIndex
          \/ WriteAdmittedRecord \/ WriteIndex \/ Reject \/ CommitSource
          \/ MarkWaiting \/ Push \/ StagingFails \/ StagerCopies
          \/ StagerWrites \/ StagerReleases

-----------------------------------------------------------------------------
(* Cancellation.                                                            *)

ClientPc == {"idle", "token", "save", "saving"}

IdleClient == [pc |-> "idle", job |-> None]

ClientTo(c, pc) == client' = [client EXCEPT ![c].pc = pc]

\* Mutant of Cancel: the head of the queue is dropped for the cancelled job.
CancelHead(c, j) ==
  /\ client[c].pc = "idle"
  /\ mem[j] # None
  /\ client' = [client EXCEPT ![c] = [pc |-> "token", job |-> j]]
  /\ mem' = IF IsActive(j)
            THEN [mem EXCEPT ![j].cancel = TRUE,
                             ![j].state = IF @ = "queued" THEN "cancelled" ELSE @]
            ELSE mem
  /\ queue' = IF Startable(j) /\ queue # <<>> THEN Tail(queue) ELSE queue
  /\ UNCHANGED <<order, token, lock, image, blocked, worker, stager, disk, history>>

\* cancel, under the state lock: a queued job ends at once and leaves the
\* queue, a running one is asked to end, an ended one is left alone.
Cancel(c, j) ==
  /\ client[c].pc = "idle"
  /\ mem[j] # None
  /\ client' = [client EXCEPT ![c] = [pc |-> "token", job |-> j]]
  /\ mem' = IF IsActive(j)
            THEN [mem EXCEPT ![j].cancel = TRUE,
                             ![j].state = IF @ = "queued" THEN "cancelled" ELSE @]
            ELSE mem
  /\ \/ /\ Startable(j)
        /\ \E i \in DOMAIN queue : queue[i] = j /\ queue' = RemoveAt(queue, i)
     \/ /\ ~Startable(j) \/ \A i \in DOMAIN queue : queue[i] # j
        /\ UNCHANGED queue
  /\ UNCHANGED <<order, token, lock, image, blocked, worker, stager, disk, history>>

\* Mutant of CancelToken: the worker is not told.
CancelQuietly(c) ==
  /\ client[c].pc = "token"
  /\ ClientTo(c, "save")
  /\ UNCHANGED <<memory, worker, stager, disk, history>>

\* The token tells the worker.
CancelToken(c) ==
  /\ client[c].pc = "token"
  /\ token' = [token EXCEPT ![client[c].job] = IF @ = "live" THEN "cancelled" ELSE @]
  /\ ClientTo(c, "save")
  /\ UNCHANGED <<mem, order, queue, lock, image, blocked, worker, stager, disk, history>>

CancelCopies(c) ==
  /\ client[c].pc = "save"
  /\ Copy(c, client[c].job)
  /\ ClientTo(c, "saving")
  /\ UNCHANGED <<worker, stager, disk, history>>

\* The cancellation is answered once the record is on disk.
CancelWrites(c) ==
  /\ client[c].pc = "saving"
  /\ \E out \in WriteOutcome :
       /\ Write(c, client[c].job, out)
       /\ acked' = IF out = "ok" /\ image.cancel THEN acked \cup {client[c].job} ELSE acked
  /\ client' = [client EXCEPT ![c] = IdleClient]
  /\ UNCHANGED <<worker, stager, restarts, accepted>>

\* The request is dropped, or its job is gone: what it did so far stays done.
CancelEnds(c) ==
  /\ client[c].pc \in {"token", "save"}
  /\ client' = [client EXCEPT ![c] = IdleClient]
  /\ UNCHANGED <<memory, worker, stager, disk, history>>

Client(c) == \/ \E j \in Jobs : Cancel(c, j)
             \/ CancelToken(c) \/ CancelCopies(c) \/ CancelWrites(c) \/ CancelEnds(c)

-----------------------------------------------------------------------------
(* Restart.                                                                 *)

\* validate_recovered_job, for an isolated job.
Valid(j) ==
  /\ record[j] # None
  /\ record[j].done <= Total(j)
  /\ record[j].finished /\ ~record[j].cancel /\ ~record[j].failed
       => record[j].done = Total(j)

Listed == {index[i] : i \in (1 .. MaxHistory) \cap DOMAIN index}

\* q holds the elements of S once each, in the order of s.
Enumerates(q, S, s) ==
  /\ {q[i] : i \in DOMAIN q} = S
  /\ \A a, b \in DOMAIN q : a < b =>
       \E i, k \in DOMAIN s : i < k /\ s[i] = q[a] /\ s[k] = q[b]

\* Mutant of Recovered: a recovered job starts over.
RecoveredFromScratch(j) ==
  IF record[j].state # "running" THEN record[j]
  ELSE [record[j] EXCEPT !.state = IF record[j].cancel THEN "cancelled" ELSE "queued",
                         !.done = 0]

\* A job that was running ends if its cancellation was requested, and waits
\* for the worker again otherwise.
Recovered(j) ==
  IF record[j].state # "running" THEN record[j]
  ELSE [record[j] EXCEPT !.state = IF record[j].cancel THEN "cancelled" ELSE "queued"]

\* Without an index, jobs left on disk block recovery; with one, an index that
\* is too long or repeats itself, or a listed job without a valid record, does.
Unreadable ==
  IF indexed THEN \/ Len(index) > MaxHistory
                  \/ ~IsInjective(index)
                  \/ \E j \in Listed : ~Valid(j)
             ELSE \E j \in Jobs : record[j] # None

Known   == {j \in Listed : Valid(j)}
Waiting == {j \in Known : Recovered(j).state = "queued"}

\* The waiting jobs, queued in the order q, beyond the queue depth.
Dropped(q) == {q[i] : i \in {k \in DOMAIN q : k > QueueDepth}}

\* The registry after recover_state: the dropped jobs have failed.
Booted(q) ==
  [j \in Jobs |->
     IF j \notin Known THEN None
     ELSE IF j \in Dropped(q) THEN [Recovered(j) EXCEPT !.state = "failed", !.failed = TRUE]
     ELSE Recovered(j)]

\* The server stops, and recover_state rebuilds the registry.  Every record it
\* rewrites may fail to reach the disk.
Restart ==
  /\ restarts < MaxRestarts
  /\ restarts' = restarts + 1
  /\ \E ord \in [1 .. Cardinality(Known) -> Known] :
       Enumerates(ord, Known, index) /\ order' = ord
  /\ \E q \in [1 .. Cardinality(Waiting) -> Waiting] :
       /\ Enumerates(q, Waiting, index)
       /\ mem' = Booted(q)
       /\ queue' = IF Unreadable THEN <<>>
                    ELSE IF Len(q) <= QueueDepth THEN q ELSE SubSeq(q, 1, QueueDepth)
       /\ token' = [j \in Jobs |-> IF j \notin Waiting \ Dropped(q) THEN "absent"
                                   ELSE IF record[j].cancel THEN "cancelled" ELSE "live"]
       /\ \E requeued \in SUBSET {j \in Known : Recovered(j) # record[j]},
             failed \in SUBSET Dropped(q) :
            record' = [j \in Jobs |-> IF j \in failed THEN Booted(q)[j]
                                      ELSE IF j \in requeued THEN Recovered(j)
                                      ELSE record[j]]
  /\ blocked' = Unreadable
  /\ lock' = "free" /\ image' = None
  /\ worker' = IdleWorker /\ stager' = IdleStager
  /\ client' = [c \in Clients |-> IdleClient]
  /\ UNCHANGED <<index, indexed, source, faults, accepted, acked>>

-----------------------------------------------------------------------------

Init ==
  /\ mem = [j \in Jobs |-> None] /\ order = <<>> /\ queue = <<>>
  /\ token = [j \in Jobs |-> "absent"]
  /\ lock = "free" /\ image = None /\ blocked = FALSE
  /\ worker = IdleWorker /\ stager = IdleStager
  /\ client = [c \in Clients |-> IdleClient]
  /\ record = [j \in Jobs |-> None] /\ index = <<>> /\ indexed = FALSE /\ source = {}
  /\ faults = 0
  /\ restarts = 0 /\ accepted = {} /\ acked = {}

Next == \/ Worker
        \/ Submit \/ Stager
        \/ \E c \in Clients : Client(c)
        \/ Restart

Spec == Init /\ [][Next]_vars

\* The tasks of the worker and the stager are driven to their end: every
\* command to Blender, every lane wait and the encoder have a time limit, and
\* a write in a blocking task is not stopped when its request is dropped.
\* tokio's mutex is first come, first served, so that whoever waits for the
\* persistence lock gets it however often others take it: strong fairness.
\* Nobody has to submit, to cancel, or to wait for the answer.
Fairness ==
  /\ WF_vars(Worker) /\ SF_vars(WorkerCopies)
  /\ WF_vars(Stager) /\ SF_vars(CopyRecordAndIndex) /\ SF_vars(StagerCopies)
  /\ \A c \in Clients : WF_vars(CancelWrites(c))

FairSpec == Spec /\ Fairness

-----------------------------------------------------------------------------
(* Properties.                                                              *)

Token == {"absent", "live", "cancelled"}

MemoryType ==
  /\ mem \in [Jobs -> Record \cup {None}]
  /\ order \in Seq(Jobs)
  /\ queue \in Seq(Jobs) /\ Len(queue) <= QueueDepth
  /\ token \in [Jobs -> Token]
  /\ lock \in {"free", "worker", "stager"} \cup Clients
  /\ image \in Record \cup {None}
  /\ blocked \in BOOLEAN

ProcessType ==
  /\ worker \in [pc : WorkerPc, job : Jobs \cup {None}, outcome : Outcome]
  /\ stager \in [pc : StagerPc, job : Jobs \cup {None}]
  /\ client \in [Clients -> [pc : ClientPc, job : Jobs \cup {None}]]

DiskType ==
  /\ record \in [Jobs -> Record \cup {None}]
  /\ index \in Seq(Jobs)
  /\ indexed \in BOOLEAN
  /\ source \in SUBSET Jobs
  /\ faults \in Nat

HistoryType ==
  /\ restarts \in Nat
  /\ accepted \in SUBSET Jobs
  /\ acked \in SUBSET Jobs

\* The variables range over what the code can hold, and the queue never holds
\* more than its capacity.
TypeOK == MemoryType /\ ProcessType /\ DiskType /\ HistoryType

\* No write can put an older record over a newer one (DECISIONS.md:523-526):
\* what is on disk is never ahead of the copy that is being written, and the
\* copy is never ahead of the memory.
Writing(j) == \/ lock = "worker" /\ worker.job = j
              \/ lock = "stager" /\ stager.job = j /\ stager.pc # "index"
              \/ \E c \in Clients : lock = c /\ client[c].job = j

NoStaleWrite ==
  \A j \in Jobs :
    /\ mem[j] # None /\ record[j] # None => Follows(record[j], mem[j])
    /\ Writing(j) => /\ record[j] # None => Follows(record[j], image)
                     /\ mem[j] # None => Follows(image, mem[j])

\* The history can be read back: a restart never finds an index that is too
\* long or repeats a job, or a listed job without a valid record, whichever
\* writes failed before.
HistoryReadable == indexed => ~Unreadable

\* A queued job is where the worker will find it: in the queue, in the
\* worker's hands, or still being staged.  None is stranded by a restart, a
\* cancellation or a failed write.
QueuedIsScheduled ==
  \A j \in Jobs : ~blocked /\ Startable(j) =>
    \/ \E i \in DOMAIN queue : queue[i] = j
    \/ At("popped") /\ worker.job = j
    \/ stager.job = j

\* A job renders only while its durable record says so, and only the first
\* frame that record does not count (docs/render-worker.md:31).
RendersFirstUnrecorded ==
  At("render") => /\ record[worker.job].state = "running"
                  /\ record[worker.job].done = mem[worker.job].done
                  /\ ~record[worker.job].finished

\* A durable success was rendered completely, from the job's own source, and
\* nobody had been told that the job was cancelled.
SuccessIsEarned ==
  \A j \in Jobs : record[j] # None /\ record[j].state = "succeeded" =>
    /\ record[j].done = Total(j)
    /\ record[j].finished /\ ~record[j].failed
    /\ j \in source /\ j \notin acked

\* A cancellation that was answered holds in memory and on disk, and reaches
\* the worker that is running the job.
CancellationHolds ==
  \A j \in acked :
    /\ record[j] # None /\ record[j].cancel
    /\ mem[j] # None => mem[j].cancel
    /\ mem[j] # None /\ mem[j].state = "running" => token[j] = "cancelled"

\* An accepted job that has not ended stays known: neither an eviction nor a
\* restart after any failed write makes the registry forget it.
NoJobForgotten ==
  [][\A j \in accepted : IsActive(j) => mem'[j] # None]_vars

\* Every job that waits or runs comes to an end, or is forgotten together with
\* the submission that was refused.
EveryJobEnds == \A j \in Jobs : IsActive(j) ~> ~IsActive(j)

\* Every submission is answered, and frees the admission lock.
EverySubmissionEnds == ~Staging("idle") ~> Staging("idle")

\* The records on disk keep the promise of JobLedger: through failed writes,
\* cancellations and restarts no job moves backwards, renders a frame twice
\* into its count or succeeds without its frames.
Ledger == INSTANCE JobLedger WITH ledger <- record

LedgerSpec == Ledger!Spec

\* Queued cancellation removes the pending work item before the admission slot
\* is released, so that churn cannot exhaust the physical queue
\* (DECISIONS.md:535-538): an admitted job always finds room in the queue.
QueueHasRoom == Staging("push") => Len(queue) < QueueDepth

=============================================================================
