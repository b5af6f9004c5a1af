---------------------------- MODULE SessionRecovery ----------------------------
(***************************************************************************)
(* Render jobs of the earlier mode (JobExecution::LegacySession), which a   *)
(* server without a render worker still finishes (jobs.rs).  Such a job     *)
(* renders in the live Blender: the worker saves the live session to a      *)
(* checkpoint, loads the job's source over it, renders, and restores the    *)
(* checkpoint.  The checkpoint must never be lost while the job's scene is  *)
(* live, no other client may see that scene, and what users did after the   *)
(* restore must survive every crash.                                       *)
(*                                                                         *)
(* The lane is the lock of the Blender endpoint (client.rs); the fence      *)
(* keeps every client but the worker from using it.  scene stands for what  *)
(* the live Blender holds: how many of the users' edits, or a job's scene.  *)
(* Blender is a process of its own and survives a stop of the server.       *)
(***************************************************************************)
EXTENDS Naturals, Sequences, FiniteSets

CONSTANTS
  Order,        \* the job index, oldest first
  Stills,       \* the jobs that render one image and encode no video
  Frames,       \* number of frames of a job that is not a still
  QueueDepth,   \* the greatest PRINTABLE_RENDER_JOB_QUEUE_DEPTH configured
  Clients,      \* clients that cancel jobs
  None,         \* no job, no record, no checkpoint; as a scene, that of a job
  MaxEdits,     \* bound: edits of the live scene by users
  MaxRestarts,  \* bound: restarts in a behaviour
  MaxFaults     \* bound: writes and Blender commands that fail, restarts apart

Jobs == {Order[i] : i \in DOMAIN Order}

ASSUME OrderAssumption == /\ Order \in Seq(Jobs)
                          /\ \A i, k \in DOMAIN Order : Order[i] = Order[k] => i = k
                          /\ None \notin Jobs /\ Stills \subseteq Jobs
ASSUME SizeAssumption  == /\ Frames \in Nat \ {0} /\ QueueDepth \in Nat
                          /\ 1 <= QueueDepth /\ Len(Order) <= QueueDepth
ASSUME LimitAssumption == MaxEdits \in Nat /\ MaxRestarts \in Nat /\ MaxFaults \in Nat
ASSUME OwnerAssumption == {"worker", "user", "free"} \cap Clients = {}

VARIABLES
  \* memory
  mem,         \* [Jobs -> Record or None]: RegistryState.jobs
  queue,       \* Seq(Jobs): JobQueue.items
  token,       \* [Jobs -> Token]: cancellations
  lock, image, \* the persistence lock's owner, and the copy it writes
  blocked,     \* recovery_integrity.blocked()
  fence,       \* EndpointState.recovery_fenced
  lane,        \* who owns EndpointState.lock
  worker,      \* [pc, job, outcome]: job_worker
  client,      \* [Clients -> [pc, job]]: cancel
  \* disk
  record,      \* [Jobs -> Record]: <job>/job.json
  checkpoint,  \* [Jobs -> edits in <job>/pre-job-session.blend, or None]
  \* the live Blender, and the users
  scene,       \* the edits the live scene holds, or None for a job's scene
  edits,       \* the edits the users made
  faults, restarts

registry == <<mem, queue, token, blocked>>
saving   == <<lock, image>>
blender  == <<checkpoint, scene, edits>>
bounds   == <<faults, restarts>>
vars     == <<registry, saving, fence, lane, worker, client, record, blender, bounds>>

-----------------------------------------------------------------------------
(* Records.                                                                *)

Terminal == {"succeeded", "failed", "cancelled"}
JobState == {"queued", "running"} \cup Terminal
Outcome  == {"none", "completed", "cancelled", "failed"}

\* captured, restored: session_checkpoint_captured and _restored; pending:
\* pending_blender_outcome; done: progress.completed_frames; cancel:
\* cancellation_requested; failed: failure is present.
Record == [state : JobState, captured : BOOLEAN, restored : BOOLEAN,
           pending : Outcome, done : Nat, cancel : BOOLEAN, failed : BOOLEAN]

ASSUME NoneAssumption == None \notin Record /\ None \notin Nat

NewRecord == [state |-> "queued", captured |-> FALSE, restored |-> FALSE,
              pending |-> "none", done |-> 0, cancel |-> FALSE, failed |-> FALSE]

Total(j) == IF j \in Stills THEN 1 ELSE Frames

\* The live session is in the checkpoint of r, and was not put back.
MustRestore(r) == r # None /\ r.captured /\ ~r.restored

Fenced(m, halted) == halted \/ \E j \in Jobs : MustRestore(m[j])

\* The elements of s that are in S, in their order.
Only(s, S) ==
  LET kept[i \in 0 .. Len(s)] ==
        IF i = 0 THEN <<>>
        ELSE IF s[i] \in S THEN Append(kept[i - 1], s[i]) ELSE kept[i - 1]
  IN kept[Len(s)]

IsActive(j) == mem[j] # None /\ mem[j].state \notin Terminal

-----------------------------------------------------------------------------
(* Writes.                                                                 *)

WriteOutcome == {"ok", "lost", "unsynced"}

\* Something works, or fails while the bound allows.
Attempt(ok) == IF ok THEN UNCHANGED faults
                     ELSE faults < MaxFaults /\ faults' = faults + 1

\* The owner of the lock takes a copy to write.
Copy(who, copy) ==
  /\ lock = "free"
  /\ lock' = who /\ image' = copy

\* The write itself, by the blocking task that carries the lock.
Write(who, j, out) ==
  /\ lock = who
  /\ Attempt(out = "ok")
  /\ record' = IF out = "lost" THEN record ELSE [record EXCEPT ![j] = image]
  /\ lock' = "free" /\ image' = None
  /\ UNCHANGED <<registry, blender, restarts>>

-----------------------------------------------------------------------------
(* The worker.  At a pc of WorkerSaving it waits for, or performs, a        *)
(* persist_job of its job as the memory has it; at "marker" it persists     *)
(* the job as it will be, restored.                                        *)

WorkerSaving == {"start", "capture_phase", "captured", "load_phase", "frame_phase",
                 "progress", "pending", "pending_again", "note", "encode_phase", "settle"}

WorkerPc == WorkerSaving \cup
  {"idle", "popped", "run", "capture", "work", "load", "frames", "render", "broken",
   "lane_again", "restore", "marker", "restored", "error", "finish", "encode",
   "complete", "cancel", "fail", "release"}

IdleWorker == [pc |-> "idle", job |-> None, outcome |-> "none"]

At(pc)     == worker.pc = pc
GoTo(pc)   == worker' = [worker EXCEPT !.pc = pc]
job        == worker.job
Cancelled  == token[job] = "cancelled"

\* An error of run_job: while the session must be restored, the worker notes
\* the error and runs the job again; otherwise the job fails.
RunFails ==
  IF MustRestore(mem[job])
  THEN GoTo("note") /\ mem' = [mem EXCEPT ![job].failed = TRUE]
  ELSE GoTo("fail") /\ UNCHANGED mem

\* Blender's work ended: record_pending_blender_outcome.
Outcomes(outcome) ==
  /\ worker' = [worker EXCEPT !.pc = "pending", !.outcome = outcome]
  /\ mem' = [mem EXCEPT ![job].pending = outcome]

\* The error of a write inside run_blender_frames, and of one outside it.
FramesBreakOff ==
  /\ At("broken")
  /\ Outcomes("failed")
  /\ UNCHANGED <<queue, token, blocked, saving, fence, lane, client, record, blender, bounds>>

RunBreaksOff ==
  /\ At("error")
  /\ RunFails
  /\ lane' = "free"
  /\ UNCHANGED <<queue, token, blocked, saving, fence, client, record, blender, bounds>>

\* JobQueue::receive.
Receive ==
  /\ At("idle") /\ queue # <<>>
  /\ worker' = [pc |-> "popped", job |-> Head(queue), outcome |-> "none"]
  /\ queue' = Tail(queue)
  /\ UNCHANGED <<mem, token, blocked, saving, fence, lane, client, record, blender, bounds>>

\* start_job, unless the job is gone or no longer queued.
StartJob ==
  /\ At("popped")
  /\ IF mem[job] # None /\ mem[job].state = "queued"
     THEN mem' = [mem EXCEPT ![job].state = "running"] /\ GoTo("start")
     ELSE UNCHANGED mem /\ GoTo("release")
  /\ UNCHANGED <<queue, token, blocked, saving, fence, lane, client, record, blender, bounds>>

\* run_job: after a restore only the work that needs no Blender is left.
SkipBlender ==
  /\ At("run") /\ mem[job].restored
  /\ GoTo("finish")
  /\ UNCHANGED <<registry, saving, fence, lane, client, record, blender, bounds>>

\* recovery_transaction, which the fence does not stop.
TakeLane ==
  /\ lane = "free" /\ lane' = "worker"
  /\ \/ /\ At("run") /\ ~mem[job].restored
        /\ GoTo(IF mem[job].captured THEN "work" ELSE "capture_phase")
     \/ At("lane_again") /\ GoTo("restore")
  /\ UNCHANGED <<registry, saving, fence, client, record, blender, bounds>>

\* Others kept the lane for too long.
LaneTimesOut ==
  /\ lane = "user"
  /\ (At("run") /\ ~mem[job].restored) \/ At("lane_again")
  /\ RunFails
  /\ UNCHANGED <<queue, token, blocked, saving, fence, lane, client, record, blender, bounds>>

\* Blender saves the live session; record_session_checkpoint_captured.
Capture ==
  /\ At("capture")
  /\ \E ok \in BOOLEAN :
       /\ Attempt(ok)
       /\ checkpoint' \in {[checkpoint EXCEPT ![job] = scene]}
                          \cup (IF ok THEN {} ELSE {checkpoint})
       /\ IF ok THEN /\ mem' = [mem EXCEPT ![job].captured = TRUE, ![job].restored = FALSE]
                     /\ GoTo("captured") /\ UNCHANGED lane
                ELSE RunFails /\ lane' = "free"
  /\ UNCHANGED <<queue, token, blocked, saving, fence, client, record, scene, edits, restarts>>

\* Mutant of StartWork: the recorded outcome is overlooked.
StartWorkAgain ==
  /\ At("work")
  /\ IF Cancelled THEN Outcomes("cancelled") ELSE GoTo("load_phase") /\ UNCHANGED mem
  /\ UNCHANGED <<queue, token, blocked, saving, fence, lane, client, record, blender, bounds>>

\* With the session captured: an outcome that was recorded earlier is not
\* worked for again.
StartWork ==
  /\ At("work")
  /\ IF mem[job].pending # "none"
     THEN /\ worker' = [worker EXCEPT !.pc = "restore", !.outcome = mem[job].pending]
          /\ UNCHANGED mem
     ELSE IF Cancelled THEN Outcomes("cancelled")
     ELSE GoTo("load_phase") /\ UNCHANGED mem
  /\ UNCHANGED <<queue, token, blocked, saving, fence, lane, client, record, blender, bounds>>

\* Blender loads the job's source over the live session.
LoadSource ==
  /\ At("load")
  /\ \E ok \in BOOLEAN :
       /\ Attempt(ok)
       /\ IF ok THEN scene' = None /\ GoTo("frames") /\ UNCHANGED mem
                ELSE scene' \in {scene, None} /\ Outcomes("failed")
  /\ UNCHANGED <<queue, token, blocked, saving, fence, lane, client, record,
                 checkpoint, edits, restarts>>

\* The head of the frame loop.
NextFrame ==
  /\ At("frames")
  /\ IF Cancelled THEN Outcomes("cancelled")
     ELSE IF mem[job].done = Total(job) THEN Outcomes("completed")
     ELSE GoTo("frame_phase") /\ UNCHANGED mem
  /\ UNCHANGED <<queue, token, blocked, saving, fence, lane, client, record, blender, bounds>>

\* Blender renders the first frame that is not recorded, or fails to.
RenderFrame ==
  /\ At("render")
  /\ \E ok \in BOOLEAN :
       /\ Attempt(ok)
       /\ IF ok THEN mem' = [mem EXCEPT ![job].done = @ + 1] /\ GoTo("progress")
                ELSE Outcomes("failed")
  /\ UNCHANGED <<queue, token, blocked, saving, fence, lane, client, record, blender, restarts>>

\* Mutant of Restore: the error of Blender is overlooked.
RestoreRegardless ==
  /\ At("restore")
  /\ lane' = "free"
  /\ \E ok \in BOOLEAN :
       /\ Attempt(ok)
       /\ scene' \in {checkpoint[job]} \cup (IF ok THEN {} ELSE {scene})
       /\ GoTo("marker") /\ UNCHANGED mem
  /\ UNCHANGED <<queue, token, blocked, saving, fence, client, record,
                 checkpoint, edits, restarts>>

\* Blender puts the checkpoint back, and the worker leaves the lane.
Restore ==
  /\ At("restore")
  /\ lane' = "free"
  /\ \E ok \in BOOLEAN :
       /\ Attempt(ok)
       /\ IF ok THEN scene' = checkpoint[job] /\ GoTo("marker") /\ UNCHANGED mem
                ELSE scene' \in {scene, checkpoint[job]} /\ RunFails
  /\ UNCHANGED <<queue, token, blocked, saving, fence, client, record,
                 checkpoint, edits, restarts>>

\* Mutants of Restored: the outcome is not taken out of the record; the
\* failure is not put into it.
RestoredPending(r) == [r EXCEPT !.restored = TRUE, !.failed = (worker.outcome = "failed")]
RestoredForgets(r) == [r EXCEPT !.restored = TRUE, !.pending = "none"]

Restored(r) == [r EXCEPT !.restored = TRUE, !.pending = "none",
                         !.failed = (worker.outcome = "failed")]

\* persist_restored_marker_once copies the job, restored; the memory learns
\* of it only when the copy is on disk.
MarkerCopies ==
  /\ At("marker")
  /\ Copy("worker", Restored(mem[job]))
  /\ UNCHANGED <<registry, fence, lane, worker, client, record, blender, bounds>>

\* Mutant of MarkerWrites: a marker that was not written is not written again.
MarkOnce ==
  /\ At("marker")
  /\ \E out \in WriteOutcome : Write("worker", job, out) /\ GoTo("restored")
  /\ UNCHANGED <<fence, lane, client>>

MarkerWrites ==
  /\ At("marker")
  /\ \E out \in WriteOutcome :
       Write("worker", job, out) /\ GoTo(IF out = "ok" THEN "restored" ELSE "marker")
  /\ UNCHANGED <<fence, lane, client>>

\* Mutant of NoteRestored: the fence is not refreshed.
NoteQuietly ==
  /\ At("restored")
  /\ mem' = [mem EXCEPT ![job] = Restored(mem[job])]
  /\ GoTo(CASE worker.outcome = "failed"    -> "fail"
            [] worker.outcome = "cancelled" -> "cancel"
            [] OTHER                        -> "finish")
  /\ UNCHANGED <<queue, token, blocked, saving, fence, lane, client, record, blender, bounds>>

\* The memory follows, and the fence is lifted; then the outcome that was
\* recorded before the restore takes effect.
NoteRestored ==
  /\ At("restored")
  /\ mem' = [mem EXCEPT ![job] = Restored(mem[job])]
  /\ fence' = Fenced(mem', blocked)
  /\ GoTo(CASE worker.outcome = "failed"    -> "fail"
            [] worker.outcome = "cancelled" -> "cancel"
            [] OTHER                        -> "finish")
  /\ UNCHANGED <<queue, token, blocked, saving, lane, client, record, blender, bounds>>

\* finish_after_blender.
FinishAfterBlender ==
  /\ At("finish")
  /\ GoTo(IF mem[job].failed THEN "fail"
          ELSE IF Cancelled THEN "cancel"
          ELSE IF mem[job].done # Total(job) THEN "fail"
          ELSE IF job \in Stills THEN "complete"
          ELSE "encode_phase")
  /\ UNCHANGED <<registry, saving, fence, lane, client, record, blender, bounds>>

\* encode_video ends, fails, or sees the cancellation.
EncodeVideo ==
  /\ At("encode")
  /\ \/ GoTo("complete")
     \/ GoTo("fail")
     \/ Cancelled /\ GoTo("cancel")
  /\ UNCHANGED <<registry, saving, fence, lane, client, record, blender, bounds>>

\* complete_job: a job with a requested cancellation ends cancelled.
CompleteJob ==
  /\ At("complete")
  /\ mem' = IF mem[job].state # "running" THEN mem
            ELSE [mem EXCEPT ![job].state = IF mem[job].cancel THEN "cancelled" ELSE "succeeded"]
  /\ GoTo("settle")
  /\ UNCHANGED <<queue, token, blocked, saving, fence, lane, client, record, blender, bounds>>

\* mark_cancelled.
MarkCancelled ==
  /\ At("cancel")
  /\ mem' = IF IsActive(job)
            THEN [mem EXCEPT ![job].state = "cancelled", ![job].cancel = TRUE]
            ELSE mem
  /\ GoTo("settle")
  /\ UNCHANGED <<queue, token, blocked, saving, fence, lane, client, record, blender, bounds>>

\* fail_job.  It refreshes the fence after the write; here at once, since the
\* write changes nothing that the fence depends on.
FailJob ==
  /\ At("fail")
  /\ mem' = IF IsActive(job)
            THEN [mem EXCEPT ![job].state = "failed", ![job].failed = TRUE]
            ELSE mem
  /\ fence' = Fenced(mem', blocked)
  /\ GoTo(IF IsActive(job) THEN "settle" ELSE "release")
  /\ UNCHANGED <<queue, token, blocked, saving, lane, client, record, blender, bounds>>

\* persist_job by the worker, up to the write.
WorkerCopies ==
  /\ worker.pc \in WorkerSaving
  /\ Copy("worker", mem[job])
  /\ UNCHANGED <<registry, fence, lane, worker, client, record, blender, bounds>>

\* Where the worker goes on when its record is written, and when it is not.
\* A recovered job retries to start until its record is written, and an
\* outcome is written until it is, out of the lane; an error while noting an
\* error or while settling is only logged.
Saved == [start         |-> "run",      capture_phase |-> "capture",
          captured      |-> "work",     load_phase    |-> "load",
          frame_phase   |-> "render",   progress      |-> "frames",
          pending       |-> "restore",  pending_again |-> "lane_again",
          note          |-> "run",      encode_phase  |-> "encode",
          settle        |-> "release"]

Unsaved == [start         |-> IF MustRestore(mem[job]) THEN "start" ELSE "fail",
            capture_phase |-> "error",         captured      |-> "error",
            load_phase    |-> "broken",        frame_phase   |-> "broken",
            progress      |-> "broken",        pending       |-> "pending_again",
            pending_again |-> "pending_again", note          |-> "run",
            encode_phase  |-> "fail",          settle        |-> "release"]

\* The fence is refreshed once the captured session is recorded, or was not,
\* before the worker leaves the lane.
WorkerWrites ==
  /\ worker.pc \in WorkerSaving
  /\ \E out \in WriteOutcome :
       /\ Write("worker", job, out)
       /\ GoTo(IF out = "ok" THEN Saved[worker.pc] ELSE Unsaved[worker.pc])
       /\ lane'  = IF At("pending") /\ out # "ok" THEN "free" ELSE lane
  /\ fence' = IF At("captured") THEN Fenced(mem, blocked) ELSE fence
  /\ UNCHANGED client

\* job_worker forgets the cancellation token and takes the next job.
Release ==
  /\ At("release")
  /\ token' = [token EXCEPT ![job] = "absent"]
  /\ worker' = IdleWorker
  /\ UNCHANGED <<mem, queue, blocked, saving, fence, lane, client, record, blender, bounds>>

Worker == \/ Receive \/ StartJob \/ SkipBlender \/ TakeLane \/ LaneTimesOut
          \/ Capture \/ StartWork \/ LoadSource \/ NextFrame \/ RenderFrame
          \/ FramesBreakOff \/ Restore \/ MarkerCopies \/ MarkerWrites
          \/ NoteRestored \/ RunBreaksOff \/ FinishAfterBlender \/ EncodeVideo
          \/ CompleteJob \/ MarkCancelled \/ FailJob \/ WorkerCopies
          \/ WorkerWrites \/ Release

-----------------------------------------------------------------------------
(* The users of the live Blender, and the clients that cancel jobs.        *)

\* An ordinary command gets the lane, and looks at the fence once more.
EnterLane ==
  /\ lane = "free" /\ ~fence
  /\ lane' = "user"
  /\ UNCHANGED <<registry, saving, fence, worker, client, record, blender, bounds>>

\* The command reads the scene, or edits it.
Command ==
  /\ lane = "user"
  /\ lane' = "free"
  /\ \/ edits < MaxEdits /\ edits' = edits + 1 /\ scene' = edits'
     \/ UNCHANGED <<edits, scene>>
  /\ UNCHANGED <<registry, saving, fence, worker, client, record, checkpoint, bounds>>

ClientPc   == {"idle", "token", "save", "saving"}
IdleClient == [pc |-> "idle", job |-> None]

ClientTo(c, pc) == client' = [client EXCEPT ![c].pc = pc]

\* Mutant of Cancel: a queued job is ended whatever it must restore.
CancelRecovery(c, j) ==
  /\ client[c].pc = "idle" /\ mem[j] # None
  /\ client' = [client EXCEPT ![c] = [pc |-> "token", job |-> j]]
  /\ mem' = IF ~IsActive(j) THEN mem
            ELSE [mem EXCEPT ![j].cancel = TRUE,
                             ![j].state = IF @ = "queued" THEN "cancelled" ELSE @]
  /\ queue' = IF mem'[j].state = "cancelled" THEN Only(queue, Jobs \ {j}) ELSE queue
  /\ UNCHANGED <<token, blocked, saving, fence, lane, worker, record, blender, bounds>>

\* cancel, under the state lock: a queued job ends at once, unless it must
\* still restore the session.
Cancel(c, j) ==
  /\ client[c].pc = "idle" /\ mem[j] # None
  /\ client' = [client EXCEPT ![c] = [pc |-> "token", job |-> j]]
  /\ LET ends == mem[j].state = "queued" /\ ~MustRestore(mem[j]) IN
       /\ mem' = IF ~IsActive(j) THEN mem
                 ELSE [mem EXCEPT ![j].cancel = TRUE,
                                  ![j].state = IF ends THEN "cancelled" ELSE @]
       /\ queue' = IF ends THEN Only(queue, Jobs \ {j}) ELSE queue
  /\ UNCHANGED <<token, blocked, saving, fence, lane, worker, record, blender, bounds>>

\* The token tells the worker.
CancelToken(c) ==
  /\ client[c].pc = "token"
  /\ token' = [token EXCEPT ![client[c].job] = IF @ = "live" THEN "cancelled" ELSE @]
  /\ ClientTo(c, "save")
  /\ UNCHANGED <<mem, queue, blocked, saving, fence, lane, worker, record, blender, bounds>>

\* persist_job by the client.
CancelCopies(c) ==
  /\ client[c].pc = "save"
  /\ Copy(c, mem[client[c].job])
  /\ ClientTo(c, "saving")
  /\ UNCHANGED <<registry, fence, lane, worker, record, blender, bounds>>

CancelWrites(c) ==
  /\ client[c].pc = "saving"
  /\ \E out \in WriteOutcome : Write(c, client[c].job, out)
  /\ client' = [client EXCEPT ![c] = IdleClient]
  /\ UNCHANGED <<fence, lane, worker>>

\* The request is dropped before it wrote anything.
CancelEnds(c) ==
  /\ client[c].pc \in {"token", "save"}
  /\ client' = [client EXCEPT ![c] = IdleClient]
  /\ UNCHANGED <<registry, saving, fence, lane, worker, record, blender, bounds>>

Client(c) == \/ \E j \in Jobs : Cancel(c, j)
             \/ CancelToken(c) \/ CancelCopies(c) \/ CancelWrites(c) \/ CancelEnds(c)

-----------------------------------------------------------------------------
(* Restart.                                                                *)

\* validate_recovered_job, for a job of the live session.
Valid(j) ==
  LET r == record[j] IN
  /\ r.restored => r.captured
  /\ r.pending # "none" => MustRestore(r)
  /\ r.pending = "completed" => r.done = Total(j)
  /\ r.pending = "cancelled" => r.cancel
  /\ r.done <= Total(j)
  /\ r.restored /\ ~r.cancel /\ ~r.failed => r.done = Total(j)

\* A job that was running, or that must restore the session whatever its
\* state says, waits again; one whose cancellation was requested ends if
\* nothing must be restored.
Recovered(r) ==
  IF r.state = "running" \/ MustRestore(r)
  THEN [r EXCEPT !.state = IF r.cancel /\ ~MustRestore(r) THEN "cancelled" ELSE "queued"]
  ELSE r

Known == {j \in Jobs : Valid(j)}

Required == {j \in Known : MustRestore(record[j])}
Ordinary == {j \in Known \ Required : Recovered(record[j]).state = "queued"}

\* The recovered jobs in the order in which they are queued: first those that
\* must restore the session.
Waiting == Only(Order, Required) \o Only(Order, Ordinary)

\* No job that must restore the session is left out, whatever the depth.
Capacity(depth) ==
  LET required == Cardinality({i \in DOMAIN Waiting : Waiting[i] \in Required})
  IN IF depth < required THEN required ELSE depth

Taken(depth)   == SubSeq(Waiting, 1, IF Len(Waiting) < Capacity(depth)
                                     THEN Len(Waiting) ELSE Capacity(depth))
Dropped(depth) == {Waiting[i] : i \in {k \in DOMAIN Waiting : k > Capacity(depth)}}

Booted(depth) ==
  [j \in Jobs |->
     IF j \notin Known THEN None
     ELSE IF j \in Dropped(depth)
          THEN [Recovered(record[j]) EXCEPT !.state = "failed", !.failed = TRUE]
     ELSE Recovered(record[j])]

\* The server stops, and starts with a depth that may be smaller.  Every
\* record it rewrites may fail to reach the disk.
Restart ==
  /\ restarts < MaxRestarts
  /\ restarts' = restarts + 1
  /\ blocked' = (Known # Jobs)
  /\ \E depth \in 1 .. QueueDepth :
       /\ mem' = Booted(depth)
       /\ queue' = IF blocked' THEN <<>> ELSE Taken(depth)
       /\ token' = [j \in Jobs |->
            IF \A i \in DOMAIN Taken(depth) : Taken(depth)[i] # j THEN "absent"
            ELSE IF record[j].cancel THEN "cancelled" ELSE "live"]
       /\ \E requeued \in SUBSET {j \in Known : Recovered(record[j]) # record[j]},
             failed \in SUBSET Dropped(depth) :
            record' = [j \in Jobs |-> IF j \in failed THEN Booted(depth)[j]
                                      ELSE IF j \in requeued THEN Recovered(record[j])
                                      ELSE record[j]]
  /\ fence' = Fenced(mem', blocked')
  /\ lock' = "free" /\ image' = None /\ lane' = "free"
  /\ worker' = IdleWorker
  /\ client' = [c \in Clients |-> IdleClient]
  /\ UNCHANGED <<blender, faults>>

-----------------------------------------------------------------------------

\* The earlier version left queued jobs; this one has just started.
Init ==
  /\ record = [j \in Jobs |-> NewRecord]
  /\ mem = record /\ queue = Order /\ token = [j \in Jobs |-> "live"]
  /\ blocked = FALSE /\ fence = FALSE
  /\ lock = "free" /\ image = None /\ lane = "free"
  /\ worker = IdleWorker /\ client = [c \in Clients |-> IdleClient]
  /\ checkpoint = [j \in Jobs |-> None]
  /\ scene = 0 /\ edits = 0
  /\ faults = 0 /\ restarts = 0

Next == \/ Worker
        \/ EnterLane \/ Command
        \/ \E c \in Clients : Client(c)
        \/ Restart

Spec == Init /\ [][Next]_vars

\* The worker is driven to its end, and every command of Blender has a time
\* limit.  tokio's mutexes, the persistence lock and the lane, are first come,
\* first served.  A command that has the lane ends; nobody has to send one.
Fairness ==
  /\ WF_vars(Worker) /\ SF_vars(WorkerCopies) /\ SF_vars(MarkerCopies)
  /\ SF_vars(TakeLane) /\ WF_vars(Command)
  /\ \A c \in Clients : WF_vars(CancelWrites(c))

FairSpec == Spec /\ Fairness

-----------------------------------------------------------------------------
(* Properties.                                                             *)

Token == {"absent", "live", "cancelled"}

\* The variables range over what the code can hold, and no job counts more
\* frames than it has.
TypeOK ==
  /\ \A j \in Jobs : mem[j] # None => mem[j].done <= Total(j)
  /\ mem \in [Jobs -> Record \cup {None}] /\ record \in [Jobs -> Record]
  /\ queue \in Seq(Jobs) /\ token \in [Jobs -> Token]
  /\ lock \in {"free", "worker"} \cup Clients /\ image \in Record \cup {None}
  /\ blocked \in BOOLEAN /\ fence \in BOOLEAN /\ lane \in {"free", "worker", "user"}
  /\ worker \in [pc : WorkerPc, job : Jobs \cup {None}, outcome : Outcome]
  /\ client \in [Clients -> [pc : ClientPc, job : Jobs \cup {None}]]
  /\ checkpoint \in [Jobs -> Nat \cup {None}] /\ scene \in Nat \cup {None} /\ edits \in Nat
  /\ faults \in Nat /\ restarts \in Nat

\* A user's command finds the scene as the users left it: the fence and the
\* lane keep it away from the scene of a job (DECISIONS.md:511-515).
UserFindsOwnScene == lane = "user" => scene = edits

\* While a job's scene is live, the durable record of some job says that the
\* session must be restored, and its checkpoint has the users' last edit: the
\* server may stop at any moment.
SessionIsRecoverable ==
  scene # edits => \E j \in Jobs : MustRestore(record[j]) /\ checkpoint[j] = edits

\* A session that must be restored is not forgotten: its job does not end, is
\* in the queue or in the worker's hands whatever the queue depth, and the
\* fence is up as soon as the lane is free.
RecoveryIsScheduled ==
  \A j \in Jobs : MustRestore(mem[j]) /\ ~blocked =>
    /\ IsActive(j)
    /\ worker.job = j \/ \E i \in DOMAIN queue : queue[i] = j
    /\ fence \/ lane = "worker"

\* No record is written that a restart would refuse.
RecordsReadable == \A j \in Jobs : Valid(j)

\* Blender's work ends once: a job whose outcome or restore is on disk does
\* not load its source or render again (DECISIONS.md:504-509).
WorksOnce ==
  At("load") \/ At("render") => record[job].pending = "none" /\ ~record[job].restored

\* The outcome that was recorded is the one that takes effect: it stays until
\* the restore is recorded, and a failure with it.
OutcomeIsKept ==
  [][\A j \in Jobs :
       record[j].pending # "none" /\ record'[j].pending # record[j].pending =>
         /\ record'[j].restored
         /\ record[j].pending = "failed" => record'[j].failed]_vars

\* The users get their Blender back.
FenceIsLifted == fence ~> ~fence

\* A restore never undoes what users did since (DECISIONS.md:505-508).
NoStaleRestore == [][At("restore") => scene' \in {scene, edits}]_vars

=============================================================================
