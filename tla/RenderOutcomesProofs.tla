-------------------------- MODULE RenderOutcomesProofs --------------------------
(***************************************************************************)
(* What becomes of the jobs of RenderJobs, for every value of its constants: *)
(* a success is earned, a cancellation that was answered holds, a queued job  *)
(* is where the worker finds it, only the first frame that is not recorded is *)
(* rendered, and the records on disk implement JobLedger.                   *)
(*                                                                         *)
(* A job is kept in three versions: the record on disk, the copy that is       *)
(* being written, and the memory.  IInv of RenderJobsProofs orders them.      *)
(* OInv adds what each of them says by itself (Sound), how far one may be      *)
(* ahead of another (Near), what the place of a process tells about its job    *)
(* (WorkOK, StagingOK, WriterOK), and what the tokens mean (TokenOK).  HInv,   *)
(* in the second part, says how the history is spread over memory and disk.  *)
(***************************************************************************)
EXTENDS RenderJobsProofs

\* A record by itself: whoever waits is not cancelled, a success is complete,
\* and work that ended without a failure was done on the job's own source.
Sound(j, r) ==
  /\ r.state = "queued" => ~r.cancel
  /\ r.state = "succeeded" => r.done = Total(j) /\ r.finished /\ ~r.failed /\ ~r.cancel
  /\ r.finished /\ ~r.failed => j \in source
  /\ r.state \notin Terminal /\ ~r.finished => ~r.failed

\* How much later than a a version b may be: one frame, and one step to success.
Near(j, a, b) ==
  /\ a.failed => b.failed
  /\ b.done # a.done => a.state = "running" /\ ~a.finished /\ b.done = a.done + 1
  /\ b.finished # a.finished => a.state = "running"
  /\ b.state = "succeeded" /\ a.state # "succeeded" =>
       a.state = "running" /\ a.finished /\ a.done = Total(j) /\ ~a.failed /\ ~a.cancel

\* What a job is before its first record is written.
Unwritten(r) ==
  /\ r.done = 0 /\ ~r.finished /\ ~r.failed
  /\ r.state = IF r.cancel THEN "cancelled" ELSE "queued"

VersionsOK ==
  \A j \in Jobs :
    /\ mem[j] # None => Sound(j, mem[j])
    /\ record[j] # None => Sound(j, record[j])
    /\ Writing(j) => Sound(j, image)
    /\ mem[j] # None /\ record[j] # None => Near(j, record[j], mem[j])
    /\ Writing(j) /\ record[j] # None => Near(j, record[j], image)
    /\ Writing(j) /\ mem[j] # None => Near(j, image, mem[j])
    /\ mem[j] # None /\ record[j] = None => Unwritten(mem[j])
    /\ Writing(j) /\ record[j] = None => Unwritten(image)

Rendering == {"frames", "frame_phase", "render", "progress"}
Ending    == {"encode_phase", "encode", "complete"}

\* The worker's place and the job it works on.
WorkOK ==
  LET r == mem[worker.job] IN
  /\ worker.pc \in Rendering => worker.job \in source
  /\ worker.pc \in Rendering \cup {"load_phase", "load", "outcome"} => ~r.finished
  /\ worker.pc \in {"outcome", "outcome_save"} =>
       \/ worker.outcome \in {"completed", "cancelled"} /\ worker.job \in source
       \/ worker.outcome = "failed"
  /\ worker.pc \in Ending \cup {"outcome_save", "finish"} => r.finished
  /\ worker.pc \in Ending => r.done = Total(worker.job) /\ ~r.failed
  /\ worker.pc \in {"settle", "release"} => ~IsActive(worker.job)
  /\ worker.pc \in WorkerRunning \ {"start"} => record[worker.job].state # "queued"
  /\ worker.pc \in Ending \cup {"run", "render", "finish"} =>
       record[worker.job].done = r.done /\ record[worker.job].finished = r.finished

\* Only the worker's job runs; the job that is being staged has never run.
RunningOK ==
  \A j \in Jobs : mem[j] # None /\ mem[j].state = "running" =>
    worker.job = j /\ worker.pc \in WorkerRunning \cup {"cancel", "fail"}

StagingOK ==
  /\ stager.pc = "idle" => stager.job = None
  /\ stager.pc # "idle" /\ record[stager.job] # None => record[stager.job].state # "running"
  /\ stager.pc # "idle" /\ Writing(stager.job) => image.state # "running"
  /\ stager.pc \in {"settle", "release"} => ~IsActive(stager.job)

\* Worker and clients write no record that waits; the worker's copy counts what
\* its memory counts.
WriterOK ==
  /\ lock \in {"worker"} \cup Clients => image.state # "queued"
  /\ lock = "worker" /\ mem[worker.job] # None =>
       image.done = mem[worker.job].done /\ image.finished = mem[worker.job].finished

\* A job that has not ended has a token; whoever cancelled it has said so first
\* in its record, then with the token.
TokenOK ==
  /\ \A j \in Jobs : IsActive(j) => token[j] # "absent"
  /\ \A c \in Clients : client[c].pc # "idle" /\ IsActive(client[c].job) => mem[client[c].job].cancel
  /\ \A c \in Clients : client[c].pc \in {"save", "saving"} /\ IsActive(client[c].job) =>
                          token[client[c].job] = "cancelled"

OInv == /\ IInv /\ VersionsOK /\ WorkOK /\ RunningOK /\ StagingOK /\ WriterOK /\ TokenOK
        /\ CancellationHolds /\ QueuedIsScheduled

-----------------------------------------------------------------------------
(* What a step does to the record of one job in memory.                     *)

Started(a, b) ==
  /\ a.state = "queued" /\ b.state = "running"
  /\ b.done = a.done /\ b.finished = a.finished /\ b.cancel = a.cancel /\ b.failed = a.failed

Counted(a, b) ==
  /\ a.state = "running" /\ b.state = "running" /\ b.done = a.done + 1
  /\ b.finished = a.finished /\ b.cancel = a.cancel /\ b.failed = a.failed

Noted(a, b, failed) ==
  /\ a.state = "running" /\ b.state = "running" /\ b.done = a.done
  /\ b.finished /\ b.cancel = a.cancel /\ b.failed = failed

Completed(a, b) ==
  /\ a.state = "running" /\ b.state = IF a.cancel THEN "cancelled" ELSE "succeeded"
  /\ b.done = a.done /\ b.finished = a.finished /\ b.cancel = a.cancel /\ b.failed = a.failed

Ended(a, b) ==
  /\ a.state \notin Terminal /\ b.done = a.done /\ b.finished = a.finished
  /\ \/ b.state = "failed" /\ b.failed /\ b.cancel = a.cancel
     \/ b.state = "cancelled" /\ b.cancel /\ b.failed = a.failed

Asked(a, b) ==
  /\ a.state \notin Terminal /\ b.state = IF a.state = "queued" THEN "cancelled" ELSE a.state
  /\ b.cancel /\ b.done = a.done /\ b.finished = a.finished /\ b.failed = a.failed

ByWorker(j) ==
  /\ j = worker.job /\ worker'.job = worker.job /\ lock # "worker" /\ UNCHANGED <<stager, client>>
  /\ \/ worker.pc = "popped" /\ worker'.pc = "start" /\ Started(mem[j], mem'[j])
     \/ worker.pc = "render" /\ worker'.pc = "progress" /\ Counted(mem[j], mem'[j])
     \/ /\ worker.pc = "outcome" /\ worker'.pc = "outcome_save"
        /\ Noted(mem[j], mem'[j], worker.outcome = "failed")
     \/ worker.pc = "complete" /\ worker'.pc = "settle" /\ Completed(mem[j], mem'[j])
     \/ worker.pc \in {"cancel", "fail"} /\ worker'.pc = "settle" /\ Ended(mem[j], mem'[j])

ByStager(j) ==
  /\ j = stager.job /\ Staging("fail") /\ StagerTo("settle") /\ UNCHANGED <<worker, client>>
  /\ Ended(mem[j], mem'[j])

ByClient(j) ==
  /\ UNCHANGED <<worker, stager>> /\ Asked(mem[j], mem'[j])
  /\ \E c \in Clients : /\ client[c].pc = "idle"
                        /\ client' = [client EXCEPT ![c] = [pc |-> "token", job |-> j]]

\* The job goes on, is forgotten, or is new.
Moves(j)  == /\ mem[j] \in Record /\ mem'[j] \in Record
             /\ ByWorker(j) \/ ByStager(j) \/ ByClient(j)
Leaves(j) == /\ mem'[j] = None /\ UNCHANGED <<worker, client>>
             /\ \/ Staging("snapshot") /\ ~IsActive(j)
                \/ Staging("reject") /\ j = stager.job
Enters(j) == /\ Staging("snapshot") /\ StagerTo("admit") /\ j = stager.job
             /\ mem[j] = None /\ record[j] = None /\ mem'[j] = NewRecord
             /\ UNCHANGED <<worker, client>>

MemoryMoves == \A j \in Jobs : mem'[j] = mem[j] \/ Moves(j) \/ Leaves(j) \/ Enters(j)

\* One job moves and the others stay.
LEMMA OneMoves ==
  ASSUME TypeOK, NEW j \in Jobs, NEW r \in Record, mem' = [mem EXCEPT ![j] = r],
         mem[j] \in Record, ByWorker(j) \/ ByStager(j) \/ ByClient(j)
  PROVE  MemoryMoves
<1>1. mem'[j] = r /\ \A i \in Jobs : i # j => mem'[i] = mem[i]
  BY DEF TypeOK, MemoryType
<1>2. Moves(j)
  BY <1>1 DEF Moves
<1> QED BY <1>1, <1>2 DEF MemoryMoves

\* The job of a worker at work has a record in memory.
LEMMA WorkersRecord ==
  ASSUME TypeOK, Refs, worker.pc \in WorkerRunning
  PROVE  worker.job \in Jobs /\ mem[worker.job] \in Record /\ mem[worker.job].state = "running"
BY DEF Refs, WorkerOK, WorkerRunning, TypeOK, MemoryType

LEMMA StartMoves ==
  ASSUME TypeOK, Refs, StartJob
  PROVE  MemoryMoves
<1> DEFINE r == [mem[worker.job] EXCEPT !.state = "running"]
<1>1. /\ worker.job \in Jobs /\ lock # "worker" /\ UNCHANGED <<stager, client>>
      /\ worker.pc = "popped" /\ worker'.job = worker.job
  BY DEF StartJob, At, Refs, WorkerOK, LockOK, WorkerSaving, GoTo, TypeOK, ProcessType
<1>2. CASE Startable(worker.job)
  <2>1. mem[worker.job] \in Record /\ mem[worker.job].state = "queued"
    BY <1>1, <1>2 DEF Startable, TypeOK, MemoryType
  <2>2. r \in Record /\ Started(mem[worker.job], r)
    BY <2>1 DEF Record, JobState, Started
  <2>3. mem' = [mem EXCEPT ![worker.job] = r] /\ worker'.pc = "start"
    BY <1>2 DEF StartJob, GoTo, TypeOK, ProcessType
  <2> HIDE DEF r
  <2>4. ByWorker(worker.job)
    BY <1>1, <2>2, <2>3 DEF ByWorker, TypeOK, MemoryType
  <2> QED BY <1>1, <2>1, <2>2, <2>3, <2>4, OneMoves
<1>3. CASE ~Startable(worker.job)
  BY <1>3 DEF StartJob, MemoryMoves
<1> QED BY <1>2, <1>3

LEMMA FrameMoves ==
  ASSUME TypeOK, Refs, RenderFrame
  PROVE  MemoryMoves
<1> DEFINE r == [mem[worker.job] EXCEPT !.done = mem[worker.job].done + 1]
<1>1. /\ worker.job \in Jobs /\ lock # "worker" /\ UNCHANGED <<stager, client>>
      /\ mem[worker.job] \in Record /\ mem[worker.job].state = "running" /\ worker.pc = "render"
  BY WorkersRecord DEF RenderFrame, At, Refs, LockOK, WorkerSaving, WorkerRunning
<1>2. r \in Record /\ Counted(mem[worker.job], r)
  BY <1>1 DEF Record, Counted
<1>3. CASE mem' = [mem EXCEPT ![worker.job] = r] /\ GoTo("progress")
  <2>1. worker'.pc = "progress" /\ worker'.job = worker.job
    BY <1>3 DEF GoTo, TypeOK, ProcessType
  <2> HIDE DEF r
  <2>2. ByWorker(worker.job)
    BY <1>1, <1>2, <1>3, <2>1 DEF ByWorker, TypeOK, MemoryType
  <2> QED BY <1>1, <1>2, <1>3, <2>2, OneMoves
<1>4. CASE UNCHANGED mem
  BY <1>4 DEF MemoryMoves
<1> QED BY <1>3, <1>4 DEF RenderFrame

LEMMA OutcomeMoves ==
  ASSUME TypeOK, Refs, RecordOutcome
  PROVE  MemoryMoves
<1> DEFINE lost == worker.outcome = "failed"
           r    == [[mem[worker.job] EXCEPT !.finished = TRUE] EXCEPT !.failed = lost]
<1>1. /\ worker.job \in Jobs /\ lock # "worker" /\ UNCHANGED <<stager, client>>
      /\ mem[worker.job] \in Record /\ mem[worker.job].state = "running" /\ worker.pc = "outcome"
      /\ worker'.pc = "outcome_save" /\ worker'.job = worker.job
  BY WorkersRecord DEF RecordOutcome, At, Refs, LockOK, WorkerSaving, WorkerRunning, GoTo, TypeOK,
     ProcessType
<1>2. lost \in BOOLEAN
  OBVIOUS
<1>3. mem' = [mem EXCEPT ![worker.job] = r]
  <2>1. mem' = [mem EXCEPT ![worker.job].finished = TRUE, ![worker.job].failed = lost]
    BY DEF RecordOutcome
  <2> HIDE DEF lost
  <2>2. [mem EXCEPT ![worker.job].finished = TRUE, ![worker.job].failed = lost]
        = [mem EXCEPT ![worker.job] = r]
    BY <1>1, <1>2
  <2> QED BY <2>1, <2>2
<1>4. r \in Record /\ Noted(mem[worker.job], r, lost)
  <2> HIDE DEF lost
  <2>1. [mem[worker.job] EXCEPT !.finished = TRUE] \in Record
    BY <1>1, SetField DEF JobState
  <2>2. r \in Record
    BY <1>2, <2>1, SetField DEF JobState
  <2>3. /\ r.state = mem[worker.job].state /\ r.done = mem[worker.job].done
        /\ r.finished = TRUE /\ r.cancel = mem[worker.job].cancel /\ r.failed = lost
    BY <1>1 DEF Record
  <2> HIDE DEF r
  <2> QED BY <1>1, <2>2, <2>3 DEF Noted
<1> HIDE DEF r
<1>5. ByWorker(worker.job)
  BY <1>1, <1>3, <1>4 DEF ByWorker, TypeOK, MemoryType
<1> QED BY <1>1, <1>3, <1>4, <1>5, OneMoves

LEMMA CompleteMoves ==
  ASSUME TypeOK, Refs, CompleteJob
  PROVE  MemoryMoves
<1> DEFINE s == IF mem[worker.job].cancel THEN "cancelled" ELSE "succeeded"
           r == [mem[worker.job] EXCEPT !.state = s]
<1>1. /\ worker.job \in Jobs /\ lock # "worker" /\ UNCHANGED <<stager, client>>
      /\ mem[worker.job] \in Record /\ mem[worker.job].state = "running" /\ worker.pc = "complete"
      /\ worker'.pc = "settle" /\ worker'.job = worker.job
  BY WorkersRecord DEF CompleteJob, At, Refs, LockOK, WorkerSaving, WorkerRunning, GoTo, TypeOK,
     ProcessType
<1>2. s \in JobState
  BY DEF JobState, Terminal
<1>3. mem' = [mem EXCEPT ![worker.job] = r]
  BY <1>1 DEF CompleteJob
<1>4. r \in Record /\ Completed(mem[worker.job], r)
  BY <1>1, <1>2 DEF Record, Completed
<1> HIDE DEF r
<1>5. ByWorker(worker.job)
  BY <1>1, <1>3, <1>4 DEF ByWorker, TypeOK, MemoryType
<1> QED BY <1>1, <1>3, <1>4, <1>5, OneMoves

LEMMA MarkMoves ==
  ASSUME TypeOK, Refs, MarkCancelled
  PROVE  MemoryMoves
<1> DEFINE r == [[mem[worker.job] EXCEPT !.state = "cancelled"] EXCEPT !.cancel = TRUE]
<1>1. /\ worker.job \in Jobs /\ lock # "worker" /\ UNCHANGED <<stager, client>>
      /\ worker.pc = "cancel" /\ worker'.pc = "settle" /\ worker'.job = worker.job
  BY DEF MarkCancelled, At, Refs, WorkerOK, LockOK, WorkerSaving, GoTo, TypeOK, ProcessType
<1>2. CASE IsActive(worker.job)
  <2>1. mem[worker.job] \in Record /\ mem[worker.job].state \notin Terminal
    BY <1>1, <1>2 DEF IsActive, TypeOK, MemoryType
  <2>2. mem' = [mem EXCEPT ![worker.job] = r]
    BY <1>1, <1>2, <2>1 DEF MarkCancelled
  <2>3. r \in Record /\ Ended(mem[worker.job], r)
    <3>1. [mem[worker.job] EXCEPT !.state = "cancelled"] \in Record
      BY <2>1, SetField DEF JobState, Terminal
    <3>2. r \in Record
      BY <3>1, SetField DEF JobState
    <3>3. /\ r.state = "cancelled" /\ r.done = mem[worker.job].done
          /\ r.finished = mem[worker.job].finished /\ r.cancel /\ r.failed = mem[worker.job].failed
      BY <2>1 DEF Record
    <3> HIDE DEF r
    <3> QED BY <2>1, <3>2, <3>3 DEF Ended
  <2> HIDE DEF r
  <2>4. ByWorker(worker.job)
    BY <1>1, <2>2, <2>3 DEF ByWorker, TypeOK, MemoryType
  <2> QED BY <1>1, <2>1, <2>2, <2>3, <2>4, OneMoves
<1>3. CASE ~IsActive(worker.job)
  BY <1>3 DEF MarkCancelled, MemoryMoves
<1> QED BY <1>2, <1>3

\* fail_job, by the worker or by the stager.
LEMMA FailedEnds ==
  ASSUME TypeOK, NEW j \in Jobs, mem' = Failed(j), IsActive(j)
  PROVE  /\ mem[j] \in Record /\ mem'[j] \in Record /\ Ended(mem[j], mem'[j])
         /\ mem' = [mem EXCEPT ![j] = mem'[j]]
<1> DEFINE r == [[mem[j] EXCEPT !.state = "failed"] EXCEPT !.failed = TRUE]
<1>1. mem[j] \in Record /\ mem[j].state \notin Terminal
  BY DEF IsActive, TypeOK, MemoryType
<1>2. mem' = [mem EXCEPT ![j] = r]
  BY <1>1 DEF Failed
<1>3. r \in Record /\ Ended(mem[j], r)
  <2>1. [mem[j] EXCEPT !.state = "failed"] \in Record
    BY <1>1, SetField DEF JobState, Terminal
  <2>2. r \in Record
    BY <2>1, SetField DEF JobState
  <2>3. /\ r.state = "failed" /\ r.done = mem[j].done
        /\ r.finished = mem[j].finished /\ r.cancel = mem[j].cancel /\ r.failed
    BY <1>1 DEF Record
  <2> HIDE DEF r
  <2> QED BY <1>1, <2>2, <2>3 DEF Ended
<1> HIDE DEF r
<1> QED BY <1>1, <1>2, <1>3 DEF TypeOK, MemoryType

LEMMA FailMoves ==
  ASSUME TypeOK, Refs, FailJob
  PROVE  MemoryMoves
<1>1. /\ worker.job \in Jobs /\ lock # "worker" /\ UNCHANGED <<stager, client>>
      /\ worker.pc = "fail" /\ mem' = Failed(worker.job)
  BY DEF FailJob, At, Refs, WorkerOK, LockOK, WorkerSaving
<1>2. CASE IsActive(worker.job)
  <2>1. worker'.pc = "settle" /\ worker'.job = worker.job
    BY <1>2 DEF FailJob, GoTo, TypeOK, ProcessType
  <2>2. /\ mem[worker.job] \in Record /\ mem'[worker.job] \in Record
        /\ Ended(mem[worker.job], mem'[worker.job])
        /\ mem' = [mem EXCEPT ![worker.job] = mem'[worker.job]]
    BY <1>1, <1>2, FailedEnds
  <2>3. ByWorker(worker.job)
    BY <1>1, <2>1, <2>2 DEF ByWorker
  <2> QED BY <1>1, <2>2, <2>3, OneMoves
<1>3. CASE ~IsActive(worker.job)
  BY <1>1, <1>3 DEF Failed, MemoryMoves
<1> QED BY <1>2, <1>3

LEMMA StagingFailsMoves ==
  ASSUME TypeOK, Refs, StagingFails
  PROVE  MemoryMoves
<1>1. /\ stager.job \in Jobs /\ Staging("fail") /\ UNCHANGED <<worker, client>>
      /\ mem' = Failed(stager.job)
  BY DEF StagingFails, Staging, Refs, StagerOK
<1>2. CASE IsActive(stager.job)
  <2>1. StagerTo("settle")
    BY <1>2 DEF StagingFails
  <2>2. /\ mem[stager.job] \in Record /\ mem'[stager.job] \in Record
        /\ Ended(mem[stager.job], mem'[stager.job])
        /\ mem' = [mem EXCEPT ![stager.job] = mem'[stager.job]]
    BY <1>1, <1>2, FailedEnds
  <2>3. ByStager(stager.job)
    BY <1>1, <2>1, <2>2 DEF ByStager
  <2> QED BY <1>1, <2>2, <2>3, OneMoves
<1>3. CASE ~IsActive(stager.job)
  BY <1>1, <1>3 DEF Failed, MemoryMoves
<1> QED BY <1>2, <1>3

\* cancel, of a job that has not ended.
LEMMA CancelAsks ==
  ASSUME TypeOK, NEW c \in Clients, NEW j \in Jobs, Cancel(c, j), IsActive(j)
  PROVE  /\ mem[j] \in Record /\ mem'[j] \in Record /\ Asked(mem[j], mem'[j])
         /\ mem' = [mem EXCEPT ![j] = mem'[j]]
<1> DEFINE s == IF mem[j].state = "queued" THEN "cancelled" ELSE mem[j].state
           r == [[mem[j] EXCEPT !.cancel = TRUE] EXCEPT !.state = s]
<1>1. mem[j] \in Record /\ mem[j].state \notin Terminal
  BY DEF IsActive, TypeOK, MemoryType
<1>2. s \in JobState
  BY <1>1 DEF Record, JobState, Terminal
<1>3. mem' = [mem EXCEPT ![j] = r]
  <2>1. mem' = [mem EXCEPT ![j].cancel = TRUE,
                           ![j].state = IF @ = "queued" THEN "cancelled" ELSE @]
    BY DEF Cancel
  <2> QED BY <1>1, <2>1 DEF Record
<1>4. r \in Record /\ Asked(mem[j], r)
  <2> HIDE DEF s
  <2>1. [mem[j] EXCEPT !.cancel = TRUE] \in Record
    BY <1>1, SetField DEF JobState
  <2>2. r \in Record
    BY <1>2, <2>1, SetField
  <2>3. /\ r.state = s /\ r.done = mem[j].done
        /\ r.finished = mem[j].finished /\ r.cancel /\ r.failed = mem[j].failed
    BY <1>1 DEF Record
  <2> HIDE DEF r
  <2> QED BY <1>1, <2>2, <2>3 DEF Asked, s
<1> HIDE DEF r
<1> QED BY <1>1, <1>3, <1>4 DEF TypeOK, MemoryType

LEMMA CancelMoves ==
  ASSUME TypeOK, NEW c \in Clients, NEW j \in Jobs, Cancel(c, j)
  PROVE  MemoryMoves
<1>1. CASE IsActive(j)
  <2>1. /\ mem[j] \in Record /\ mem'[j] \in Record /\ Asked(mem[j], mem'[j])
        /\ mem' = [mem EXCEPT ![j] = mem'[j]]
    BY <1>1, CancelAsks
  <2>2. ByClient(j)
    BY <2>1 DEF ByClient, Cancel
  <2> QED BY <2>1, <2>2, OneMoves
<1>2. CASE ~IsActive(j)
  BY <1>2 DEF Cancel, MemoryMoves
<1> QED BY <1>1, <1>2

LEMMA RegisterMoves ==
  ASSUME TypeOK, Refs, Register
  PROVE  MemoryMoves
<1>1. /\ stager.pc = "snapshot" /\ stager.job \in Jobs /\ mem'[stager.job] = NewRecord
      /\ \A j \in Jobs : j # stager.job =>
              mem'[j] = mem[j] \/ (mem'[j] = None /\ ~IsActive(j))
  BY RegisterEffect
<1>2. mem[stager.job] = None /\ record[stager.job] = None
  BY <1>1 DEF Refs, StagerOK
<1>3. StagerTo("admit") /\ UNCHANGED <<worker, client>>
  BY DEF Register
<1> QED BY <1>1, <1>2, <1>3 DEF MemoryMoves, Enters, Leaves, Staging

LEMMA RejectMoves ==
  ASSUME TypeOK, Refs, Reject
  PROVE  MemoryMoves
<1>1. stager.job \in Jobs /\ Staging("reject") /\ UNCHANGED <<worker, client>>
      /\ mem' = [mem EXCEPT ![stager.job] = None]
  BY DEF Reject, Staging, Refs, StagerOK
<1>2. mem'[stager.job] = None /\ \A i \in Jobs : i # stager.job => mem'[i] = mem[i]
  BY <1>1 DEF TypeOK, MemoryType
<1> QED BY <1>1, <1>2 DEF MemoryMoves, Leaves

-----------------------------------------------------------------------------
(* The kinds of steps between two restarts.                                  *)

\* The memory moves, and nobody writes; or a record is copied; or written.
MemoryStep ==
  /\ MemoryMoves /\ UNCHANGED <<record, image, lock, acked>> /\ source \subseteq source'
  /\ \A i \in Jobs : Writing(i)' => Writing(i)

CopyStep ==
  /\ UNCHANGED <<mem, record, source, acked>>
  /\ \E j \in Jobs : mem[j] # None /\ image' = mem[j] /\ \A i \in Jobs : Writing(i)' => i = j

WriteStep ==
  /\ UNCHANGED <<mem, source>> /\ \A i \in Jobs : ~Writing(i)'
  /\ UNCHANGED record \/ \E j \in Jobs : Writing(j) /\ record' = [record EXCEPT ![j] = image]

Running == Worker \/ Submit \/ Stager \/ \E c \in Clients : Client(c)

\* Whoever moves the memory has the lock neither before nor after.
LEMMA WorkerKinds ==
  ASSUME TypeOK, Refs, Worker
  PROVE  MemoryStep \/ CopyStep \/ WriteStep
<1> USE JobsAssumption, NoneAssumption, ProcAssumption
<1> USE DEF disk, memory, history
<1>1. CASE StartJob \/ RenderFrame \/ RecordOutcome \/ CompleteJob \/ MarkCancelled \/ FailJob
  <2>1. MemoryMoves
    BY <1>1, StartMoves, FrameMoves, OutcomeMoves, CompleteMoves, MarkMoves, FailMoves
  <2>2. /\ UNCHANGED <<record, image, lock, acked, source, stager, client>>
        /\ lock # "worker"
    BY <1>1 DEF StartJob, RenderFrame, RecordOutcome, CompleteJob, MarkCancelled, FailJob, Refs,
       LockOK, WorkerSaving, At
  <2> QED BY <2>1, <2>2 DEF MemoryStep, Writing
<1>2. CASE Receive \/ RunJob \/ LoadSource \/ NextFrame \/ FinishAfterBlender \/ EncodeVideo \/ Release
  <2>1. MemoryMoves
    BY <1>2 DEF Receive, RunJob, LoadSource, NextFrame, FinishAfterBlender, EncodeVideo, Release,
       MemoryMoves
  <2>2. /\ UNCHANGED <<record, image, lock, acked, source, stager, client>>
        /\ lock # "worker"
    BY <1>2 DEF Receive, RunJob, LoadSource, NextFrame, FinishAfterBlender, EncodeVideo, Release,
       Refs, LockOK, WorkerSaving, At
  <2> QED BY <2>1, <2>2 DEF MemoryStep, Writing
<1>3. CASE WorkerFindsNoJob
  <2>1. MemoryMoves
    BY <1>3 DEF WorkerFindsNoJob, MemoryMoves
  <2>2. /\ UNCHANGED <<record, image, lock, acked, source, stager, client>>
        /\ lock = "free"
    BY <1>3 DEF WorkerFindsNoJob
  <2> QED BY <2>1, <2>2 DEF MemoryStep, Writing
<1>4. CASE WorkerCopies
  <2>1. /\ UNCHANGED <<mem, record, source, acked, worker, stager, client>> /\ worker.job \in Jobs
        /\ mem[worker.job] # None /\ image' = mem[worker.job] /\ lock' = "worker"
    BY <1>4 DEF WorkerCopies, Copy, Refs, WorkerOK, WorkerSaving
  <2> QED BY <2>1 DEF CopyStep, Writing
<1>5. CASE WorkerWrites
  <2>1. /\ UNCHANGED <<mem, source>> /\ worker.job \in Jobs /\ lock = "worker" /\ lock' = "free"
        /\ record' = record \/ record' = [record EXCEPT ![worker.job] = image]
    BY <1>5 DEF WorkerWrites, Write, Refs, WorkerOK, WorkerSaving
  <2> QED BY <2>1 DEF WriteStep, Writing
<1> QED BY <1>1, <1>2, <1>3, <1>4, <1>5 DEF Worker

LEMMA StagerKinds ==
  ASSUME TypeOK, Refs, Submit \/ Stager
  PROVE  MemoryStep \/ CopyStep \/ WriteStep
<1> USE JobsAssumption, NoneAssumption, ProcAssumption
<1> USE DEF disk, memory, history
<1>1. CASE Register \/ Reject \/ StagingFails
  <2>1. MemoryMoves
    BY <1>1, RegisterMoves, RejectMoves, StagingFailsMoves
  <2>2. /\ UNCHANGED <<record, image, lock, acked, source, worker, client>>
        /\ lock # "stager"
    BY <1>1 DEF Register, Reject, StagingFails, Refs, LockOK, StagerSaving, Staging
  <2> QED BY <2>1, <2>2 DEF MemoryStep, Writing
<1>2. CASE Submit \/ SnapshotFails \/ CommitSource \/ MarkWaiting \/ Push \/ StagerReleases
  <2>1. MemoryMoves
    BY <1>2 DEF Submit, SnapshotFails, CommitSource, MarkWaiting, Push, StagerReleases, MemoryMoves
  <2>2. /\ UNCHANGED <<record, image, lock, acked, worker, client>>
        /\ lock # "stager"
    BY <1>2 DEF Submit, SnapshotFails, CommitSource, MarkWaiting, Push, StagerReleases, Refs,
       LockOK, StagerSaving, Staging, Answer
  <2>3. source \subseteq source'
    BY <1>2 DEF Submit, SnapshotFails, CommitSource, MarkWaiting, Push, StagerReleases
  <2> QED BY <2>1, <2>2, <2>3 DEF MemoryStep, Writing
<1>3. CASE CopyRecordAndIndex \/ StagerCopies
  <2>1. /\ UNCHANGED <<mem, record, source, acked, worker, client>> /\ stager.job \in Jobs
        /\ mem[stager.job] # None /\ image' = mem[stager.job] /\ lock' = "stager"
        /\ stager'.job = stager.job
    BY <1>3 DEF CopyRecordAndIndex, StagerCopies, Copy, Refs, StagerOK, StagerSaving, Staging,
       StagerTo, TypeOK, ProcessType
  <2> QED BY <2>1 DEF CopyStep, Writing
<1>4. CASE WriteAdmittedRecord
  <2>1. /\ UNCHANGED <<mem, source, client>> /\ stager.job \in Jobs /\ lock = "stager"
        /\ record' = record \/ record' = [record EXCEPT ![stager.job] = image]
        /\ lock' = "free" \/ (lock' = "stager" /\ stager'.pc = "index")
        /\ stager.pc = "record"
    BY <1>4 DEF WriteAdmittedRecord, Refs, LockOK, StagerOK, Staging, StagerTo, TypeOK, ProcessType
  <2> QED BY <2>1 DEF WriteStep, Writing
<1>5. CASE WriteIndex
  BY <1>5 DEF WriteIndex, WriteStep, Writing
<1>6. CASE StagerWrites
  <2>1. /\ UNCHANGED <<mem, source>> /\ stager.job \in Jobs /\ lock = "stager" /\ lock' = "free"
        /\ record' = record \/ record' = [record EXCEPT ![stager.job] = image]
        /\ stager.pc # "index"
    BY <1>6 DEF StagerWrites, Write, Refs, StagerOK, StagerSaving
  <2> QED BY <2>1 DEF WriteStep, Writing
<1> QED BY <1>1, <1>2, <1>3, <1>4, <1>5, <1>6 DEF Stager

LEMMA ClientKinds ==
  ASSUME TypeOK, Refs, NEW c \in Clients, Client(c)
  PROVE  MemoryStep \/ CopyStep \/ WriteStep
<1> USE JobsAssumption, NoneAssumption, ProcAssumption
<1> USE DEF disk, memory, history
<1>1. ASSUME NEW j \in Jobs, Cancel(c, j)
      PROVE  MemoryStep
  <2>1. MemoryMoves
    BY <1>1, CancelMoves
  <2>2. /\ UNCHANGED <<record, image, lock, acked, source, worker, stager>>
        /\ \A d \in Clients : lock = d => client'[d] = client[d]
    BY <1>1 DEF Cancel, Refs, LockOK
  <2> QED BY <2>1, <2>2 DEF MemoryStep, Writing
<1>2. CASE CancelToken(c) \/ CancelEnds(c)
  <2>1. MemoryMoves
    BY <1>2 DEF CancelToken, CancelEnds, MemoryMoves
  <2>2. /\ UNCHANGED <<record, image, lock, acked, source, worker, stager>>
        /\ \A d \in Clients : lock = d => client'[d] = client[d]
    <3>1. client[c].pc \in {"token", "save"} /\ lock # c
      BY <1>2 DEF CancelToken, CancelEnds, Refs, LockOK
    <3>2. \A d \in Clients : d # c => client'[d] = client[d]
      BY <1>2 DEF CancelToken, CancelEnds, ClientTo, TypeOK, ProcessType
    <3> QED BY <1>2, <3>1, <3>2 DEF CancelToken, CancelEnds
  <2> QED BY <2>1, <2>2 DEF MemoryStep, Writing
<1>3. CASE CancelCopies(c)
  <2>1. /\ UNCHANGED <<mem, record, source, acked, worker, stager>> /\ client[c].job \in Jobs
        /\ mem[client[c].job] # None /\ image' = mem[client[c].job] /\ lock' = c
        /\ client'[c].job = client[c].job
    BY <1>3 DEF CancelCopies, Copy, Refs, ClientOK, ClientTo, TypeOK, ProcessType
  <2> QED BY <2>1 DEF CopyStep, Writing
<1>4. CASE CancelWrites(c)
  <2>1. /\ UNCHANGED <<mem, source>> /\ client[c].job \in Jobs /\ lock = c /\ lock' = "free"
        /\ record' = record \/ record' = [record EXCEPT ![client[c].job] = image]
    BY <1>4 DEF CancelWrites, Write, Refs, ClientOK
  <2> QED BY <2>1 DEF WriteStep, Writing
<1> QED BY <1>1, <1>2, <1>3, <1>4 DEF Client

LEMMA Kinds ==
  ASSUME TypeOK, Refs, Running
  PROVE  MemoryStep \/ CopyStep \/ WriteStep
BY WorkerKinds, StagerKinds, ClientKinds DEF Running

-----------------------------------------------------------------------------
(* The versions of a record.                                                *)

\* A version that is copied or written is one that was sound before.
LEMMA SoundGrows ==
  ASSUME NEW j, NEW r, Sound(j, r), source \subseteq source'
  PROVE  Sound(j, r)'
BY DEF Sound, Total

\* OInv without the parts it shares with IInv.
LEMMA Parts ==
  ASSUME OInv
  PROVE  /\ TypeOK /\ Refs /\ NoStaleWrite /\ VersionsOK /\ WorkOK /\ RunningOK /\ StagingOK
         /\ WriterOK /\ TokenOK /\ CancellationHolds /\ QueuedIsScheduled
         /\ WorkerOK /\ QueueOK /\ StagerOK /\ ClientOK /\ LockOK
         /\ \A j \in Jobs : /\ mem[j] \in Record \cup {None} /\ record[j] \in Record \cup {None}
                            /\ Writing(j) => image \in Record
         /\ None \notin Record /\ None \notin Jobs
BY JobsAssumption, NoneAssumption, ProcAssumption
   DEF OInv, IInv, Refs, TypeOK, MemoryType, DiskType, LockOK, Writing

\* What a process that runs a job knows of the versions that are behind.
LEMMA Behind ==
  ASSUME OInv, worker.pc \in WorkerRunning \ {"start", "popped"}
  PROVE  LET j == worker.job r == mem[j] IN
           /\ j \in Jobs /\ r \in Record /\ r.state = "running" /\ record[j] \in Record
           /\ record[j].state = "running" /\ (record[j].finished => r.finished)
           /\ record[j].cancel => r.cancel
           /\ Writing(j) /\ lock # "worker" =>
                /\ image \in Record /\ image.state = "running" /\ (image.finished => r.finished)
                /\ image.cancel => r.cancel
                /\ record[j].done <= image.done /\ image.done <= r.done
                /\ record[j].finished => image.finished
<1> DEFINE j == worker.job
           r == mem[j]
<1> USE Parts
<1>1. j \in Jobs /\ r \in Record /\ r.state = "running"
  BY WorkersRecord
<1>2. record[j] \in Record /\ record[j].state # "queued"
  BY <1>1 DEF WorkerOK, WorkOK, WorkerRunning
<1>3. Follows(record[j], r)
  BY <1>1, <1>2 DEF NoStaleWrite
<1>4. ASSUME Writing(j), lock # "worker"
      PROVE  /\ image \in Record /\ image.state # "queued"
             /\ Follows(record[j], image) /\ Follows(image, r)
  <2>1. lock \in Clients
    BY <1>1, <1>4 DEF Writing, StagerOK, LockOK, StagerSaving
  <2>2. image.state # "queued"
    BY <2>1 DEF WriterOK
  <2> QED BY <1>1, <1>2, <1>4, <2>2 DEF NoStaleWrite
<1> QED BY <1>1, <1>2, <1>3, <1>4 DEF Follows, Record, JobState, Terminal

\* A step of the worker that goes beyond what a version behind has counted.
LEMMA NearAhead ==
  ASSUME OInv, NEW j \in Jobs, Moves(j), ByWorker(j), worker.pc \in {"render", "outcome", "complete"},
         NEW x \in Record, x.state = "running", Sound(j, x), Near(j, x, mem[j]),
         x.finished => mem[j].finished, x.cancel => mem[j].cancel,
         worker.pc \in {"render", "complete"} => x.done = mem[j].done /\ x.finished = mem[j].finished
  PROVE  Near(j, x, mem'[j])
<1> USE Parts
<1>1. mem[j] \in Record /\ mem'[j] \in Record /\ j = worker.job
  BY DEF Moves, ByWorker
<1>2. CASE worker.pc = "render" /\ Counted(mem[j], mem'[j])
  <2>1. ~mem[j].finished
    BY <1>1, <1>2 DEF WorkOK, Rendering
  <2> QED BY <1>1, <1>2, <2>1 DEF Counted, Near, Record
<1>3. CASE worker.pc = "outcome" /\ Noted(mem[j], mem'[j], worker.outcome = "failed")
  <2>1. ~mem[j].finished
    BY <1>1, <1>3 DEF WorkOK
  <2>2. ~x.failed
    BY <2>1 DEF Sound, Terminal
  <2> QED BY <1>1, <1>3, <2>1, <2>2 DEF Noted, Near, Record
<1>4. CASE worker.pc = "complete" /\ Completed(mem[j], mem'[j])
  <2>1. mem[j].finished /\ mem[j].done = Total(j) /\ ~mem[j].failed
    BY <1>1, <1>4 DEF WorkOK, Ending
  <2> QED BY <1>1, <1>4, <2>1 DEF Completed, Near, Record
<1> QED BY <1>2, <1>3, <1>4 DEF ByWorker

\* Any other step changes neither count nor success.
LEMMA NearBeside ==
  ASSUME NEW j \in Jobs, Moves(j), ~(ByWorker(j) /\ worker.pc \in {"render", "outcome", "complete"}),
         NEW x, Near(j, x, mem[j])
  PROVE  Near(j, x, mem'[j])
<1>1. \/ Started(mem[j], mem'[j]) \/ Ended(mem[j], mem'[j]) \/ Asked(mem[j], mem'[j])
  BY DEF Moves, ByWorker, ByStager, ByClient
<1> QED BY <1>1 DEF Started, Ended, Asked, Near, Terminal

LEMMA MoveNear ==
  ASSUME OInv, NEW j \in Jobs, Moves(j)
  PROVE  /\ record[j] # None => Near(j, record[j], mem'[j])
         /\ Writing(j) => Near(j, image, mem'[j])
<1> USE Parts
<1>1. /\ mem[j] # None
      /\ record[j] # None => Near(j, record[j], mem[j]) /\ Sound(j, record[j])
      /\ Writing(j) => Near(j, image, mem[j]) /\ Sound(j, image)
  BY DEF Moves, VersionsOK
<1>2. CASE ByWorker(j) /\ worker.pc \in {"render", "outcome", "complete"}
  <2>1. worker.pc \in WorkerRunning \ {"start", "popped"} /\ lock # "worker" /\ j = worker.job
    BY <1>2 DEF WorkerRunning, ByWorker
  <2>2. /\ record[j] \in Record
        /\ record[j].state = "running" /\ (record[j].finished => mem[j].finished)
        /\ record[j].cancel => mem[j].cancel
        /\ Writing(j) =>
             /\ image \in Record /\ image.state = "running" /\ (image.finished => mem[j].finished)
             /\ image.cancel => mem[j].cancel
             /\ record[j].done <= image.done /\ image.done <= mem[j].done
             /\ record[j].finished => image.finished
    BY <2>1, Behind
  <2>3. worker.pc \in {"render", "complete"} =>
           record[j].done = mem[j].done /\ record[j].finished = mem[j].finished
    BY <2>1 DEF WorkOK, Ending
  <2>4. Writing(j) /\ worker.pc \in {"render", "complete"} =>
           image.done = mem[j].done /\ image.finished = mem[j].finished
    BY <2>2, <2>3, <1>1 DEF Record
  <2>5. Near(j, record[j], mem'[j])
    BY <1>1, <1>2, <2>2, <2>3, NearAhead
  <2>6. Writing(j) => Near(j, image, mem'[j])
    BY <1>1, <1>2, <2>2, <2>4, NearAhead
  <2> QED BY <2>5, <2>6
<1>3. CASE ~(ByWorker(j) /\ worker.pc \in {"render", "outcome", "complete"})
  BY <1>1, <1>3, NearBeside
<1> QED BY <1>2, <1>3

LEMMA MoveSound ==
  ASSUME OInv, NEW j \in Jobs, Moves(j)
  PROVE  Sound(j, mem'[j])
<1> USE Parts
<1>1. mem[j] \in Record /\ mem'[j] \in Record /\ Sound(j, mem[j]) /\ mem[j] # None
  BY DEF Moves, VersionsOK
<1>2. CASE j = worker.job /\ worker.pc = "render" /\ Counted(mem[j], mem'[j])
  <2>1. ~mem[j].finished
    BY <1>1, <1>2 DEF WorkOK, Rendering
  <2> QED BY <1>1, <1>2, <2>1 DEF Counted, Sound, Terminal
<1>3. CASE /\ j = worker.job /\ worker.pc = "outcome"
           /\ Noted(mem[j], mem'[j], worker.outcome = "failed")
  <2>1. worker.outcome # "failed" => j \in source
    BY <1>3 DEF WorkOK
  <2> QED BY <1>1, <1>3, <2>1 DEF Noted, Sound, Terminal
<1>4. CASE j = worker.job /\ worker.pc = "complete" /\ Completed(mem[j], mem'[j])
  <2>1. mem[j].finished /\ mem[j].done = Total(j) /\ ~mem[j].failed
    BY <1>1, <1>4 DEF WorkOK, Ending
  <2> QED BY <1>1, <1>4, <2>1 DEF Completed, Sound, Terminal
<1>5. CASE Started(mem[j], mem'[j]) \/ Ended(mem[j], mem'[j]) \/ Asked(mem[j], mem'[j])
  BY <1>1, <1>5 DEF Started, Ended, Asked, Sound, Terminal
<1> QED BY <1>2, <1>3, <1>4, <1>5 DEF Moves, ByWorker, ByStager, ByClient

LEMMA MoveUnwritten ==
  ASSUME OInv, NEW j \in Jobs, Moves(j), record[j] = None
  PROVE  Unwritten(mem'[j])
<1> USE Parts
<1>1. Unwritten(mem[j]) /\ mem[j] \in Record /\ mem'[j] \in Record
  BY DEF Moves, VersionsOK
<1>2. ~ByWorker(j)
  BY DEF ByWorker, WorkerOK
<1>3. ~ByStager(j)
  BY DEF ByStager, StagerOK, Staging
<1>4. Asked(mem[j], mem'[j])
  BY <1>2, <1>3 DEF Moves, ByClient
<1> QED BY <1>1, <1>4 DEF Asked, Unwritten, Terminal, Record

\* A job that enters is nobody's and has no version yet.
LEMMA EntersAlone ==
  ASSUME OInv, NEW j \in Jobs, Enters(j)
  PROVE  ~Writing(j) /\ worker.job # j /\ \A c \in Clients : client[c].job # j
<1> USE Parts
<1>1. stager.pc = "snapshot" /\ stager.job = j
  BY DEF Enters, Staging
<1> QED BY <1>1 DEF Writing, StagerOK, LockOK, StagerSaving

LEMMA NearItself ==
  ASSUME NEW j, NEW r
  PROVE  Near(j, r, r)
BY DEF Near

\* What a record that enters the registry is.
LEMMA NewIsSound ==
  ASSUME NEW j \in Jobs
  PROVE  Sound(j, NewRecord) /\ Unwritten(NewRecord)
BY DEF NewRecord, Sound, Unwritten, Terminal

LEMMA VersionsMemory ==
  ASSUME OInv, MemoryStep
  PROVE  VersionsOK'
<1> USE Parts
<1>1. /\ UNCHANGED <<record, image>> /\ source \subseteq source'
      /\ \A i \in Jobs : Writing(i)' => Writing(i)
      /\ MemoryMoves
  BY DEF MemoryStep
<1>2. ASSUME NEW j \in Jobs
      PROVE  /\ record'[j] # None => Sound(j, record[j])'
             /\ Writing(j)' => Sound(j, image)'
             /\ Writing(j)' /\ record'[j] # None => Near(j, record'[j], image')
             /\ Writing(j)' /\ record'[j] = None => Unwritten(image')
  <2>1. /\ record[j] # None => Sound(j, record[j])
        /\ Writing(j)' => Sound(j, image)
        /\ Writing(j)' /\ record[j] # None => Near(j, record[j], image)
        /\ Writing(j)' /\ record[j] = None => Unwritten(image)
    BY <1>1 DEF VersionsOK
  <2>2. Sound(j, record[j]) => Sound(j, record[j])'
    BY <1>1, SoundGrows
  <2>3. Sound(j, image) => Sound(j, image)'
    BY <1>1, SoundGrows
  <2> QED BY <1>1, <2>1, <2>2, <2>3
<1>3. ASSUME NEW j \in Jobs, mem'[j] # None
      PROVE  /\ Sound(j, mem[j])'
             /\ record'[j] # None => Near(j, record'[j], mem'[j])
             /\ Writing(j)' => Near(j, image', mem'[j])
             /\ record'[j] = None => Unwritten(mem'[j])
  <2>1. CASE mem'[j] = mem[j]
    <3>1. /\ Sound(j, mem[j])
          /\ record[j] # None => Near(j, record[j], mem[j])
          /\ Writing(j)' => Near(j, image, mem[j])
          /\ record[j] = None => Unwritten(mem[j])
      BY <1>1, <1>3, <2>1 DEF VersionsOK
    <3>2. Sound(j, mem[j])'
      BY <1>1, <3>1, <2>1 DEF Sound, Total
    <3> QED BY <1>1, <2>1, <3>1, <3>2
  <2>2. CASE Moves(j)
    <3>1. Sound(j, mem'[j])
      BY <2>2, MoveSound
    <3>2. Sound(j, mem[j])'
      BY <1>1, <3>1 DEF Sound, Total
    <3>3. /\ record[j] # None => Near(j, record[j], mem'[j])
          /\ Writing(j) => Near(j, image, mem'[j])
      BY <2>2, MoveNear
    <3>4. record[j] = None => Unwritten(mem'[j])
      BY <2>2, MoveUnwritten
    <3> QED BY <1>1, <3>2, <3>3, <3>4
  <2>3. CASE Enters(j)
    <3>1. ~Writing(j) /\ record[j] = None /\ mem'[j] = NewRecord
      BY <2>3, EntersAlone DEF Enters
    <3>2. Sound(j, mem'[j]) /\ Unwritten(mem'[j])
      BY <3>1, NewIsSound
    <3>3. Sound(j, mem[j])'
      BY <1>1, <3>2 DEF Sound, Total
    <3> QED BY <1>1, <3>1, <3>2, <3>3
  <2>4. CASE Leaves(j)
    BY <1>3, <2>4 DEF Leaves
  <2> QED BY <1>1, <2>1, <2>2, <2>3, <2>4 DEF MemoryMoves
<1> QED BY <1>2, <1>3 DEF VersionsOK

LEMMA VersionsCopy ==
  ASSUME OInv, CopyStep
  PROVE  VersionsOK'
<1> USE Parts
<1>1. UNCHANGED <<mem, record, source>>
  BY DEF CopyStep
<1>2. PICK k \in Jobs : mem[k] # None /\ image' = mem[k] /\ \A i \in Jobs : Writing(i)' => i = k
  BY DEF CopyStep
<1>3. ASSUME NEW j \in Jobs
      PROVE  /\ mem'[j] # None => Sound(j, mem[j])'
             /\ record'[j] # None => Sound(j, record[j])'
             /\ mem'[j] # None /\ record'[j] # None => Near(j, record'[j], mem'[j])
             /\ mem'[j] # None /\ record'[j] = None => Unwritten(mem'[j])
  <2>1. /\ mem[j] # None => Sound(j, mem[j])
        /\ record[j] # None => Sound(j, record[j])
        /\ mem[j] # None /\ record[j] # None => Near(j, record[j], mem[j])
        /\ mem[j] # None /\ record[j] = None => Unwritten(mem[j])
    BY DEF VersionsOK
  <2> QED BY <1>1, <2>1 DEF Sound, Total
<1>4. ASSUME NEW j \in Jobs, Writing(j)'
      PROVE  /\ Sound(j, image)'
             /\ record'[j] # None => Near(j, record'[j], image')
             /\ mem'[j] # None => Near(j, image', mem'[j])
             /\ record'[j] = None => Unwritten(image')
  <2>1. mem[j] # None /\ image' = mem[j]
    BY <1>2, <1>4
  <2>2. /\ Sound(j, mem[j])
        /\ record[j] # None => Near(j, record[j], mem[j])
        /\ record[j] = None => Unwritten(mem[j])
    BY <2>1 DEF VersionsOK
  <2>3. Near(j, mem[j], mem[j])
    BY NearItself
  <2> QED BY <1>1, <2>1, <2>2, <2>3 DEF Sound, Total
<1> QED BY <1>3, <1>4 DEF VersionsOK

LEMMA VersionsWrite ==
  ASSUME OInv, WriteStep
  PROVE  VersionsOK'
<1> USE Parts
<1>1. UNCHANGED <<mem, source>> /\ \A i \in Jobs : ~Writing(i)'
  BY DEF WriteStep
<1>2. ASSUME NEW j \in Jobs
      PROVE  record'[j] = record[j] \/ (Writing(j) /\ record'[j] = image)
  BY DEF WriteStep, TypeOK, DiskType
<1>3. ASSUME NEW j \in Jobs
      PROVE  /\ mem[j] # None => Sound(j, mem[j])
             /\ record'[j] # None => Sound(j, record'[j])
             /\ mem[j] # None /\ record'[j] # None => Near(j, record'[j], mem[j])
             /\ mem[j] # None /\ record'[j] = None => Unwritten(mem[j])
  <2>1. CASE record'[j] = record[j]
    BY <2>1 DEF VersionsOK
  <2>2. CASE Writing(j) /\ record'[j] = image
    BY <2>2 DEF VersionsOK
  <2> QED BY <1>2, <2>1, <2>2
<1>4. ASSUME NEW j \in Jobs
      PROVE  /\ mem'[j] # None => Sound(j, mem[j])'
             /\ record'[j] # None => Sound(j, record[j])'
  BY <1>1, <1>3 DEF Sound, Total
<1> QED BY <1>1, <1>3, <1>4 DEF VersionsOK

-----------------------------------------------------------------------------
(* What a restart makes of a record.                                         *)

Woken(r)   == IF r.state # "running" THEN r
              ELSE [r EXCEPT !.state = IF r.cancel THEN "cancelled" ELSE "queued"]
Refused(r) == [r EXCEPT !.state = "failed", !.failed = TRUE]

\* The record a becomes b on disk and c in memory.
Turned(a, b, c) ==
  \/ b \in {a, Woken(a)} /\ c \in {None, Woken(a)}
  \/ /\ Woken(a).state = "queued"
     /\ b \in {a, Woken(a), Refused(Woken(a))} /\ c = Refused(Woken(a))

LEMMA Wakes ==
  ASSUME NEW a \in Record
  PROVE  LET b == Woken(a) IN
         /\ b \in Record /\ b.done = a.done /\ b.finished = a.finished
         /\ b.cancel = a.cancel /\ b.failed = a.failed
         /\ b.state = IF a.state # "running" THEN a.state
                      ELSE IF a.cancel THEN "cancelled" ELSE "queued"
<1> DEFINE s == IF a.cancel THEN "cancelled" ELSE "queued"
           r == [a EXCEPT !.state = s]
<1>1. s \in JobState
  BY DEF JobState, Terminal
<1> HIDE DEF s
<1>2. r \in Record
  BY <1>1, SetField
<1>3. /\ r.state = s /\ r.done = a.done /\ r.finished = a.finished
      /\ r.cancel = a.cancel /\ r.failed = a.failed
  BY DEF Record
<1>4. Woken(a) = IF a.state # "running" THEN a ELSE r
  BY DEF Woken, s
<1> HIDE DEF r
<1> QED BY <1>2, <1>3, <1>4 DEF s

LEMMA Refuses ==
  ASSUME NEW a \in Record
  PROVE  LET b == Refused(a) IN
         /\ b \in Record /\ b.done = a.done /\ b.finished = a.finished
         /\ b.cancel = a.cancel /\ b.failed /\ b.state = "failed"
<1> DEFINE r == [[a EXCEPT !.state = "failed"] EXCEPT !.failed = TRUE]
<1>1. [a EXCEPT !.state = "failed"] \in Record
  BY SetField DEF JobState, Terminal
<1>2. r \in Record
  BY <1>1, SetField DEF JobState
<1>3. /\ r.state = "failed" /\ r.done = a.done /\ r.finished = a.finished
      /\ r.cancel = a.cancel /\ r.failed = TRUE
  BY DEF Record
<1>4. Refused(a) = r
  BY DEF Refused
<1> HIDE DEF r
<1> QED BY <1>2, <1>3, <1>4

\* None of the three versions that come of a record claims more than it did.
LEMMA TurnedSound ==
  ASSUME NEW j \in Jobs, NEW a \in Record, NEW b, NEW c, Sound(j, a), Turned(a, b, c)
  PROVE  /\ b \in Record /\ Sound(j, b) /\ (a.cancel => b.cancel)
         /\ c # None => /\ c \in Record /\ Sound(j, c) /\ Near(j, b, c)
                        /\ c.state # "running" /\ (a.cancel => c.cancel)
<1> DEFINE w == Woken(a)
           r == Refused(w)
<1>1. /\ w \in Record /\ w.done = a.done /\ w.finished = a.finished
      /\ w.cancel = a.cancel /\ w.failed = a.failed
      /\ w.state = IF a.state # "running" THEN a.state
                   ELSE IF a.cancel THEN "cancelled" ELSE "queued"
  BY Wakes
<1> HIDE DEF w
<1>2. /\ r \in Record /\ r.done = w.done /\ r.finished = w.finished
      /\ r.cancel = w.cancel /\ r.failed /\ r.state = "failed"
  BY <1>1, Refuses
<1> HIDE DEF r
<1>3. Sound(j, w)
  BY <1>1 DEF Sound, Terminal
<1>4. Sound(j, r)
  BY <1>2 DEF Sound, Terminal
<1>5. \/ b \in {a, w} /\ c \in {None, w}
      \/ w.state = "queued" /\ b \in {a, w, r} /\ c = r
  BY DEF Turned, w, r
<1>6. Near(j, a, w) /\ Near(j, w, w)
  BY <1>1 DEF Near
<1>7. w.state = "queued" => Near(j, a, r) /\ Near(j, w, r) /\ Near(j, r, r)
  BY <1>1, <1>2 DEF Near
<1> QED BY <1>1, <1>2, <1>3, <1>4, <1>5, <1>6, <1>7

\* A restart turns every record, and schedules every job that waits.
RestartStep ==
  /\ \A j \in Jobs : record[j] = None => record'[j] = None /\ mem'[j] = None
  /\ \A j \in Jobs : record[j] # None => Turned(record[j], record'[j], mem'[j])
  /\ \A j \in Jobs : mem'[j] # None /\ mem'[j].state = "queued" =>
        /\ token'[j] # "absent"
        /\ blocked' \/ \E i \in DOMAIN queue' : queue'[i] = j

LEMMA RestartTurns ==
  ASSUME TypeOK, Restart
  PROVE  RestartStep
<1>1. PICK q \in [1 .. Cardinality(Waiting) -> Waiting] :
        /\ Enumerates(q, Waiting, index)
        /\ mem' = Booted(q)
        /\ queue' = IF Unreadable THEN <<>>
                    ELSE IF Len(q) <= QueueDepth THEN q ELSE SubSeq(q, 1, QueueDepth)
        /\ token' = [j \in Jobs |-> IF j \notin Waiting \ Dropped(q) THEN "absent"
                                    ELSE IF record[j].cancel THEN "cancelled" ELSE "live"]
        /\ \E requeued \in SUBSET {j \in Known : Recovered(j) # record[j]},
              failed \in SUBSET Dropped(q) :
             record' = [j \in Jobs |-> IF j \in failed THEN Booted(q)[j]
                                       ELSE IF j \in requeued THEN Recovered(j)
                                       ELSE record[j]]
  BY DEF Restart
<1>2. PICK requeued \in SUBSET {j \in Known : Recovered(j) # record[j]},
           failed \in SUBSET Dropped(q) :
        record' = [j \in Jobs |-> IF j \in failed THEN Booted(q)[j]
                                  ELSE IF j \in requeued THEN Recovered(j)
                                  ELSE record[j]]
  BY <1>1
<1>3. /\ record \in [Jobs -> Record \cup {None}] /\ index \in Seq(Jobs)
      /\ QueueDepth \in Nat
  BY DepthAssumption DEF TypeOK, DiskType
<1>4. Known \subseteq {j \in Jobs : record[j] # None} /\ Waiting \subseteq Known
  <2>1. Listed \subseteq Jobs
    BY <1>3, ElementOfSeq, LenProperties DEF Listed
  <2> QED BY <2>1 DEF Known, Waiting, Valid
<1>5. \A j \in Jobs : Recovered(j) = Woken(record[j])
  BY DEF Recovered, Woken
<1>6. Dropped(q) \subseteq Waiting
  BY <1>1 DEF Dropped
<1>7. \A j \in Jobs : Booted(q)[j] = IF j \notin Known THEN None
                                     ELSE IF j \in Dropped(q) THEN Refused(Woken(record[j]))
                                     ELSE Woken(record[j])
  BY <1>5 DEF Booted, Refused
<1>8. \A j \in Dropped(q) : j \in Known /\ Woken(record[j]).state = "queued"
  BY <1>4, <1>5, <1>6 DEF Waiting
<1>9. ASSUME NEW j \in Jobs
      PROVE  /\ mem'[j] = Booted(q)[j]
             /\ record'[j] = IF j \in failed THEN Refused(Woken(record[j]))
                             ELSE IF j \in requeued THEN Woken(record[j])
                             ELSE record[j]
             /\ j \in failed => j \in Dropped(q)
             /\ j \in requeued => j \in Known
  BY <1>1, <1>2, <1>5, <1>7, <1>8
<1>10. ASSUME NEW j \in Jobs, record[j] = None
       PROVE  record'[j] = None /\ mem'[j] = None
  BY <1>4, <1>7, <1>8, <1>9, <1>10
<1>11. ASSUME NEW j \in Jobs, record[j] # None
       PROVE  Turned(record[j], record'[j], mem'[j])
  BY <1>7, <1>8, <1>9 DEF Turned
<1>12. ASSUME NEW j \in Jobs, mem'[j] # None, mem'[j].state = "queued"
       PROVE  j \in Waiting \ Dropped(q)
  <2>1. j \in Known /\ record[j] \in Record
    BY <1>3, <1>4, <1>7, <1>9, <1>12
  <2>2. Refused(Woken(record[j])).state = "failed"
    BY <2>1, Wakes, Refuses
  <2>3. j \notin Dropped(q)
    BY <2>1, <2>2, <1>7, <1>9, <1>12
  <2> QED BY <2>1, <2>3, <1>5, <1>7, <1>9, <1>12 DEF Waiting
<1>13. ASSUME NEW j \in Waiting \ Dropped(q), ~Unreadable
       PROVE  \E i \in DOMAIN queue' : queue'[i] = j
  <2>1. PICK i \in DOMAIN q : q[i] = j
    BY <1>1 DEF Enumerates
  <2>2. ~(i > QueueDepth)
    BY <2>1 DEF Dropped
  <2>3. IsFiniteSet(Waiting)
    BY <1>4, JobsAssumption, FS_Subset
  <2>4. Cardinality(Waiting) \in Nat
    BY <2>3, FS_CardinalityType
  <2>5. q \in Seq(Jobs) /\ DOMAIN q = 1 .. Len(q) /\ Len(q) \in Nat
    <3>1. q \in [1 .. Cardinality(Waiting) -> Jobs]
      BY <1>1, <1>4
    <3> QED BY <3>1, <2>4, SeqDef, LenProperties
  <2>6. CASE Len(q) <= QueueDepth
    BY <2>1, <2>6, <1>1, <1>13
  <2>7. CASE ~(Len(q) <= QueueDepth)
    <3> DEFINE h == SubSeq(q, 1, QueueDepth)
    <3>1. queue' = h
      BY <2>7, <1>1, <1>13
    <3>2. i \in 1 .. QueueDepth
      BY <2>1, <2>2, <2>5, <1>3
    <3>3. Len(h) = QueueDepth /\ h[i] = q[i] /\ DOMAIN h = 1 .. QueueDepth
      <4>1. \A k \in 1 .. QueueDepth : q[k] \in Jobs
        <5>1. 1 .. QueueDepth \subseteq 1 .. Len(q)
          BY <2>5, <2>7, <1>3
        <5> QED BY <5>1, <2>5, ElementOfSeq
      <4> QED BY <3>2, <4>1, <1>3, SubSeqProperties, LenProperties
    <3> QED BY <2>1, <3>1, <3>2, <3>3
  <2> QED BY <2>6, <2>7
<1>14. ASSUME NEW j \in Jobs, mem'[j] # None, mem'[j].state = "queued"
       PROVE  /\ token'[j] # "absent"
              /\ blocked' \/ \E i \in DOMAIN queue' : queue'[i] = j
  <2>1. j \in Waiting \ Dropped(q)
    BY <1>12, <1>14
  <2>2. token'[j] # "absent"
    BY <2>1, <1>1
  <2>3. blocked' = Unreadable
    BY DEF Restart
  <2> QED BY <2>1, <2>2, <2>3, <1>13
<1> QED BY <1>10, <1>11, <1>14 DEF RestartStep

LEMMA RestartEnds ==
  ASSUME Restart
  PROVE  /\ \A j \in Jobs : ~Writing(j)'
         /\ worker' = IdleWorker /\ stager' = IdleStager /\ lock' = "free"
         /\ client' = [c \in Clients |-> IdleClient]
         /\ UNCHANGED <<source, acked>>
BY ProcAssumption DEF Restart, Writing

LEMMA VersionsRestart ==
  ASSUME OInv, Restart
  PROVE  VersionsOK'
<1> USE Parts
<1>1. RestartStep
  BY RestartTurns
<1>2. (\A j \in Jobs : ~Writing(j)') /\ source' = source
  BY RestartEnds
<1>3. ASSUME NEW j \in Jobs
      PROVE  /\ mem'[j] # None => Sound(j, mem'[j])
             /\ record'[j] # None => Sound(j, record'[j])
             /\ mem'[j] # None /\ record'[j] # None => Near(j, record'[j], mem'[j])
             /\ mem'[j] # None => record'[j] # None
  <2>1. CASE record[j] = None
    BY <2>1, <1>1 DEF RestartStep
  <2>2. CASE record[j] # None
    <3>1. Sound(j, record[j]) /\ Turned(record[j], record'[j], mem'[j]) /\ record[j] \in Record
      BY <2>2, <1>1 DEF RestartStep, VersionsOK
    <3> QED BY <3>1, TurnedSound
  <2> QED BY <2>1, <2>2
<1>4. ASSUME NEW j \in Jobs
      PROVE  /\ mem'[j] # None => Sound(j, mem[j])'
             /\ record'[j] # None => Sound(j, record[j])'
  BY <1>2, <1>3 DEF Sound, Total
<1> QED BY <1>2, <1>3, <1>4 DEF VersionsOK

-----------------------------------------------------------------------------
(* Who steps, and what the others keep.                                      *)

LEMMA Actors ==
  ASSUME TypeOK, Running
  PROVE  \/ Worker /\ UNCHANGED <<stager, client>>
         \/ (Submit \/ Stager) /\ UNCHANGED <<worker, client>>
         \/ (\E c \in Clients : Client(c)) /\ UNCHANGED <<worker, stager>>
<1> USE DEF disk, memory, history
<1>1. ASSUME Worker
      PROVE  UNCHANGED <<stager, client>>
  BY <1>1 DEF Worker, Receive, StartJob, RunJob, LoadSource, NextFrame, RenderFrame, RecordOutcome,
     FinishAfterBlender, EncodeVideo, CompleteJob, MarkCancelled, FailJob, WorkerCopies,
     WorkerWrites, WorkerFindsNoJob, Release
<1>2. ASSUME Submit \/ Stager
      PROVE  UNCHANGED <<worker, client>>
  BY <1>2 DEF Submit, Stager, Register, SnapshotFails, CopyRecordAndIndex, WriteAdmittedRecord,
     WriteIndex, Reject, CommitSource, MarkWaiting, Push, StagingFails, StagerCopies, StagerWrites,
     StagerReleases
<1>3. ASSUME NEW c \in Clients, Client(c)
      PROVE  UNCHANGED <<worker, stager>>
  BY <1>3 DEF Client, Cancel, CancelToken, CancelCopies, CancelWrites, CancelEnds
<1> QED BY <1>1, <1>2, <1>3 DEF Running

\* The stager keeps its job until the submission is answered, and takes one that
\* nobody knows.
LEMMA StagersJob ==
  ASSUME TypeOK, Refs, Running
  PROVE  \/ stager' = IdleStager
         \/ stager'.pc # "idle" /\ stager.pc # "idle" /\ stager'.job = stager.job
         \/ UNCHANGED stager
         \/ /\ stager.pc = "idle" /\ stager'.pc = "snapshot" /\ stager'.job \in Jobs
            /\ mem[stager'.job] = None /\ record[stager'.job] = None /\ ~Writing(stager.job)'
            /\ UNCHANGED <<mem, record, image, lock, token, queue, blocked, worker, client>>
<1> USE DEF disk, memory, history
<1>1. CASE Submit
  <2>1. PICK j \in Jobs : Fresh(j) /\ stager' = [pc |-> "snapshot", job |-> j]
    BY <1>1 DEF Submit
  <2>2. /\ stager.pc = "idle"
        /\ UNCHANGED <<mem, record, image, lock, token, queue, blocked, worker, client>>
    BY <1>1 DEF Submit, Staging
  <2>3. stager'.pc = "snapshot" /\ stager'.job = j
    BY <2>1
  <2>4. lock # "stager"
    BY <2>2 DEF Refs, LockOK, StagerSaving
  <2>5. ~Writing(stager.job)'
    BY <2>1, <2>2, <2>3, <2>4 DEF Writing, Fresh
  <2> QED BY <2>1, <2>2, <2>3, <2>5 DEF Fresh
<1>2. CASE Stager
  BY <1>2 DEF Stager, Register, SnapshotFails, CopyRecordAndIndex, WriteAdmittedRecord, WriteIndex,
     Reject, CommitSource, MarkWaiting, Push, StagingFails, StagerCopies, StagerWrites,
     StagerReleases, StagerTo, Answer, Staging, StagerSaving, TypeOK, ProcessType
<1>3. CASE UNCHANGED stager
  BY <1>3
<1> QED BY <1>1, <1>2, <1>3, Actors DEF Running

\* The memory of a job that is neither started nor admitted runs only if it ran.
LEMMA RunsOn ==
  ASSUME OInv, MemoryStep, NEW j \in Jobs, mem'[j] # None, mem'[j].state = "running"
  PROVE  \/ mem[j] # None /\ mem[j].state = "running"
         \/ ByWorker(j) /\ worker'.pc = "start" /\ Started(mem[j], mem'[j]) /\ mem[j] \in Record
<1> USE Parts
<1>1. mem'[j] = mem[j] \/ Moves(j) \/ Leaves(j) \/ Enters(j)
  BY DEF MemoryStep, MemoryMoves
<1>2. ~Leaves(j) /\ ~Enters(j)
  BY DEF Leaves, Enters, NewRecord
<1>3. CASE Moves(j)
  BY <1>3 DEF Moves, ByWorker, ByStager, ByClient, Started, Counted, Noted, Completed, Ended, Asked
<1> QED BY <1>1, <1>2, <1>3

\* Nobody but the worker and the clients that cancel touches the worker's job.
LEMMA OthersMemory ==
  ASSUME OInv, MemoryStep, worker' = worker, worker.pc # "idle"
  PROVE  LET j == worker.job IN
           \/ mem'[j] = mem[j]
           \/ mem[j] \in Record /\ mem'[j] \in Record /\ Asked(mem[j], mem'[j])
           \/ mem'[j] = None /\ ~IsActive(j)
<1> USE Parts
<1> DEFINE j == worker.job
<1>1. j \in Jobs /\ (stager.pc # "idle" => stager.job # j)
  BY DEF WorkerOK, StagerOK
<1>2. mem'[j] = mem[j] \/ Moves(j) \/ Leaves(j) \/ Enters(j)
  BY <1>1 DEF MemoryStep, MemoryMoves
<1>3. ~Enters(j) /\ (Leaves(j) => mem'[j] = None /\ ~IsActive(j))
  BY <1>1 DEF Enters, Leaves, Staging
<1>4. ~ByWorker(j) /\ ~ByStager(j)
  BY <1>1 DEF ByWorker, ByStager, Staging
<1>5. CASE Moves(j)
  BY <1>4, <1>5 DEF Moves, ByClient
<1> QED BY <1>2, <1>3, <1>5

-----------------------------------------------------------------------------
(* Only the worker's job runs.                                               *)

\* An active job that is cancelled by the worker, or fails, has ended.
LEMMA EndsActive ==
  ASSUME TypeOK, NEW j \in Jobs, IsActive(j),
         \/ mem' = [mem EXCEPT ![j].state = "cancelled", ![j].cancel = TRUE]
         \/ mem' = Failed(j)
  PROVE  mem'[j].state \in Terminal
<1>1. mem[j] \in Record
  BY DEF IsActive, TypeOK, MemoryType
<1>2. CASE mem' = [mem EXCEPT ![j].state = "cancelled", ![j].cancel = TRUE]
  <2> DEFINE r == [[mem[j] EXCEPT !.state = "cancelled"] EXCEPT !.cancel = TRUE]
  <2>1. mem'[j] = r
    BY <1>1, <1>2 DEF TypeOK, MemoryType
  <2>2. r.state = "cancelled"
    BY <1>1 DEF Record
  <2> HIDE DEF r
  <2> QED BY <2>1, <2>2 DEF Terminal
<1>3. CASE mem' = Failed(j)
  BY <1>3, FailedEnds DEF Ended, Terminal
<1> QED BY <1>2, <1>3

\* A job has ended, or is gone.
Over(j) == mem[j] = None \/ mem[j].state \in Terminal

\* The steps with which the worker ends its job.
LEMMA WorkerEnds ==
  ASSUME TypeOK, Refs, CompleteJob \/ MarkCancelled \/ FailJob
  PROVE  worker'.job = worker.job /\ worker'.pc \in {"settle", "release"} /\ Over(worker.job)'
<1>1. worker.job \in Jobs /\ worker.pc \in {"complete", "cancel", "fail"}
  BY DEF CompleteJob, MarkCancelled, FailJob, At, Refs, WorkerOK
<1>2. worker'.job = worker.job /\ worker'.pc \in {"settle", "release"}
  BY DEF CompleteJob, MarkCancelled, FailJob, GoTo, TypeOK, ProcessType
<1>3. ASSUME CompleteJob
      PROVE  mem'[worker.job].state \in Terminal
  <2>1. mem[worker.job] \in Record /\ mem[worker.job].state = "running"
    BY <1>3, WorkersRecord DEF CompleteJob, At, WorkerRunning
  <2>2. mem'[worker.job].state = IF mem[worker.job].cancel THEN "cancelled" ELSE "succeeded"
    BY <1>1, <1>3, <2>1 DEF CompleteJob, TypeOK, MemoryType, Record
  <2> QED BY <2>2 DEF Terminal
<1>4. ASSUME MarkCancelled \/ FailJob
      PROVE  IF IsActive(worker.job) THEN mem'[worker.job].state \in Terminal ELSE mem' = mem
  BY <1>1, <1>4, EndsActive DEF MarkCancelled, FailJob, Failed
<1> QED BY <1>2, <1>3, <1>4 DEF Over, IsActive

AtWork == WorkerRunning \cup {"cancel", "fail"}

\* The worker leaves its job only when it has ended.
LEMMA WorkersPlace ==
  ASSUME TypeOK, Refs, Worker, worker.pc \in AtWork
  PROVE  /\ worker'.job = worker.job
         /\ worker'.pc \in AtWork \/ Over(worker.job)'
<1>1. CASE CompleteJob \/ MarkCancelled \/ FailJob
  BY <1>1, WorkerEnds
<1>2. CASE \/ RunJob \/ LoadSource \/ NextFrame \/ RenderFrame \/ RecordOutcome
           \/ FinishAfterBlender \/ EncodeVideo
  BY <1>2 DEF RunJob, LoadSource, NextFrame, RenderFrame, RecordOutcome, FinishAfterBlender,
     EncodeVideo, GoTo, Return, AtWork, WorkerRunning, TypeOK, ProcessType
<1>3. CASE WorkerCopies
  BY <1>3 DEF WorkerCopies
<1>4. CASE WorkerWrites
  <2>1. PICK saved \in BOOLEAN : Resume(saved)
    BY <1>4 DEF WorkerWrites
  <2> QED BY <1>4, <2>1 DEF Resume, GoTo, Return, WorkerWrites, WorkerSaving, AtWork, WorkerRunning,
     TypeOK, ProcessType
<1>5. CASE Receive \/ StartJob \/ Release
  BY <1>5 DEF Receive, StartJob, Release, At, AtWork, WorkerRunning
<1>6. CASE WorkerFindsNoJob
  BY <1>6 DEF WorkerFindsNoJob, AtWork, WorkerRunning, WorkerSaving, Refs, WorkerOK
<1> QED BY <1>1, <1>2, <1>3, <1>4, <1>5, <1>6 DEF Worker

LEMMA RunningStep ==
  ASSUME OInv, Running
  PROVE  RunningOK'
<1> USE Parts
<1> SUFFICES ASSUME NEW j \in Jobs, mem'[j] # None, mem'[j].state = "running"
             PROVE  worker'.job = j /\ worker'.pc \in AtWork
  BY DEF RunningOK, AtWork
<1>1. \/ mem[j] # None /\ mem[j].state = "running"
      \/ worker'.job = j /\ worker'.pc = "start"
  BY Kinds, RunsOn DEF CopyStep, WriteStep, ByWorker
<1>2. CASE worker'.job = j /\ worker'.pc = "start"
  BY <1>2 DEF AtWork, WorkerRunning
<1>3. CASE mem[j] # None /\ mem[j].state = "running"
  <2>1. worker.job = j /\ worker.pc \in AtWork
    BY <1>3 DEF RunningOK, AtWork
  <2>2. ~Over(worker.job)'
    <3>1. Worker => worker'.job = worker.job
      BY <2>1, WorkersPlace
    <3>2. worker'.job = j
      BY <2>1, <3>1, Actors
    <3> QED BY <3>2 DEF Over, Terminal
  <2> QED BY <2>1, <2>2, WorkersPlace, Actors
<1> QED BY <1>1, <1>2, <1>3

LEMMA RunningRestart ==
  ASSUME OInv, Restart
  PROVE  RunningOK'
<1> USE Parts
<1>1. RestartStep
  BY RestartTurns
<1>2. ASSUME NEW j \in Jobs, mem'[j] # None
      PROVE  mem'[j].state # "running"
  <2>1. record[j] # None /\ record[j] \in Record /\ Turned(record[j], record'[j], mem'[j])
    BY <1>1, <1>2 DEF RestartStep
  <2> QED BY <1>2, <2>1, TurnedSound DEF VersionsOK
<1> QED BY <1>2 DEF RunningOK

-----------------------------------------------------------------------------
(* The job that is being staged.                                             *)

\* A job whose work ended stays as it ended while the server runs.
LEMMA OverStays ==
  ASSUME OInv, Running, NEW j \in Jobs, Over(j), ~Enters(j)
  PROVE  mem'[j] = None \/ mem'[j].state \in Terminal
<1> USE Parts
<1>1. CASE MemoryStep
  BY <1>1 DEF MemoryStep, MemoryMoves, Moves, ByWorker, ByStager, ByClient, Started, Counted, Noted,
     Completed, Ended, Asked, Leaves, Over, Terminal
<1>2. CASE UNCHANGED mem
  BY <1>2 DEF Over
<1> QED BY <1>1, <1>2, Kinds DEF CopyStep, WriteStep

\* Where fail_job by the stager leaves the job.
LEMMA StagerEnds ==
  ASSUME OInv, Running, stager'.pc \in {"settle", "release"}
  PROVE  /\ stager'.job = stager.job /\ stager.job \in Jobs
         /\ mem'[stager.job] = None \/ mem'[stager.job].state \in Terminal
<1> USE Parts
<1>1. stager'.job = stager.job /\ stager.job \in Jobs /\ stager.pc # "idle"
  <2>1. stager' # IdleStager
    BY DEF IdleStager
  <2> QED BY <2>1, StagersJob DEF StagerOK, StagingOK
<1>2. CASE stager.pc \in {"settle", "release"}
  <2>1. Over(stager.job) /\ ~Enters(stager.job)
    BY <1>2 DEF StagingOK, IsActive, Over, Enters, Staging
  <2> QED BY <1>1, <2>1, OverStays
<1>3. CASE stager.pc \notin {"settle", "release"}
  <2>0. Submit \/ Stager
    BY <1>3, Actors
  <2>1. StagingFails
    BY <1>3, <2>0 DEF Stager, Submit, Register, SnapshotFails, CopyRecordAndIndex,
       WriteAdmittedRecord, WriteIndex, Reject, CommitSource, MarkWaiting, Push, StagerCopies,
       StagerWrites, StagerReleases, StagerTo, Answer, Staging, StagerSaving, IdleStager, TypeOK,
       ProcessType
  <2>2. IF IsActive(stager.job) THEN mem'[stager.job].state \in Terminal ELSE mem' = mem
    BY <1>1, <2>1, EndsActive DEF StagingFails, Failed
  <2> QED BY <1>1, <2>2 DEF IsActive
<1> QED BY <1>2, <1>3

LEMMA StagingStep ==
  ASSUME OInv, Running
  PROVE  StagingOK'
<1> USE Parts
<1>1. stager'.pc = "idle" => stager'.job = None
  BY StagersJob DEF StagingOK, IdleStager
<1>2. CASE stager' = IdleStager
  BY <1>2 DEF StagingOK, IdleStager
<1>3. CASE /\ stager.pc = "idle" /\ stager'.pc = "snapshot" /\ stager'.job \in Jobs
           /\ mem[stager'.job] = None /\ record[stager'.job] = None /\ ~Writing(stager.job)'
           /\ UNCHANGED <<mem, record, image, lock, token, queue, blocked, worker, client>>
  BY <1>3 DEF StagingOK, IsActive
<1>4. CASE stager'.job = stager.job /\ stager.pc # "idle" /\ stager'.pc # "idle"
  <2> PICK j \in Jobs : j = stager.job
    BY <1>4 DEF StagerOK
  <2>1. /\ j \in Jobs /\ worker.job # j
        /\ record[j] # None => record[j].state # "running"
        /\ Writing(j) => image.state # "running"
    BY <1>4 DEF StagingOK, StagerOK
  <2>2. stager'.pc \in {"settle", "release"} => ~IsActive(stager.job)'
    BY <1>4, StagerEnds DEF IsActive
  <2>3. /\ record'[j] # None => record'[j].state # "running"
        /\ Writing(j)' => image'.state # "running"
    <3>1. CASE MemoryStep
      BY <2>1, <3>1 DEF MemoryStep
    <3>2. CASE CopyStep
      <4>1. mem[j] # None => mem[j].state # "running"
        BY <2>1 DEF RunningOK
      <4> QED BY <2>1, <3>2, <4>1 DEF CopyStep
    <3>3. CASE WriteStep
      <4>1. record'[j] = record[j] \/ (Writing(j) /\ record'[j] = image)
        BY <2>1, <3>3 DEF WriteStep, TypeOK, DiskType
      <4> QED BY <2>1, <3>3, <4>1 DEF WriteStep
    <3> QED BY <3>1, <3>2, <3>3, Kinds
  <2>4. Writing(stager.job)' => Writing(j)'
    BY <1>4 DEF Writing
  <2> QED BY <1>4, <2>2, <2>3, <2>4 DEF StagingOK
<1>5. CASE UNCHANGED stager /\ stager.pc = "idle"
  BY <1>1, <1>5 DEF StagingOK
<1> QED BY <1>2, <1>3, <1>4, <1>5, StagersJob

-----------------------------------------------------------------------------
(* What is being written.                                                    *)

\* Who gets the lock, and what the copy is.
LEMMA LockMoves ==
  ASSUME TypeOK, Refs, Running
  PROVE  \/ UNCHANGED <<lock, image>> /\ (lock = "worker" => worker' = worker)
         \/ lock' \in {"free", "stager"}
         \/ WorkerCopies
         \/ \E c \in Clients : CancelCopies(c)
<1>1. CASE Worker
  <2>1. CASE Receive \/ StartJob \/ RunJob \/ LoadSource \/ NextFrame \/ RenderFrame \/ RecordOutcome
             \/ FinishAfterBlender \/ EncodeVideo \/ CompleteJob \/ MarkCancelled \/ FailJob \/ Release
    <3>1. worker.pc \notin WorkerSaving /\ UNCHANGED <<lock, image>>
      BY <2>1 DEF Receive, StartJob, RunJob, LoadSource, NextFrame, RenderFrame, RecordOutcome,
         FinishAfterBlender, EncodeVideo, CompleteJob, MarkCancelled, FailJob, Release, At,
         WorkerSaving, memory
    <3> QED BY <3>1 DEF Refs, LockOK
  <2>2. CASE WorkerWrites
    BY <2>2 DEF WorkerWrites, Write
  <2>3. CASE WorkerFindsNoJob
    BY <2>3 DEF WorkerFindsNoJob, memory
  <2> QED BY <1>1, <2>1, <2>2, <2>3 DEF Worker
<1>2. CASE Submit \/ Stager
  <2>1. UNCHANGED <<lock, image>> \/ lock' \in {"free", "stager"}
    BY <1>2 DEF Submit, Stager, Register, SnapshotFails, CopyRecordAndIndex, Copy,
       WriteAdmittedRecord, WriteIndex, Reject, CommitSource, MarkWaiting, Push, StagingFails,
       StagerCopies, StagerWrites, Write, StagerReleases, memory
  <2>2. worker' = worker
    BY <1>2 DEF Submit, Stager, Register, SnapshotFails, CopyRecordAndIndex,
       WriteAdmittedRecord, WriteIndex, Reject, CommitSource, MarkWaiting, Push, StagingFails,
       StagerCopies, StagerWrites, StagerReleases
  <2> QED BY <2>1, <2>2
<1>3. ASSUME NEW c \in Clients, Client(c)
      PROVE  CancelCopies(c) \/ (UNCHANGED <<lock, image, worker>>) \/ lock' = "free"
  BY <1>3 DEF Client, Cancel, CancelToken, CancelWrites, Write, CancelEnds, memory
<1> QED BY <1>1, <1>2, <1>3 DEF Running

LEMMA WriterStep ==
  ASSUME OInv, Running
  PROVE  WriterOK'
<1> USE Parts, ProcAssumption
<1>1. CASE UNCHANGED <<lock, image>> /\ (lock = "worker" => worker' = worker)
  <2>1. ASSUME lock = "worker", mem'[worker.job] # None
        PROVE  /\ image.done = mem'[worker.job].done
               /\ image.finished = mem'[worker.job].finished
    <3>1. worker' = worker /\ worker.pc # "idle"
      BY <1>1, <2>1 DEF LockOK, WorkerSaving
    <3>2. \/ mem'[worker.job] = mem[worker.job]
          \/ mem[worker.job] \in Record /\ Asked(mem[worker.job], mem'[worker.job])
      BY <2>1, <3>1, OthersMemory, Kinds DEF CopyStep, WriteStep
    <3> QED BY <2>1, <3>2 DEF WriterOK, Asked
  <2> QED BY <1>1, <2>1 DEF WriterOK
<1>2. CASE lock' \in {"free", "stager"}
  BY <1>2 DEF WriterOK
<1>3. CASE WorkerCopies
  <2>1. /\ mem[worker.job] # None /\ image' = mem[worker.job] /\ UNCHANGED <<mem, worker>>
        /\ worker.pc \in WorkerSaving
    BY <1>3 DEF WorkerCopies, Copy
  <2>2. mem[worker.job].state # "queued"
    BY <2>1 DEF WorkOK, IsActive, WorkerSaving, WorkerOK, WorkerRunning, Terminal
  <2> QED BY <2>1, <2>2 DEF WriterOK
<1>4. ASSUME NEW c \in Clients, CancelCopies(c)
      PROVE  WriterOK'
  <2>1. /\ mem[client[c].job] # None /\ image' = mem[client[c].job] /\ lock' = c
        /\ client[c].pc = "save" /\ client[c].job \in Jobs
    BY <1>4 DEF CancelCopies, Copy, ClientOK
  <2>2. mem[client[c].job].state = "queued" => mem[client[c].job].cancel
    BY <2>1 DEF TokenOK, IsActive, Terminal
  <2>3. Sound(client[c].job, mem[client[c].job])
    BY <2>1 DEF VersionsOK
  <2>4. image'.state # "queued" /\ lock' # "worker"
    BY <2>1, <2>2, <2>3 DEF Sound
  <2> QED BY <2>4 DEF WriterOK
<1> QED BY <1>1, <1>2, <1>3, <1>4, LockMoves

-----------------------------------------------------------------------------
(* Tokens and cancellations.                                                 *)

\* A token is taken from a job that has ended, and otherwise only cancelled.
LEMMA TokenMoves ==
  ASSUME OInv, Running, NEW j \in Jobs
  PROVE  \/ token'[j] = token[j] /\ ~Enters(j)
         \/ token[j] = "live" /\ token'[j] = "cancelled" /\ ~Enters(j)
         \/ mem'[j] = None \/ mem'[j].state \in Terminal
         \/ Enters(j) /\ token'[j] = "live"
<1> USE Parts
<1>1. CASE Release
  <2>1. mem' = mem /\ token' = [token EXCEPT ![worker.job] = "absent"] /\ ~IsActive(worker.job)
        /\ stager' = stager
    BY <1>1 DEF Release, WorkOK, At
  <2>2. ~Enters(j)
    BY <2>1 DEF Enters, StagerTo, Staging, TypeOK, ProcessType
  <2> QED BY <2>1, <2>2 DEF IsActive, TypeOK, MemoryType
<1>2. CASE StagerReleases
  <2>1. mem' = mem /\ token' = [token EXCEPT ![stager.job] = "absent"] /\ ~IsActive(stager.job)
        /\ stager.pc = "release"
    BY <1>2 DEF StagerReleases, StagingOK, Staging
  <2> QED BY <2>1 DEF IsActive, Enters, Staging, TypeOK, MemoryType
<1>3. CASE Reject
  <2>1. /\ mem' = [mem EXCEPT ![stager.job] = None] /\ stager.pc = "reject"
        /\ token' = [token EXCEPT ![stager.job] = "absent"]
    BY <1>3 DEF Reject, Staging
  <2> QED BY <2>1 DEF Enters, Staging, TypeOK, MemoryType
<1>4. CASE Register
  <2>1. PICK evicted \in {order[i] : i \in DOMAIN order} \cup {None},
             kept \in {order} \cup {RemoveAt(order, i) : i \in DOMAIN order} :
          /\ mem'   = [i \in Jobs |-> IF i = stager.job THEN NewRecord
                                      ELSE IF i = evicted THEN None ELSE mem[i]]
          /\ token' = [i \in Jobs |-> IF i = stager.job THEN "live"
                                      ELSE IF i = evicted THEN "absent" ELSE token[i]]
    BY <1>4 DEF Register
  <2>2. j = stager.job => Enters(j)
    BY <1>4, <2>1 DEF Enters, Register, StagerOK, Staging
  <2> QED BY <2>1, <2>2 DEF Enters
<1>5. ASSUME NEW c \in Clients, CancelToken(c)
      PROVE  (token'[j] = token[j] \/ (token[j] = "live" /\ token'[j] = "cancelled")) /\ ~Enters(j)
  <2>1. /\ token' = [token EXCEPT ![client[c].job] = IF @ = "live" THEN "cancelled" ELSE @]
        /\ stager' = stager
    BY <1>5 DEF CancelToken
  <2>2. ~Enters(j)
    BY <2>1 DEF Enters, StagerTo, Staging, TypeOK, ProcessType
  <2> QED BY <2>1, <2>2 DEF TypeOK, MemoryType
<1>6. CASE UNCHANGED token /\ ~Register
  <2>1. ~Enters(j)
    <3>1. SUFFICES ASSUME Enters(j) PROVE FALSE
      OBVIOUS
    <3>2. stager.pc = "snapshot" /\ stager'.pc = "admit" /\ worker' = worker
      BY <3>1 DEF Enters, Staging, StagerTo, TypeOK, ProcessType
    <3>3. Submit \/ Stager
      BY <3>2, Actors
    <3> QED BY <1>6, <3>2, <3>3 DEF Submit, Stager, SnapshotFails, CopyRecordAndIndex,
         WriteAdmittedRecord, WriteIndex, Reject, CommitSource, MarkWaiting, Push, StagingFails,
         StagerCopies, StagerWrites, StagerReleases, Staging, StagerSaving, IdleStager
  <2> QED BY <1>6, <2>1
<1>7. \/ Release \/ StagerReleases \/ Reject \/ Register \/ (\E c \in Clients : CancelToken(c))
      \/ UNCHANGED token
  <2>1. ASSUME Worker
        PROVE  Release \/ UNCHANGED token
    BY <2>1 DEF Worker, Receive, StartJob, RunJob, LoadSource, NextFrame, RenderFrame,
         RecordOutcome, FinishAfterBlender, EncodeVideo, CompleteJob, MarkCancelled, FailJob,
         WorkerCopies, Copy, WorkerWrites, Write, WorkerFindsNoJob, memory
  <2>2. ASSUME Submit \/ Stager
        PROVE  StagerReleases \/ Reject \/ Register \/ UNCHANGED token
    BY <2>2 DEF Submit, Stager, SnapshotFails, CopyRecordAndIndex, Copy, WriteAdmittedRecord,
         WriteIndex, CommitSource, MarkWaiting, Push, StagingFails, StagerCopies, StagerWrites,
         Write, memory
  <2>3. ASSUME NEW c \in Clients, Client(c)
        PROVE  CancelToken(c) \/ UNCHANGED token
    BY <2>3 DEF Client, Cancel, CancelCopies, Copy, CancelWrites, Write, CancelEnds, memory
  <2> QED BY <2>1, <2>2, <2>3 DEF Running
<1> QED BY <1>1, <1>2, <1>3, <1>4, <1>5, <1>6, <1>7

\* Where a client that cancels goes.
LEMMA ClientMoves ==
  ASSUME TypeOK, Refs, Running, NEW c \in Clients
  PROVE  \/ client'[c].pc = "idle"
         \/ /\ client'[c].job = client[c].job /\ client[c].pc # "idle"
            /\ \/ client'[c].pc = client[c].pc
               \/ client[c].pc = "save" /\ client'[c].pc = "saving"
               \/ client[c].pc = "token" /\ client'[c].pc = "save" /\ CancelToken(c)
         \/ client'[c].pc = "token" /\ client'[c].job \in Jobs /\ Cancel(c, client'[c].job)
<1>1. CASE UNCHANGED client
  BY <1>1 DEF Refs, ClientOK
<1>2. ASSUME NEW d \in Clients, Client(d), d # c
      PROVE  client'[c] = client[c]
  BY <1>2 DEF Client, Cancel, CancelToken, CancelCopies, CancelWrites, CancelEnds, ClientTo, TypeOK,
     ProcessType
<1>3. CASE Client(c)
  <2>1. ASSUME NEW j \in Jobs, Cancel(c, j)
        PROVE  client'[c].pc = "token" /\ client'[c].job = j
    BY <2>1 DEF Cancel, TypeOK, ProcessType
  <2>2. CASE CancelToken(c)
    BY <2>2 DEF CancelToken, ClientTo, TypeOK, ProcessType
  <2>3. CASE CancelCopies(c)
    BY <2>3 DEF CancelCopies, ClientTo, TypeOK, ProcessType
  <2>4. CASE CancelWrites(c) \/ CancelEnds(c)
    BY <2>4 DEF CancelWrites, CancelEnds, IdleClient, TypeOK, ProcessType
  <2> QED BY <1>3, <2>1, <2>2, <2>3, <2>4 DEF Client
<1> QED BY <1>1, <1>2, <1>3, Actors

LEMMA TokenStep ==
  ASSUME OInv, Running
  PROVE  TokenOK'
<1> USE Parts
<1>1. ASSUME NEW j \in Jobs, mem'[j] # None, mem'[j].state \notin Terminal, ~Enters(j)
      PROVE  /\ IsActive(j)
             /\ token'[j] = token[j] \/ (token[j] = "live" /\ token'[j] = "cancelled")
             /\ mem[j].cancel => mem'[j].cancel
  <2>1. IsActive(j)
    BY <1>1, OverStays DEF Over, IsActive
  <2>2. mem[j].cancel => mem'[j].cancel
    <3>1. mem'[j] = mem[j] \/ Moves(j)
      BY <1>1, Kinds DEF MemoryStep, MemoryMoves, Leaves, CopyStep, WriteStep
    <3> QED BY <3>1 DEF Moves, ByWorker, ByStager, ByClient, Started, Counted, Noted, Completed,
         Ended, Asked
  <2> QED BY <1>1, <2>1, <2>2, TokenMoves
<1>2. ASSUME NEW j \in Jobs, mem'[j] # None, mem'[j].state \notin Terminal
      PROVE  token'[j] # "absent"
  <2>1. Enters(j) => token'[j] = "live"
    BY <1>2, TokenMoves
  <2>2. ~Enters(j) => token'[j] # "absent"
    BY <1>1, <1>2 DEF TokenOK
  <2> QED BY <2>1, <2>2
<1>3. ASSUME NEW c \in Clients, client'[c].pc # "idle", client'[c].job \in Jobs,
             mem'[client'[c].job] # None, mem'[client'[c].job].state \notin Terminal
      PROVE  /\ mem'[client'[c].job].cancel
             /\ client'[c].pc \in {"save", "saving"} => token'[client'[c].job] = "cancelled"
  <2> PICK j \in Jobs : j = client'[c].job
    BY <1>3
  <2>1. CASE client'[c].pc = "token" /\ Cancel(c, j)
    <3>1. CASE IsActive(j)
      BY <2>1, <3>1, CancelAsks DEF Asked
    <3>2. CASE ~IsActive(j)
      BY <1>3, <2>1, <3>2 DEF Cancel, IsActive
    <3> QED BY <2>1, <3>1, <3>2
  <2>2. CASE /\ j = client[c].job /\ client[c].pc # "idle"
             /\ \/ client'[c].pc = client[c].pc
                \/ client[c].pc = "save" /\ client'[c].pc = "saving"
                \/ client[c].pc = "token" /\ client'[c].pc = "save" /\ CancelToken(c)
    <3>1. ~Enters(j)
      BY <2>2, EntersAlone
    <3>2. /\ IsActive(j) /\ (mem[j].cancel => mem'[j].cancel)
          /\ token'[j] = token[j] \/ (token[j] = "live" /\ token'[j] = "cancelled")
      BY <1>1, <1>3, <3>1
    <3>3. mem[j].cancel /\ (client[c].pc \in {"save", "saving"} => token[j] = "cancelled")
      BY <2>2, <3>2 DEF TokenOK
    <3>4. CancelToken(c) => token'[j] = "cancelled"
      <4>1. token[j] \in {"live", "cancelled"}
        BY <3>2 DEF TokenOK, TypeOK, MemoryType, Token
      <4> QED BY <2>2, <4>1 DEF CancelToken, TypeOK, MemoryType
    <3> QED BY <2>2, <3>2, <3>3, <3>4
  <2> QED BY <1>3, <2>1, <2>2, ClientMoves
<1>4. \A c \in Clients : client'[c].pc # "idle" => client'[c].job \in Jobs
  BY ClientMoves DEF ClientOK
<1> QED BY <1>2, <1>3, <1>4 DEF TokenOK, IsActive

LEMMA HoldsStep ==
  ASSUME OInv, Running
  PROVE  CancellationHolds'
<1> USE Parts
<1>1. ASSUME NEW j \in acked
      PROVE  /\ record'[j] # None /\ record'[j].cancel
             /\ mem'[j] # None => mem'[j].cancel
             /\ mem'[j] # None /\ mem'[j].state = "running" => token'[j] = "cancelled"
  <2>1. /\ j \in Jobs /\ record[j] # None /\ record[j].cancel
        /\ mem[j] # None => mem[j].cancel /\ Sound(j, mem[j])
        /\ mem[j] # None /\ mem[j].state = "running" => token[j] = "cancelled"
    BY DEF CancellationHolds, TypeOK, HistoryType, VersionsOK
  <2>2. record'[j] # None /\ record'[j].cancel
    <3>1. CASE MemoryStep \/ CopyStep
      BY <2>1, <3>1 DEF MemoryStep, CopyStep
    <3>2. CASE WriteStep
      <4>1. record'[j] = record[j] \/ (Writing(j) /\ record'[j] = image)
        BY <2>1, <3>2 DEF WriteStep, TypeOK, DiskType
      <4>2. Writing(j) => image # None /\ Follows(record[j], image)
        BY <2>1 DEF NoStaleWrite
      <4> QED BY <2>1, <4>1, <4>2 DEF Follows
    <3> QED BY <3>1, <3>2, Kinds
  <2>3. ~Enters(j)
    BY <2>1 DEF Enters
  <2>4. mem'[j] # None => mem'[j].cancel
    <3>1. mem'[j] = mem[j] \/ Moves(j) \/ Leaves(j)
      BY <2>1, <2>3, Kinds DEF MemoryStep, MemoryMoves, CopyStep, WriteStep
    <3> QED BY <2>1, <3>1 DEF Leaves, Moves, ByWorker, ByStager, ByClient, Started, Counted, Noted,
         Completed, Ended, Asked
  <2>5. ASSUME mem'[j] # None, mem'[j].state = "running"
        PROVE  token'[j] = "cancelled"
    <3>1. mem[j] # None /\ mem[j].state = "running"
      <4>1. ~(Started(mem[j], mem'[j]) /\ mem[j] \in Record)
        BY <2>1 DEF Started, Sound
      <4> QED BY <2>1, <2>5, <4>1, RunsOn, Kinds DEF CopyStep, WriteStep
    <3> QED BY <2>1, <2>3, <2>5, <3>1, TokenMoves DEF Terminal
  <2> QED BY <2>2, <2>4, <2>5
<1>2. ASSUME NEW c \in Clients, CancelWrites(c), acked' # acked
      PROVE  LET j == client[c].job IN
             /\ acked' = acked \cup {j} /\ record'[j] # None /\ record'[j].cancel
             /\ mem'[j] # None => mem'[j].cancel
             /\ mem'[j] # None /\ mem'[j].state = "running" => token'[j] = "cancelled"
  <2> PICK j : j = client[c].job
    OBVIOUS
  <2>1. /\ client[c].pc = "saving" /\ j \in Jobs /\ lock = c /\ image.cancel
        /\ record' = [record EXCEPT ![j] = image] /\ UNCHANGED <<mem, token>>
        /\ acked' = acked \cup {j}
    BY <1>2 DEF CancelWrites, Write, ClientOK
  <2>2. Writing(j) /\ image \in Record
    BY <2>1 DEF Writing
  <2>3. record'[j] = image
    BY <2>1 DEF TypeOK, DiskType
  <2>4. mem[j] # None => mem[j].cancel
    BY <2>1, <2>2 DEF NoStaleWrite, Follows
  <2>5. mem[j] # None /\ mem[j].state = "running" => token[j] = "cancelled"
    BY <2>1 DEF TokenOK, IsActive, Terminal
  <2> QED BY <2>1, <2>2, <2>3, <2>4, <2>5
<1>3. acked' = acked \/ \E c \in Clients : CancelWrites(c)
  BY Kinds, Actors DEF MemoryStep, CopyStep, Running, Client, Cancel, CancelToken, CancelCopies,
     CancelEnds, Worker, Receive, StartJob, RunJob, LoadSource, NextFrame, RenderFrame,
     RecordOutcome, FinishAfterBlender, EncodeVideo, CompleteJob, MarkCancelled, FailJob,
     WorkerCopies, WorkerWrites, WorkerFindsNoJob, Release, Submit, Stager, Register, SnapshotFails,
     CopyRecordAndIndex, WriteAdmittedRecord, WriteIndex, Reject, CommitSource, MarkWaiting, Push,
     StagingFails, StagerCopies, StagerWrites, StagerReleases, Answer, history, disk
<1> QED BY <1>1, <1>2, <1>3 DEF CancellationHolds

LEMMA HoldsRestart ==
  ASSUME OInv, Restart
  PROVE  CancellationHolds' /\ TokenOK'
<1> USE Parts
<1>1. RestartStep
  BY RestartTurns
<1>2. acked' = acked /\ \A c \in Clients : client'[c].pc = "idle"
  BY RestartEnds DEF IdleClient
<1>3. ASSUME NEW j \in Jobs, record[j] # None
      PROVE  /\ record'[j] # None /\ (record[j].cancel => record'[j].cancel)
             /\ mem'[j] # None => /\ mem'[j] \in Record /\ mem'[j].state # "running"
                                  /\ record[j].cancel => mem'[j].cancel
  <2>1. record[j] \in Record /\ Sound(j, record[j]) /\ Turned(record[j], record'[j], mem'[j])
    BY <1>1, <1>3 DEF RestartStep, VersionsOK
  <2> QED BY <2>1, TurnedSound
<1>4. CancellationHolds'
  BY <1>2, <1>3 DEF CancellationHolds, TypeOK, HistoryType
<1>5. ASSUME NEW j \in Jobs, mem'[j] # None, mem'[j].state \notin Terminal
      PROVE  token'[j] # "absent"
  <2>1. record[j] # None
    BY <1>1, <1>5 DEF RestartStep
  <2>2. mem'[j].state = "queued"
    BY <1>3, <1>5, <2>1 DEF Record, JobState
  <2> QED BY <1>1, <1>5, <2>2 DEF RestartStep
<1>6. TokenOK'
  BY <1>2, <1>5 DEF TokenOK, IsActive
<1> QED BY <1>4, <1>6

-----------------------------------------------------------------------------
(* A queued job is where the worker finds it.                                *)

InQueue(j) == \E i \in DOMAIN queue : queue[i] = j

\* A job leaves the queue only for the worker's hands, or because it has ended.
LEMMA QueueKeeps ==
  ASSUME OInv, Running, NEW j \in Jobs, InQueue(j), mem[j] # None => mem'[j] = mem[j]
  PROVE  \/ InQueue(j)'
         \/ worker'.pc = "popped" /\ worker'.job = j
         \/ ~Startable(j)
<1> USE Parts
<1>1. PICK i \in DOMAIN queue : queue[i] = j
  BY DEF InQueue
<1>2. queue \in Seq(Jobs) /\ DOMAIN queue = 1 .. Len(queue) /\ Len(queue) \in Nat
  BY LenProperties DEF TypeOK, MemoryType
<1>3. CASE Receive
  <2>1. /\ queue # <<>> /\ queue' = Tail(queue)
        /\ worker' = [pc |-> "popped", job |-> Head(queue), outcome |-> "none"]
    BY <1>3 DEF Receive
  <2>2. Head(queue) = queue[1]
    BY <2>1, <1>2, HeadTailProperties
  <2>3. CASE i = 1
    BY <1>1, <2>1, <2>2, <2>3
  <2>4. CASE i # 1
    <3>1. Len(Tail(queue)) = Len(queue) - 1 /\ Tail(queue) \in Seq(Jobs)
          /\ \A k \in 1 .. Len(Tail(queue)) : Tail(queue)[k] = queue[k + 1]
      BY <2>1, <1>2, HeadTailProperties
    <3>2. i - 1 \in 1 .. Len(Tail(queue)) /\ (i - 1) + 1 = i
      BY <3>1, <2>4, <1>1, <1>2
    <3>3. i - 1 \in DOMAIN Tail(queue)
      BY <3>1, <3>2, LenProperties
    <3>4. Tail(queue)[i - 1] = queue[(i - 1) + 1]
      BY <3>1, <3>2
    <3> QED BY <1>1, <2>1, <3>2, <3>3, <3>4 DEF InQueue
  <2> QED BY <2>3, <2>4
<1>4. ASSUME NEW c \in Clients, NEW k \in Jobs, Cancel(c, k)
      PROVE  InQueue(j)' \/ ~Startable(j)
  <2>1. CASE UNCHANGED queue
    BY <1>1, <2>1 DEF InQueue
  <2>2. CASE k = j
    <3>1. IsActive(j) => Asked(mem[j], mem'[j])
      BY <1>4, <2>2, CancelAsks
    <3> QED BY <3>1 DEF Startable, IsActive, Asked, Terminal
  <2>3. CASE k # j /\ \E m \in DOMAIN queue : queue[m] = k /\ queue' = RemoveAt(queue, m)
    <3>1. PICK m \in DOMAIN queue : queue[m] = k /\ queue' = RemoveAt(queue, m)
      BY <2>3
    <3>2. i # m
      BY <1>1, <2>3, <3>1
    <3>3. \E l \in DOMAIN RemoveAt(queue, m) : RemoveAt(queue, m)[l] = queue[i]
      BY <1>1, <1>2, <3>1, <3>2, RemoveAtProperties
    <3> QED BY <1>1, <3>1, <3>3 DEF InQueue
  <2> QED BY <1>4, <2>1, <2>2, <2>3 DEF Cancel
<1>5. ASSUME NEW k \in Jobs, queue' = Append(queue, k)
      PROVE  InQueue(j)'
  <2>1. /\ Append(queue, k) \in Seq(Jobs) /\ Len(Append(queue, k)) = Len(queue) + 1
        /\ \A m \in 1 .. Len(queue) : Append(queue, k)[m] = queue[m]
    BY <1>2, AppendProperties
  <2>2. i \in DOMAIN Append(queue, k)
    <3>1. i \in 1 .. Len(Append(queue, k))
      BY <1>1, <1>2, <2>1
    <3> QED BY <2>1, <3>1, LenProperties
  <2>3. Append(queue, k)[i] = queue[i]
    BY <1>1, <1>2, <2>1
  <2> QED BY <1>1, <1>5, <2>2, <2>3 DEF InQueue
<1>6. \/ UNCHANGED queue
      \/ Receive
      \/ \E c \in Clients, k \in Jobs : Cancel(c, k)
      \/ \E k \in Jobs : queue' = Append(queue, k)
  <2>1. ASSUME Worker
        PROVE  Receive \/ UNCHANGED queue
    BY <2>1 DEF Worker, StartJob, RunJob, LoadSource, NextFrame, RenderFrame, RecordOutcome,
       FinishAfterBlender, EncodeVideo, CompleteJob, MarkCancelled, FailJob, WorkerCopies, Copy,
       WorkerWrites, Write, WorkerFindsNoJob, Release, memory
  <2>2. ASSUME Submit \/ Stager
        PROVE  UNCHANGED queue \/ \E k \in Jobs : queue' = Append(queue, k)
    BY <2>2 DEF Submit, Stager, Register, SnapshotFails, CopyRecordAndIndex, Copy,
       WriteAdmittedRecord, WriteIndex, Reject, CommitSource, MarkWaiting, Push, StagingFails,
       StagerCopies, StagerWrites, Write, StagerReleases, Staging, StagerOK, memory
  <2>3. ASSUME NEW c \in Clients, Client(c)
        PROVE  UNCHANGED queue \/ \E k \in Jobs : Cancel(c, k)
    BY <2>3 DEF Client, CancelToken, CancelCopies, Copy, CancelWrites, Write, CancelEnds, memory
  <2> QED BY <2>1, <2>2, <2>3 DEF Running
<1> QED BY <1>3, <1>4, <1>5, <1>6 DEF InQueue

\* A submission that is answered leaves its job in the queue, or not waiting.
LEMMA StagerLeaves ==
  ASSUME OInv, Running, NEW j \in Jobs, stager.job = j, Startable(j), mem'[j] = mem[j]
  PROVE  stager'.job = j \/ InQueue(j)'
<1> USE Parts
<1>1. stager.pc # "idle" /\ stager.pc # "snapshot"
  BY DEF StagingOK, StagerOK, Startable
<1>2. CASE UNCHANGED stager
  BY <1>2
<1>3. CASE Stager
  <2>1. CASE Push /\ queue' = Append(queue, j)
    <3>1. queue \in Seq(Jobs) /\ Len(queue) \in Nat
      BY LenProperties DEF TypeOK, MemoryType
    <3>2. /\ Append(queue, j) \in Seq(Jobs) /\ Len(Append(queue, j)) = Len(queue) + 1
          /\ Append(queue, j)[Len(queue) + 1] = j
      BY <3>1, AppendProperties
    <3>3. Len(queue) + 1 \in DOMAIN Append(queue, j)
      BY <3>1, <3>2, LenProperties
    <3> QED BY <2>1, <3>2, <3>3 DEF InQueue
  <2>2. CASE Push /\ ~(queue' = Append(queue, j))
    BY <2>2 DEF Push, StagerTo, TypeOK, ProcessType
  <2>3. CASE Reject
    <3>1. mem'[j] = None
      BY <2>3 DEF Reject, TypeOK, MemoryType
    <3> QED BY <3>1 DEF Startable
  <2>4. CASE MarkWaiting
    <3>1. ~mem[j].cancel
      BY DEF Startable, VersionsOK, Sound
    <3>2. StagerTo("wait")
      BY <2>4, <3>1 DEF MarkWaiting, Startable
    <3> QED BY <3>2 DEF StagerTo, TypeOK, ProcessType
  <2>5. ~StagerReleases
    BY DEF StagerReleases, StagingOK, Staging, Startable, IsActive, Terminal
  <2>6. ~SnapshotFails
    BY <1>1 DEF SnapshotFails, Staging
  <2>7. CASE \/ Register \/ CopyRecordAndIndex \/ WriteAdmittedRecord \/ WriteIndex \/ CommitSource
             \/ StagingFails \/ StagerCopies \/ StagerWrites
    BY <2>7 DEF Register, CopyRecordAndIndex, WriteAdmittedRecord, WriteIndex, CommitSource,
       StagingFails, StagerCopies, StagerWrites, StagerTo, TypeOK, ProcessType
  <2> QED BY <1>3, <2>1, <2>2, <2>3, <2>4, <2>5, <2>6, <2>7 DEF Stager
<1>4. ~Submit
  BY <1>1 DEF Submit, Staging
<1> QED BY <1>2, <1>3, <1>4, Actors

\* A job that waits has waited before, or is new.
LEMMA WaitsOn ==
  ASSUME OInv, Running, NEW j \in Jobs, mem'[j] # None, mem'[j].state = "queued"
  PROVE  mem'[j] = mem[j] \/ (Enters(j) /\ stager'.job = j)
<1> USE Parts
<1>1. mem'[j] = mem[j] \/ Moves(j) \/ Leaves(j) \/ Enters(j)
  BY Kinds DEF MemoryStep, MemoryMoves, CopyStep, WriteStep
<1>2. ~Leaves(j)
  BY DEF Leaves
<1>3. ~Moves(j)
  BY DEF Moves, ByWorker, ByStager, ByClient, Started, Counted, Noted, Completed, Ended, Asked,
     Record, JobState, Terminal
<1>4. CASE Enters(j)
  BY <1>4 DEF Enters, StagerTo, TypeOK, ProcessType
<1> QED BY <1>1, <1>2, <1>3, <1>4

LEMMA ScheduledStep ==
  ASSUME OInv, Running
  PROVE  QueuedIsScheduled'
<1> USE Parts
<1>1. UNCHANGED blocked
  BY DEF Running, Worker, Receive, StartJob, RunJob, LoadSource, NextFrame, RenderFrame,
     RecordOutcome, FinishAfterBlender, EncodeVideo, CompleteJob, MarkCancelled, FailJob,
     WorkerCopies, Copy, WorkerWrites, Write, WorkerFindsNoJob, Release, Submit, Stager, Register,
     SnapshotFails, CopyRecordAndIndex, WriteAdmittedRecord, WriteIndex, Reject, CommitSource,
     MarkWaiting, Push, StagingFails, StagerCopies, StagerWrites, StagerReleases, Client, Cancel,
     CancelToken, CancelCopies, CancelWrites, CancelEnds, memory
<1> SUFFICES ASSUME NEW j \in Jobs, ~blocked, mem'[j] # None, mem'[j].state = "queued"
             PROVE  InQueue(j)' \/ (worker'.pc = "popped" /\ worker'.job = j) \/ stager'.job = j
  BY <1>1 DEF QueuedIsScheduled, InQueue, Startable, At
<1>2. CASE mem'[j] = mem[j]
  <2>1. Startable(j)
    BY <1>2 DEF Startable
  <2>2. InQueue(j) \/ (worker.pc = "popped" /\ worker.job = j) \/ stager.job = j
    BY <2>1 DEF QueuedIsScheduled, InQueue, At
  <2>3. CASE InQueue(j)
    BY <1>2, <2>1, <2>3, QueueKeeps
  <2>4. CASE worker.pc = "popped" /\ worker.job = j
    <3>1. Worker => StartJob \/ UNCHANGED worker
      BY <2>4 DEF Worker, Receive, RunJob, LoadSource, NextFrame, RenderFrame, RecordOutcome,
         FinishAfterBlender, EncodeVideo, CompleteJob, MarkCancelled, FailJob, WorkerCopies,
         WorkerWrites, WorkerFindsNoJob, Release, At, WorkerSaving
    <3>2. ~StartJob
      <4>1. StartJob => mem'[j].state = "running"
        <5>1. mem[j] \in Record
          BY <2>1 DEF Startable
        <5> QED BY <2>1, <2>4, <5>1 DEF StartJob, TypeOK, MemoryType, Record
      <4> QED BY <4>1
    <3> QED BY <2>4, <3>1, <3>2, Actors
  <2>5. CASE stager.job = j
    BY <1>2, <2>1, <2>5, StagerLeaves
  <2> QED BY <2>2, <2>3, <2>4, <2>5
<1> QED BY <1>2, WaitsOn

LEMMA ScheduledRestart ==
  ASSUME OInv, Restart
  PROVE  QueuedIsScheduled'
BY Parts, RestartTurns DEF RestartStep, QueuedIsScheduled, Startable

-----------------------------------------------------------------------------
(* What the worker's place tells.                                            *)

\* What the others leave of the worker's record on disk.
LEMMA OthersRecord ==
  ASSUME OInv, Running, worker' = worker, worker.pc # "idle"
  PROVE  LET j == worker.job IN
           \/ record'[j] = record[j]
           \/ /\ Writing(j) /\ record'[j] = image /\ UNCHANGED mem /\ image.state # "queued"
              /\ image \in Record
<1> USE Parts
<1> DEFINE j == worker.job
<1>1. j \in Jobs /\ (stager.pc # "idle" => stager.job # j)
  BY DEF WorkerOK, StagerOK
<1>2. CASE MemoryStep \/ CopyStep
  BY <1>2 DEF MemoryStep, CopyStep
<1>3. CASE WriteStep
  <2>1. \/ record'[j] = record[j]
        \/ Writing(j) /\ record'[j] = image /\ UNCHANGED mem
    BY <1>1, <1>3 DEF WriteStep, TypeOK, DiskType
  <2>2. Writing(j) => lock \in {"worker"} \cup Clients
    BY <1>1 DEF Writing, LockOK, StagerSaving
  <2> QED BY <1>1, <2>1, <2>2 DEF WriterOK
<1> QED BY <1>2, <1>3, Kinds

LEMMA OthersWork ==
  ASSUME OInv, Running, worker' = worker
  PROVE  WorkOK'
<1> USE Parts
<1>1. CASE worker.pc = "idle"
  BY <1>1 DEF WorkOK, Rendering, Ending, WorkerRunning
<1>2. CASE worker.pc # "idle"
  <2> PICK j \in Jobs : j = worker.job
    BY <1>2 DEF WorkerOK
  <2>1. \/ mem'[j] = mem[j]
        \/ mem[j] \in Record /\ mem'[j] \in Record /\ Asked(mem[j], mem'[j])
        \/ mem'[j] = None /\ ~IsActive(j)
    BY <1>2, OthersMemory, Kinds DEF CopyStep, WriteStep
  <2>2. \/ record'[j] = record[j]
        \/ Writing(j) /\ record'[j] = image /\ UNCHANGED mem /\ image.state # "queued"
           /\ image \in Record
    BY <1>2, OthersRecord
  <2>3. source \subseteq source'
    BY Kinds DEF MemoryStep, CopyStep, WriteStep
  <2>4. ~IsActive(j) => worker.pc \notin WorkerRunning
    BY DEF WorkerOK, IsActive, Terminal
  <2>5. worker.pc \in WorkerRunning =>
           /\ mem[j] \in Record /\ mem'[j].done = mem[j].done
           /\ mem'[j].finished = mem[j].finished /\ mem'[j].failed = mem[j].failed
    BY <2>1, <2>4 DEF Asked, WorkerOK
  <2>6. worker.pc \in {"settle", "release"} => ~IsActive(j)'
    BY <2>1 DEF WorkOK, IsActive, Asked
  <2>7. worker.pc \in WorkerRunning \ {"start"} => record'[j].state # "queued"
    BY <2>2 DEF WorkOK
  <2>8. ASSUME worker.pc \in Ending \cup {"run", "render", "finish"}
        PROVE  record'[j].done = mem'[j].done /\ record'[j].finished = mem'[j].finished
    <3>1. worker.pc \in WorkerRunning \ {"start"} /\ record[j] \in Record
      BY <2>8 DEF Ending, WorkerRunning, WorkerOK
    <3>2. record[j].done = mem[j].done /\ record[j].finished = mem[j].finished
      BY <2>8 DEF WorkOK
    <3>3. CASE Writing(j) /\ record'[j] = image /\ UNCHANGED mem /\ image \in Record
      <4>1. Follows(record[j], image) /\ Follows(image, mem[j]) /\ mem[j] \in Record
        BY <2>5, <3>1, <3>3 DEF NoStaleWrite
      <4>2. image.done = mem[j].done /\ image.finished = mem[j].finished
        BY <3>1, <3>2, <3>3, <4>1 DEF Follows, Record
      <4> QED BY <3>3, <4>2
    <3>4. CASE record'[j] = record[j]
      BY <2>5, <3>1, <3>2, <3>4
    <3> QED BY <2>2, <3>3, <3>4
  <2>9. ~IsActive(worker.job)' <=> ~IsActive(j)'
    BY DEF IsActive
  <2>10. Rendering \cup Ending \cup {"run", "load_phase", "load", "outcome", "outcome_save", "finish"}
           \subseteq WorkerRunning
    BY DEF Rendering, Ending, WorkerRunning
  <2>11. /\ worker.pc \in Rendering => j \in source
         /\ worker.pc \in Rendering \cup {"load_phase", "load", "outcome"} => ~mem[j].finished
         /\ worker.pc \in {"outcome", "outcome_save"} =>
              \/ worker.outcome \in {"completed", "cancelled"} /\ j \in source
              \/ worker.outcome = "failed"
         /\ worker.pc \in Ending \cup {"outcome_save", "finish"} => mem[j].finished
         /\ worker.pc \in Ending => mem[j].done = Total(j) /\ ~mem[j].failed
    BY DEF WorkOK
  <2>12. /\ worker'.pc \in Rendering => worker'.job \in source'
         /\ worker'.pc \in Rendering \cup {"load_phase", "load", "outcome"} =>
              ~mem'[worker'.job].finished
         /\ worker'.pc \in {"outcome", "outcome_save"} =>
              \/ worker'.outcome \in {"completed", "cancelled"} /\ worker'.job \in source'
              \/ worker'.outcome = "failed"
         /\ worker'.pc \in Ending \cup {"outcome_save", "finish"} => mem'[worker'.job].finished
         /\ worker'.pc \in Ending =>
              mem'[worker'.job].done = Total(worker'.job) /\ ~mem'[worker'.job].failed
    <3>1. worker'.job = j
      OBVIOUS
    <3> HIDE DEF Rendering, Ending
    <3> QED BY <2>3, <2>5, <2>10, <2>11, <3>1
  <2> QED BY <2>6, <2>7, <2>8, <2>9, <2>12 DEF WorkOK, Total
<1> QED BY <1>1, <1>2

\* The steps that change neither memory nor disk.
LEMMA LookWork ==
  ASSUME OInv, RunJob \/ LoadSource \/ NextFrame \/ FinishAfterBlender \/ EncodeVideo
  PROVE  WorkOK'
<1> USE Parts
<1>0. /\ UNCHANGED <<mem, record, source>> /\ worker'.job = worker.job
      /\ worker.pc \in {"run", "load", "frames", "finish", "encode"}
  BY DEF RunJob, LoadSource, NextFrame, FinishAfterBlender, EncodeVideo, GoTo, Return, At, memory,
     disk, TypeOK, ProcessType
<1> PICK j \in Jobs : j = worker.job
  BY <1>0 DEF WorkerOK
<1> DEFINE r == mem[j]
           a == record[j]
<1>1. a.state # "queued"
  BY <1>0 DEF WorkOK, WorkerRunning
<1>2. CASE RunJob
  <2>1. /\ At("run") /\ a.done = r.done /\ a.finished = r.finished
    BY <1>2 DEF RunJob, At, WorkOK
  <2>2. \/ r.finished /\ worker'.pc = "finish"
        \/ worker'.pc = "cancel"
        \/ ~r.finished /\ worker'.pc = "load_phase"
        \/ worker'.pc = "fail"
    BY <1>2 DEF RunJob, GoTo, TypeOK, ProcessType
  <2> QED BY <1>0, <1>1, <2>1, <2>2 DEF WorkOK, Rendering, Ending
<1>3. CASE LoadSource
  <2>1. ~r.finished
    BY <1>3 DEF LoadSource, At, WorkOK
  <2>2. \/ j \in source /\ worker'.pc = "frames"
        \/ worker'.pc = "outcome" /\ worker'.outcome = "failed"
    BY <1>3 DEF LoadSource, GoTo, Return, TypeOK, ProcessType
  <2> QED BY <1>0, <1>1, <2>1, <2>2 DEF WorkOK, Rendering, Ending
<1>4. CASE NextFrame
  <2>1. ~r.finished /\ j \in source
    BY <1>4 DEF NextFrame, At, WorkOK, Rendering
  <2>2. \/ worker'.pc = "outcome" /\ worker'.outcome \in {"completed", "cancelled"}
        \/ worker'.pc = "frame_phase"
    BY <1>4 DEF NextFrame, GoTo, Return, TypeOK, ProcessType
  <2> QED BY <1>0, <1>1, <2>1, <2>2 DEF WorkOK, Rendering, Ending
<1>5. CASE FinishAfterBlender
  <2>1. r.finished /\ a.done = r.done /\ a.finished = r.finished
    BY <1>5 DEF FinishAfterBlender, At, WorkOK
  <2>2. \/ worker'.pc \in {"fail", "cancel"}
        \/ worker'.pc \in {"complete", "encode_phase"} /\ r.done = Total(j) /\ ~r.failed
    BY <1>5 DEF FinishAfterBlender, GoTo, TypeOK, ProcessType
  <2> QED BY <1>0, <1>1, <2>1, <2>2 DEF WorkOK, Rendering, Ending, Total
<1>6. CASE EncodeVideo
  <2>1. /\ r.finished /\ a.done = r.done /\ a.finished = r.finished
        /\ r.done = Total(j) /\ ~r.failed
    BY <1>6 DEF EncodeVideo, At, WorkOK, Ending
  <2>2. worker'.pc \in {"complete", "fail", "cancel"}
    BY <1>6 DEF EncodeVideo, GoTo, TypeOK, ProcessType
  <2> QED BY <1>0, <1>1, <2>1, <2>2 DEF WorkOK, Rendering, Ending, Total
<1> QED BY <1>2, <1>3, <1>4, <1>5, <1>6

\* The steps that change the memory.
LEMMA ChangeWork ==
  ASSUME OInv, \/ StartJob \/ RenderFrame \/ RecordOutcome \/ CompleteJob \/ MarkCancelled
               \/ FailJob
  PROVE  WorkOK'
<1> USE Parts
<1>1. UNCHANGED <<record, source>> /\ worker'.job = worker.job
  BY DEF StartJob, RenderFrame, RecordOutcome, CompleteJob, MarkCancelled, FailJob, GoTo, Return,
     disk, TypeOK, ProcessType
<1>2. CASE CompleteJob \/ MarkCancelled \/ FailJob
  BY <1>2, WorkerEnds DEF WorkOK, Rendering, Ending, WorkerRunning, Over, IsActive
<1>3. CASE StartJob
  <2>1. worker.pc = "popped" /\ worker.job \in Jobs
    BY <1>3 DEF StartJob, At, WorkerOK
  <2>2. worker'.pc = "start" \/ (worker'.pc = "release" /\ ~Startable(worker.job) /\ mem' = mem)
    BY <1>3 DEF StartJob, GoTo, TypeOK, ProcessType
  <2>3. ~Startable(worker.job) => ~IsActive(worker.job)
    BY <2>1 DEF Startable, IsActive, RunningOK, WorkerRunning, Record, JobState, Terminal
  <2> QED BY <1>1, <2>2, <2>3 DEF WorkOK, Rendering, Ending, WorkerRunning, IsActive
<1>4. CASE RenderFrame
  <2>1. /\ worker.pc = "render" /\ worker.job \in Jobs /\ mem[worker.job] \in Record
        /\ ~mem[worker.job].finished /\ worker.job \in source
        /\ record[worker.job].state # "queued"
    BY <1>4, WorkersRecord DEF RenderFrame, At, WorkOK, Rendering, WorkerRunning
  <2>2. mem'[worker.job].finished = mem[worker.job].finished
    BY <1>4, <2>1 DEF RenderFrame, TypeOK, MemoryType, Record
  <2>3. worker'.pc = "progress" \/ (worker'.pc = "outcome" /\ worker'.outcome = "failed")
    BY <1>4 DEF RenderFrame, GoTo, Return, TypeOK, ProcessType
  <2> QED BY <1>1, <2>1, <2>2, <2>3 DEF WorkOK, Rendering, Ending
<1>5. CASE RecordOutcome
  <2>1. /\ worker.pc = "outcome" /\ worker.job \in Jobs /\ mem[worker.job] \in Record
        /\ \/ worker.outcome \in {"completed", "cancelled"} /\ worker.job \in source
           \/ worker.outcome = "failed"
        /\ record[worker.job].state # "queued"
    BY <1>5, WorkersRecord DEF RecordOutcome, At, WorkOK, WorkerRunning
  <2>2. worker'.pc = "outcome_save" /\ worker'.outcome = worker.outcome
    BY <1>5 DEF RecordOutcome, GoTo, TypeOK, ProcessType
  <2>3. mem'[worker.job].finished
    <3> DEFINE b == worker.outcome = "failed"
               s == [[mem[worker.job] EXCEPT !.finished = TRUE] EXCEPT !.failed = b]
    <3>1. mem'[worker.job] = s
      BY <1>5, <2>1 DEF RecordOutcome, TypeOK, MemoryType
    <3>2. s.finished = TRUE
      BY <2>1 DEF Record
    <3> HIDE DEF s
    <3> QED BY <3>1, <3>2
  <2> QED BY <1>1, <2>1, <2>2, <2>3 DEF WorkOK, Rendering, Ending
<1> QED BY <1>2, <1>3, <1>4, <1>5

\* The steps that write, and those that take or leave a job.
LEMMA SaveWork ==
  ASSUME OInv, WorkerCopies \/ WorkerWrites \/ WorkerFindsNoJob \/ Receive \/ Release
  PROVE  WorkOK'
<1> USE Parts
<1>1. CASE Receive
  BY <1>1 DEF Receive, WorkOK, Rendering, Ending, WorkerRunning
<1>2. CASE Release
  BY <1>2 DEF Release, IdleWorker, WorkOK, Rendering, Ending, WorkerRunning
<1>3. CASE WorkerCopies
  BY <1>3, OthersWork DEF WorkerCopies, Running, Worker
<1>4. CASE WorkerFindsNoJob
  <2>1. worker.pc = "settle" /\ mem' = mem /\ mem[worker.job] = None
    BY <1>4 DEF WorkerFindsNoJob, WorkerOK, WorkerSaving, WorkerRunning, memory
  <2>2. worker'.pc = "release" /\ worker'.job = worker.job
    BY <1>4, <2>1 DEF WorkerFindsNoJob, Resume, GoTo, TypeOK, ProcessType
  <2> QED BY <2>1, <2>2 DEF WorkOK, Rendering, Ending, WorkerRunning, IsActive
<1>5. CASE WorkerWrites
  <2>1. PICK saved \in BOOLEAN :
          /\ Resume(saved) /\ lock = "worker" /\ UNCHANGED <<mem, source>>
          /\ saved => record' = [record EXCEPT ![worker.job] = image]
          /\ record' = record \/ record' = [record EXCEPT ![worker.job] = image]
    BY <1>5 DEF WorkerWrites, Write
  <2>2. worker.pc \in WorkerSaving
    BY <1>5 DEF WorkerWrites
  <2> PICK j \in Jobs : j = worker.job
    BY <2>2 DEF WorkerOK, WorkerSaving
  <2> DEFINE r == mem[j]
             a == record'[j]
  <2>3. worker'.job = j /\ worker'.pc \notin WorkerSaving
    BY <2>1, <2>2, ResumeEffect DEF TypeOK
  <2>4. image.state # "queued" /\ (r # None => image.done = r.done /\ image.finished = r.finished)
    BY <2>1 DEF WriterOK
  <2>5. saved => a = image
    BY <2>1 DEF TypeOK, DiskType
  <2>6. a = record[j] \/ a = image
    BY <2>1 DEF TypeOK, DiskType
  <2>7. worker.pc # "start" /\ worker.pc # "settle" => a.state # "queued"
    BY <2>2, <2>4, <2>6 DEF WorkOK, WorkerSaving, WorkerRunning
  <2>8. worker.pc # "settle" => r # None
    BY <2>2 DEF WorkerOK, WorkerSaving, WorkerRunning
  <2>9. CASE worker.pc = "settle"
    <3>1. worker'.pc = "release"
      BY <2>1, <2>9 DEF Resume, GoTo, TypeOK, ProcessType
    <3>2. ~IsActive(worker.job)'
      BY <2>1, <2>3, <2>9 DEF WorkOK, IsActive
    <3> QED BY <3>1, <3>2 DEF WorkOK, Rendering, Ending, WorkerRunning
  <2>10. CASE worker.pc = "start"
    <3>1. worker'.pc = "fail" \/ (saved /\ worker'.pc = "run")
      BY <2>1, <2>10 DEF Resume, GoTo, TypeOK, ProcessType
    <3> QED BY <2>1, <2>3, <2>4, <2>5, <2>8, <2>10, <3>1 DEF WorkOK, Rendering, Ending,
         WorkerRunning
  <2>11. CASE worker.pc \in {"load_phase", "frame_phase", "progress"}
    <3>1. /\ ~r.finished
          /\ worker.pc \in {"frame_phase", "progress"} => j \in source
      BY <2>11 DEF WorkOK, Rendering
    <3>2. \/ worker'.pc = "outcome" /\ worker'.outcome = "failed"
          \/ worker.pc = "load_phase" /\ worker'.pc = "load"
          \/ worker.pc = "frame_phase" /\ worker'.pc = "render" /\ saved
          \/ worker.pc = "progress" /\ worker'.pc = "frames"
      BY <2>1, <2>11 DEF Resume, GoTo, Return, TypeOK, ProcessType
    <3> QED BY <2>1, <2>3, <2>4, <2>5, <2>7, <2>8, <2>11, <3>1, <3>2 DEF WorkOK, Rendering, Ending
  <2>12. CASE worker.pc = "encode_phase"
    <3>1. r.finished /\ r.done = Total(j) /\ ~r.failed
      BY <2>12 DEF WorkOK, Ending
    <3>2. worker'.pc = "fail" \/ (saved /\ worker'.pc = "encode")
      BY <2>1, <2>12 DEF Resume, GoTo, TypeOK, ProcessType
    <3> QED BY <2>1, <2>3, <2>4, <2>5, <2>7, <2>8, <2>12, <3>1, <3>2 DEF WorkOK, Rendering, Ending,
         Total
  <2>13. CASE worker.pc = "outcome_save"
    <3>1. r.finished
      BY <2>13 DEF WorkOK
    <3>2. \/ worker'.pc \in {"fail", "cancel"}
          \/ saved /\ worker'.pc = "finish"
      BY <2>1, <2>13 DEF Resume, GoTo, TypeOK, ProcessType
    <3> QED BY <2>1, <2>3, <2>4, <2>5, <2>7, <2>8, <2>13, <3>1, <3>2 DEF WorkOK, Rendering, Ending
  <2> QED BY <2>2, <2>9, <2>10, <2>11, <2>12, <2>13 DEF WorkerSaving
<1> QED BY <1>1, <1>2, <1>3, <1>4, <1>5

LEMMA WorkStep ==
  ASSUME OInv, Running
  PROVE  WorkOK'
<1>1. CASE Worker
  BY <1>1, LookWork, ChangeWork, SaveWork DEF Worker
<1>2. CASE worker' = worker
  BY <1>2, OthersWork
<1> QED BY <1>1, <1>2, Parts, Actors

-----------------------------------------------------------------------------
(* The invariant.                                                            *)

LEMMA OutcomesInit ==
  ASSUME Init
  PROVE  OInv
<1> USE JobsAssumption, ProcAssumption
<1>1. IInv
  BY InvariantInit
<1>2. /\ \A j \in Jobs : mem[j] = None /\ record[j] = None /\ ~Writing(j)
      /\ \A c \in Clients : client[c] = IdleClient
      /\ acked = {} /\ worker = IdleWorker /\ stager = IdleStager /\ lock = "free"
  BY DEF Init, Writing
<1> QED BY <1>1, <1>2 DEF OInv, VersionsOK, WorkOK, RunningOK, StagingOK, WriterOK, TokenOK,
     CancellationHolds, QueuedIsScheduled, Startable, IsActive, IdleWorker, IdleStager, IdleClient,
     Rendering, Ending, WorkerRunning

LEMMA OutcomesStep ==
  ASSUME OInv, [Next]_vars
  PROVE  OInv'
<1> USE Parts
<1>1. IInv'
  BY InvariantStep DEF OInv
<1>2. CASE Running
  <2>1. VersionsOK'
    BY <1>2, Kinds, VersionsMemory, VersionsCopy, VersionsWrite
  <2> QED BY <1>1, <1>2, <2>1, WorkStep, RunningStep, StagingStep, WriterStep, TokenStep, HoldsStep,
       ScheduledStep DEF OInv
<1>3. CASE Restart
  <2>1. WorkOK' /\ StagingOK' /\ WriterOK'
    BY <1>3, RestartEnds, ProcAssumption DEF WorkOK, StagingOK, WriterOK, Rendering, Ending,
       WorkerRunning, IdleWorker, IdleStager
  <2> QED BY <1>1, <1>3, <2>1, VersionsRestart, RunningRestart, HoldsRestart, ScheduledRestart
       DEF OInv
<1>4. CASE UNCHANGED vars
  BY <1>1, <1>4 DEF OInv, VersionsOK, WorkOK, RunningOK, StagingOK, WriterOK, TokenOK,
     CancellationHolds, QueuedIsScheduled, vars, memory, disk, history, Writing, Sound, Total, IsActive,
     Startable, At
<1> QED BY <1>2, <1>3, <1>4 DEF Next, Running

\* OInv is an invariant of the registry.
THEOREM OutcomesInvariance == Spec => []OInv
<1>1. Init => OInv
  BY OutcomesInit
<1>2. OInv /\ [Next]_vars => OInv'
  BY OutcomesStep
<1> QED BY <1>1, <1>2, PTL DEF Spec

\* A success on disk was rendered completely, from the job's own source, and
\* nobody had been told that the job was cancelled: for any number of jobs,
\* clients, frames, failed writes and restarts.
THEOREM SuccessEarned == Spec => []SuccessIsEarned
<1>1. OInv => SuccessIsEarned
  BY DEF OInv, VersionsOK, Sound, CancellationHolds, SuccessIsEarned
<1> QED BY <1>1, OutcomesInvariance, PTL

\* A cancellation that was answered holds on disk and in memory, through every
\* later write and restart, and the token tells the worker that runs the job.
THEOREM CancellationsHold == Spec => []CancellationHolds
<1>1. OInv => CancellationHolds
  BY DEF OInv
<1> QED BY <1>1, OutcomesInvariance, PTL

\* No queued job is stranded, unless the recovery is blocked: it is in the queue,
\* in the worker's hands, or still being staged.
THEOREM QueuedScheduled == Spec => []QueuedIsScheduled
<1>1. OInv => QueuedIsScheduled
  BY DEF OInv
<1> QED BY <1>1, OutcomesInvariance, PTL

\* A frame is rendered only while the record on disk says that the job runs, and
\* it is the first frame that this record does not count.
THEOREM FirstUnrecorded == Spec => []RendersFirstUnrecorded
<1>1. ASSUME OInv, At("render")
      PROVE  /\ record[worker.job].state = "running"
             /\ record[worker.job].done = mem[worker.job].done
             /\ ~record[worker.job].finished
  <2>1. record[worker.job].state = "running"
    BY <1>1, Behind DEF At, WorkerRunning
  <2> QED BY <1>1, <2>1 DEF At, OInv, WorkOK, Rendering
<1>2. OInv => RendersFirstUnrecorded
  BY <1>1 DEF RendersFirstUnrecorded
<1> QED BY <1>2, OutcomesInvariance, PTL

-----------------------------------------------------------------------------
(* The records on disk implement JobLedger.                                  *)

\* The first write of a record admits the job, waiting or already cancelled.
LEMMA WriteAdmits ==
  ASSUME OInv, NEW j \in Jobs, Writing(j), record[j] = None, record' = [record EXCEPT ![j] = image]
  PROVE  Ledger!Admit(j)
<1> USE Parts
<1>1. image \in Record /\ Unwritten(image)
  BY DEF VersionsOK
<1> DEFINE r(c) == [NewRecord EXCEPT !.cancel = c, !.state = IF c THEN "cancelled" ELSE @]
<1>2. image = r(image.cancel)
  <2>1. /\ image.done = 0 /\ image.finished = FALSE /\ image.failed = FALSE
        /\ image.state = IF image.cancel THEN "cancelled" ELSE "queued"
    BY <1>1 DEF Unwritten, Record
  <2>2. image = [state |-> image.state, done |-> image.done, finished |-> image.finished,
                 cancel |-> image.cancel, failed |-> image.failed]
    BY <1>1 DEF Record
  <2>3. r(image.cancel) = [state |-> IF image.cancel THEN "cancelled" ELSE "queued", done |-> 0,
                           finished |-> FALSE, cancel |-> image.cancel, failed |-> FALSE]
    <3>1. image.cancel \in BOOLEAN
      BY <1>1 DEF Record
    <3>2. r(TRUE) = [state |-> "cancelled", done |-> 0, finished |-> FALSE, cancel |-> TRUE,
                     failed |-> FALSE]
      <4>1. r(TRUE) = [[NewRecord EXCEPT !.cancel = TRUE] EXCEPT !.state = "cancelled"]
        OBVIOUS
      <4> HIDE DEF r
      <4> QED BY <4>1 DEF NewRecord
    <3>3. r(FALSE) = [state |-> "queued", done |-> 0, finished |-> FALSE, cancel |-> FALSE,
                      failed |-> FALSE]
      <4>1. r(FALSE) = [[NewRecord EXCEPT !.cancel = FALSE] EXCEPT !.state = NewRecord.state]
        BY DEF NewRecord
      <4> HIDE DEF r
      <4> QED BY <4>1 DEF NewRecord
    <3> HIDE DEF r
    <3>4. image.cancel = TRUE \/ image.cancel = FALSE
      BY <3>1
    <3>5. CASE image.cancel = TRUE
      BY <3>2, <3>5
    <3>6. CASE image.cancel = FALSE
      BY <3>3, <3>6
    <3> QED BY <3>4, <3>5, <3>6
  <2> HIDE DEF r
  <2> QED BY <2>1, <2>2, <2>3
<1>3. image.cancel \in BOOLEAN /\ record' = [record EXCEPT ![j] = r(image.cancel)]
  <2>1. image.cancel \in BOOLEAN
    BY <1>1 DEF Record
  <2> HIDE DEF r
  <2> QED BY <1>2, <2>1
<1> QED BY <1>3 DEF Ledger!Admit, Ledger!NewRecord, NewRecord

\* A later write is what the ledger allows while the server runs.
LEMMA WriteSaves ==
  ASSUME OInv, NEW j \in Jobs, Writing(j), record[j] # None, record' = [record EXCEPT ![j] = image]
  PROVE  Ledger!Save(j)
<1> USE Parts
<1>1. /\ image \in Record /\ record[j] \in Record
      /\ Follows(record[j], image) /\ Near(j, record[j], image) /\ Sound(j, image)
  BY DEF VersionsOK, NoStaleWrite
<1>2. image.state = "queued" => record[j].state = "queued"
  <2>1. SUFFICES ASSUME image.state = "queued"
                 PROVE  record[j].state = "queued"
    OBVIOUS
  <2>2. lock = "stager" /\ stager.job = j /\ stager.pc # "idle"
    BY <2>1 DEF WriterOK, Writing, LockOK, StagerSaving
  <2>3. record[j].state # "running"
    BY <2>2 DEF StagingOK
  <2> QED BY <1>1, <2>1, <2>3 DEF Follows, Record, JobState, Terminal
<1>3. Ledger!Successor(j, record[j], image)
  BY <1>1, <1>2 DEF Ledger!Successor, Ledger!Follows, Ledger!Terminal, Ledger!Total, Follows, Near,
     Sound, Total, Terminal
<1>4. record'[j] = image
  BY DEF TypeOK, DiskType
<1>5. image \in Ledger!Record
  BY <1>1 DEF Record, Ledger!Record, JobState, Ledger!JobState, Terminal, Ledger!Terminal
<1> QED BY <1>3, <1>4, <1>5 DEF Ledger!Save

\* A restart takes every record up afresh.
LEMMA RestartRecovers ==
  ASSUME OInv, Restart
  PROVE  Ledger!Recover
<1> USE Parts
<1>1. RestartStep
  BY RestartTurns
<1>2. record' \in [Jobs -> Record \cup {None}]
  BY RestartEffect
<1>3. ASSUME NEW j \in Jobs
      PROVE  Ledger!Afresh(record[j], record'[j])
  <2>1. CASE record[j] = None
    BY <1>1, <2>1 DEF RestartStep, Ledger!Afresh
  <2>2. CASE record[j] # None
    <3> DEFINE a == record[j]
               w == Woken(a)
    <3>1. a \in Record /\ record'[j] \in {a, w, Refused(w)}
          /\ (record'[j] = Refused(w) /\ record'[j] # w => w.state = "queued" \/ record'[j] = a)
      BY <1>1, <2>2 DEF RestartStep, Turned
    <3>2. w = IF a.state # "running" THEN a
              ELSE [a EXCEPT !.state = IF a.cancel THEN "cancelled" ELSE "queued"]
      BY DEF Woken
    <3>3. CASE record'[j] = a
      BY <3>3 DEF Ledger!Afresh
    <3>4. CASE record'[j] = w
      BY <2>2, <3>2, <3>4 DEF Ledger!Afresh
    <3>5. CASE record'[j] = Refused(w) /\ w.state = "queued"
      <4>1. a.state \in {"queued", "running"}
        BY <3>2, <3>5
      <4>2. Refused(w) = [a EXCEPT !.state = "failed", !.failed = TRUE]
        <5>1. ASSUME NEW s
              PROVE  [[[a EXCEPT !.state = s] EXCEPT !.state = "failed"] EXCEPT !.failed = TRUE]
                     = [[a EXCEPT !.state = "failed"] EXCEPT !.failed = TRUE]
          BY <3>1 DEF Record
        <5> QED BY <3>2, <5>1 DEF Refused
      <4> QED BY <2>2, <3>5, <4>1, <4>2 DEF Ledger!Afresh
    <3> QED BY <3>1, <3>3, <3>4, <3>5
  <2> QED BY <2>1, <2>2
<1> QED BY <1>2, <1>3 DEF Ledger!Recover

LEMMA LedgerStep ==
  ASSUME OInv, [Next]_vars
  PROVE  [Ledger!Next]_record
<1> USE Parts
<1>1. CASE Running
  <2>1. record' = record \/ \E j \in Jobs : Writing(j) /\ record' = [record EXCEPT ![j] = image]
    BY <1>1, Kinds DEF MemoryStep, CopyStep, WriteStep
  <2> QED BY <2>1, WriteAdmits, WriteSaves DEF Ledger!Next
<1>2. CASE Restart
  BY <1>2, RestartRecovers DEF Ledger!Next
<1>3. CASE UNCHANGED vars
  BY <1>3 DEF vars, disk
<1> QED BY <1>1, <1>2, <1>3 DEF Next, Running

\* The registry implements JobLedger: through failed writes, cancellations and
\* restarts the records on disk move only as the ledger allows.  Every write is
\* an admission or a save, every restart a recovery, and every other step leaves
\* the ledger alone.
THEOREM LedgerImplemented == Spec => LedgerSpec
<1>1. Init => Ledger!Init
  BY DEF Init, Ledger!Init
<1>2. OInv /\ [Next]_vars => [Ledger!Next]_record
  BY LedgerStep
<1> QED BY <1>1, <1>2, OutcomesInvariance, PTL DEF Spec, LedgerSpec, Ledger!Spec

-----------------------------------------------------------------------------
(***************************************************************************)
(* The history: a restart can always read it back, and no accepted job that  *)
(* has not ended is forgotten.                                              *)
(*                                                                         *)
(* Both rest on how the registry is spread over memory and disk.  The order *)
(* lists exactly the jobs that have a record in memory, once each; it fits   *)
(* the history because a submission is admitted only while fewer jobs are    *)
(* active than the queue takes, so that a full history has an ended job to    *)
(* evict.  The index was the order when it was last written: every job but   *)
(* the one that is being admitted is in it, and has a record on disk.  That   *)
(* such a record is valid follows from where the worker was when it noted     *)
(* the end of Blender's work.  OInv is used, but not extended: HInv is        *)
(* inductive relative to it.                                                *)
(***************************************************************************)

\* s lists x.
Holds(s, x) == \E i \in DOMAIN s : s[i] = x

\* validate_recovered_job accepts the record r of j.
Whole(j, r) ==
  /\ r.done <= Total(j)
  /\ r.finished /\ ~r.cancel /\ ~r.failed => r.done = Total(j)

\* All three versions of a record are valid.
WholeOK ==
  \A j \in Jobs : /\ mem[j] # None => Whole(j, mem[j])
                  /\ record[j] # None => Whole(j, record[j])
                  /\ Writing(j) => Whole(j, image)

\* The frame loop stops at the last frame, and says why it stopped.
LoopOK ==
  /\ worker.pc \in {"frame_phase", "render"} => mem[worker.job].done # Total(worker.job)
  /\ worker.pc = "outcome" =>
       /\ worker.outcome = "completed" => mem[worker.job].done = Total(worker.job)
       /\ worker.outcome = "cancelled" => mem[worker.job].cancel
       /\ worker.outcome # "none"

\* The token of an active job is cancelled only after its record in memory.
ToldOK == \A j \in Jobs : IsActive(j) /\ token[j] = "cancelled" => mem[j].cancel

\* The job that is about to be registered finds room among the active ones.
RoomOK == stager.pc = "snapshot" => Cardinality(Active) < QueueDepth

\* The order lists the jobs in memory, once each, and fits the history.
OrderOK ==
  /\ IsInjective(order) /\ Len(order) <= MaxHistory
  /\ \A j \in Jobs : Holds(order, j) <=> mem[j] # None

Admitting == {"admit", "record", "index", "reject"}

\* The index is one that can be read back, and lists every job in memory but
\* the one that is being admitted.
IndexOK ==
  /\ IsInjective(index) /\ Len(index) <= MaxHistory
  /\ \A j \in Jobs : Holds(index, j) => record[j] # None
  /\ \A j \in Jobs : mem[j] # None /\ (stager.job = j => stager.pc \notin Admitting) =>
       Holds(index, j) /\ record[j] # None

\* An accepted job is on disk, and is not the one that is being staged.
AcceptedOK ==
  /\ \A j \in accepted : record[j] # None
  /\ stager.pc # "idle" => stager.job \notin accepted

HInv == WholeOK /\ LoopOK /\ ToldOK /\ RoomOK /\ OrderOK /\ IndexOK /\ AcceptedOK

-----------------------------------------------------------------------------
(* Sequences that list every element once.                                   *)

LEMMA RemoveAtElements ==
  ASSUME NEW S, NEW s \in Seq(S), NEW i \in DOMAIN s
  PROVE  /\ Len(s) \in Nat /\ i \in 1 .. Len(s) /\ DOMAIN s = 1 .. Len(s)
         /\ DOMAIN RemoveAt(s, i) = 1 .. Len(s) - 1
         /\ \A k \in 1 .. Len(s) - 1 : RemoveAt(s, i)[k] = IF k < i THEN s[k] ELSE s[k + 1]
<1> DEFINE a == SubSeq(s, 1, i - 1)
           b == SubSeq(s, i + 1, Len(s))
<1>1. Len(s) \in Nat /\ DOMAIN s = 1 .. Len(s) /\ i \in 1 .. Len(s)
  BY LenProperties
<1>2. \A k \in 1 .. Len(s) : s[k] \in S
  BY ElementOfSeq
<1>3. /\ a \in Seq(S) /\ Len(a) = i - 1
      /\ \A k \in 1 .. i - 1 : a[k] = s[k]
  <2>1. \A k \in 1 .. i - 1 : s[k] \in S
    BY <1>1, <1>2
  <2> QED BY <1>1, <2>1, SubSeqProperties
<1>4. /\ b \in Seq(S) /\ Len(b) = Len(s) - i
      /\ \A k \in 1 .. Len(s) - i : b[k] = s[i + k]
  <2>1. \A k \in i + 1 .. Len(s) : s[k] \in S
    BY <1>1, <1>2
  <2> QED BY <1>1, <2>1, SubSeqProperties
<1> HIDE DEF a, b
<1>5. /\ a \o b \in Seq(S) /\ Len(a \o b) = Len(s) - 1
      /\ \A k \in 1 .. Len(s) - 1 : (a \o b)[k] = IF k <= i - 1 THEN a[k] ELSE b[k - (i - 1)]
  <2>1. /\ a \o b \in Seq(S) /\ Len(a \o b) = Len(a) + Len(b)
        /\ \A k \in 1 .. Len(a) + Len(b) : (a \o b)[k] = IF k <= Len(a) THEN a[k] ELSE b[k - Len(a)]
    BY <1>3, <1>4, ConcatProperties, Zenon
  <2> QED BY <1>1, <1>3, <1>4, <2>1
<1>6. ASSUME NEW k \in 1 .. Len(s) - 1
      PROVE  (a \o b)[k] = IF k < i THEN s[k] ELSE s[k + 1]
  <2>1. CASE k < i
    BY <2>1, <1>1, <1>3, <1>5
  <2>2. CASE ~(k < i)
    <3>1. k - (i - 1) \in 1 .. Len(s) - i /\ ~(k <= i - 1)
      BY <2>2, <1>1
    <3>2. b[k - (i - 1)] = s[i + (k - (i - 1))] /\ i + (k - (i - 1)) = k + 1
      BY <3>1, <1>1, <1>4
    <3> QED BY <2>2, <3>1, <3>2, <1>5
  <2> QED BY <2>1, <2>2
<1>7. RemoveAt(s, i) = a \o b
  BY DEF RemoveAt, a, b
<1>8. DOMAIN (a \o b) = 1 .. Len(s) - 1
  BY <1>5, LenProperties
<1> QED BY <1>1, <1>6, <1>7, <1>8

\* What is left of a list without repetitions when one element is removed.
LEMMA RemoveOne ==
  ASSUME NEW S, NEW s \in Seq(S), IsInjective(s), NEW i \in DOMAIN s
  PROVE  /\ RemoveAt(s, i) \in Seq(S) /\ IsInjective(RemoveAt(s, i))
         /\ Len(RemoveAt(s, i)) = Len(s) - 1
         /\ \A x : Holds(RemoveAt(s, i), x) <=> Holds(s, x) /\ x # s[i]
<1> DEFINE r == RemoveAt(s, i)
           Pos(k) == IF k < i THEN k ELSE k + 1
<1>1. /\ Len(s) \in Nat /\ i \in 1 .. Len(s) /\ DOMAIN s = 1 .. Len(s)
      /\ DOMAIN r = 1 .. Len(s) - 1
      /\ \A k \in 1 .. Len(s) - 1 : r[k] = IF k < i THEN s[k] ELSE s[k + 1]
  BY RemoveAtElements
<1>2. /\ r \in Seq(S) /\ Len(r) = Len(s) - 1
      /\ \A k \in DOMAIN r : \E m \in DOMAIN s : r[k] = s[m]
      /\ \A m \in DOMAIN s : m # i => \E k \in DOMAIN r : r[k] = s[m]
  BY RemoveAtProperties
<1> HIDE DEF r
<1>3. \A k \in DOMAIN r : Pos(k) \in DOMAIN s /\ Pos(k) # i /\ r[k] = s[Pos(k)]
  BY <1>1
<1>4. \A k, m \in DOMAIN r : Pos(k) = Pos(m) => k = m
  BY <1>1
<1> HIDE DEF Pos
<1>5. \A k, m \in DOMAIN s : s[k] = s[m] => k = m
  BY DEF IsInjective
<1>6. \A k, m \in DOMAIN r : r[k] = r[m] => k = m
  BY <1>3, <1>4, <1>5
<1>7. \A k \in DOMAIN r : r[k] # s[i]
  BY <1>3, <1>5
<1>8. IsInjective(r)
  BY <1>6 DEF IsInjective
<1>9. \A x : Holds(r, x) <=> Holds(s, x) /\ x # s[i]
  BY <1>2, <1>7 DEF Holds
<1> QED BY <1>2, <1>8, <1>9 DEF r

\* A list without repetitions to which a new element is appended.
LEMMA AddOne ==
  ASSUME NEW S, NEW s \in Seq(S), IsInjective(s), NEW e \in S, ~Holds(s, e)
  PROVE  /\ Append(s, e) \in Seq(S) /\ IsInjective(Append(s, e))
         /\ Len(Append(s, e)) = Len(s) + 1
         /\ \A x : Holds(Append(s, e), x) <=> Holds(s, x) \/ x = e
<1> DEFINE r == Append(s, e)
<1>1. /\ r \in Seq(S) /\ Len(r) = Len(s) + 1 /\ r[Len(s) + 1] = e
      /\ \A k \in 1 .. Len(s) : r[k] = s[k]
  BY AppendProperties
<1>2. Len(s) \in Nat /\ DOMAIN s = 1 .. Len(s) /\ DOMAIN r = 1 .. Len(s) + 1
  BY <1>1, LenProperties
<1> HIDE DEF r
<1>3. \A k \in DOMAIN r : k \in DOMAIN s \/ k = Len(s) + 1
  BY <1>2
<1>4. \A k \in DOMAIN s : k \in DOMAIN r /\ r[k] = s[k] /\ r[k] # e
  BY <1>1, <1>2 DEF Holds
<1>5. \A k, m \in DOMAIN s : s[k] = s[m] => k = m
  BY DEF IsInjective
<1>6. IsInjective(r)
  BY <1>1, <1>3, <1>4, <1>5 DEF IsInjective
<1>7. Len(s) + 1 \in DOMAIN r
  BY <1>2
<1>8. \A x : Holds(r, x) <=> Holds(s, x) \/ x = e
  BY <1>1, <1>3, <1>4, <1>7 DEF Holds
<1> QED BY <1>1, <1>6, <1>8 DEF r

\* A list without repetitions is no longer than the set it is drawn from.
LEMMA ListFits ==
  ASSUME NEW T, IsFiniteSet(T), NEW S, NEW s \in Seq(S), IsInjective(s),
         \A i \in DOMAIN s : s[i] \in T
  PROVE  Len(s) <= Cardinality(T) /\ Cardinality(T) \in Nat
<1>1. Len(s) \in Nat /\ DOMAIN s = 1 .. Len(s) /\ s \in [1 .. Len(s) -> S]
  BY LenProperties
<1>2. s \in [1 .. Len(s) -> T]
  BY <1>1
<1>3. s \in Injection(1 .. Len(s), T)
  BY <1>2, <1>1 DEF Injection, IsInjective
<1>4. Cardinality(1 .. Len(s)) <= Cardinality(T)
  BY <1>3, FS_Injection
<1>5. Cardinality(1 .. Len(s)) = Len(s)
  BY <1>1, FS_Interval
<1> QED BY <1>4, <1>5, FS_CardinalityType

\* As many elements as a list holds are at most as many as it is long.
LEMMA ListCovers ==
  ASSUME NEW S, NEW s \in Seq(S), NEW T, \A x \in T : Holds(s, x)
  PROVE  IsFiniteSet(T) /\ Cardinality(T) \in Nat /\ Cardinality(T) <= Len(s)
<1> DEFINE D == {i \in DOMAIN s : s[i] \in T}
           f == [i \in D |-> s[i]]
<1>1. Len(s) \in Nat /\ DOMAIN s = 1 .. Len(s)
  BY LenProperties
<1>2. IsFiniteSet(1 .. Len(s)) /\ Cardinality(1 .. Len(s)) = Len(s)
  BY <1>1, FS_Interval
<1>3. IsFiniteSet(D) /\ Cardinality(D) <= Len(s) /\ Cardinality(D) \in Nat
  BY <1>1, <1>2, FS_Subset, FS_CardinalityType
<1>4. f \in [D -> T] /\ \A x \in T : \E i \in D : f[i] = x
  BY DEF Holds
<1>5. f \in Surjection(D, T)
  BY <1>4 DEF Surjection
<1>6. IsFiniteSet(T) /\ Cardinality(T) <= Cardinality(D)
  BY <1>3, <1>5, FS_Surjection
<1>7. Cardinality(T) \in Nat
  BY <1>6, FS_CardinalityType
<1> HIDE DEF D
<1> QED BY <1>1, <1>3, <1>6, <1>7

-----------------------------------------------------------------------------
(* The records are valid.                                                    *)

LEMMA MoveWhole ==
  ASSUME OInv, LoopOK, NEW j \in Jobs, Moves(j), Whole(j, mem[j])
  PROVE  Whole(j, mem'[j])
<1> USE Parts
<1>1. mem[j] \in Record /\ mem'[j] \in Record /\ Total(j) \in Nat
  BY FramesAssumption DEF Moves, Total
<1>2. CASE Started(mem[j], mem'[j]) \/ Completed(mem[j], mem'[j])
  BY <1>1, <1>2 DEF Started, Completed, Whole
<1>3. CASE Ended(mem[j], mem'[j]) \/ Asked(mem[j], mem'[j])
  BY <1>1, <1>3 DEF Ended, Asked, Whole
<1>4. CASE worker.pc = "render" /\ j = worker.job /\ Counted(mem[j], mem'[j])
  <2>1. ~mem[j].finished /\ mem[j].done # Total(j)
    BY <1>4 DEF WorkOK, Rendering, LoopOK
  <2>2. mem[j].done \in Nat /\ mem[j].done <= Total(j)
    BY <1>1 DEF Record, Whole
  <2>3. mem[j].done + 1 <= Total(j)
    BY <1>1, <2>1, <2>2
  <2> QED BY <1>4, <2>1, <2>3 DEF Counted, Whole
<1>5. CASE worker.pc = "outcome" /\ j = worker.job /\ Noted(mem[j], mem'[j], worker.outcome = "failed")
  <2>1. worker.outcome \in {"completed", "cancelled", "failed"}
    BY <1>5 DEF LoopOK, TypeOK, ProcessType, Outcome
  <2>2. CASE worker.outcome = "failed"
    BY <1>5, <2>2 DEF Noted, Whole
  <2>3. CASE worker.outcome = "completed"
    BY <1>1, <1>5, <2>3 DEF Noted, Whole, LoopOK
  <2>4. CASE worker.outcome = "cancelled"
    BY <1>1, <1>5, <2>4 DEF Noted, Whole, LoopOK
  <2> QED BY <2>1, <2>2, <2>3, <2>4
<1> QED BY <1>2, <1>3, <1>4, <1>5 DEF Moves, ByWorker, ByStager, ByClient

LEMMA NewIsWhole ==
  ASSUME NEW j
  PROVE  Whole(j, NewRecord)
BY FramesAssumption DEF Whole, NewRecord, Total

\* Total depends on constants only.
LEMMA WholeNext ==
  ASSUME \A j \in Jobs : /\ mem'[j] # None => Whole(j, mem'[j])
                         /\ record'[j] # None => Whole(j, record'[j])
                         /\ Writing(j)' => Whole(j, image')
  PROVE  WholeOK'
BY DEF WholeOK, Whole, Total

LEMMA WholeStep ==
  ASSUME OInv, WholeOK, LoopOK, Running
  PROVE  WholeOK'
<1> USE Parts
<1>1. ASSUME MemoryStep, NEW j \in Jobs
      PROVE  /\ mem'[j] # None => Whole(j, mem'[j])
             /\ record'[j] # None => Whole(j, record'[j])
             /\ Writing(j)' => Whole(j, image')
  <2>1. /\ UNCHANGED <<record, image>> /\ (Writing(j)' => Writing(j))
        /\ mem'[j] = mem[j] \/ Moves(j) \/ Leaves(j) \/ Enters(j)
    BY <1>1 DEF MemoryStep, MemoryMoves
  <2>2. Moves(j) => Whole(j, mem'[j])
    BY MoveWhole DEF WholeOK, Moves
  <2>3. Enters(j) => Whole(j, mem'[j])
    BY NewIsWhole DEF Enters
  <2>4. Leaves(j) => mem'[j] = None
    BY DEF Leaves
  <2> QED BY <2>1, <2>2, <2>3, <2>4 DEF WholeOK
<1>2. ASSUME CopyStep, NEW j \in Jobs
      PROVE  /\ mem'[j] # None => Whole(j, mem'[j])
             /\ record'[j] # None => Whole(j, record'[j])
             /\ Writing(j)' => Whole(j, image')
  BY <1>2 DEF CopyStep, WholeOK
<1>3. ASSUME WriteStep, NEW j \in Jobs
      PROVE  /\ mem'[j] # None => Whole(j, mem'[j])
             /\ record'[j] # None => Whole(j, record'[j])
             /\ Writing(j)' => Whole(j, image')
  <2>1. record'[j] = record[j] \/ (Writing(j) /\ record'[j] = image)
    BY <1>3 DEF WriteStep, TypeOK, DiskType
  <2> QED BY <1>3, <2>1 DEF WriteStep, WholeOK
<1> QED BY <1>1, <1>2, <1>3, Kinds, WholeNext

LEMMA TurnedWhole ==
  ASSUME NEW j \in Jobs, NEW a \in Record, NEW b, NEW c, Whole(j, a), Turned(a, b, c)
  PROVE  Whole(j, b) /\ (c # None => Whole(j, c))
<1> DEFINE w == Woken(a)
           r == Refused(w)
<1>1. /\ w \in Record /\ w.done = a.done /\ w.finished = a.finished
      /\ w.cancel = a.cancel /\ w.failed = a.failed
  BY Wakes
<1> HIDE DEF w
<1>2. /\ r.done = w.done /\ r.finished = w.finished
      /\ r.cancel = w.cancel /\ r.failed
  BY <1>1, Refuses
<1> HIDE DEF r
<1>3. Whole(j, w) /\ Whole(j, r)
  BY <1>1, <1>2 DEF Whole
<1>4. b \in {a, w, r} /\ c \in {None, w, r}
  BY DEF Turned, w, r
<1> QED BY <1>3, <1>4

LEMMA WholeRestart ==
  ASSUME OInv, WholeOK, Restart
  PROVE  WholeOK'
<1> USE Parts
<1>1. RestartStep /\ \A j \in Jobs : ~Writing(j)'
  BY RestartTurns, RestartEnds
<1>2. ASSUME NEW j \in Jobs
      PROVE  /\ mem'[j] # None => Whole(j, mem'[j])
             /\ record'[j] # None => Whole(j, record'[j])
  <2>1. CASE record[j] = None
    BY <2>1, <1>1 DEF RestartStep
  <2>2. CASE record[j] # None
    <3>1. Whole(j, record[j]) /\ Turned(record[j], record'[j], mem'[j]) /\ record[j] \in Record
      BY <2>2, <1>1 DEF RestartStep, WholeOK
    <3> QED BY <3>1, TurnedWhole
  <2> QED BY <2>1, <2>2
<1> QED BY <1>1, <1>2, WholeNext

-----------------------------------------------------------------------------
(* The frame loop and the tokens.                                            *)

LEMMA OthersLoop ==
  ASSUME OInv, LoopOK, Running, worker' = worker
  PROVE  LoopOK'
<1> USE Parts
<1>1. CASE worker.pc \notin {"frame_phase", "render", "outcome"}
  BY <1>1 DEF LoopOK
<1>2. CASE worker.pc \in {"frame_phase", "render", "outcome"}
  <2> PICK j \in Jobs : j = worker.job
    BY <1>2 DEF WorkerOK
  <2>1. \/ mem'[j] = mem[j]
        \/ mem[j] \in Record /\ mem'[j] \in Record /\ Asked(mem[j], mem'[j])
        \/ mem'[j] = None /\ ~IsActive(j)
    BY <1>2, OthersMemory, Kinds DEF CopyStep, WriteStep
  <2>2. IsActive(j)
    BY <1>2 DEF WorkerOK, WorkerRunning, IsActive, Terminal
  <2>3. mem'[j].done = mem[j].done /\ (mem[j].cancel => mem'[j].cancel)
    BY <2>1, <2>2 DEF Asked
  <2>4. /\ worker.pc \in {"frame_phase", "render"} => mem[j].done # Total(j)
        /\ worker.pc = "outcome" =>
             /\ worker.outcome = "completed" => mem[j].done = Total(j)
             /\ worker.outcome = "cancelled" => mem[j].cancel
             /\ worker.outcome # "none"
    BY DEF LoopOK
  <2>5. worker'.job = j
    OBVIOUS
  <2> QED BY <2>3, <2>4, <2>5 DEF LoopOK, Total
<1> QED BY <1>1, <1>2

LEMMA WorkerLoop ==
  ASSUME OInv, LoopOK, ToldOK, Worker
  PROVE  LoopOK'
<1> USE Parts
<1>1. CASE NextFrame
  <2>1. worker.pc = "frames" /\ mem' = mem /\ worker'.job = worker.job
    BY <1>1 DEF NextFrame, At, GoTo, Return, memory, TypeOK, ProcessType
  <2>2. worker.job \in Jobs /\ IsActive(worker.job)
    BY <2>1, WorkersRecord DEF WorkerRunning, IsActive, Terminal
  <2>3. \/ Cancelled /\ worker'.pc = "outcome" /\ worker'.outcome = "cancelled"
        \/ /\ mem[worker.job].done = Total(worker.job)
           /\ worker'.pc = "outcome" /\ worker'.outcome = "completed"
        \/ mem[worker.job].done # Total(worker.job) /\ worker'.pc = "frame_phase"
    BY <1>1 DEF NextFrame, GoTo, Return, TypeOK, ProcessType
  <2>4. Cancelled => mem[worker.job].cancel
    BY <2>2 DEF Cancelled, ToldOK
  <2> QED BY <2>1, <2>3, <2>4 DEF LoopOK, Total
<1>2. CASE WorkerWrites \/ WorkerFindsNoJob
  <2>1. PICK saved \in BOOLEAN : Resume(saved) /\ mem' = mem /\ worker.pc \in WorkerSaving
    BY <1>2 DEF WorkerWrites, WorkerFindsNoJob, Write, memory
  <2>2. worker'.job = worker.job
    BY <2>1, ResumeEffect DEF TypeOK
  <2>3. \/ worker'.pc \notin {"frame_phase", "render", "outcome"}
        \/ worker.pc = "frame_phase" /\ worker'.pc = "render"
        \/ worker'.pc = "outcome" /\ worker'.outcome = "failed"
    BY <2>1 DEF Resume, GoTo, Return, WorkerSaving, TypeOK, ProcessType
  <2> QED BY <2>1, <2>2, <2>3 DEF LoopOK, Total
<1>3. CASE WorkerCopies
  BY <1>3, OthersLoop DEF WorkerCopies, Running
<1>4. CASE LoadSource \/ RenderFrame
  <2>1. \/ worker'.pc \in {"frames", "progress"}
        \/ worker'.pc = "outcome" /\ worker'.outcome = "failed"
    BY <1>4 DEF LoadSource, RenderFrame, GoTo, Return, TypeOK, ProcessType
  <2> QED BY <2>1 DEF LoopOK
<1>5. CASE \/ Receive \/ StartJob \/ RunJob \/ RecordOutcome \/ FinishAfterBlender \/ EncodeVideo
           \/ CompleteJob \/ MarkCancelled \/ FailJob \/ Release
  <2>1. worker'.pc \notin {"frame_phase", "render", "outcome"}
    BY <1>5 DEF Receive, StartJob, RunJob, RecordOutcome, FinishAfterBlender, EncodeVideo,
       CompleteJob, MarkCancelled, FailJob, Release, GoTo, IdleWorker, TypeOK, ProcessType
  <2> QED BY <2>1 DEF LoopOK
<1> QED BY <1>1, <1>2, <1>3, <1>4, <1>5 DEF Worker

LEMMA LoopStep ==
  ASSUME OInv, LoopOK, ToldOK, Running
  PROVE  LoopOK'
BY WorkerLoop, OthersLoop, Actors, Parts DEF Running

\* A token is cancelled by a client that has set its job's record before.
LEMMA TokenCancels ==
  ASSUME TypeOK, Running, NEW j \in Jobs, token'[j] = "cancelled", token[j] # "cancelled"
  PROVE  \E c \in Clients : CancelToken(c) /\ client[c].job = j
<1>1. ASSUME Worker
      PROVE  FALSE
  <2>1. token' = token \/ token' = [token EXCEPT ![worker.job] = "absent"]
    BY <1>1 DEF Worker, Receive, StartJob, RunJob, LoadSource, NextFrame, RenderFrame, Release,
       RecordOutcome, FinishAfterBlender, EncodeVideo, CompleteJob, MarkCancelled, FailJob,
       WorkerCopies, Copy, WorkerWrites, Write, WorkerFindsNoJob, memory
  <2> QED BY <2>1 DEF TypeOK, MemoryType
<1>2. ASSUME Submit \/ Stager
      PROVE  FALSE
  <2>1. CASE Register
    <3>1. PICK evicted \in {order[i] : i \in DOMAIN order} \cup {None} :
            token' = [i \in Jobs |-> IF i = stager.job THEN "live"
                                     ELSE IF i = evicted THEN "absent" ELSE token[i]]
      BY <2>1 DEF Register
    <3> QED BY <3>1
  <2>2. CASE ~Register
    <3>1. token' = token \/ token' = [token EXCEPT ![stager.job] = "absent"]
      BY <1>2, <2>2 DEF Submit, Stager, SnapshotFails, CopyRecordAndIndex, Copy, Reject,
         WriteAdmittedRecord, WriteIndex, CommitSource, MarkWaiting, Push, StagingFails,
         StagerCopies, StagerWrites, StagerReleases, Write, memory
    <3> QED BY <3>1 DEF TypeOK, MemoryType
  <2> QED BY <2>1, <2>2
<1>3. ASSUME NEW c \in Clients, Client(c)
      PROVE  CancelToken(c) /\ client[c].job = j
  <2>1. CancelToken(c) \/ UNCHANGED token
    BY <1>3 DEF Client, Cancel, CancelCopies, Copy, CancelWrites, Write, CancelEnds, memory
  <2> QED BY <2>1 DEF CancelToken, TypeOK, MemoryType
<1> QED BY <1>1, <1>2, <1>3 DEF Running

\* What an active job was before the step.
LEMMA ActiveBefore ==
  ASSUME OInv, Running, NEW j \in Jobs, mem'[j] # None, mem'[j].state \notin Terminal, ~Enters(j)
  PROVE  IsActive(j) /\ (mem[j].cancel => mem'[j].cancel)
<1>1. IsActive(j)
  BY OverStays DEF Over, IsActive
<1>2. mem'[j] = mem[j] \/ Moves(j)
  BY Kinds, Parts DEF MemoryStep, MemoryMoves, Leaves, CopyStep, WriteStep
<1>3. mem[j].cancel => mem'[j].cancel
  BY <1>2 DEF Moves, ByWorker, ByStager, ByClient, Started, Counted, Noted, Completed, Ended, Asked
<1> QED BY <1>1, <1>3

LEMMA ToldStep ==
  ASSUME OInv, ToldOK, Running
  PROVE  ToldOK'
<1> USE Parts
<1>1. ASSUME NEW j \in Jobs, mem'[j] # None, mem'[j].state \notin Terminal, token'[j] = "cancelled"
      PROVE  mem'[j].cancel
  <2>1. ~Enters(j)
    BY <1>1, TokenMoves
  <2>2. IsActive(j) /\ (mem[j].cancel => mem'[j].cancel)
    BY <1>1, <2>1, ActiveBefore
  <2>3. CASE token[j] = "cancelled"
    BY <2>2, <2>3 DEF ToldOK
  <2>4. CASE token[j] # "cancelled"
    <3>1. PICK c \in Clients : CancelToken(c) /\ client[c].job = j
      BY <1>1, <2>4, TokenCancels
    <3>2. mem[j].cancel
      BY <2>2, <3>1 DEF CancelToken, TokenOK
    <3> QED BY <2>2, <3>2
  <2> QED BY <2>3, <2>4
<1> QED BY <1>1 DEF ToldOK, IsActive

LEMMA ToldRestart ==
  ASSUME OInv, Restart
  PROVE  ToldOK'
<1> USE Parts
<1>1. RestartStep
  BY RestartTurns
<1>2. PICK q \in [1 .. Cardinality(Waiting) -> Waiting] :
        token' = [j \in Jobs |-> IF j \notin Waiting \ Dropped(q) THEN "absent"
                                 ELSE IF record[j].cancel THEN "cancelled" ELSE "live"]
  BY DEF Restart
<1>3. ASSUME NEW j \in Jobs, mem'[j] # None, token'[j] = "cancelled"
      PROVE  mem'[j].cancel
  <2>1. j \in Waiting /\ record[j].cancel
    BY <1>2, <1>3
  <2>2. record[j] # None /\ record[j] \in Record
    BY <2>1 DEF Waiting, Known, Valid
  <2>3. Sound(j, record[j]) /\ Turned(record[j], record'[j], mem'[j])
    BY <1>1, <2>2 DEF RestartStep, VersionsOK
  <2> QED BY <1>3, <2>1, <2>2, <2>3, TurnedSound
<1> QED BY <1>3 DEF ToldOK, IsActive

-----------------------------------------------------------------------------
(* The order, and the room it has.                                           *)

\* Only a registration, a rejection and a restart change which jobs the memory
\* knows; the order changes with it.
LEMMA OrderKept ==
  ASSUME OInv, Running, ~Register, ~Reject
  PROVE  order' = order /\ \A j \in Jobs : mem'[j] # None <=> mem[j] # None
<1> USE Parts
<1>1. CASE Worker
  <2>1. order' = order /\ stager' = stager
    BY <1>1, Actors DEF Worker, Receive, StartJob, RunJob, LoadSource, NextFrame, RenderFrame,
       Release, RecordOutcome, FinishAfterBlender, EncodeVideo, CompleteJob, MarkCancelled, FailJob,
       WorkerCopies, Copy, WorkerWrites, Write, WorkerFindsNoJob, memory, Running
  <2>2. UNCHANGED mem \/ \E j : Updates(j)
    BY <1>1, StartEffect, RenderEffect, OutcomeEffect, CompleteEffect, MarkEffect, FailEffect
       DEF Worker, Receive, RunJob, LoadSource, NextFrame, Release, FinishAfterBlender, EncodeVideo,
       WorkerCopies, Copy, WorkerWrites, Write, WorkerFindsNoJob, memory, FailJob, At, WorkerOK
  <2> QED BY <2>1, <2>2, UpdateEffect DEF Updates
<1>2. CASE Submit \/ Stager
  <2>1. order' = order
    BY <1>2 DEF Submit, Stager, SnapshotFails, CopyRecordAndIndex, Copy, WriteAdmittedRecord,
       WriteIndex, CommitSource, MarkWaiting, Push, StagingFails, StagerCopies, StagerWrites,
       StagerReleases, Write, memory
  <2>2. UNCHANGED mem \/ \E j : Updates(j)
    <3>1. CASE StagingFails
      BY <3>1, FailEffect DEF StagingFails, Staging, StagerOK
    <3> QED BY <1>2, <3>1 DEF Submit, Stager, SnapshotFails, CopyRecordAndIndex, Copy,
         WriteAdmittedRecord, WriteIndex, CommitSource, MarkWaiting, Push, StagerCopies,
         StagerWrites, StagerReleases, Write, memory
  <2> QED BY <2>1, <2>2, UpdateEffect DEF Updates
<1>3. ASSUME NEW c \in Clients, Client(c)
      PROVE  order' = order /\ \A j \in Jobs : mem'[j] # None <=> mem[j] # None
  <2>1. order' = order
    BY <1>3 DEF Client, Cancel, CancelToken, CancelCopies, Copy, CancelWrites, Write, CancelEnds,
       memory
  <2>2. UNCHANGED mem \/ \E j : Updates(j)
    <3>1. ASSUME NEW j \in Jobs, Cancel(c, j)
          PROVE  UNCHANGED mem \/ \E i : Updates(i)
      BY <3>1, CancelEffect
    <3> QED BY <1>3, <3>1 DEF Client, CancelToken, CancelCopies, Copy, CancelWrites, Write,
         CancelEnds, memory
  <2> QED BY <2>1, <2>2, UpdateEffect DEF Updates
<1> QED BY <1>1, <1>2, <1>3 DEF Running

\* A full history of active jobs only leaves no room.
LEMMA FullHistory ==
  ASSUME TypeOK, OrderOK, \A i \in DOMAIN order : IsActive(order[i])
  PROVE  Len(order) <= Cardinality(Active) /\ Cardinality(Active) \in Nat
<1>1. IsFiniteSet(Active)
  BY JobsAssumption, FS_Subset DEF Active
<1>2. order \in Seq(Jobs) /\ IsInjective(order)
  BY DEF TypeOK, MemoryType, OrderOK
<1>3. \A i \in DOMAIN order : order[i] \in Active
  BY <1>2, ElementOfSeq, LenProperties DEF Active
<1> QED BY <1>1, <1>2, <1>3, ListFits

LEMMA RegisterOrder ==
  ASSUME OInv, OrderOK, RoomOK, Register
  PROVE  OrderOK'
<1> USE Parts
<1>1. /\ stager.pc = "snapshot" /\ stager.job \in Jobs
      /\ mem[stager.job] = None /\ NewRecord # None
  BY RegisterEffect DEF StagerOK
<1>2. PICK evicted, kept :
        /\ Evict(evicted, kept)
        /\ order' = Append(kept, stager.job)
        /\ mem' = [j \in Jobs |-> IF j = stager.job THEN NewRecord
                                  ELSE IF j = evicted THEN None ELSE mem[j]]
  BY DEF Register
<1>3. /\ order \in Seq(Jobs) /\ IsInjective(order) /\ Len(order) \in Nat /\ Len(order) <= MaxHistory
      /\ MaxHistory \in Nat /\ QueueDepth \in Nat /\ QueueDepth <= MaxHistory
      /\ \A j \in Jobs : Holds(order, j) <=> mem[j] # None
  BY LenProperties, DepthAssumption DEF TypeOK, MemoryType, OrderOK
<1>4. /\ kept \in Seq(Jobs) /\ IsInjective(kept) /\ Len(kept) \in Nat /\ Len(kept) + 1 <= MaxHistory
      /\ \A j \in Jobs : Holds(kept, j) <=> Holds(order, j) /\ j # evicted
  <2>1. CASE /\ Len(order) < MaxHistory \/ \A i \in DOMAIN order : IsActive(order[i])
             /\ evicted = None /\ kept = order
    <3>1. Len(order) < MaxHistory
      <4>1. CASE \A i \in DOMAIN order : IsActive(order[i])
        <5> PICK n \in Nat : n = Cardinality(Active)
          BY <4>1, FullHistory
        <5>1. Len(order) <= n /\ n < QueueDepth
          BY <1>1, <4>1, FullHistory DEF RoomOK
        <5> QED BY <5>1, <1>3
      <4> QED BY <2>1, <4>1
    <3> QED BY <1>3, <2>1, <3>1
  <2>2. CASE \E i \in DOMAIN order : evicted = order[i] /\ kept = RemoveAt(order, i)
    <3> PICK i \in DOMAIN order : evicted = order[i] /\ kept = RemoveAt(order, i)
      BY <2>2
    <3>1. /\ kept \in Seq(Jobs) /\ IsInjective(kept) /\ Len(kept) = Len(order) - 1
          /\ \A x : Holds(kept, x) <=> Holds(order, x) /\ x # evicted
      BY <1>3, RemoveOne
    <3>2. Len(kept) \in Nat
      BY <3>1, LenProperties
    <3> QED BY <1>3, <3>1, <3>2
  <2> QED BY <1>2, <2>1, <2>2 DEF Evict
<1>5. ~Holds(kept, stager.job)
  BY <1>1, <1>3, <1>4
<1>6. /\ IsInjective(order') /\ Len(order') = Len(kept) + 1
      /\ \A j \in Jobs : Holds(order', j) <=> Holds(kept, j) \/ j = stager.job
  BY <1>1, <1>2, <1>4, <1>5, AddOne
<1>7. \A j \in Jobs : mem'[j] # None <=> j = stager.job \/ (j # evicted /\ mem[j] # None)
  BY <1>1, <1>2
<1>8. \A j \in Jobs : Holds(order', j) <=> mem'[j] # None
  BY <1>3, <1>4, <1>6, <1>7
<1>9. Len(order') <= MaxHistory
  BY <1>4, <1>6
<1> QED BY <1>6, <1>8, <1>9 DEF OrderOK, Holds

LEMMA RejectOrder ==
  ASSUME OInv, OrderOK, Reject
  PROVE  OrderOK'
<1> USE Parts
<1>1. PICK i \in DOMAIN order : order[i] = stager.job /\ order' = RemoveAt(order, i)
  BY DEF Reject
<1>2. mem' = [mem EXCEPT ![stager.job] = None]
  BY DEF Reject
<1>3. /\ order \in Seq(Jobs) /\ IsInjective(order) /\ Len(order) \in Nat /\ Len(order) <= MaxHistory
      /\ MaxHistory \in Nat
      /\ \A j \in Jobs : Holds(order, j) <=> mem[j] # None
  BY LenProperties, DepthAssumption DEF TypeOK, MemoryType, OrderOK
<1>4. /\ IsInjective(order') /\ Len(order') = Len(order) - 1
      /\ \A j \in Jobs : Holds(order', j) <=> Holds(order, j) /\ j # stager.job
  BY <1>1, <1>3, RemoveOne
<1>5. \A j \in Jobs : mem'[j] # None <=> j # stager.job /\ mem[j] # None
  BY <1>2 DEF TypeOK, MemoryType
<1>6. Len(order') <= MaxHistory
  BY <1>3, <1>4
<1>7. \A j \in Jobs : Holds(order', j) <=> mem'[j] # None
  BY <1>3, <1>4, <1>5
<1> QED BY <1>4, <1>6, <1>7 DEF OrderOK, Holds

LEMMA OrderStep ==
  ASSUME OInv, OrderOK, RoomOK, Running
  PROVE  OrderOK'
<1>1. CASE Register
  BY <1>1, RegisterOrder
<1>2. CASE Reject
  BY <1>2, RejectOrder
<1>3. CASE ~Register /\ ~Reject
  BY <1>3, OrderKept DEF OrderOK, Holds
<1> QED BY <1>1, <1>2, <1>3

LEMMA RoomStep ==
  ASSUME OInv, RoomOK, Running
  PROVE  RoomOK'
<1> USE Parts
<1>1. SUFFICES ASSUME stager'.pc = "snapshot"
               PROVE  Cardinality(Active') < QueueDepth
  BY DEF RoomOK
<1>2. \A j \in Jobs : ~Enters(j)
  BY <1>1 DEF Enters, StagerTo, TypeOK, ProcessType
<1>3. Active' \subseteq Active
  <2>1. ASSUME NEW j \in Jobs, mem'[j] # None, mem'[j].state \notin Terminal
        PROVE  IsActive(j)
    BY <2>1, <1>2, ActiveBefore
  <2> QED BY <2>1 DEF Active, IsActive
<1>4. IsFiniteSet(Active)
  BY JobsAssumption, FS_Subset DEF Active
<1>5. PICK m \in Nat, n \in Nat : m = Cardinality(Active') /\ n = Cardinality(Active) /\ m <= n
  <2>1. IsFiniteSet(Active')
    BY <1>3, <1>4, FS_Subset
  <2> QED BY <1>3, <1>4, <2>1, FS_Subset, FS_CardinalityType
<1>6. n < QueueDepth
  <2>1. CASE stager.pc = "snapshot"
    BY <2>1, <1>5 DEF RoomOK
  <2>2. CASE stager.pc # "snapshot"
    <3>1. Submit
      <4>1. Submit \/ Stager
        BY <1>1, <2>2, Actors
      <4> QED BY <1>1, <4>1 DEF Stager, Register, SnapshotFails, CopyRecordAndIndex,
           WriteAdmittedRecord, WriteIndex, Reject, CommitSource, MarkWaiting, Push, StagingFails,
           StagerCopies, StagerWrites, StagerReleases, StagerTo, Answer, Staging, StagerSaving,
           IdleStager, TypeOK, ProcessType
    <3> QED BY <3>1, <1>5 DEF Submit
  <2> QED BY <2>1, <2>2
<1>7. QueueDepth \in Nat
  BY DepthAssumption
<1>8. m < QueueDepth
  BY <1>5, <1>6, <1>7
<1> QED BY <1>5, <1>8

-----------------------------------------------------------------------------
(* The index.                                                                *)

\* A record that is on disk stays there.
LEMMA RecordStays ==
  ASSUME OInv, Running \/ Restart, NEW j \in Jobs, record[j] # None
  PROVE  record'[j] # None
<1> USE Parts
<1>1. CASE Restart
  BY <1>1, RestartEffect
<1>2. CASE Running
  <2>1. record'[j] = record[j] \/ (Writing(j) /\ record'[j] = image)
    BY <1>2, Kinds DEF MemoryStep, CopyStep, WriteStep, TypeOK, DiskType
  <2>2. Writing(j) => image # None
    BY ProcAssumption DEF Writing, LockOK
  <2> QED BY <2>1, <2>2
<1> QED BY <1>1, <1>2

\* The index is written by an admission only, and is the order then.
LEMMA IndexMoves ==
  ASSUME OInv, Running
  PROVE  \/ index' = index
         \/ /\ stager.pc = "index" /\ index' = order
            /\ UNCHANGED <<mem, record>> /\ stager'.job = stager.job
<1> USE Parts
<1>1. ASSUME Worker
      PROVE  index' = index
  BY <1>1 DEF Worker, Receive, StartJob, RunJob, LoadSource, NextFrame, RenderFrame, Release,
     RecordOutcome, FinishAfterBlender, EncodeVideo, CompleteJob, MarkCancelled, FailJob,
     WorkerCopies, WorkerWrites, Write, WorkerFindsNoJob, disk
<1>2. CASE WriteIndex
  BY <1>2 DEF WriteIndex, Staging, StagerTo, TypeOK, ProcessType
<1>3. ASSUME Submit \/ Stager, ~WriteIndex
      PROVE  index' = index
  BY <1>3 DEF Submit, Stager, Register, SnapshotFails, CopyRecordAndIndex, WriteAdmittedRecord,
     Reject, CommitSource, MarkWaiting, Push, StagingFails, StagerCopies, StagerWrites,
     StagerReleases, Write, disk
<1>4. ASSUME NEW c \in Clients, Client(c)
      PROVE  index' = index
  BY <1>4 DEF Client, Cancel, CancelToken, CancelCopies, CancelWrites, Write, CancelEnds, disk
<1> QED BY <1>1, <1>2, <1>3, <1>4 DEF Running

\* An admission ends with the index written, or with the job rejected.
LEMMA AdmissionEnds ==
  ASSUME OInv, Running, stager.pc \in Admitting
  PROVE  \/ stager'.pc \in Admitting /\ stager'.job = stager.job
         \/ mem'[stager.job] = None
         \/ stager.pc = "index" /\ index' = order /\ UNCHANGED <<mem, record>>
<1> USE Parts
<1>1. CASE stager' = stager
  BY <1>1
<1>2. CASE Reject
  BY <1>2 DEF Reject, StagerOK, Admitting, TypeOK, MemoryType
<1>3. CASE WriteIndex
  BY <1>3 DEF WriteIndex, Staging, StagerTo, Admitting, TypeOK, ProcessType
<1>4. CASE CopyRecordAndIndex \/ WriteAdmittedRecord
  BY <1>4 DEF CopyRecordAndIndex, WriteAdmittedRecord, StagerTo, Admitting, TypeOK, ProcessType
<1>5. CASE \/ Submit \/ Register \/ SnapshotFails \/ CommitSource \/ MarkWaiting \/ Push
           \/ StagingFails \/ StagerCopies \/ StagerWrites \/ StagerReleases
  BY <1>5 DEF Submit, Register, SnapshotFails, CommitSource, MarkWaiting, Push, StagingFails,
     StagerCopies, StagerWrites, StagerReleases, Staging, StagerSaving, Admitting
<1> QED BY <1>1, <1>2, <1>3, <1>4, <1>5, Actors DEF Stager

\* The jobs of the order that an admission writes are all on disk.
LEMMA OrderOnDisk ==
  ASSUME OInv, OrderOK, IndexOK, stager.pc = "index", NEW j \in Jobs, Holds(order, j)
  PROVE  record[j] # None
<1>1. mem[j] # None
  BY DEF OrderOK
<1>2. CASE stager.job = j
  BY <1>2, Parts DEF StagerOK
<1>3. CASE stager.job # j
  BY <1>1, <1>3 DEF IndexOK
<1> QED BY <1>2, <1>3

LEMMA IndexStep ==
  ASSUME OInv, OrderOK, IndexOK, Running
  PROVE  IndexOK'
<1> USE Parts
<1>1. ASSUME NEW j \in Jobs, mem'[j] # None, stager'.job = j => stager'.pc \notin Admitting
      PROVE  mem[j] # None
  <2>1. ~Enters(j)
    BY <1>1 DEF Enters, StagerTo, Admitting, TypeOK, ProcessType
  <2>2. mem'[j] = mem[j] \/ Moves(j)
    BY <1>1, <2>1, Kinds DEF MemoryStep, MemoryMoves, Leaves, CopyStep, WriteStep
  <2> QED BY <1>1, <2>2 DEF Moves
<1>2. CASE index' = index
  <2>1. \A j \in Jobs : Holds(index, j) => record'[j] # None
    BY RecordStays DEF IndexOK
  <2>2. ASSUME NEW j \in Jobs, mem'[j] # None, stager'.job = j => stager'.pc \notin Admitting
        PROVE  Holds(index, j) /\ record'[j] # None
    <3>1. mem[j] # None
      BY <1>1, <2>2
    <3>2. CASE stager.job = j /\ stager.pc \in Admitting
      <4>1. stager.pc = "index" /\ index = order /\ record' = record
        BY <1>2, <2>2, <3>2, AdmissionEnds
      <4>2. Holds(index, j)
        BY <3>1, <4>1 DEF OrderOK
      <4> QED BY <4>1, <4>2 DEF IndexOK
    <3>3. CASE ~(stager.job = j /\ stager.pc \in Admitting)
      BY <3>1, <3>3, RecordStays DEF IndexOK
    <3> QED BY <3>2, <3>3
  <2>3. IsInjective(index) /\ Len(index) <= MaxHistory
    BY DEF IndexOK
  <2> QED BY <1>2, <2>1, <2>2, <2>3 DEF IndexOK, Holds
<1>3. CASE stager.pc = "index" /\ index' = order /\ UNCHANGED <<mem, record>>
  <2>1. IsInjective(order) /\ Len(order) <= MaxHistory
    BY DEF OrderOK
  <2>2. \A j \in Jobs : Holds(order, j) => record[j] # None
    BY <1>3, OrderOnDisk
  <2>3. \A j \in Jobs : mem[j] # None => Holds(order, j)
    BY DEF OrderOK
  <2> QED BY <1>3, <2>1, <2>2, <2>3 DEF IndexOK, Holds
<1> QED BY <1>2, <1>3, IndexMoves

-----------------------------------------------------------------------------
(* A restart.                                                                *)

\* What the index lists is valid, and known after a restart.
LEMMA ListedKnown ==
  ASSUME OInv, WholeOK, IndexOK
  PROVE  /\ \A j \in Jobs : j \in Known <=> Holds(index, j)
         /\ Listed = Known /\ Known \subseteq Jobs
<1> USE Parts
<1>1. index \in Seq(Jobs) /\ Len(index) \in Nat /\ DOMAIN index = 1 .. Len(index)
      /\ Len(index) <= MaxHistory /\ MaxHistory \in Nat
  BY LenProperties, DepthAssumption DEF TypeOK, DiskType, IndexOK
<1>2. (1 .. MaxHistory) \cap DOMAIN index = DOMAIN index
  BY <1>1
<1>3. Listed \subseteq Jobs /\ \A j \in Jobs : j \in Listed <=> Holds(index, j)
  BY <1>1, <1>2, ElementOfSeq DEF Listed, Holds
<1>4. \A j \in Listed : Valid(j)
  BY <1>3 DEF IndexOK, WholeOK, Whole, Valid
<1> QED BY <1>3, <1>4 DEF Known

LEMMA RestartMemory ==
  ASSUME TypeOK, Restart, Known \subseteq Jobs, \A j \in Known : record[j] # None
  PROVE  \A j \in Jobs : mem'[j] # None <=> j \in Known
<1>1. PICK q \in [1 .. Cardinality(Waiting) -> Waiting] : mem' = Booted(q)
  BY DEF Restart
<1>2. ASSUME NEW j \in Known
      PROVE  Woken(record[j]) \in Record /\ Refused(Woken(record[j])) \in Record
  BY Wakes, Refuses DEF TypeOK, DiskType
<1>3. \A j \in Jobs : mem'[j] = IF j \notin Known THEN None
                                ELSE IF j \in Dropped(q) THEN Refused(Woken(record[j]))
                                ELSE Woken(record[j])
  BY <1>1 DEF Booted, Refused, Woken, Recovered
<1> QED BY <1>2, <1>3, NoneAssumption

LEMMA OrderRestart ==
  ASSUME OInv, WholeOK, IndexOK, Restart
  PROVE  OrderOK'
<1> USE Parts
<1>1. index \in Seq(Jobs) /\ IsInjective(index) /\ Len(index) <= MaxHistory
  BY DEF TypeOK, DiskType, IndexOK
<1>2. Known \subseteq Jobs /\ \A j \in Known : Holds(index, j) /\ record[j] # None
  BY ListedKnown DEF IndexOK
<1>3. PICK n \in Nat : n = Cardinality(Known) /\ n <= Len(index)
  BY <1>1, <1>2, ListCovers
<1>4. PICK ord \in [1 .. n -> Known] : Enumerates(ord, Known, index) /\ order' = ord
  BY <1>3 DEF Restart
<1>5. DOMAIN ord = 1 .. n /\ ord \in Seq(Jobs) /\ Len(ord) = n
  <2>1. ord \in [1 .. n -> Jobs]
    BY <1>2, <1>4
  <2> QED BY <2>1, SeqDef, LenProperties
<1>6. ASSUME NEW a \in 1 .. n, NEW b \in 1 .. n, a < b
      PROVE  ord[a] # ord[b]
  <2>1. PICK i \in DOMAIN index, k \in DOMAIN index : i < k /\ index[i] = ord[a] /\ index[k] = ord[b]
    BY <1>4, <1>5, <1>6 DEF Enumerates
  <2>2. i # k
    BY <1>1, <2>1, LenProperties
  <2> QED BY <1>1, <2>1, <2>2 DEF IsInjective
<1>7. IsInjective(ord)
  BY <1>5, <1>6 DEF IsInjective
<1>8. \A j \in Jobs : Holds(ord, j) <=> j \in Known
  BY <1>4 DEF Enumerates, Holds
<1>9. \A j \in Jobs : mem'[j] # None <=> j \in Known
  BY <1>2, RestartMemory
<1>10. Len(ord) <= MaxHistory
  BY <1>1, <1>3, <1>5, LenProperties, DepthAssumption
<1> QED BY <1>4, <1>7, <1>8, <1>9, <1>10 DEF OrderOK, Holds

LEMMA IndexRestart ==
  ASSUME OInv, WholeOK, IndexOK, Restart
  PROVE  IndexOK'
<1> USE Parts
<1>1. \A j \in Jobs : Holds(index, j) => record'[j] # None
  BY RecordStays DEF IndexOK
<1>2. \A j \in Jobs : mem'[j] # None => Holds(index, j)
  BY ListedKnown, RestartMemory DEF IndexOK
<1>3. index' = index /\ IsInjective(index) /\ Len(index) <= MaxHistory
  BY DEF Restart, IndexOK
<1> QED BY <1>1, <1>2, <1>3 DEF IndexOK, Holds

-----------------------------------------------------------------------------
(* The accepted submissions.                                                 *)

LEMMA AcceptedMoves ==
  ASSUME OInv, Running
  PROVE  \/ accepted' = accepted
         \/ /\ accepted' = accepted \cup {stager.job} /\ stager' = IdleStager
            /\ stager.pc \in {"enqueue", "push", "release"}
<1> USE Parts
<1>1. ASSUME Worker
      PROVE  accepted' = accepted
  BY <1>1 DEF Worker, Receive, StartJob, RunJob, LoadSource, NextFrame, RenderFrame, Release,
     RecordOutcome, FinishAfterBlender, EncodeVideo, CompleteJob, MarkCancelled, FailJob,
     WorkerCopies, WorkerWrites, WorkerFindsNoJob, history
<1>2. CASE MarkWaiting \/ Push \/ StagerReleases
  BY <1>2 DEF MarkWaiting, Push, StagerReleases, Answer, Staging, history
<1>3. CASE \/ Submit \/ Register \/ SnapshotFails \/ CopyRecordAndIndex \/ WriteAdmittedRecord
           \/ WriteIndex \/ Reject \/ CommitSource \/ StagingFails \/ StagerCopies \/ StagerWrites
  BY <1>3 DEF Submit, Register, SnapshotFails, CopyRecordAndIndex, WriteAdmittedRecord, WriteIndex,
     Reject, CommitSource, StagingFails, StagerCopies, StagerWrites, history
<1>4. ASSUME NEW c \in Clients, Client(c)
      PROVE  accepted' = accepted
  BY <1>4 DEF Client, Cancel, CancelToken, CancelCopies, CancelWrites, CancelEnds, history
<1> QED BY <1>1, <1>2, <1>3, <1>4 DEF Running, Stager

LEMMA AcceptedStep ==
  ASSUME OInv, AcceptedOK, Running
  PROVE  AcceptedOK'
<1> USE Parts
<1>1. accepted \subseteq Jobs
  BY DEF TypeOK, HistoryType
<1>2. ASSUME accepted' = accepted
      PROVE  AcceptedOK'
  <2>1. \A j \in accepted : record'[j] # None
    BY <1>1, RecordStays DEF AcceptedOK
  <2>2. stager'.pc # "idle" => stager'.job \notin accepted
    <3>1. CASE stager' = IdleStager
      BY <3>1 DEF IdleStager
    <3>2. CASE UNCHANGED stager \/ (stager.pc # "idle" /\ stager'.job = stager.job)
      BY <3>2 DEF AcceptedOK
    <3>3. CASE record[stager'.job] = None
      BY <3>3 DEF AcceptedOK
    <3> QED BY <3>1, <3>2, <3>3, StagersJob
  <2> QED BY <1>2, <2>1, <2>2 DEF AcceptedOK
<1>3. ASSUME accepted' = accepted \cup {stager.job}, stager' = IdleStager,
             stager.pc \in {"enqueue", "push", "release"}
      PROVE  AcceptedOK'
  <2>1. stager.job \in Jobs /\ record[stager.job] # None
    BY <1>3 DEF StagerOK
  <2>2. \A j \in accepted' : record'[j] # None
    BY <1>1, <1>3, <2>1, RecordStays DEF AcceptedOK
  <2> QED BY <1>3, <2>2 DEF AcceptedOK, IdleStager
<1> QED BY <1>2, <1>3, AcceptedMoves

LEMMA AcceptedRestart ==
  ASSUME OInv, AcceptedOK, Restart
  PROVE  AcceptedOK'
<1>1. accepted \subseteq Jobs
  BY Parts DEF TypeOK, HistoryType
<1>2. \A j \in accepted : record'[j] # None
  BY <1>1, RecordStays DEF AcceptedOK
<1> QED BY <1>2 DEF Restart, AcceptedOK, IdleStager

-----------------------------------------------------------------------------
(* The invariant.                                                            *)

LEMMA HistoryInit ==
  ASSUME Init
  PROVE  HInv
<1> USE JobsAssumption, ProcAssumption, DepthAssumption
<1>1. /\ \A j \in Jobs : mem[j] = None /\ record[j] = None /\ ~Writing(j)
      /\ worker = IdleWorker /\ stager = IdleStager /\ accepted = {}
      /\ order = <<>> /\ index = <<>>
  BY DEF Init, Writing
<1>2. \A j \in Jobs : ~Holds(<<>>, j)
  BY DEF Holds
<1>3. IsInjective(<<>>) /\ Len(<<>>) <= MaxHistory
  BY DEF IsInjective
<1>4. OrderOK /\ IndexOK
  BY <1>1, <1>2, <1>3 DEF OrderOK, IndexOK
<1> QED BY <1>1, <1>4 DEF HInv, WholeOK, LoopOK, ToldOK, RoomOK, AcceptedOK, IsActive, IdleWorker,
     IdleStager

LEMMA HistoryStep ==
  ASSUME OInv, HInv, [Next]_vars
  PROVE  HInv'
<1>1. WholeOK /\ LoopOK /\ ToldOK /\ RoomOK /\ OrderOK /\ IndexOK /\ AcceptedOK
  BY DEF HInv
<1>2. CASE Running
  BY <1>1, <1>2, WholeStep, LoopStep, ToldStep, RoomStep, OrderStep, IndexStep, AcceptedStep
     DEF HInv
<1>3. CASE Restart
  <2>1. LoopOK' /\ RoomOK'
    BY <1>3 DEF Restart, LoopOK, RoomOK, IdleWorker, IdleStager
  <2> QED BY <1>1, <1>3, <2>1, WholeRestart, ToldRestart, OrderRestart, IndexRestart,
       AcceptedRestart DEF HInv
<1>4. CASE UNCHANGED vars
  BY <1>1, <1>4 DEF HInv, WholeOK, Whole, LoopOK, ToldOK, RoomOK, OrderOK, IndexOK, AcceptedOK,
     Holds, Writing, Total, IsActive, Active, IsInjective, vars, memory, disk, history
<1> QED BY <1>2, <1>3, <1>4 DEF Next, Running

\* HInv is an invariant of the registry.
THEOREM HistoryInvariance == Spec => []HInv
<1>1. Init => HInv
  BY HistoryInit
<1>2. OInv /\ HInv /\ [Next]_vars => HInv'
  BY HistoryStep
<1> QED BY <1>1, <1>2, OutcomesInvariance, PTL DEF Spec

\* The history can be read back: whichever writes failed before, a restart finds
\* an index that fits, repeats no job and lists only jobs with a valid record,
\* so that recovery is never blocked once an index exists.
THEOREM HistoryReadBack == Spec => []HistoryReadable
<1>1. ASSUME OInv, HInv
      PROVE  HistoryReadable
  <2>1. WholeOK /\ IndexOK
    BY <1>1 DEF HInv
  <2>2. Len(index) <= MaxHistory /\ IsInjective(index)
    BY <2>1 DEF IndexOK
  <2>3. ~(Len(index) > MaxHistory)
    BY <2>2, LenProperties, DepthAssumption, <1>1, Parts DEF TypeOK, DiskType
  <2>4. \A j \in Listed : Valid(j)
    BY <1>1, <2>1, ListedKnown DEF Known
  <2> QED BY <2>2, <2>3, <2>4 DEF HistoryReadable, Unreadable
<1> QED BY <1>1, OutcomesInvariance, HistoryInvariance, PTL

\* No step between two restarts makes the registry forget an active job whose
\* submission was answered: an eviction takes an ended job, a rejection takes
\* one whose submission fails.
LEMMA StepKeeps ==
  ASSUME OInv, HInv, Running, NEW j \in accepted, IsActive(j)
  PROVE  mem'[j] # None
<1> USE Parts
<1>1. j \in Jobs /\ mem[j] # None
  BY DEF TypeOK, HistoryType, IsActive
<1>2. mem'[j] = mem[j] \/ Moves(j) \/ Leaves(j) \/ Enters(j)
  BY <1>1, Kinds DEF MemoryStep, MemoryMoves, CopyStep, WriteStep
<1>3. ~Leaves(j)
  BY DEF Leaves, Staging, HInv, AcceptedOK
<1>4. ~Enters(j)
  BY <1>1 DEF Enters
<1> QED BY <1>1, <1>2, <1>3, <1>4 DEF Moves

\* Nor does a restart: the index lists the job, and its record is valid.
LEMMA RestartKeeps ==
  ASSUME OInv, HInv, Restart, NEW j \in accepted, IsActive(j)
  PROVE  mem'[j] # None
<1> USE Parts
<1>1. j \in Jobs /\ mem[j] # None
  BY DEF TypeOK, HistoryType, IsActive
<1>2. WholeOK /\ IndexOK /\ AcceptedOK
  BY DEF HInv
<1>3. stager.job = j => stager.pc \notin Admitting
  BY <1>2 DEF AcceptedOK, Admitting
<1>4. Holds(index, j)
  BY <1>1, <1>2, <1>3 DEF IndexOK
<1>5. j \in Known /\ Known \subseteq Jobs /\ \A i \in Known : record[i] # None
  BY <1>1, <1>2, <1>4, ListedKnown DEF IndexOK
<1> QED BY <1>1, <1>5, RestartMemory

\* An accepted job that has not ended stays known through every eviction and
\* every restart, whichever writes failed: for any number of jobs, clients and
\* restarts, and every size of the history.
THEOREM NoneForgotten == Spec => NoJobForgotten
<1>1. ASSUME OInv, HInv, [Next]_vars, NEW j \in accepted, IsActive(j)
      PROVE  mem'[j] # None
  <2>1. CASE UNCHANGED vars
    BY <1>1, <2>1 DEF vars, memory, IsActive
  <2> QED BY <1>1, <2>1, StepKeeps, RestartKeeps DEF Next, Running
<1>2. OInv /\ HInv /\ [Next]_vars => [\A j \in accepted : IsActive(j) => mem'[j] # None]_vars
  BY <1>1
<1> QED BY <1>2, OutcomesInvariance, HistoryInvariance, PTL DEF Spec, NoJobForgotten

=============================================================================
