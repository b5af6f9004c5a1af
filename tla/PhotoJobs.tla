------------------------------- MODULE PhotoJobs -------------------------------
(***************************************************************************)
(* Retained photograph jobs (recon/photo_jobs.rs, recon.rs,                 *)
(* recon/trellis.rs).  A submission saves its input, its record and the      *)
(* index, in this order and under the mutex of the store; then a task goes   *)
(* through the phases of its model, one native process after the other, and  *)
(* publishes the mesh.  Phases are written before they are begun, so that a  *)
(* restart, which replays nothing, can tell what may have happened.          *)
(*                                                                         *)
(* A write that fails may have replaced the file nevertheless: what failed   *)
(* may be the synchronisation of its directory.                             *)
(***************************************************************************)
EXTENDS Naturals, FiniteSets, SequencesExt

CONSTANTS
  Jobs,         \* job identifiers
  Trellis,      \* the jobs that ask for TRELLIS.2; the others ask for Pixal3D
  Direct,       \* a request that is not a job: depth, head reconstruction, object
  None,
  Depths,       \* values of PRINTABLE_RECON_PHOTO_QUEUE_DEPTH
  MaxFaults,    \* bound: failures of storage operations
  MaxRestarts   \* bound: restarts of the worker

ASSUME PhotoAssumption ==
  /\ Trellis \subseteq Jobs /\ {Direct, None} \cap Jobs = {}
  /\ Direct # None
  /\ Depths \subseteq Nat \ {0} /\ MaxFaults \in Nat /\ MaxRestarts \in Nat

VARIABLES
  index,        \* index.json: job identifiers; an absent index is empty
  file,         \* [Jobs -> Record or None]: job.json
  input,        \* jobs whose photograph is retained
  mesh,         \* jobs whose mesh was put at its destination
  ready,        \* Store.lease: the history was read
  order,        \* Store.order
  records,      \* [Jobs -> Record or None]: Store.records
  active,       \* Store.active
  cancelled,    \* jobs whose CancellationToken is cancelled
  mutex,        \* the submission that has the store locked, or None
  task,         \* [Jobs -> [pc, phase, outcome]]: submissions, then their tasks
  lane,         \* who has the GPU's permit (ReconWorker.admission), or None
  procs,        \* whose native process runs, or was killed and is waited for
  depth,        \* photo_queue_depth since the worker was started
  faults, restarts

disk   == <<index, file, input, mesh>>
memory == <<ready, order, records, active, cancelled>>
gpu    == <<lane, procs>>
bounds == <<depth, faults, restarts>>
vars   == <<disk, memory, mutex, task, gpu, bounds>>

-----------------------------------------------------------------------------
(* Records.                                                                *)

States  == {"queued", "running", "succeeded", "failed", "cancelled", "interrupted",
            "outcome_unknown"}
Phases  == {"queued", "preparing_models", "waiting_for_gpu", "foreground", "generating",
            "delivering", "publishing", "finished"}
Record  == [state : States, phase : Phases, cancel : BOOLEAN]

Terminal(r) == r.state \notin {"queued", "running"}
NewRecord   == [state |-> "queued", phase |-> "queued", cancel |-> FALSE]

ASSUME NoneAssumption == None \notin Record

\* The phases of a task in turn.  After a phase with a native process comes the
\* next one; waiting_for_gpu takes the lane, publishing commits the mesh.
PhasesOf(j) ==
  IF j \in Trellis
  THEN <<"preparing_models", "waiting_for_gpu", "foreground", "generating", "delivering",
         "publishing">>
  ELSE <<"waiting_for_gpu", "generating", "publishing">>

NextPhase(j, phase) ==
  LET p == PhasesOf(j) IN p[1 + CHOOSE i \in DOMAIN p : p[i] = phase]

Idle      == mutex = None
Fault     == faults < MaxFaults /\ faults' = faults + 1
At(j, pc) == task[j].pc = pc
GoTo(j, pc) == task' = [task EXCEPT ![j].pc = pc]
EnterNext(j, phase) == task' = [task EXCEPT ![j].pc = "enter", ![j].phase = phase]

\* Mutant of End: the permit stays with a task that was not run to its end.
EndUnreturned(j, outcome) ==
  /\ task' = [task EXCEPT ![j].pc = "end", ![j].outcome = outcome]
  /\ lane' = IF lane = j /\ outcome = "ok" THEN None ELSE lane

\* The task is over, but for the record; the permit goes with its future.
End(j, outcome) ==
  /\ task' = [task EXCEPT ![j].pc = "end", ![j].outcome = outcome]
  /\ lane' = IF lane = j THEN None ELSE lane

\* persist: writes job.json.
Persist(j, r, ok) ==
  \/ ok /\ file' = [file EXCEPT ![j] = r] /\ UNCHANGED faults
  \/ ~ok /\ Fault /\ file' \in {file, [file EXCEPT ![j] = r]}

-----------------------------------------------------------------------------
(* initialize: called at the start and by every operation until it succeeds. *)
(* Unfinished jobs are settled one by one, each in its file first.           *)

Settled(r) ==
  IF Terminal(r) THEN r
  ELSE [r EXCEPT !.state = IF r.phase = "publishing" THEN "outcome_unknown" ELSE "interrupted"]

Initialize ==
  /\ ~ready /\ Idle
  /\ LET settled(n) == [j \in Jobs |-> IF (\E i \in 1..n : index[i] = j) /\ file[j] # None
                                       THEN Settled(file[j]) ELSE file[j]]
     IN \/ /\ \A i \in DOMAIN index : file[index[i]] # None
           /\ file' = settled(Len(index))
           /\ ready' = TRUE /\ order' = index
           /\ records' = [j \in Jobs |-> IF \E i \in DOMAIN index : index[i] = j
                                         THEN file'[j] ELSE None]
           /\ UNCHANGED faults
        \/ /\ Fault /\ \E n \in 0..Len(index) : file' = settled(n)
           /\ UNCHANGED <<ready, order, records>>
  /\ UNCHANGED <<index, input, mesh, active, cancelled, mutex, task, gpu, depth, restarts>>

-----------------------------------------------------------------------------
(* submit_object.                                                          *)

\* There is room; the photograph is copied without the lock.
Submit(j) ==
  /\ At(j, "new") /\ ready /\ Idle
  /\ Cardinality(active) < depth
  /\ GoTo(j, "snapshot")
  /\ UNCHANGED <<disk, memory, mutex, gpu, bounds>>

\* Mutant of Admit: relies on the first check.
AdmitUnchecked(j) ==
  /\ At(j, "snapshot") /\ Idle
  /\ mutex' = j /\ GoTo(j, "input")
  /\ UNCHANGED <<disk, memory, gpu, bounds>>

\* The lock is taken, and it is checked again that there is room.
Admit(j) ==
  /\ At(j, "snapshot") /\ Idle
  /\ IF Cardinality(active) < depth
     THEN mutex' = j /\ GoTo(j, "input")
     ELSE GoTo(j, "gone") /\ UNCHANGED mutex
  /\ UNCHANGED <<disk, memory, gpu, bounds>>

SaveInput(j) ==
  /\ At(j, "input")
  /\ \/ input' = input \cup {j} /\ GoTo(j, "record") /\ UNCHANGED faults
     \/ Fault /\ input' \in {input, input \cup {j}} /\ GoTo(j, "refused")
  /\ UNCHANGED <<index, file, mesh, memory, mutex, gpu, depth, restarts>>

SaveRecord(j) ==
  /\ At(j, "record")
  /\ \E ok \in BOOLEAN : /\ Persist(j, NewRecord, ok)
                         /\ GoTo(j, IF ok THEN "index" ELSE "refused")
  /\ UNCHANGED <<index, input, mesh, memory, mutex, gpu, depth, restarts>>

\* Mutant of SaveIndex: started whatever became of the index.
SaveIndexAnyhow(j) ==
  /\ At(j, "index")
  /\ \/ index' = Append(order, j) /\ UNCHANGED faults
     \/ Fault /\ UNCHANGED index
  /\ order' = Append(order, j)
  /\ records' = [records EXCEPT ![j] = NewRecord]
  /\ active' = active \cup {j}
  /\ mutex' = None
  /\ EnterNext(j, PhasesOf(j)[1])
  /\ UNCHANGED <<file, input, mesh, ready, cancelled, gpu, depth, restarts>>

\* The job is listed, known and started: the submission answers with its id.
SaveIndex(j) ==
  /\ At(j, "index")
  /\ \/ /\ index' = Append(order, j) /\ order' = Append(order, j)
        /\ records' = [records EXCEPT ![j] = NewRecord]
        /\ active' = active \cup {j}
        /\ mutex' = None
        /\ EnterNext(j, PhasesOf(j)[1])
        /\ UNCHANGED faults
     \/ /\ Fault /\ index' \in {index, Append(order, j)}
        /\ GoTo(j, "refused")
        /\ UNCHANGED <<order, records, active, mutex>>
  /\ UNCHANGED <<file, input, mesh, ready, cancelled, gpu, depth, restarts>>

\* A step failed.  What the index on disk may refer to is not removed.
Refused(j) ==
  /\ At(j, "refused")
  /\ \/ /\ GoTo(j, IF \E i \in DOMAIN index : index[i] = j THEN "uncertain" ELSE "unrecord")
        /\ UNCHANGED faults
     \/ Fault /\ GoTo(j, "uncertain")
  /\ UNCHANGED <<disk, memory, mutex, gpu, depth, restarts>>

\* The record and the input go.  If both went the submission answers with the
\* error; otherwise the job is kept as one of unknown outcome.
RemoveRecord(j) ==
  /\ At(j, "unrecord")
  /\ \/ file' = [file EXCEPT ![j] = None] /\ GoTo(j, "uninput") /\ UNCHANGED faults
     \/ Fault /\ file' \in {file, [file EXCEPT ![j] = None]} /\ GoTo(j, "uninput_uncertain")
  /\ UNCHANGED <<index, input, mesh, memory, mutex, gpu, depth, restarts>>

RemoveInput(j) ==
  /\ At(j, "uninput") \/ At(j, "uninput_uncertain")
  /\ \/ /\ input' = input \ {j} /\ UNCHANGED faults
        /\ IF At(j, "uninput") THEN GoTo(j, "gone") /\ mutex' = None
                               ELSE GoTo(j, "uncertain") /\ UNCHANGED mutex
     \/ /\ Fault /\ input' \in {input, input \ {j}}
        /\ GoTo(j, "uncertain") /\ UNCHANGED mutex
  /\ UNCHANGED <<index, file, mesh, memory, gpu, depth, restarts>>

Uncertain(j) ==
  LET r == [NewRecord EXCEPT !.state = "outcome_unknown"] IN
  /\ At(j, "uncertain")
  /\ \E ok \in BOOLEAN : Persist(j, r, ok)
  /\ order' = Append(order, j)
  /\ records' = [records EXCEPT ![j] = r]
  /\ mutex' = None /\ GoTo(j, "gone")
  /\ UNCHANGED <<index, input, mesh, ready, active, cancelled, gpu, depth, restarts>>

-----------------------------------------------------------------------------
(* The task: generate_object_controlled and generate_trellis.               *)

\* Mutant of Enter: phases are kept in memory.
EnterUnsaved(j) ==
  /\ At(j, "enter") /\ Idle
  /\ IF records[j].cancel \/ j \in cancelled
     THEN End(j, "cancelled") /\ UNCHANGED records
     ELSE /\ records' = [records EXCEPT ![j].state = "running", ![j].phase = task[j].phase]
          /\ GoTo(j, CASE task[j].phase = "waiting_for_gpu" -> "lane"
                       [] task[j].phase = "publishing" -> "publish"
                       [] OTHER -> "spawn")
          /\ UNCHANGED lane
  /\ UNCHANGED <<disk, ready, order, active, cancelled, mutex, procs, bounds>>

\* JobControl::enter: the phase is written before it is begun.
Enter(j) ==
  /\ At(j, "enter") /\ Idle
  /\ IF records[j].cancel \/ j \in cancelled
     THEN End(j, "cancelled") /\ UNCHANGED <<file, records, faults>>
     ELSE LET r == [records[j] EXCEPT !.state = "running", !.phase = task[j].phase] IN
          \/ /\ Persist(j, r, TRUE)
             /\ records' = [records EXCEPT ![j] = r]
             /\ GoTo(j, CASE task[j].phase = "waiting_for_gpu" -> "lane"
                          [] task[j].phase = "publishing" -> "publish"
                          [] OTHER -> "spawn")
             /\ UNCHANGED lane
          \/ /\ Persist(j, r, FALSE)
             /\ End(j, "io") /\ UNCHANGED records
  /\ UNCHANGED <<index, input, mesh, ready, order, active, cancelled, mutex, procs, depth, restarts>>

\* Whatever else fails before a process or the publication: the destination is
\* taken, the snapshot is refused, the deadline of all processes has passed.
Fails(j) ==
  /\ At(j, "enter") \/ At(j, "spawn")
  /\ End(j, "other")
  /\ UNCHANGED <<disk, memory, mutex, procs, bounds>>

\* job_permit: cancellation is looked at first.
Lane(j) ==
  /\ At(j, "lane")
  /\ \/ j \in cancelled /\ End(j, "cancelled")
     \/ /\ j \notin cancelled /\ lane = None
        /\ lane' = j /\ EnterNext(j, NextPhase(j, "waiting_for_gpu"))
  /\ UNCHANGED <<disk, memory, mutex, procs, bounds>>

\* run_command: one process in its own group.
Spawn(j) ==
  /\ At(j, "spawn")
  /\ IF j \in cancelled
     THEN End(j, "cancelled") /\ UNCHANGED procs
     ELSE GoTo(j, "process") /\ procs' = procs \cup {j} /\ UNCHANGED lane
  /\ UNCHANGED <<disk, memory, mutex, bounds>>

ProcessSucceeds(j) ==
  /\ At(j, "process")
  /\ procs' = procs \ {j}
  /\ EnterNext(j, NextPhase(j, task[j].phase))
  /\ UNCHANGED <<disk, memory, mutex, lane, bounds>>

\* It failed, or waiting for it failed, which kills it and waits no longer.
ProcessFails(j) ==
  /\ At(j, "process")
  /\ \/ End(j, "other") /\ procs' = procs \ {j} /\ UNCHANGED faults
     \/ End(j, "io") /\ procs' = procs \ {j} /\ Fault
  /\ UNCHANGED <<disk, memory, mutex, depth, restarts>>

\* Mutant of Kill: the lane is given back with the signal.
KillOnly(j) ==
  /\ At(j, "process")
  /\ \E why \in {"cancelled", "other"} :
       /\ why = "cancelled" => j \in cancelled
       /\ task' = [task EXCEPT ![j].pc = "killed", ![j].outcome = why]
  /\ lane' = IF lane = j THEN None ELSE lane
  /\ UNCHANGED <<disk, memory, mutex, procs, bounds>>

\* Cancelled or out of time: it is killed, and the lane kept until it exits.
Kill(j) ==
  /\ At(j, "process")
  /\ \E why \in {"cancelled", "other"} :
       /\ why = "cancelled" => j \in cancelled
       /\ task' = [task EXCEPT ![j].pc = "killed", ![j].outcome = why]
  /\ UNCHANGED <<disk, memory, mutex, gpu, bounds>>

KilledExits(j) ==
  /\ At(j, "killed")
  /\ procs' = procs \ {j}
  /\ End(j, task[j].outcome)
  /\ UNCHANGED <<disk, memory, mutex, bounds>>

\* commit_generated_artifact and the digest: only input and output errors can
\* follow the moment when the mesh is at its destination.
Publish(j) ==
  /\ At(j, "publish")
  /\ \/ mesh' = mesh \cup {j} /\ End(j, "ok") /\ UNCHANGED faults
     \/ mesh' = mesh /\ End(j, "other") /\ UNCHANGED faults
     \/ mesh' \in {mesh, mesh \cup {j}} /\ End(j, "io") /\ Fault
  /\ UNCHANGED <<index, file, input, memory, mutex, procs, depth, restarts>>

\* finish: the last record.
Final(r, outcome) ==
  IF outcome = "ok" THEN [r EXCEPT !.state = "succeeded", !.phase = "finished"]
  ELSE [r EXCEPT !.state = IF r.phase = "publishing" /\ outcome = "io" THEN "outcome_unknown"
                           ELSE IF outcome = "cancelled" THEN "cancelled" ELSE "failed"]

Finish(j) ==
  /\ At(j, "end") /\ Idle
  /\ LET r == Final(records[j], task[j].outcome) IN
     \/ Persist(j, r, TRUE) /\ records' = [records EXCEPT ![j] = r]
     \/ /\ Persist(j, r, FALSE)
        /\ records' = [records EXCEPT ![j] = [r EXCEPT !.state = "outcome_unknown"]]
  /\ active' = active \ {j}
  /\ GoTo(j, "gone")
  /\ UNCHANGED <<index, input, mesh, ready, order, cancelled, mutex, gpu, depth, restarts>>

-----------------------------------------------------------------------------
(* cancel: a client's, until publication begins.                            *)

\* Mutant of Cancel: looks at the state only.
CancelLate(j) ==
  /\ ready /\ Idle /\ records[j] # None
  /\ ~Terminal(records[j])
  /\ LET r == [records[j] EXCEPT !.cancel = TRUE] IN
     /\ \E ok \in BOOLEAN : Persist(j, r, ok)
     /\ records' = [records EXCEPT ![j] = r]
  /\ cancelled' = cancelled \cup ({j} \cap active)
  /\ UNCHANGED <<index, input, mesh, ready, order, active, mutex, task, gpu, depth, restarts>>

\* Mutant of Cancel: looks at the phase only.
CancelFinished(j) ==
  /\ ready /\ Idle /\ records[j] # None
  /\ records[j].phase # "publishing"
  /\ LET r == [records[j] EXCEPT !.cancel = TRUE] IN
     /\ \E ok \in BOOLEAN : Persist(j, r, ok)
     /\ records' = [records EXCEPT ![j] = r]
  /\ cancelled' = cancelled \cup ({j} \cap active)
  /\ UNCHANGED <<index, input, mesh, ready, order, active, mutex, task, gpu, depth, restarts>>

Cancel(j) ==
  /\ ready /\ Idle /\ records[j] # None
  /\ ~Terminal(records[j]) /\ records[j].phase # "publishing"
  /\ LET r == [records[j] EXCEPT !.cancel = TRUE] IN
     /\ \E ok \in BOOLEAN : Persist(j, r, ok)
     /\ records' = [records EXCEPT ![j] = r]
  /\ cancelled' = cancelled \cup ({j} \cap active)
  /\ UNCHANGED <<index, input, mesh, ready, order, active, mutex, task, gpu, depth, restarts>>

-----------------------------------------------------------------------------
(* Requests that are not jobs take the lane if nobody waits for it, and run  *)
(* a process for as long as their client waits.                             *)

DirectStarts ==
  /\ lane = None /\ ~\E j \in Jobs : At(j, "lane") /\ j \notin cancelled
  /\ lane' = Direct /\ procs' = procs \cup {Direct}
  /\ UNCHANGED <<disk, memory, mutex, task, bounds>>

\* The process ends; or the client goes away, and it is killed.
DirectEnds ==
  /\ lane = Direct
  /\ lane' = None /\ procs' = procs \ {Direct}
  /\ UNCHANGED <<disk, memory, mutex, task, bounds>>

\* The worker stops at any point, and starts again with nothing but the disk.
Restart ==
  /\ restarts < MaxRestarts
  /\ restarts' = restarts + 1
  /\ ready' = FALSE /\ order' = <<>> /\ records' = [j \in Jobs |-> None]
  /\ active' = {} /\ cancelled' = {} /\ mutex' = None
  /\ task' = [j \in Jobs |-> IF At(j, "new") THEN task[j] ELSE [task[j] EXCEPT !.pc = "gone"]]
  /\ lane' = None /\ procs' = {}
  /\ depth' \in Depths
  /\ UNCHANGED <<disk, faults>>

-----------------------------------------------------------------------------
(* Specification.                                                          *)

Init ==
  /\ index = <<>> /\ file = [j \in Jobs |-> None] /\ input = {} /\ mesh = {}
  /\ ready = FALSE /\ order = <<>> /\ records = [j \in Jobs |-> None]
  /\ active = {} /\ cancelled = {} /\ mutex = None
  /\ task = [j \in Jobs |-> [pc |-> "new", phase |-> "queued", outcome |-> "none"]]
  /\ lane = None /\ procs = {}
  /\ depth \in Depths /\ faults = 0 /\ restarts = 0

Admission(j) == \/ Admit(j) \/ SaveInput(j) \/ SaveRecord(j) \/ SaveIndex(j)
                \/ Refused(j) \/ RemoveRecord(j) \/ RemoveInput(j) \/ Uncertain(j)

Run(j) == \/ Enter(j) \/ Fails(j) \/ Spawn(j) \/ ProcessSucceeds(j) \/ ProcessFails(j)
          \/ Kill(j) \/ KilledExits(j) \/ Publish(j) \/ Finish(j)

Next ==
  \/ Initialize \/ Restart
  \/ \E j \in Jobs : Submit(j) \/ Admission(j) \/ Run(j) \/ Lane(j) \/ Cancel(j)
  \/ DirectStarts \/ DirectEnds

Spec == Init /\ [][Next]_vars

(* Tasks run; processes end or run into their deadline; a permit that is     *)
(* given back goes to who waits for it; clients ask until the history is read. *)
Fairness ==
  /\ WF_vars(Initialize) /\ WF_vars(DirectEnds)
  /\ \A j \in Jobs : WF_vars(Admission(j)) /\ WF_vars(Run(j)) /\ WF_vars(Lane(j))

FairSpec == Spec /\ Fairness

-----------------------------------------------------------------------------
(* Properties.                                                             *)

AdmissionPc == {"input", "record", "index", "refused", "unrecord", "uninput",
                "uninput_uncertain", "uncertain"}
TaskPc      == {"enter", "lane", "spawn", "process", "killed", "publish", "end"}
Outcomes    == {"none", "ok", "io", "other", "cancelled"}

(* At most depth jobs are admitted, however many submissions have passed the *)
(* first check (photo_queue_depth).                                         *)
QueueIsBounded == Cardinality(active) <= depth

TypeOK ==
  /\ index \in Seq(Jobs) /\ order \in Seq(Jobs)
  /\ file \in [Jobs -> Record \cup {None}] /\ records \in [Jobs -> Record \cup {None}]
  /\ input \subseteq Jobs /\ mesh \subseteq Jobs
  /\ ready \in BOOLEAN /\ cancelled \subseteq Jobs
  /\ active \subseteq Jobs /\ QueueIsBounded
  /\ mutex \in Jobs \cup {None}
  /\ task \in [Jobs -> [pc : {"new", "snapshot", "gone"} \cup AdmissionPc \cup TaskPc,
                        phase : Phases, outcome : Outcomes]]
  /\ lane \in Jobs \cup {Direct, None} /\ procs \subseteq Jobs \cup {Direct}
  /\ depth \in Depths /\ faults \in Nat /\ restarts \in Nat

\* What a record says of the mesh.
Truthful(j, r) ==
  /\ r.state = "succeeded" => j \in mesh
  /\ r.state \in {"failed", "cancelled", "interrupted"} => j \notin mesh

(* What a client is told of a job that is over is what happened: a job that  *)
(* succeeded has put its mesh there, a job that failed, was cancelled or was *)
(* interrupted has not, and a record left behind by a stop says no more than *)
(* is known (docs/photo-object.md, Retained generation jobs).                *)
OutcomesAreTrue ==
  \A j \in Jobs : /\ file[j] # None => Truthful(j, Settled(file[j]))
                  /\ records[j] # None => Truthful(j, records[j])

(* A cancellation that was accepted is kept: the mesh is not published, on    *)
(* whatever step of the task the request falls (photo_jobs.rs, cancel/enter). *)
CancellationIsKept ==
  \A j \in Jobs : records[j] # None /\ records[j].cancel => j \notin mesh

(* A job that is in the works is in the index, with its record and its       *)
(* photograph, whatever failed for other submissions: a restart finds it.    *)
AcceptedIsKept ==
  \A j \in active : /\ j \in Range(index) /\ j \in input
                    /\ file[j] # None /\ ~Terminal(records[j])

(* Two processes never use the GPU at the same time, counting those that     *)
(* were killed and have not exited (run_command: "Keep the GPU lane until the *)
(* killed process has actually exited").  A process that is killed because    *)
(* its client went away is not waited for by the code, and not counted here.  *)
UsesGpu(p)   == p = Direct \/ (p \in Jobs /\ task[p].phase # "preparing_models")
OneOnTheGpu  == Cardinality({p \in procs : UsesGpu(p)}) <= 1

(* The last word on a job stays, also over restarts: no later request, task  *)
(* or restart changes a record that is over, and what clients are told is    *)
(* what a restart would read.  Only an unknown outcome may become known.     *)
LastWord(r) == r # None /\ Terminal(r) /\ r.state # "outcome_unknown"

LastWordStays  == [][\A j \in Jobs : LastWord(file[j]) => file'[j] = file[j]]_vars
LastWordIsKept == \A j \in Jobs : LastWord(records[j]) => file[j] = records[j]

(* Every record that the index lists can be read; initialize gives up on the *)
(* whole history otherwise (photo_jobs.rs: "Never remove evidence that the   *)
(* on-disk index could reference").                                         *)
IndexedIsRecorded == \A i \in DOMAIN index : file[index[i]] # None

(* The history is kept: whoever was accepted, what the index lists, and the   *)
(* last word on each job are on the disk, so that a restart knows them.      *)
HistoryIsKept == AcceptedIsKept /\ IndexedIsRecorded /\ LastWordIsKept

(* Every accepted job is over at some time, whatever the other jobs, clients *)
(* and direct requests do, and after a restart as well.                      *)
EveryJobEnds ==
  \A j \in Jobs : j \in active ~> records[j] # None /\ Terminal(records[j])

=============================================================================
