---------------------------- MODULE PhotoJobsProofs ----------------------------
(***************************************************************************)
(* What holds of PhotoJobs for every set of jobs, every depth of the queue,   *)
(* and every number of failed writes and restarts: types and the bound of    *)
(* the queue, that what records say of a mesh is true, that an accepted      *)
(* cancellation is kept, that one process uses the GPU at a time, that the    *)
(* last word on a job stays, and that the history on the disk is whole until  *)
(* three operations of the storage have failed.                             *)
(*                                                                         *)
(* None of these is inductive.  IInv adds what each step of a submission and  *)
(* of a task can rely on: the lock, and the room found under it, are still    *)
(* the submission's own (RoomOK); what the file and the record of the job     *)
(* hold at this step, above all that both say publishing, and no             *)
(* cancellation, whenever a mesh may be there (JobsOK); that no task outlives *)
(* the worker (ReadyOK); and who holds the lane by the phase of its task      *)
(* (GpuOK).  HistoryOK, for the history, says at each step who is listed      *)
(* where and how many failures it took to come there.                       *)
(***************************************************************************)
EXTENDS PhotoJobs, FiniteSetTheorems, TLAPS

\* Nothing is written; something may be; a native process is wanted or there.
Waiting == {"new", "snapshot", "input"}
Placing == AdmissionPc \ {"input"}
Native  == {"spawn", "process", "killed"}
Pcs     == {"new", "snapshot", "gone"} \cup AdmissionPc \cup TaskPc
Tasks   == [pc : Pcs, phase : Phases, outcome : Outcomes]

\* TypeOK without the bound of the queue.
Types ==
  /\ index \in Seq(Jobs) /\ order \in Seq(Jobs)
  /\ file \in [Jobs -> Record \cup {None}] /\ records \in [Jobs -> Record \cup {None}]
  /\ input \subseteq Jobs /\ mesh \subseteq Jobs
  /\ ready \in BOOLEAN /\ cancelled \subseteq Jobs
  /\ active \subseteq Jobs /\ IsFiniteSet(active)
  /\ mutex \in Jobs \cup {None}
  /\ task \in [Jobs -> Tasks]
  /\ lane \in Jobs \cup {Direct, None} /\ procs \subseteq Jobs \cup {Direct}
  /\ depth \in Depths /\ faults \in Nat /\ restarts \in Nat

\* A submission past its second look at the queue has the lock, and its place.
RoomOK ==
  /\ \A j \in Jobs : task[j].pc \in AdmissionPc => mutex = j
  /\ Cardinality(active) <= depth
  /\ mutex # None => Cardinality(active) < depth

\* What was written of a job, by the step it is at.
Stage(j) ==
  /\ task[j].pc \in Waiting => file[j] = None
  /\ task[j].pc \in Placing => file[j] \in {None, NewRecord}
  /\ task[j].pc \in Waiting \cup Placing => records[j] = None /\ j \notin mesh
  /\ task[j].pc = "gone" => records[j] = None \/ Terminal(records[j])
  /\ task[j].pc \in TaskPc => /\ records[j] # None /\ ~Terminal(records[j])
                              /\ file[j] = None \/ ~Terminal(file[j])
  /\ task[j].pc \in TaskPc \ {"end"} => j \notin mesh
  /\ task[j].pc = "killed" => task[j].outcome # "ok"

\* A mesh may be there only while file and record say publishing, uncancelled.
Published(j) ==
  /\ task[j].pc = "publish" \/ (task[j].pc = "end" /\ j \in mesh) =>
       file[j] = records[j] /\ records[j].phase = "publishing" /\ ~records[j].cancel
  /\ task[j].pc = "end" /\ j \in mesh => task[j].outcome \in {"ok", "io"}
  /\ task[j].pc = "end" /\ task[j].outcome = "ok" => j \in mesh

\* A record says nothing untrue of the mesh, and no cancelled one has a mesh.
Honest(j, r) == Truthful(j, r) /\ (r.cancel => j \notin mesh)

Told(j) == /\ file[j] # None => Honest(j, Settled(file[j]))
           /\ records[j] # None => Honest(j, records[j])

JobsOK == \A j \in Jobs : Stage(j) /\ Published(j) /\ Told(j)

\* Until the history is read there is no submission and no task.
ReadyOK == ~ready => \A j \in Jobs : task[j].pc \in {"new", "gone"}

\* The phases of the job's model.
InTurn(j) == {"waiting_for_gpu", "generating", "publishing"}
               \cup IF j \in Trellis THEN {"preparing_models", "foreground", "delivering"} ELSE {}

\* A task past waiting_for_gpu has the lane until its last process has exited.
OnGpu(j) ==
  /\ task[j].pc \in TaskPc => task[j].phase \in InTurn(j)
  /\ task[j].pc = "lane" => task[j].phase = "waiting_for_gpu"
  /\ task[j].pc \in Native => task[j].phase \notin {"waiting_for_gpu", "publishing"}
  /\ task[j].pc \in Native \cup {"enter"}
       /\ task[j].phase \notin {"preparing_models", "waiting_for_gpu"} => lane = j
  /\ j \in procs => task[j].pc \in {"process", "killed"}

GpuOK == (\A j \in Jobs : OnGpu(j)) /\ (Direct \in procs => lane = Direct)

IInv == Types /\ RoomOK /\ JobsOK /\ ReadyOK /\ GpuOK

\* What is assumed of the constants, one fact at a time.
LEMMA Apart ==
  /\ None \notin Jobs /\ Direct \notin Jobs /\ Direct # None
  /\ Depths \subseteq Nat /\ \A d \in Depths : d > 0
  /\ MaxFaults \in Nat /\ MaxRestarts \in Nat
BY PhotoAssumption

\* After a phase comes the next one of the model: the lane after the models are
\* prepared, and never again after it (PhasesOf).
LEMMA Turns ==
  ASSUME NEW j \in Jobs, NEW phase \in InTurn(j) \ {"publishing"}
  PROVE  /\ NextPhase(j, phase) \in InTurn(j)
         /\ phase = "preparing_models" => NextPhase(j, phase) = "waiting_for_gpu"
         /\ phase # "preparing_models" =>
              NextPhase(j, phase) \notin {"preparing_models", "waiting_for_gpu"}
<1>1. CASE j \in Trellis
  <2> DEFINE p == <<"preparing_models", "waiting_for_gpu", "foreground", "generating",
                    "delivering", "publishing">>
  <2>1. PhasesOf(j) = p
    BY <1>1 DEF PhasesOf
  <2>2. DOMAIN p = 1..6 /\ p[1] = "preparing_models" /\ p[2] = "waiting_for_gpu"
        /\ p[3] = "foreground" /\ p[4] = "generating" /\ p[5] = "delivering"
        /\ p[6] = "publishing"
    OBVIOUS
  <2> HIDE DEF p
  <2>3. PICK i \in 1..5 : p[i] = phase
    <3>1. phase \in {"preparing_models", "waiting_for_gpu", "foreground", "generating", "delivering"}
      BY <1>1 DEF InTurn
    <3> QED BY <3>1, <2>2
  <2>4. (CHOOSE k \in DOMAIN p : p[k] = phase) = i
    <3>1. \A k \in DOMAIN p : p[k] = phase => k = i
      BY <2>2, <2>3
    <3>2. i \in DOMAIN p
      BY <2>2
    <3> QED BY <3>1, <3>2, <2>3
  <2>5. NextPhase(j, phase) = p[1 + i]
    BY <2>1, <2>4 DEF NextPhase
  <2> QED BY <1>1, <2>2, <2>3, <2>5 DEF InTurn
<1>2. CASE j \notin Trellis
  <2> DEFINE p == <<"waiting_for_gpu", "generating", "publishing">>
  <2>1. PhasesOf(j) = p
    BY <1>2 DEF PhasesOf
  <2>2. DOMAIN p = 1..3 /\ p[1] = "waiting_for_gpu" /\ p[2] = "generating" /\ p[3] = "publishing"
    OBVIOUS
  <2> HIDE DEF p
  <2>3. PICK i \in 1..2 : p[i] = phase
    <3>1. phase \in {"waiting_for_gpu", "generating"}
      BY <1>2 DEF InTurn
    <3> QED BY <3>1, <2>2
  <2>4. (CHOOSE k \in DOMAIN p : p[k] = phase) = i
    <3>1. \A k \in DOMAIN p : p[k] = phase => k = i
      BY <2>2, <2>3
    <3>2. i \in DOMAIN p
      BY <2>2
    <3> QED BY <3>1, <3>2, <2>3
  <2>5. NextPhase(j, phase) = p[1 + i]
    BY <2>1, <2>4 DEF NextPhase
  <2> QED BY <1>2, <2>2, <2>3, <2>5 DEF InTurn
<1> QED BY <1>1, <1>2

\* A task begins by preparing its models, or by waiting for the lane.
LEMMA FirstPhase ==
  ASSUME NEW j \in Jobs
  PROVE  PhasesOf(j)[1] \in {"preparing_models", "waiting_for_gpu"} \cap InTurn(j)
<1>1. CASE j \in Trellis BY <1>1 DEF PhasesOf, InTurn
<1>2. CASE j \notin Trellis BY <1>2 DEF PhasesOf, InTurn
<1> QED BY <1>1, <1>2

-----------------------------------------------------------------------------
\* Whatever is made of a record is a record.
LEMMA RecordTypes ==
  ASSUME NEW r \in Record
  PROVE  /\ Settled(r) \in Record /\ \A o : Final(r, o) \in Record
         /\ [r EXCEPT !.cancel = TRUE] \in Record
         /\ \A p \in Phases : [r EXCEPT !.state = "running", !.phase = p] \in Record
         /\ [r EXCEPT !.state = "outcome_unknown"] \in Record /\ NewRecord \in Record
         /\ \A o : [Final(r, o) EXCEPT !.state = "outcome_unknown"] \in Record
<1>1. Settled(r) \in Record
  BY DEF Settled, Record, States, Phases, Terminal
<1>2. \A o : Final(r, o) \in Record
  BY DEF Final, Record, States, Phases
<1>3. \A s \in Record : [s EXCEPT !.state = "outcome_unknown"] \in Record
  BY DEF Record, States
<1>4. NewRecord \in Record /\ [r EXCEPT !.cancel = TRUE] \in Record
      /\ \A p \in Phases : [r EXCEPT !.state = "running", !.phase = p] \in Record
  BY DEF Record, States, Phases, NewRecord
<1> QED BY <1>1, <1>2, <1>3, <1>4

\* GoTo moves one job and nothing else.
LEMMA GoToEffect ==
  ASSUME Types, NEW j \in Jobs, NEW s \in Pcs, GoTo(j, s)
  PROVE  /\ task' \in [Jobs -> Tasks] /\ \A k \in Jobs : k # j => task'[k] = task[k]
         /\ task'[j].pc = s /\ task'[j].phase = task[j].phase
         /\ task'[j].outcome = task[j].outcome
BY DEF Types, GoTo, Tasks

\* EnterNext moves one job to the begin of a phase.
LEMMA EnterEffect ==
  ASSUME Types, NEW j \in Jobs, NEW p \in Phases, EnterNext(j, p)
  PROVE  /\ task' \in [Jobs -> Tasks] /\ \A k \in Jobs : k # j => task'[k] = task[k]
         /\ task'[j].pc = "enter" /\ task'[j].phase = p
BY DEF Types, EnterNext, Tasks, Pcs, TaskPc

\* End moves one job to its end, and nobody else's permit.
LEMMA EndEffect ==
  ASSUME Types, NEW j \in Jobs, NEW o \in Outcomes, End(j, o)
  PROVE  /\ task' \in [Jobs -> Tasks] /\ \A k \in Jobs : k # j => task'[k] = task[k]
         /\ task'[j].pc = "end" /\ task'[j].phase = task[j].phase /\ task'[j].outcome = o
         /\ lane' \in Jobs \cup {Direct, None} /\ \A k \in Jobs \cup {Direct} : k # j /\ lane = k => lane' = k
BY DEF Types, End, Tasks, Pcs, TaskPc

\* persist leaves the old or the new record in the file of one job.
LEMMA PersistEffect ==
  ASSUME Types, NEW j \in Jobs, NEW r \in Record, NEW ok \in BOOLEAN, Persist(j, r, ok)
  PROVE  /\ file' \in [Jobs -> Record \cup {None}]
         /\ \A k \in Jobs : k # j => file'[k] = file[k]
         /\ file'[j] \in {file[j], r} /\ (ok => file'[j] = r) /\ faults' \in Nat
BY DEF Types, Persist, Fault

\* The phases in turn are phases.
LEMMA TurnTypes ==
  ASSUME NEW j \in Jobs
  PROVE  InTurn(j) \subseteq Phases
BY DEF InTurn, Phases

\* Settling part of the history leaves records, settled or as they were.
LEMMA Settling ==
  ASSUME Types, NEW n \in Nat, NEW f,
         f = [j \in Jobs |-> IF (\E i \in 1..n : index[i] = j) /\ file[j] # None
                              THEN Settled(file[j]) ELSE file[j]]
  PROVE  /\ f \in [Jobs -> Record \cup {None}]
         /\ \A j \in Jobs : f[j] = file[j] \/ (file[j] # None /\ f[j] = Settled(file[j]))
BY RecordTypes DEF Types

-----------------------------------------------------------------------------
\* The steps that are about one job.
JobStep(j) == Submit(j) \/ Admission(j) \/ Run(j) \/ Lane(j) \/ Cancel(j)

\* Nothing changes for the other jobs.
OthersStay(j) ==
  \A k \in Jobs \ {j} : /\ task'[k] = task[k] /\ records'[k] = records[k]
                        /\ file'[k] = file[k] /\ (k \in mesh' <=> k \in mesh)

\* The steps of a submission keep the types and concern one job (submit_object).
LEMMA AdmissionTypes ==
  ASSUME Types, NEW j \in Jobs, Submit(j) \/ Admission(j)
  PROVE  Types' /\ OthersStay(j)
<1>1. CASE Submit(j)
  BY <1>1, GoToEffect DEF Submit, OthersStay, disk, memory, gpu, bounds, Types, Pcs
<1>2. CASE Admit(j)
  <2>1. CASE GoTo(j, "input")
    BY <1>2, <2>1, GoToEffect DEF Admit, OthersStay, disk, memory, gpu, bounds, Types, Pcs, AdmissionPc
  <2>2. CASE GoTo(j, "gone") /\ UNCHANGED mutex
    BY <1>2, <2>2, GoToEffect DEF Admit, OthersStay, disk, memory, gpu, bounds, Types, Pcs
  <2> QED BY <1>2, <2>1, <2>2 DEF Admit
<1>3. CASE SaveInput(j)
  <2>1. PICK s \in {"record", "refused"} : GoTo(j, s)
    BY <1>3 DEF SaveInput
  <2>2. s \in Pcs
    BY DEF Pcs, AdmissionPc
  <2>3. input' \subseteq Jobs /\ faults' \in Nat
    BY <1>3 DEF SaveInput, Types, Fault
  <2> QED BY <1>3, <2>1, <2>2, <2>3, GoToEffect DEF SaveInput, OthersStay, memory, gpu, Types
<1>4. CASE SaveRecord(j)
  <2>1. PICK ok \in BOOLEAN : Persist(j, NewRecord, ok) /\ GoTo(j, IF ok THEN "index" ELSE "refused")
    BY <1>4 DEF SaveRecord
  <2>2. NewRecord \in Record
    BY DEF NewRecord, Record, States, Phases
  <2>3. PICK s \in Pcs : GoTo(j, s)
    BY <2>1 DEF Pcs, AdmissionPc
  <2>4. file' \in [Jobs -> Record \cup {None}] /\ faults' \in Nat
        /\ \A k \in Jobs : k # j => file'[k] = file[k]
    BY <2>1, <2>2, PersistEffect
  <2> QED BY <1>4, <2>3, <2>4, GoToEffect DEF SaveRecord, OthersStay, memory, gpu, Types
<1>5. CASE SaveIndex(j)
  <2>1. CASE index' = Append(order, j) /\ order' = Append(order, j)
             /\ records' = [records EXCEPT ![j] = NewRecord] /\ active' = active \cup {j}
             /\ mutex' = None /\ EnterNext(j, PhasesOf(j)[1]) /\ UNCHANGED faults
    <3>1. NewRecord \in Record
      BY DEF NewRecord, Record, States, Phases
    <3>2. PhasesOf(j)[1] \in Phases
      BY FirstPhase, TurnTypes
    <3>3. IsFiniteSet(active')
      BY <2>1, FS_AddElement DEF Types
    <3>4. task' \in [Jobs -> Tasks] /\ \A k \in Jobs : k # j => task'[k] = task[k]
      BY <2>1, <3>2, EnterEffect
    <3>5. Append(order, j) \in Seq(Jobs)
      BY DEF Types
    <3> QED BY <1>5, <2>1, <3>1, <3>3, <3>4, <3>5 DEF SaveIndex, OthersStay, gpu, Types
  <2>2. CASE Fault /\ index' \in {index, Append(order, j)} /\ GoTo(j, "refused")
             /\ UNCHANGED <<order, records, active, mutex>>
    <3>1. Append(order, j) \in Seq(Jobs)
      BY DEF Types
    <3>2. "refused" \in Pcs
      BY DEF Pcs, AdmissionPc
    <3>3. index' \in Seq(Jobs) /\ faults' \in Nat
      <4>1. index' = index \/ index' = Append(order, j)
        BY <2>2
      <4>2. faults' = faults + 1 /\ faults \in Nat /\ index \in Seq(Jobs)
        BY <2>2 DEF Fault, Types
      <4> QED BY <3>1, <4>1, <4>2
    <3>4. task' \in [Jobs -> Tasks] /\ \A k \in Jobs : k # j => task'[k] = task[k]
      BY <2>2, <3>2, GoToEffect
    <3> QED BY <1>5, <2>2, <3>3, <3>4 DEF SaveIndex, OthersStay, gpu, Types
  <2> QED BY <1>5, <2>1, <2>2 DEF SaveIndex
<1>6. CASE Refused(j)
  <2>1. PICK s \in {"uncertain", "unrecord"} : GoTo(j, s)
    BY <1>6 DEF Refused
  <2>2. s \in Pcs
    BY DEF Pcs, AdmissionPc
  <2> QED BY <1>6, <2>1, <2>2, GoToEffect DEF Refused, OthersStay, disk, memory, gpu, Types, Fault
<1>7. CASE RemoveRecord(j)
  <2>1. PICK s \in {"uninput", "uninput_uncertain"} : GoTo(j, s)
    BY <1>7 DEF RemoveRecord
  <2>2. s \in Pcs
    BY DEF Pcs, AdmissionPc
  <2>3. file' \in [Jobs -> Record \cup {None}] /\ faults' \in Nat
        /\ \A k \in Jobs : k # j => file'[k] = file[k]
    BY <1>7 DEF RemoveRecord, Types, Fault
  <2> QED BY <1>7, <2>1, <2>2, <2>3, GoToEffect DEF RemoveRecord, OthersStay, memory, gpu, Types
<1>8. CASE RemoveInput(j)
  <2>1. PICK s \in {"gone", "uncertain"} : GoTo(j, s)
    BY <1>8 DEF RemoveInput
  <2>2. s \in Pcs
    BY DEF Pcs, AdmissionPc
  <2>3. input' \subseteq Jobs /\ faults' \in Nat /\ mutex' \in Jobs \cup {None}
    BY <1>8 DEF RemoveInput, Types, Fault
  <2> QED BY <1>8, <2>1, <2>2, <2>3, GoToEffect DEF RemoveInput, OthersStay, memory, gpu, Types
<1>9. CASE Uncertain(j)
  <2> DEFINE r == [NewRecord EXCEPT !.state = "outcome_unknown"]
  <2>1. r \in Record
    BY DEF NewRecord, Record, States, Phases
  <2>2. PICK ok \in BOOLEAN : Persist(j, r, ok)
    BY <1>9 DEF Uncertain
  <2> HIDE DEF r
  <2>3. file' \in [Jobs -> Record \cup {None}] /\ faults' \in Nat
        /\ \A k \in Jobs : k # j => file'[k] = file[k]
    BY <2>1, <2>2, PersistEffect
  <2>4. order' \in Seq(Jobs) /\ records' = [records EXCEPT ![j] = r] /\ mutex' = None /\ GoTo(j, "gone")
        /\ UNCHANGED <<index, input, mesh, ready, active, cancelled, gpu, depth, restarts>>
    BY <1>9 DEF Uncertain, Types, r
  <2> QED BY <2>1, <2>3, <2>4, GoToEffect DEF OthersStay, gpu, Types, Pcs
<1> QED BY <1>1, <1>2, <1>3, <1>4, <1>5, <1>6, <1>7, <1>8, <1>9 DEF Admission

-----------------------------------------------------------------------------
\* The steps of a task and cancel keep the types and concern one job.
LEMMA RunTypes ==
  ASSUME IInv, NEW j \in Jobs, Run(j) \/ Lane(j) \/ Cancel(j)
  PROVE  Types' /\ OthersStay(j)
<1> USE DEF IInv
<1>1. task[j].phase \in Phases /\ task[j].outcome \in Outcomes
  BY DEF Types, Tasks
<1>2. /\ records[j] # None => records[j] \in Record
      /\ task[j].pc \in TaskPc => records[j] # None
  BY DEF Types, JobsOK, Stage
<1>3. task[j].pc \in TaskPc /\ task[j].phase # "publishing" =>
        NextPhase(j, task[j].phase) \in Phases
  <2>1. task[j].pc \in TaskPc => task[j].phase \in InTurn(j)
    BY DEF GpuOK, OnGpu
  <2> QED BY <2>1, Turns, TurnTypes
<1>4. {"ok", "io", "other", "cancelled"} \subseteq Outcomes
      /\ {"lane", "publish", "spawn", "process", "killed", "gone"} \subseteq Pcs
  BY DEF Outcomes, Pcs, TaskPc
<1>5. CASE Enter(j)
  <2> DEFINE r == [records[j] EXCEPT !.state = "running", !.phase = task[j].phase]
  <2>1. r \in Record
    BY <1>1, <1>2, <1>5, RecordTypes DEF Enter, At, TaskPc
  <2>2. CASE End(j, "cancelled") /\ UNCHANGED <<file, records, faults>>
    BY <1>4, <1>5, <2>2, EndEffect DEF Enter, OthersStay, Types
  <2>3. CASE /\ Persist(j, r, TRUE) /\ records' = [records EXCEPT ![j] = r]
             /\ \E s \in {"lane", "publish", "spawn"} : GoTo(j, s)
             /\ UNCHANGED lane
    <3>1. task' \in [Jobs -> Tasks] /\ \A k \in Jobs : k # j => task'[k] = task[k]
      BY <1>4, <2>3, GoToEffect
    <3>2. /\ file' \in [Jobs -> Record \cup {None}] /\ faults' \in Nat
          /\ \A k \in Jobs : k # j => file'[k] = file[k]
      BY <2>1, <2>3, PersistEffect
    <3>3. /\ records' \in [Jobs -> Record \cup {None}]
          /\ \A k \in Jobs : k # j => records'[k] = records[k]
      BY <2>1, <2>3 DEF Types
    <3> QED BY <1>5, <2>3, <3>1, <3>2, <3>3 DEF Enter, OthersStay, Types
  <2>4. CASE Persist(j, r, FALSE) /\ End(j, "io") /\ UNCHANGED records
    <3>1. /\ file' \in [Jobs -> Record \cup {None}] /\ faults' \in Nat
          /\ \A k \in Jobs : k # j => file'[k] = file[k]
      BY <2>1, <2>4, PersistEffect
    <3> QED BY <1>4, <1>5, <2>4, <3>1, EndEffect DEF Enter, OthersStay, Types
  <2> QED BY <1>5, <2>2, <2>3, <2>4 DEF Enter
<1>6. CASE Fails(j)
  BY <1>4, <1>6, EndEffect DEF Fails, OthersStay, Types, disk, memory, bounds
<1>7. CASE Spawn(j)
  <2>1. CASE End(j, "cancelled") /\ UNCHANGED procs
    BY <1>4, <1>7, <2>1, EndEffect DEF Spawn, OthersStay, Types, disk, memory, bounds
  <2>2. CASE GoTo(j, "process") /\ procs' = procs \cup {j} /\ UNCHANGED lane
    BY <1>4, <1>7, <2>2, GoToEffect DEF Spawn, OthersStay, Types, disk, memory, bounds
  <2> QED BY <1>7, <2>1, <2>2 DEF Spawn
<1>8. CASE ProcessSucceeds(j)
  <2>1. NextPhase(j, task[j].phase) \in Phases
    BY <1>3, <1>8 DEF ProcessSucceeds, At, TaskPc, Native, GpuOK, OnGpu
  <2>2. task' \in [Jobs -> Tasks] /\ \A k \in Jobs : k # j => task'[k] = task[k]
    BY <1>8, <2>1, EnterEffect DEF ProcessSucceeds
  <2> QED BY <1>8, <2>2 DEF ProcessSucceeds, OthersStay, Types, disk, memory, bounds
<1>9. CASE ProcessFails(j)
  <2>1. PICK o \in {"other", "io"} : End(j, o)
    BY <1>9 DEF ProcessFails
  <2>2. procs' \subseteq Jobs \cup {Direct} /\ faults' \in Nat
    BY <1>9 DEF ProcessFails, Fault, Types
  <2> QED BY <1>4, <1>9, <2>1, <2>2, EndEffect DEF ProcessFails, OthersStay, Types, disk, memory
<1>10. CASE Kill(j)
  <2>1. PICK why \in {"cancelled", "other"} :
          task' = [task EXCEPT ![j].pc = "killed", ![j].outcome = why]
    BY <1>10 DEF Kill
  <2>2. task' \in [Jobs -> Tasks] /\ \A k \in Jobs : k # j => task'[k] = task[k]
    <3>1. why \in Outcomes /\ "killed" \in Pcs
      BY <1>4
    <3> QED BY <2>1, <3>1 DEF Types, Tasks
  <2> QED BY <1>10, <2>2 DEF Kill, OthersStay, Types, disk, memory, gpu, bounds
<1>11. CASE KilledExits(j)
  BY <1>1, <1>11, EndEffect DEF KilledExits, OthersStay, Types, disk, memory, bounds
<1>12. CASE Publish(j)
  <2>1. PICK o \in {"ok", "other", "io"} : End(j, o)
    BY <1>12 DEF Publish
  <2>2. mesh' \in {mesh, mesh \cup {j}} /\ faults' \in Nat
    BY <1>12 DEF Publish, Fault, Types
  <2> QED BY <1>4, <1>12, <2>1, <2>2, EndEffect DEF Publish, OthersStay, Types, memory
<1>13. CASE Finish(j)
  <2>1. records[j] \in Record
    BY <1>2, <1>13 DEF Finish, At, TaskPc
  <2>2. PICK r \in Record, ok \in BOOLEAN, s \in Record :
           Persist(j, r, ok) /\ records' = [records EXCEPT ![j] = s]
    BY <1>13, <2>1, RecordTypes DEF Finish
  <2>3. /\ file' \in [Jobs -> Record \cup {None}] /\ faults' \in Nat
        /\ \A k \in Jobs : k # j => file'[k] = file[k]
    BY <2>2, PersistEffect
  <2>4. active' \subseteq Jobs /\ IsFiniteSet(active')
    BY <1>13, FS_RemoveElement DEF Finish, Types
  <2>5. task' \in [Jobs -> Tasks] /\ \A k \in Jobs : k # j => task'[k] = task[k]
    BY <1>4, <1>13, GoToEffect DEF Finish
  <2> QED BY <1>13, <2>2, <2>3, <2>4, <2>5 DEF Finish, OthersStay, Types, gpu
<1>14. CASE Lane(j)
  <2>1. CASE End(j, "cancelled")
    BY <1>4, <1>14, <2>1, EndEffect DEF Lane, OthersStay, Types, disk, memory, bounds
  <2>2. CASE lane' = j /\ EnterNext(j, NextPhase(j, "waiting_for_gpu"))
    <3>1. "waiting_for_gpu" \in InTurn(j) \ {"publishing"}
      BY DEF InTurn
    <3>2. NextPhase(j, "waiting_for_gpu") \in Phases
      BY <3>1, Turns, TurnTypes
    <3>3. task' \in [Jobs -> Tasks] /\ \A k \in Jobs : k # j => task'[k] = task[k]
      BY <2>2, <3>2, EnterEffect
    <3> QED BY <1>14, <2>2, <3>3 DEF Lane, OthersStay, Types, disk, memory, bounds
  <2> QED BY <1>14, <2>1, <2>2 DEF Lane
<1>15. CASE Cancel(j)
  <2> DEFINE r == [records[j] EXCEPT !.cancel = TRUE]
  <2>1. r \in Record
    BY <1>2, <1>15, RecordTypes DEF Cancel
  <2>2. PICK ok \in BOOLEAN : Persist(j, r, ok)
    BY <1>15 DEF Cancel
  <2>3. records' = [records EXCEPT ![j] = r] /\ cancelled' = cancelled \cup ({j} \cap active)
        /\ UNCHANGED <<index, input, mesh, ready, order, active, mutex, task, gpu, depth, restarts>>
    BY <1>15 DEF Cancel
  <2> HIDE DEF r
  <2>4. /\ file' \in [Jobs -> Record \cup {None}] /\ faults' \in Nat
        /\ \A k \in Jobs : k # j => file'[k] = file[k]
    BY <2>1, <2>2, PersistEffect
  <2> QED BY <2>1, <2>3, <2>4 DEF OthersStay, Types, gpu
<1> QED BY <1>5, <1>6, <1>7, <1>8, <1>9, <1>10, <1>11, <1>12, <1>13, <1>14, <1>15 DEF Run

\* initialize settles files, and shows only records it has settled.
LEMMA InitializeEffect ==
  ASSUME Types, Initialize
  PROVE  /\ file' \in [Jobs -> Record \cup {None}] /\ records' \in [Jobs -> Record \cup {None}]
         /\ \A j \in Jobs : file'[j] = file[j] \/ (file[j] # None /\ file'[j] = Settled(file[j]))
         /\ \A j \in Jobs : records'[j] \in {records[j], None} \/
               (file[j] # None /\ file'[j] = Settled(file[j]) /\ records'[j] = file'[j])
         /\ order' \in Seq(Jobs) /\ ready' \in BOOLEAN /\ faults' \in Nat
<1> DEFINE settled(n) == [j \in Jobs |-> IF (\E i \in 1..n : index[i] = j) /\ file[j] # None
                                       THEN Settled(file[j]) ELSE file[j]]
<1>1. CASE /\ \A i \in DOMAIN index : file[index[i]] # None
           /\ file' = settled(Len(index))
           /\ ready' = TRUE /\ order' = index
           /\ records' = [j \in Jobs |-> IF \E i \in DOMAIN index : index[i] = j
                                         THEN file'[j] ELSE None]
           /\ UNCHANGED faults
  <2>1. Len(index) \in Nat /\ DOMAIN index = 1..Len(index)
    BY DEF Types
  <2>2. /\ file' \in [Jobs -> Record \cup {None}]
        /\ \A j \in Jobs : file'[j] = file[j] \/ (file[j] # None /\ file'[j] = Settled(file[j]))
    BY <1>1, <2>1, Settling
  <2>3. ASSUME NEW j \in Jobs, \E i \in DOMAIN index : index[i] = j
        PROVE  file[j] # None /\ file'[j] = Settled(file[j])
    BY <1>1, <2>1, <2>3
  <2> QED BY <1>1, <2>2, <2>3 DEF Types
<1>2. CASE /\ Fault /\ \E n \in 0..Len(index) : file' = settled(n)
           /\ UNCHANGED <<ready, order, records>>
  <2>1. PICK n \in 0..Len(index) : file' = settled(n)
    BY <1>2
  <2>2. n \in Nat
    BY DEF Types
  <2>3. /\ file' \in [Jobs -> Record \cup {None}]
        /\ \A j \in Jobs : file'[j] = file[j] \/ (file[j] # None /\ file'[j] = Settled(file[j]))
    BY <2>1, <2>2, Settling
  <2> QED BY <1>2, <2>3 DEF Types, Fault
<1> QED BY <1>1, <1>2 DEF Initialize

\* A restart ends every submission and task that had begun.
LEMMA RestartEffect ==
  ASSUME Types, Restart
  PROVE  /\ task' \in [Jobs -> Tasks]
         /\ \A j \in Jobs : IF task[j].pc = "new" THEN task'[j].pc = "new" ELSE task'[j].pc = "gone"
BY DEF Types, Restart, At, Tasks, Pcs

\* The steps that are not about one job keep the types.
LEMMA OtherTypes ==
  ASSUME Types, Initialize \/ Restart \/ DirectStarts \/ DirectEnds
  PROVE  Types'
<1>1. CASE Initialize
  BY <1>1, InitializeEffect DEF Initialize, Types, gpu
<1>2. CASE Restart
  <2>1. IsFiniteSet({})
    BY FS_EmptySet
  <2>2. task' \in [Jobs -> Tasks]
    BY <1>2, RestartEffect
  <2>3. order' \in Seq(Jobs) /\ records' \in [Jobs -> Record \cup {None}]
    BY <1>2 DEF Restart
  <2>4. active' = {} /\ cancelled' = {} /\ procs' = {} /\ mutex' = None /\ lane' = None
        /\ ready' = FALSE /\ depth' \in Depths /\ restarts' \in Nat
        /\ UNCHANGED <<index, file, input, mesh, faults>>
    BY <1>2 DEF Restart, Types, disk
  <2> QED BY <2>1, <2>2, <2>3, <2>4 DEF Types
<1>3. CASE DirectStarts
  BY <1>3 DEF DirectStarts, Types, disk, memory, bounds
<1>4. CASE DirectEnds
  BY <1>4 DEF DirectEnds, Types, disk, memory, bounds
<1> QED BY <1>1, <1>2, <1>3, <1>4

-----------------------------------------------------------------------------
\* Submissions, tasks and cancel are not before the history is read.
LEMMA Ready ==
  ASSUME IInv, NEW j \in Jobs, JobStep(j)
  PROVE  ready /\ ready' = ready
<1>1. CASE Submit(j)
  BY <1>1 DEF Submit, memory
<1>2. CASE Cancel(j)
  BY <1>2 DEF Cancel
<1>3. CASE Admission(j)
  <2>1. task[j].pc \notin {"new", "gone"}
    BY <1>3 DEF Admission, Admit, SaveInput, SaveRecord, SaveIndex, Refused, RemoveRecord,
                RemoveInput, Uncertain, At
  <2>2. ready' = ready
    BY <1>3 DEF Admission, Admit, SaveInput, SaveRecord, SaveIndex, Refused, RemoveRecord,
                RemoveInput, Uncertain, memory
  <2> QED BY <2>1, <2>2 DEF IInv, ReadyOK
<1>4. CASE Run(j) \/ Lane(j)
  <2>1. task[j].pc \notin {"new", "gone"}
    BY <1>4 DEF Run, Lane, Enter, Fails, Spawn, ProcessSucceeds, ProcessFails, Kill,
                KilledExits, Publish, Finish, At
  <2>2. ready' = ready
    BY <1>4 DEF Run, Lane, Enter, Fails, Spawn, ProcessSucceeds, ProcessFails, Kill,
                KilledExits, Publish, Finish, memory
  <2> QED BY <2>1, <2>2 DEF IInv, ReadyOK
<1> QED BY <1>1, <1>2, <1>3, <1>4 DEF JobStep

\* Every step keeps ReadyOK.
LEMMA ReadyStep ==
  ASSUME IInv, [Next]_vars
  PROVE  ReadyOK'
<1>1. CASE \E j \in Jobs : JobStep(j)
  BY <1>1, Ready DEF ReadyOK
<1>2. CASE Initialize
  BY <1>2 DEF Initialize, IInv, ReadyOK
<1>3. CASE Restart
  BY <1>3, RestartEffect DEF ReadyOK, IInv
<1>4. CASE DirectStarts \/ DirectEnds \/ UNCHANGED vars
  BY <1>4 DEF DirectStarts, DirectEnds, vars, memory, IInv, ReadyOK
<1> QED BY <1>1, <1>2, <1>3, <1>4 DEF Next, JobStep

\* The steps of a submission that holds the lock: the lock and the queue.
LEMMA AdmittedStep ==
  ASSUME IInv, NEW j \in Jobs, Admission(j), ~Admit(j)
  PROVE  /\ depth' = depth
         /\ (active' = active /\ (mutex' = mutex \/ (mutex' = None /\ task'[j].pc = "gone")))
            \/ (SaveIndex(j) /\ active' = active \cup {j} /\ mutex' = None /\ task'[j].pc = "enter")
<1> USE DEF IInv
<1>1. CASE SaveInput(j)
  BY <1>1 DEF SaveInput, memory
<1>2. CASE SaveRecord(j)
  BY <1>2 DEF SaveRecord, memory
<1>3. CASE SaveIndex(j)
  <2>1. PhasesOf(j)[1] \in Phases
    BY FirstPhase, TurnTypes
  <2>2. CASE active' = active \cup {j} /\ mutex' = None /\ EnterNext(j, PhasesOf(j)[1])
    <3>1. task'[j].pc = "enter"
      BY <2>1, <2>2, EnterEffect
    <3> QED BY <1>3, <2>2, <3>1 DEF SaveIndex
  <2>3. CASE active' = active /\ mutex' = mutex
    BY <1>3, <2>3 DEF SaveIndex
  <2> QED BY <1>3, <2>2, <2>3 DEF SaveIndex
<1>4. CASE Refused(j)
  BY <1>4 DEF Refused, memory
<1>5. CASE RemoveRecord(j)
  BY <1>5 DEF RemoveRecord, memory
<1>6. CASE RemoveInput(j)
  <2>1. depth' = depth /\ active' = active
        /\ (mutex' = mutex \/ (mutex' = None /\ GoTo(j, "gone")))
    BY <1>6 DEF RemoveInput, memory
  <2>2. GoTo(j, "gone") => task'[j].pc = "gone"
    BY GoToEffect DEF Pcs
  <2> QED BY <2>1, <2>2
<1>7. CASE Uncertain(j)
  <2>1. depth' = depth /\ active' = active /\ mutex' = None /\ GoTo(j, "gone")
    BY <1>7 DEF Uncertain
  <2>2. task'[j].pc = "gone"
    BY <2>1, GoToEffect DEF Pcs
  <2> QED BY <2>1, <2>2
<1> QED BY <1>1, <1>2, <1>3, <1>4, <1>5, <1>6, <1>7 DEF Admission

\* Where a task goes: on, or away when finish has recorded its end.
LEMMA RunPc ==
  ASSUME IInv, NEW j \in Jobs, Run(j) \/ Lane(j) \/ Cancel(j)
  PROVE  \/ task'[j] = task[j] /\ Cancel(j)
         \/ task'[j].pc \in TaskPc
         \/ task'[j].pc = "gone" /\ Finish(j)
<1> USE DEF IInv
<1>1. task[j].outcome \in Outcomes /\ {"ok", "io", "other", "cancelled"} \subseteq Outcomes
      /\ {"lane", "publish", "spawn", "process", "killed", "gone", "end"} \subseteq Pcs
  BY DEF Types, Tasks, Outcomes, Pcs, TaskPc
<1>2. ASSUME NEW s \in {"lane", "publish", "spawn", "process"}, GoTo(j, s)
      PROVE  task'[j].pc \in TaskPc
  BY <1>1, <1>2, GoToEffect DEF TaskPc
<1>3. ASSUME NEW o \in Outcomes, End(j, o)
      PROVE  task'[j].pc \in TaskPc
  BY <1>3, EndEffect DEF TaskPc
<1>4. CASE ProcessSucceeds(j)
  BY <1>4 DEF ProcessSucceeds, EnterNext, Types, TaskPc, Tasks
<1>5. CASE Lane(j)
  BY <1>1, <1>3, <1>5 DEF Lane, EnterNext, Types, TaskPc, Tasks
<1>6. CASE Kill(j)
  BY <1>6 DEF Kill, Types, TaskPc, Tasks
<1>7. CASE Enter(j)
  BY <1>1, <1>2, <1>3, <1>7 DEF Enter
<1>8. CASE Fails(j) \/ Spawn(j) \/ ProcessFails(j) \/ KilledExits(j) \/ Publish(j)
  BY <1>1, <1>2, <1>3, <1>8 DEF Fails, Spawn, ProcessFails, KilledExits, Publish
<1>9. CASE Finish(j)
  BY <1>1, <1>9, GoToEffect DEF Finish
<1>10. CASE Cancel(j)
  BY <1>10 DEF Cancel
<1> QED BY <1>4, <1>5, <1>6, <1>7, <1>8, <1>9, <1>10 DEF Run

\* Every step keeps RoomOK: who takes the lock finds room, and nobody comes
\* in between (submit_object, the second check).
LEMMA RoomStep ==
  ASSUME IInv, [Next]_vars
  PROVE  RoomOK'
<1> USE DEF IInv
<1>0. None \notin Jobs
  BY Apart
<1>1. CASE Restart
  <2>1. Cardinality({}) = 0
    BY FS_EmptySet
  <2>2. depth' \in Nat
    BY <1>1, Apart DEF Restart
  <2>3. active' = {} /\ mutex' = None
    BY <1>1 DEF Restart
  <2>4. \A k \in Jobs : task'[k].pc \notin AdmissionPc
    BY <1>1, RestartEffect DEF AdmissionPc
  <2> QED BY <2>1, <2>2, <2>3, <2>4 DEF RoomOK
<1>2. CASE Initialize
  BY <1>2 DEF Initialize, RoomOK
<1>3. CASE DirectStarts \/ DirectEnds \/ UNCHANGED vars
  BY <1>3 DEF DirectStarts, DirectEnds, vars, memory, bounds, RoomOK
<1>4. ASSUME NEW j \in Jobs, JobStep(j)
      PROVE  RoomOK'
  <2>1. CASE Submit(j)
    BY <2>1, GoToEffect DEF Submit, RoomOK, Pcs, AdmissionPc, memory, bounds
  <2>2. CASE Admit(j)
    <3>1. mutex = None /\ \A k \in Jobs : task[k].pc \notin AdmissionPc
      BY <1>0, <2>2 DEF Admit, Idle, RoomOK
    <3>2. CASE Cardinality(active) < depth
      <4>1. mutex' = j /\ GoTo(j, "input") /\ active' = active /\ depth' = depth
        BY <2>2, <3>2 DEF Admit, memory, bounds
      <4> QED BY <3>1, <3>2, <4>1, GoToEffect DEF Pcs, AdmissionPc, RoomOK
    <3>3. CASE ~(Cardinality(active) < depth)
      <4>1. mutex' = mutex /\ GoTo(j, "gone") /\ active' = active /\ depth' = depth
        BY <2>2, <3>3 DEF Admit, memory, bounds
      <4> QED BY <3>1, <4>1, GoToEffect DEF Pcs, AdmissionPc, RoomOK
    <3> QED BY <3>2, <3>3
  <2>3. CASE Admission(j) /\ ~Admit(j)
    <3>1. task[j].pc \in AdmissionPc
      BY <2>3 DEF Admission, SaveInput, SaveRecord, SaveIndex, Refused, RemoveRecord,
                  RemoveInput, Uncertain, At, AdmissionPc
    <3>2. mutex = j /\ (\A k \in Jobs : k # j => task[k].pc \notin AdmissionPc)
          /\ Cardinality(active) < depth
      BY <1>0, <3>1 DEF RoomOK
    <3>3. \A k \in Jobs : k # j => task'[k].pc \notin AdmissionPc
      BY <2>3, <3>2, AdmissionTypes DEF OthersStay
    <3>4. CASE active' = active
      <4>1. depth' = depth /\ (mutex' = mutex \/ (mutex' = None /\ task'[j].pc \notin AdmissionPc))
        BY <2>3, <3>4, AdmittedStep DEF AdmissionPc
      <4> QED BY <1>0, <3>2, <3>3, <3>4, <4>1 DEF RoomOK
    <3>5. CASE active' = active \cup {j} /\ SaveIndex(j) /\ mutex' = None /\ task'[j].pc = "enter"
      <4>1. depth' = depth
        BY <3>5 DEF SaveIndex
      <4>2. Cardinality(active') \in {Cardinality(active), Cardinality(active) + 1}
            /\ Cardinality(active) \in Nat
        BY <3>5, FS_AddElement, FS_CardinalityType DEF Types
      <4>3. depth \in Nat
        BY Apart DEF Types
      <4> QED BY <3>2, <3>3, <3>5, <4>1, <4>2, <4>3 DEF RoomOK, AdmissionPc
    <3> QED BY <2>3, <3>4, <3>5, AdmittedStep
  <2>4. CASE Run(j) \/ Lane(j) \/ Cancel(j)
    <3>1. mutex' = mutex /\ depth' = depth /\ active' \in {active, active \ {j}}
      BY <2>4 DEF Run, Lane, Cancel, Enter, Fails, Spawn, ProcessSucceeds, ProcessFails, Kill,
                  KilledExits, Publish, Finish, memory, bounds
    <3>2. \A k \in Jobs : task'[k].pc \in AdmissionPc => task[k].pc \in AdmissionPc
      <4>1. \A k \in Jobs : k # j => task'[k] = task[k]
        BY <2>4, RunTypes DEF OthersStay
      <4>2. task'[j].pc \notin AdmissionPc \/ task'[j] = task[j]
        BY <2>4, RunPc DEF AdmissionPc, TaskPc
      <4> QED BY <4>1, <4>2
    <3>3. Cardinality(active') <= Cardinality(active) /\ Cardinality(active') \in Nat
          /\ Cardinality(active) \in Nat
      <4>1. active' \subseteq active /\ IsFiniteSet(active)
        BY <3>1 DEF Types
      <4>2. IsFiniteSet(active') /\ Cardinality(active') <= Cardinality(active)
        BY <4>1, FS_Subset
      <4> QED BY <4>1, <4>2, FS_CardinalityType
    <3>4. depth \in Nat
      BY Apart DEF Types
    <3> QED BY <3>1, <3>2, <3>3, <3>4 DEF RoomOK
  <2> QED BY <1>4, <2>1, <2>2, <2>3, <2>4 DEF JobStep
<1> QED BY <1>1, <1>2, <1>3, <1>4 DEF Next, JobStep

-----------------------------------------------------------------------------
\* LastWordStays, of one job.
WordStays(j) == LastWord(file[j]) => file'[j] = file[j]

\* JobsOK, of one job.
JobOK(j) == Stage(j) /\ Published(j) /\ Told(j)

\* Nothing is said anew of a job that no step is about.
LEMMA UnmovedKeeps ==
  ASSUME NEW k \in Jobs, JobOK(k), task'[k] = task[k], records'[k] = records[k],
         file'[k] = file[k], k \in mesh' <=> k \in mesh
  PROVE  JobOK(k)' /\ WordStays(k)
<1>1. Stage(k)' /\ Published(k)'
  BY DEF JobOK, Stage, Published
<1>2. Told(k)'
  BY DEF JobOK, Told, Honest, Truthful
<1> QED BY <1>1, <1>2 DEF JobOK, WordStays

\* A job whose mesh is not there and whose record and file say nothing of it.
LEMMA Modest ==
  ASSUME Types', NEW j \in Jobs, j \notin mesh',
         records'[j] # None => records'[j].state # "succeeded",
         file'[j] # None => file'[j].state # "succeeded"
  PROVE  Told(j)'
<1>1. ASSUME NEW r, r.state # "succeeded"
      PROVE  Honest(j, r)'
  BY <1>1 DEF Honest, Truthful
<1>2. ASSUME NEW r \in Record, r.state # "succeeded"
      PROVE  Settled(r).state # "succeeded"
  BY <1>2 DEF Settled, Record
<1>3. file'[j] # None => file'[j] \in Record
  BY DEF Types
<1> QED BY <1>1, <1>2, <1>3 DEF Told, Settled

\* A submission writes only of a job that has no mesh.
LEMMA AdmissionKeeps ==
  ASSUME IInv, NEW j \in Jobs, Submit(j) \/ Admission(j)
  PROVE  JobOK(j)' /\ WordStays(j)
<1> USE DEF IInv
<1>0. Types'
  BY AdmissionTypes
<1>1. JobOK(j) /\ Types
  BY DEF JobsOK, JobOK
<1>2. {"snapshot", "gone"} \cup AdmissionPc \subseteq Pcs
  BY DEF Pcs
<1>3. CASE Submit(j)
  BY <1>1, <1>2, <1>3, GoToEffect DEF Submit, At, disk, memory, JobOK, Stage, Published, Told,
       Honest, Truthful, Waiting, Placing, AdmissionPc, TaskPc, WordStays
<1>4. CASE Admit(j)
  <2>1. GoTo(j, "input") \/ GoTo(j, "gone")
    BY <1>4 DEF Admit
  <2>2. task'[j].pc \in {"input", "gone"}
    BY <1>1, <1>2, <2>1, GoToEffect DEF AdmissionPc
  <2> QED BY <1>1, <1>4, <2>2 DEF Admit, At, disk, memory, JobOK, Stage, Published, Told,
       Honest, Truthful, Waiting, Placing, AdmissionPc, TaskPc, WordStays
<1>5. CASE SaveInput(j)
  <2>1. task'[j].pc \in {"record", "refused"}
    BY <1>1, <1>2, <1>5, GoToEffect DEF AdmissionPc, SaveInput
  <2> QED BY <1>1, <1>5, <2>1 DEF SaveInput, At, memory, JobOK, Stage, Published, Told,
       Honest, Truthful, Waiting, Placing, AdmissionPc, TaskPc, WordStays
<1>6. CASE SaveRecord(j)
  <2>1. NewRecord \in Record /\ NewRecord.state = "queued"
    BY DEF NewRecord, Record, States, Phases
  <2>2. PICK ok \in BOOLEAN : Persist(j, NewRecord, ok) /\ GoTo(j, IF ok THEN "index" ELSE "refused")
    BY <1>6 DEF SaveRecord
  <2>3. task'[j].pc \in {"index", "refused"}
    BY <1>1, <1>2, <2>2, GoToEffect DEF AdmissionPc
  <2>4. file'[j] \in {file[j], NewRecord}
    BY <2>1, <2>2, PersistEffect
  <2>5. file[j] \in {None, NewRecord} /\ records[j] = None /\ j \notin mesh
        /\ records' = records /\ mesh' = mesh
    BY <1>1, <1>6 DEF SaveRecord, At, memory, JobOK, Stage, Waiting, Placing, AdmissionPc
  <2>6. Told(j)'
    BY <2>1, <2>4, <2>5, <1>0, Modest
  <2>7. WordStays(j)
    BY <2>1, <2>5 DEF WordStays, LastWord, Terminal
  <2> QED BY <2>3, <2>4, <2>5, <2>6, <2>7
        DEF JobOK, Stage, Published, Waiting, Placing, AdmissionPc, TaskPc
<1>7. CASE SaveIndex(j)
  <2>1. NewRecord.state = "queued" /\ ~Terminal(NewRecord) /\ NewRecord # None
    <3>1. NewRecord \in Record /\ NewRecord.state = "queued"
      BY DEF NewRecord, Record, States, Phases
    <3> QED BY <3>1, NoneAssumption DEF Terminal
  <2>2. file[j] \in {None, NewRecord} /\ records[j] = None /\ j \notin mesh
        /\ file' = file /\ mesh' = mesh
    BY <1>1, <1>7 DEF SaveIndex, At, JobOK, Stage, Waiting, Placing, AdmissionPc
  <2>3. CASE EnterNext(j, PhasesOf(j)[1]) /\ records' = [records EXCEPT ![j] = NewRecord]
    <3>1. task'[j].pc = "enter"
      BY <1>1, <2>3, FirstPhase, TurnTypes, EnterEffect
    <3>2. records'[j] = NewRecord
      BY <2>3 DEF Types
    <3>3. Told(j)'
      BY <2>1, <2>2, <3>2, <1>0, Modest
    <3> QED BY <2>1, <2>2, <3>1, <3>2, <3>3
          DEF JobOK, Stage, Published, Waiting, Placing, AdmissionPc, TaskPc, WordStays
  <2>4. CASE GoTo(j, "refused") /\ records' = records
    <3>1. task'[j].pc = "refused"
      BY <1>1, <1>2, <2>4, GoToEffect DEF AdmissionPc
    <3> QED BY <1>1, <2>2, <2>4, <3>1 DEF JobOK, Stage, Published, Told, Honest, Truthful,
          Waiting, Placing, AdmissionPc, TaskPc, WordStays
  <2> QED BY <1>7, <2>3, <2>4 DEF SaveIndex
<1>8. CASE Refused(j)
  <2>1. task'[j].pc \in {"uncertain", "unrecord"}
    BY <1>1, <1>2, <1>8, GoToEffect DEF AdmissionPc, Refused
  <2> QED BY <1>1, <1>8, <2>1 DEF Refused, At, disk, memory, JobOK, Stage, Published, Told,
       Honest, Truthful, Waiting, Placing, AdmissionPc, TaskPc, WordStays
<1>9. CASE RemoveRecord(j)
  <2>1. task'[j].pc \in {"uninput", "uninput_uncertain"}
    BY <1>1, <1>2, <1>9, GoToEffect DEF AdmissionPc, RemoveRecord
  <2>2. file'[j] \in {file[j], None}
    BY <1>9 DEF RemoveRecord, Types
  <2>3. NewRecord.state = "queued"
    BY DEF NewRecord
  <2>4. file[j] \in {None, NewRecord} /\ records[j] = None /\ j \notin mesh
        /\ records' = records /\ mesh' = mesh
    BY <1>1, <1>9 DEF RemoveRecord, At, memory, JobOK, Stage, Waiting, Placing, AdmissionPc
  <2>5. Told(j)'
    BY <2>2, <2>3, <2>4, <1>0, Modest
  <2>6. WordStays(j)
    BY <2>3, <2>4 DEF WordStays, LastWord, Terminal
  <2> QED BY <2>1, <2>2, <2>4, <2>5, <2>6
        DEF JobOK, Stage, Published, Waiting, Placing, AdmissionPc, TaskPc
<1>10. CASE RemoveInput(j)
  <2>1. task'[j].pc \in {"gone", "uncertain"}
    BY <1>1, <1>2, <1>10, GoToEffect DEF AdmissionPc, RemoveInput
  <2> QED BY <1>1, <1>10, <2>1 DEF RemoveInput, At, memory, JobOK, Stage, Published, Told,
       Honest, Truthful, Waiting, Placing, AdmissionPc, TaskPc, WordStays
<1>11. CASE Uncertain(j)
  <2> DEFINE r == [NewRecord EXCEPT !.state = "outcome_unknown"]
  <2>1. r \in Record /\ r.state = "outcome_unknown" /\ NewRecord.state = "queued"
    BY DEF NewRecord, Record, States, Phases
  <2>2. PICK ok \in BOOLEAN : Persist(j, r, ok)
    BY <1>11 DEF Uncertain
  <2>3. records' = [records EXCEPT ![j] = r] /\ GoTo(j, "gone") /\ mesh' = mesh
    BY <1>11 DEF Uncertain
  <2> HIDE DEF r
  <2>4. task'[j].pc = "gone"
    BY <1>1, <1>2, <2>3, GoToEffect
  <2>5. file'[j] \in {file[j], r}
    BY <2>1, <2>2, PersistEffect
  <2>6. records'[j] = r
    BY <2>3 DEF Types
  <2>7. file[j] \in {None, NewRecord} /\ j \notin mesh
    BY <1>1, <1>11 DEF Uncertain, At, JobOK, Stage, Waiting, Placing, AdmissionPc
  <2>8. Told(j)'
    BY <2>1, <2>3, <2>5, <2>6, <2>7, <1>0, Modest
  <2>9. WordStays(j)
    BY <2>1, <2>7 DEF WordStays, LastWord, Terminal
  <2> QED BY <2>1, <2>3, <2>4, <2>5, <2>6, <2>7, <2>8, <2>9
        DEF JobOK, Stage, Published, Waiting, Placing, AdmissionPc, TaskPc, Terminal
<1> QED BY <1>3, <1>4, <1>5, <1>6, <1>7, <1>8, <1>9, <1>10, <1>11 DEF Admission

\* The steps of a task: publishing is written, in file and record, before the
\* mesh can be there, and what finish writes is what came of it.
LEMMA RunKeeps ==
  ASSUME IInv, NEW j \in Jobs, Run(j) \/ Lane(j)
  PROVE  JobOK(j)' /\ WordStays(j)
<1> USE DEF IInv
<1>0. Types'
  BY RunTypes
<1>1. JobOK(j) /\ Types
  BY DEF JobsOK, JobOK
<1>2. task[j].pc \in TaskPc
  BY DEF Run, Lane, Enter, Fails, Spawn, ProcessSucceeds, ProcessFails, Kill, KilledExits,
         Publish, Finish, At, TaskPc
<1>3. {"ok", "io", "other", "cancelled"} \subseteq Outcomes /\ task[j].outcome \in Outcomes
      /\ {"lane", "publish", "spawn", "process", "killed", "gone"} \subseteq Pcs
  BY DEF Types, Tasks, Outcomes, Pcs, TaskPc
<1>4. records[j] \in Record /\ records[j] # None /\ ~Terminal(records[j])
      /\ (file[j] = None \/ ~Terminal(file[j])) /\ file[j] \in Record \cup {None}
  BY <1>1, <1>2 DEF JobOK, Stage, Types
<1>5. WordStays(j)
  BY <1>4 DEF WordStays, LastWord
<1> SUFFICES JobOK(j)'
  BY <1>5
<1>6. task[j].pc # "end" => j \notin mesh
  BY <1>1, <1>2 DEF JobOK, Stage
\* Nothing is written and nothing is published.
<1>7. ASSUME UNCHANGED <<file, records, mesh>>, task'[j].pc \in TaskPc \ {"publish"},
             task[j].pc # "end", task'[j].pc \in {"end", "killed"} => task'[j].outcome # "ok"
      PROVE  JobOK(j)'
  <2>1. Told(j)'
    BY <1>1, <1>7 DEF JobOK, Told, Honest, Truthful
  <2>2. Stage(j)'
    BY <1>4, <1>6, <1>7 DEF Stage, Waiting, Placing, AdmissionPc, TaskPc
  <2> QED BY <1>6, <1>7, <2>1, <2>2 DEF JobOK, Published
\* Over, but for the record; no mesh is there.
<1>8. ASSUME NEW o \in {"other", "io", "cancelled"}, End(j, o), mesh' = mesh,
             task[j].pc # "end", UNCHANGED <<file, records>>
      PROVE  JobOK(j)'
  <2>1. task'[j].pc = "end" /\ task'[j].outcome = o
    BY <1>1, <1>3, <1>8, EndEffect
  <2> QED BY <1>7, <1>8, <2>1 DEF TaskPc
<1>9. CASE Enter(j)
  <2> DEFINE r == [records[j] EXCEPT !.state = "running", !.phase = task[j].phase]
  <2>0. task[j].phase \in Phases /\ task[j].pc = "enter" /\ mesh' = mesh
    BY <1>9 DEF Enter, At, Types, Tasks
  <2>1. r \in Record /\ r.state = "running" /\ r.phase = task[j].phase
        /\ r.cancel = records[j].cancel /\ ~Terminal(r) /\ r # None
    <3>1. r \in Record
      BY <1>4, <2>0, RecordTypes
    <3>2. r.state = "running" /\ r.phase = task[j].phase /\ r.cancel = records[j].cancel
      BY <1>4 DEF Record
    <3> QED BY <3>1, <3>2, NoneAssumption DEF Terminal
  <2>2. CASE End(j, "cancelled") /\ UNCHANGED <<file, records, faults>>
    BY <1>8, <2>0, <2>2
  <2>3. CASE /\ ~records[j].cancel /\ Persist(j, r, TRUE) /\ records' = [records EXCEPT ![j] = r]
             /\ GoTo(j, CASE task[j].phase = "waiting_for_gpu" -> "lane"
                          [] task[j].phase = "publishing" -> "publish"
                          [] OTHER -> "spawn")
    <3>1. task'[j].pc \in {"lane", "publish", "spawn"}
          /\ (task'[j].pc = "publish" => task[j].phase = "publishing")
      <4>1. CASE task[j].phase = "waiting_for_gpu"
        BY <1>1, <1>3, <2>3, <4>1, GoToEffect
      <4>2. CASE task[j].phase = "publishing"
        BY <1>1, <1>3, <2>3, <4>2, GoToEffect
      <4>3. CASE task[j].phase \notin {"waiting_for_gpu", "publishing"}
        BY <1>1, <1>3, <2>3, <4>3, GoToEffect
      <4> QED BY <4>1, <4>2, <4>3
    <3>2. records'[j] = r /\ file'[j] = r
      BY <1>1, <2>1, <2>3, PersistEffect DEF Types
    <3>3. Told(j)'
      BY <1>0, <1>6, <2>0, <2>1, <3>2, Modest
    <3>4. Stage(j)'
      BY <1>6, <2>0, <2>1, <3>1, <3>2 DEF Stage, Waiting, Placing, AdmissionPc, TaskPc
    <3>5. Published(j)'
      BY <1>6, <2>0, <2>1, <2>3, <3>1, <3>2 DEF Published
    <3> QED BY <3>3, <3>4, <3>5 DEF JobOK
  <2>4. CASE Persist(j, r, FALSE) /\ End(j, "io") /\ UNCHANGED records
    <3>1. task'[j].pc = "end" /\ task'[j].outcome = "io"
      BY <1>1, <1>3, <2>4, EndEffect
    <3>2. records'[j] = records[j] /\ file'[j] \in {file[j], r}
      BY <1>1, <2>1, <2>4, PersistEffect
    <3>3. Told(j)'
      BY <1>0, <1>4, <1>6, <2>0, <2>1, <3>2, Modest DEF Terminal
    <3>4. Stage(j)'
      BY <1>4, <1>6, <2>0, <2>1, <3>1, <3>2 DEF Stage, Waiting, Placing, AdmissionPc, TaskPc
    <3>5. Published(j)'
      BY <1>6, <2>0, <3>1 DEF Published
    <3> QED BY <3>3, <3>4, <3>5 DEF JobOK
  <2> QED BY <1>9, <2>2, <2>3, <2>4 DEF Enter
<1>10. CASE Fails(j)
  BY <1>8, <1>10 DEF Fails, At, disk, memory
<1>11. CASE Spawn(j)
  <2>1. GoTo(j, "process") => task'[j].pc = "process"
    BY <1>1, <1>3, GoToEffect
  <2> QED BY <1>7, <1>8, <1>11, <2>1 DEF Spawn, At, disk, memory, TaskPc
<1>12. CASE ProcessSucceeds(j)
  <2>1. task'[j].pc = "enter"
    BY <1>1, <1>12 DEF ProcessSucceeds, EnterNext, Types, Tasks
  <2> QED BY <1>7, <1>12, <2>1 DEF ProcessSucceeds, At, disk, memory, TaskPc
<1>13. CASE ProcessFails(j)
  BY <1>8, <1>13 DEF ProcessFails, At, disk, memory
<1>14. CASE Kill(j)
  <2>1. PICK why \in {"cancelled", "other"} :
          task' = [task EXCEPT ![j].pc = "killed", ![j].outcome = why]
    BY <1>14 DEF Kill
  <2>2. task'[j].pc = "killed" /\ task'[j].outcome = why
    BY <1>1, <2>1 DEF Types, Tasks
  <2> QED BY <1>7, <1>14, <2>2 DEF Kill, At, disk, memory, TaskPc
<1>15. CASE KilledExits(j)
  <2>1. task[j].outcome # "ok" /\ task[j].pc = "killed"
    BY <1>1, <1>15 DEF KilledExits, At, JobOK, Stage
  <2>2. task'[j].pc = "end" /\ task'[j].outcome = task[j].outcome
    BY <1>1, <1>3, <1>15, EndEffect DEF KilledExits
  <2> QED BY <1>7, <1>15, <2>1, <2>2 DEF KilledExits, disk, memory, TaskPc
<1>16. CASE Publish(j)
  <2>1. /\ file[j] = records[j] /\ records[j].phase = "publishing" /\ ~records[j].cancel
        /\ file' = file /\ records' = records /\ task[j].pc = "publish"
    BY <1>1, <1>16 DEF Publish, At, memory, JobOK, Published
  <2>2. PICK o \in {"ok", "other", "io"} :
          End(j, o) /\ (o = "ok" => j \in mesh') /\ (o = "other" => mesh' = mesh)
    BY <1>16 DEF Publish
  <2>3. task'[j].pc = "end" /\ task'[j].outcome = o
    BY <1>1, <1>3, <2>2, EndEffect
  <2>4. Settled(file'[j]).state = "outcome_unknown" /\ ~Settled(file'[j]).cancel
    BY <1>4, <2>1 DEF Settled, Record
  <2>5. Told(j)'
    <3>1. Honest(j, Settled(file[j]))'
      BY <2>4 DEF Honest, Truthful
    <3>2. Honest(j, records[j])'
      BY <1>4, <2>1 DEF Honest, Truthful, Terminal
    <3> QED BY <3>1, <3>2 DEF Told
  <2>6. Stage(j)'
    BY <1>4, <2>1, <2>3 DEF Stage, Waiting, Placing, AdmissionPc, TaskPc
  <2>7. Published(j)'
    BY <1>6, <2>1, <2>2, <2>3 DEF Published
  <2> QED BY <2>5, <2>6, <2>7 DEF JobOK
<1>17. CASE Finish(j)
  <2>r. PICK r : r = Final(records[j], task[j].outcome)
    OBVIOUS
  <2>u. PICK u : u = [r EXCEPT !.state = "outcome_unknown"]
    OBVIOUS
  <2>1. r \in Record /\ u \in Record /\ Terminal(r) /\ Terminal(u) /\ r.cancel = records[j].cancel
        /\ u.cancel = records[j].cancel /\ u.state = "outcome_unknown"
    <3>1. r \in Record
      BY <1>4, <2>r, RecordTypes
    <3>2. Terminal(r) /\ r.cancel = records[j].cancel
      BY <1>4, <2>r DEF Final, Record, Terminal
    <3>3. u \in Record /\ u.state = "outcome_unknown" /\ u.cancel = r.cancel
      BY <3>1, <2>u DEF Record, States
    <3> QED BY <3>1, <3>2, <3>3 DEF Terminal
  <2>2. PICK ok \in BOOLEAN : Persist(j, r, ok)
    BY <1>17, <2>r DEF Finish
  <2>3. file'[j] \in {file[j], r}
    BY <1>1, <2>1, <2>2, PersistEffect
  <2>4. records'[j] \in {r, u} /\ mesh' = mesh
    BY <1>1, <1>17, <2>r, <2>u DEF Finish, Types
  <2>5. task'[j].pc = "gone"
    BY <1>1, <1>3, <1>17, GoToEffect DEF Finish
  <2>6. Truthful(j, r)
    <3>1. task[j].pc = "end"
      BY <1>17 DEF Finish, At
    <3>2. r.state = "succeeded" => task[j].outcome = "ok"
      BY <1>4, <2>r DEF Final, Record
    <3>3. r.state \in {"failed", "cancelled", "interrupted"} =>
            task[j].outcome # "ok" /\ ~(records[j].phase = "publishing" /\ task[j].outcome = "io")
      BY <1>4, <2>r DEF Final, Record
    <3> QED BY <1>1, <3>1, <3>2, <3>3 DEF JobOK, Published, Truthful
  <2>7. records[j].cancel => j \notin mesh
    BY <1>1, <1>4 DEF JobOK, Told, Honest
  <2>8. Settled(r) = r
    BY <2>1 DEF Settled
  <2>9. Honest(j, r)' /\ Honest(j, u)'
    BY <2>1, <2>4, <2>6, <2>7 DEF Honest, Truthful
  <2>10. file[j] # None => Honest(j, Settled(file[j]))
    BY <1>1 DEF JobOK, Told
  <2>11. Told(j)'
    BY <2>3, <2>4, <2>8, <2>9, <2>10 DEF Told, Honest, Truthful
  <2>12. Stage(j)'
    BY <2>1, <2>4, <2>5 DEF Stage, Waiting, Placing, AdmissionPc, TaskPc
  <2>13. Published(j)'
    BY <2>5 DEF Published
  <2> QED BY <2>11, <2>12, <2>13 DEF JobOK
<1>18. CASE Lane(j)
  <2>1. CASE End(j, "cancelled")
    BY <1>8, <1>18, <2>1 DEF Lane, At, disk, memory
  <2>2. CASE EnterNext(j, NextPhase(j, "waiting_for_gpu"))
    <3>1. task'[j].pc = "enter"
      BY <1>1, <2>2 DEF EnterNext, Types, Tasks
    <3> QED BY <1>7, <1>18, <3>1 DEF Lane, At, disk, memory, TaskPc
  <2> QED BY <1>18, <2>1, <2>2 DEF Lane
<1> QED BY <1>9, <1>10, <1>11, <1>12, <1>13, <1>14, <1>15, <1>16, <1>17, <1>18 DEF Run

\* cancel: a job that is neither over nor publishing has no mesh.
LEMMA CancelKeeps ==
  ASSUME IInv, NEW j \in Jobs, Cancel(j)
  PROVE  JobOK(j)' /\ WordStays(j)
<1> USE DEF IInv
<1>0. Types'
  BY RunTypes
<1>1. JobOK(j) /\ Types
  BY DEF JobsOK, JobOK
<1>2. records[j] # None /\ ~Terminal(records[j]) /\ records[j] \in Record
      /\ records[j].phase # "publishing" /\ mesh' = mesh /\ task' = task
  BY <1>1 DEF Cancel, Types
<1>3. task[j].pc \in TaskPc
  <2>1. task[j].pc \in Pcs
    BY <1>1 DEF Types, Tasks
  <2>2. task[j].pc \notin Waiting \cup Placing \cup {"gone"}
    BY <1>1, <1>2 DEF JobOK, Stage
  <2> QED BY <2>1, <2>2 DEF Pcs, Waiting, Placing, AdmissionPc
<1>4. j \notin mesh /\ task[j].pc # "publish"
  BY <1>1, <1>2, <1>3 DEF JobOK, Stage, Published
<1>5. file[j] \in Record \cup {None} /\ (file[j] = None \/ ~Terminal(file[j]))
  BY <1>1, <1>3 DEF JobOK, Stage, Types
<1> DEFINE r == [records[j] EXCEPT !.cancel = TRUE]
<1>6. r \in Record /\ ~Terminal(r) /\ r # None
  <2>1. r \in Record
    BY <1>2, RecordTypes
  <2>2. r.state = records[j].state
    BY <1>2 DEF Record
  <2> QED BY <1>2, <2>1, <2>2, NoneAssumption DEF Terminal
<1>7. PICK ok \in BOOLEAN : Persist(j, r, ok)
  BY DEF Cancel
<1>8. file'[j] \in {file[j], r} /\ records'[j] = r
  <2>1. records' = [records EXCEPT ![j] = r]
    BY DEF Cancel
  <2> HIDE DEF r
  <2> QED BY <1>1, <1>6, <1>7, <2>1, PersistEffect DEF Types
<1> HIDE DEF r
<1>9. Told(j)'
  BY <1>0, <1>2, <1>4, <1>5, <1>6, <1>8, Modest DEF Terminal
<1>10. Stage(j)'
  BY <1>1, <1>2, <1>3, <1>4, <1>5, <1>6, <1>8
  DEF JobOK, Stage, Waiting, Placing, AdmissionPc, TaskPc
<1>11. Published(j)'
  BY <1>1, <1>2, <1>4 DEF JobOK, Published
<1>12. WordStays(j)
  BY <1>5 DEF WordStays, LastWord
<1> QED BY <1>9, <1>10, <1>11, <1>12 DEF JobOK

\* A restart and the settling after it: a file that says publishing becomes an
\* unknown outcome, any other unfinished one has no mesh.
LEMMA OtherKeeps ==
  ASSUME IInv, Initialize \/ Restart \/ DirectStarts \/ DirectEnds \/ UNCHANGED vars,
         NEW j \in Jobs
  PROVE  JobOK(j)' /\ WordStays(j)
<1> USE DEF IInv
<1>1. JobOK(j) /\ Types
  BY DEF JobsOK, JobOK
<1>2. CASE Initialize
  <2>1. task[j].pc \in {"new", "gone"} /\ task' = task /\ mesh' = mesh
    BY <1>2 DEF Initialize, ReadyOK
  <2>2. file'[j] = file[j] \/ (file[j] # None /\ file'[j] = Settled(file[j]))
    BY <1>1, <1>2, InitializeEffect
  <2>3. records'[j] \in {records[j], None} \/
          (file[j] # None /\ file'[j] = Settled(file[j]) /\ records'[j] = file'[j])
    BY <1>1, <1>2, InitializeEffect
  <2>4. \A r \in Record : Settled(r) \in Record /\ Terminal(Settled(r)) /\ Settled(Settled(r)) = Settled(r)
    BY DEF Settled, Terminal, Record, States
  <2>5. file[j] \in Record \cup {None} /\ records[j] \in Record \cup {None}
    BY <1>1 DEF Types
  <2>6. WordStays(j)
    BY <2>2 DEF WordStays, LastWord, Settled
  <2>7. Told(j)'
    BY <1>1, <2>1, <2>2, <2>3, <2>4, <2>5 DEF JobOK, Told, Honest, Truthful
  <2>8. Stage(j)'
    BY <1>1, <2>1, <2>2, <2>3, <2>4, <2>5
    DEF JobOK, Stage, Waiting, Placing, AdmissionPc, TaskPc
  <2>9. Published(j)'
    BY <2>1 DEF Published
  <2> QED BY <2>6, <2>7, <2>8, <2>9 DEF JobOK
<1>3. CASE Restart
  <2>1. file' = file /\ mesh' = mesh /\ records'[j] = None
    BY <1>3 DEF Restart, disk
  <2>2. IF task[j].pc = "new" THEN task'[j].pc = "new" ELSE task'[j].pc = "gone"
    BY <1>1, <1>3, RestartEffect
  <2>3. WordStays(j)
    BY <2>1 DEF WordStays
  <2>4. Told(j)'
    BY <1>1, <2>1 DEF JobOK, Told, Honest, Truthful
  <2>5. Stage(j)'
    BY <1>1, <2>1, <2>2 DEF JobOK, Stage, Waiting, Placing, AdmissionPc, TaskPc
  <2>6. Published(j)'
    BY <2>2 DEF Published
  <2> QED BY <2>3, <2>4, <2>5, <2>6 DEF JobOK
<1>4. CASE DirectStarts \/ DirectEnds \/ UNCHANGED vars
  BY <1>1, <1>4, UnmovedKeeps DEF DirectStarts, DirectEnds, vars, disk, memory
<1> QED BY <1>2, <1>3, <1>4

\* Every step keeps what is said of every job, and the last word on it.
LEMMA JobsStep ==
  ASSUME IInv, [Next]_vars
  PROVE  JobsOK' /\ \A k \in Jobs : WordStays(k)
<1> SUFFICES ASSUME NEW k \in Jobs
             PROVE  JobOK(k)' /\ WordStays(k)
  BY DEF JobsOK, JobOK
<1>1. JobOK(k)
  BY DEF IInv, JobsOK, JobOK
<1>2. ASSUME NEW j \in Jobs, JobStep(j)
      PROVE  JobOK(k)' /\ WordStays(k)
  <2>1. JobOK(j)' /\ WordStays(j)
    BY <1>2, AdmissionKeeps, RunKeeps, CancelKeeps DEF JobStep
  <2>2. OthersStay(j)
    BY <1>2, AdmissionTypes, RunTypes DEF JobStep, IInv
  <2>3. k # j => JobOK(k)' /\ WordStays(k)
    BY <1>1, <2>2, UnmovedKeeps DEF OthersStay
  <2> QED BY <2>1, <2>3
<1> QED BY <1>2, OtherKeeps DEF Next, JobStep

-----------------------------------------------------------------------------
\* Whoever is not at work keeps its claim: the lane changes hands only when it
\* is free or given back by its holder.
LEMMA OthersOnGpu ==
  ASSUME NEW j \in Jobs, GpuOK, OthersStay(j),
         procs' \subseteq procs \cup {j},
         lane' = lane \/ (lane = None /\ lane' = j) \/ (lane = j /\ lane' = None),
         OnGpu(j)'
  PROVE  GpuOK'
<1>1. None \notin Jobs /\ Direct \notin Jobs /\ Direct # None
  BY Apart
<1>2. ASSUME NEW k \in Jobs, k # j
      PROVE  OnGpu(k)'
  <2>1. OnGpu(k) /\ task'[k] = task[k] /\ (lane = k => lane' = k) /\ (k \in procs' => k \in procs)
    BY <1>1, <1>2 DEF OthersStay, GpuOK
  <2> QED BY <2>1 DEF OnGpu
<1>3. Direct \in procs' => lane' = Direct
  BY <1>1 DEF GpuOK
<1> QED BY <1>2, <1>3 DEF GpuOK

\* A job takes the lane when it is free, and gives back its own when its
\* process is no more.
LEMMA JobOnGpu ==
  ASSUME IInv, NEW j \in Jobs, JobStep(j)
  PROVE  /\ OnGpu(j)' /\ procs' \subseteq procs \cup {j}
         /\ lane' = lane \/ (lane = None /\ lane' = j) \/ (lane = j /\ lane' = None)
<1> USE DEF IInv
<1>1. OnGpu(j) /\ Types
  BY DEF GpuOK
<1>2. {"ok", "io", "other", "cancelled"} \subseteq Outcomes /\ task[j].outcome \in Outcomes
      /\ task[j].phase \in Phases /\ {"snapshot", "gone"} \cup AdmissionPc \cup TaskPc \subseteq Pcs
  BY DEF Types, Tasks, Outcomes, Pcs
\* It is not in the works, and has no process.
<1>3. ASSUME task'[j].pc \notin TaskPc, j \notin procs'
      PROVE  OnGpu(j)'
  BY <1>3 DEF OnGpu, Native, TaskPc
\* It is over, and gives back the lane.
<1>4. ASSUME NEW o \in Outcomes, End(j, o), j \notin procs', task[j].pc \in TaskPc,
             procs' \subseteq procs
      PROVE  /\ OnGpu(j)' /\ procs' \subseteq procs \cup {j}
             /\ lane' = lane \/ (lane = j /\ lane' = None)
  <2>1. task'[j].pc = "end" /\ task'[j].phase = task[j].phase
    BY <1>1, <1>4, EndEffect
  <2> QED BY <1>1, <1>4, <2>1 DEF OnGpu, Native, TaskPc, End, InTurn
<1>5. CASE Submit(j)
  <2>1. task'[j].pc = "snapshot" /\ task[j].pc = "new"
    BY <1>1, <1>2, <1>5, GoToEffect DEF Submit, At
  <2> QED BY <1>1, <1>3, <1>5, <2>1 DEF Submit, gpu, OnGpu, TaskPc
<1>6. CASE Admit(j)
  <2>1. task'[j].pc \in {"input", "gone"} /\ task[j].pc = "snapshot"
    BY <1>1, <1>2, <1>6, GoToEffect DEF Admit, At, AdmissionPc
  <2> QED BY <1>1, <1>3, <1>6, <2>1 DEF Admit, gpu, OnGpu, TaskPc
<1>7. CASE SaveIndex(j)
  <2>1. task[j].pc = "index" /\ procs' = procs /\ lane' = lane /\ j \notin procs
    BY <1>1, <1>7 DEF SaveIndex, At, gpu, OnGpu
  <2>2. CASE EnterNext(j, PhasesOf(j)[1])
    <3>1. PhasesOf(j)[1] \in {"preparing_models", "waiting_for_gpu"} \cap InTurn(j)
      BY FirstPhase
    <3>2. task'[j].pc = "enter" /\ task'[j].phase = PhasesOf(j)[1]
      BY <1>1, <2>2, <3>1, EnterEffect, TurnTypes
    <3>3. task'[j].phase \in InTurn(j)
      BY <3>1, <3>2
    <3> QED BY <2>1, <3>1, <3>2, <3>3 DEF OnGpu, Native, TaskPc, InTurn
  <2>3. CASE GoTo(j, "refused")
    <3>1. task'[j].pc = "refused"
      BY <1>1, <1>2, <2>3, GoToEffect DEF AdmissionPc
    <3> QED BY <1>3, <2>1, <3>1 DEF TaskPc
  <2> QED BY <1>7, <2>2, <2>3 DEF SaveIndex
<1>8. CASE SaveInput(j) \/ SaveRecord(j) \/ Refused(j) \/ RemoveRecord(j) \/ RemoveInput(j) \/ Uncertain(j)
  <2>1. task[j].pc \in AdmissionPc /\ procs' = procs /\ lane' = lane
    BY <1>8 DEF SaveInput, SaveRecord, Refused, RemoveRecord, RemoveInput, Uncertain, At, gpu, AdmissionPc
  <2>2. \E s \in {"record", "refused", "index", "uncertain", "unrecord", "uninput",
                  "uninput_uncertain", "gone"} : GoTo(j, s)
    <3>1. CASE SaveRecord(j)
      BY <3>1 DEF SaveRecord
    <3>2. CASE SaveInput(j) \/ Refused(j) \/ RemoveRecord(j) \/ RemoveInput(j) \/ Uncertain(j)
      BY <3>2 DEF SaveInput, Refused, RemoveRecord, RemoveInput, Uncertain
    <3> QED BY <1>8, <3>1, <3>2
  <2>3. task'[j].pc \notin TaskPc
    BY <1>1, <1>2, <2>2, GoToEffect DEF AdmissionPc, TaskPc
  <2>4. j \notin procs
    BY <1>1, <2>1 DEF OnGpu, AdmissionPc
  <2> QED BY <1>3, <2>1, <2>3, <2>4
<1>9. CASE Enter(j)
  <2>1. task[j].pc = "enter" /\ j \notin procs /\ procs' = procs
    BY <1>1, <1>9 DEF Enter, At, OnGpu
  <2>2. CASE \E o \in {"cancelled", "io"} : End(j, o)
    BY <1>2, <1>4, <2>1, <2>2 DEF TaskPc
  <2>3. CASE lane' = lane /\ GoTo(j, CASE task[j].phase = "waiting_for_gpu" -> "lane"
                          [] task[j].phase = "publishing" -> "publish"
                          [] OTHER -> "spawn")
    <3>1. CASE task[j].phase = "waiting_for_gpu"
      <4>1. task'[j].pc = "lane" /\ task'[j].phase = task[j].phase
        BY <1>1, <1>2, <2>3, <3>1, GoToEffect DEF TaskPc
      <4> QED BY <1>1, <2>1, <2>3, <3>1, <4>1 DEF OnGpu, Native, TaskPc, InTurn
    <3>2. CASE task[j].phase = "publishing"
      <4>1. task'[j].pc = "publish" /\ task'[j].phase = task[j].phase
        BY <1>1, <1>2, <2>3, <3>2, GoToEffect DEF TaskPc
      <4> QED BY <1>1, <2>1, <2>3, <3>2, <4>1 DEF OnGpu, Native, TaskPc, InTurn
    <3>3. CASE task[j].phase \notin {"waiting_for_gpu", "publishing"}
      <4>1. task'[j].pc = "spawn" /\ task'[j].phase = task[j].phase
        BY <1>1, <1>2, <2>3, <3>3, GoToEffect DEF TaskPc
      <4> QED BY <1>1, <2>1, <2>3, <3>3, <4>1 DEF OnGpu, Native, TaskPc, InTurn
    <3> QED BY <3>1, <3>2, <3>3
  <2> QED BY <1>9, <2>2, <2>3 DEF Enter
<1>10. CASE Fails(j)
  BY <1>1, <1>2, <1>4, <1>10 DEF Fails, At, OnGpu, TaskPc
<1>11. CASE Spawn(j)
  <2>1. CASE End(j, "cancelled") /\ procs' = procs
    BY <1>1, <1>2, <1>4, <1>11, <2>1 DEF Spawn, At, OnGpu, TaskPc
  <2>2. CASE GoTo(j, "process") /\ procs' = procs \cup {j} /\ lane' = lane
    <3>1. task'[j].pc = "process" /\ task'[j].phase = task[j].phase
      BY <1>1, <1>2, <2>2, GoToEffect DEF TaskPc
    <3> QED BY <1>1, <1>11, <2>2, <3>1 DEF Spawn, At, OnGpu, Native, TaskPc, InTurn
  <2> QED BY <1>11, <2>1, <2>2 DEF Spawn
<1>12. CASE ProcessSucceeds(j)
  <2>1. task[j].pc = "process" /\ procs' = procs \ {j} /\ lane' = lane
    BY <1>12 DEF ProcessSucceeds, At
  <2>2. task[j].phase \in InTurn(j) \ {"publishing"} /\ task[j].phase # "waiting_for_gpu"
        /\ (task[j].phase # "preparing_models" => lane = j)
    BY <1>1, <2>1 DEF OnGpu, TaskPc, Native
  <2> DEFINE next == NextPhase(j, task[j].phase)
  <2>3. /\ next \in InTurn(j)
        /\ task[j].phase = "preparing_models" => next = "waiting_for_gpu"
    BY <2>2, Turns
  <2> HIDE DEF next
  <2>4. task'[j].pc = "enter" /\ task'[j].phase = next
    BY <1>1, <1>12, <2>3, TurnTypes, EnterEffect DEF ProcessSucceeds, next
  <2>5. InTurn(j)' = InTurn(j)
    BY DEF InTurn
  <2> QED BY <2>1, <2>2, <2>3, <2>4, <2>5 DEF OnGpu, Native, TaskPc
<1>13. CASE ProcessFails(j)
  BY <1>2, <1>4, <1>13 DEF ProcessFails, At, TaskPc
<1>14. CASE Kill(j)
  <2>1. task'[j].pc = "killed" /\ task'[j].phase = task[j].phase
    BY <1>1, <1>14 DEF Kill, Types, Tasks
  <2> QED BY <1>1, <1>14, <2>1 DEF Kill, At, gpu, OnGpu, Native, TaskPc, InTurn
<1>15. CASE KilledExits(j)
  BY <1>2, <1>4, <1>15 DEF KilledExits, At, TaskPc
<1>16. CASE Publish(j)
  <2>1. PICK o \in Outcomes : End(j, o)
    BY <1>2, <1>16 DEF Publish
  <2>2. task[j].pc = "publish" /\ procs' = procs /\ j \notin procs
    BY <1>1, <1>16 DEF Publish, At, OnGpu
  <2> QED BY <1>4, <2>1, <2>2 DEF TaskPc
<1>17. CASE Finish(j)
  <2>1. task'[j].pc = "gone" /\ task[j].pc = "end" /\ procs' = procs /\ lane' = lane
    BY <1>1, <1>2, <1>17, GoToEffect DEF Finish, At, gpu
  <2> QED BY <1>1, <1>3, <2>1 DEF OnGpu, TaskPc
<1>18. CASE Lane(j)
  <2>1. task[j].pc = "lane" /\ procs' = procs /\ j \notin procs
    BY <1>1, <1>18 DEF Lane, At, OnGpu
  <2>2. CASE End(j, "cancelled")
    BY <1>2, <1>4, <2>1, <2>2 DEF TaskPc
  <2>3. CASE lane = None /\ lane' = j /\ EnterNext(j, NextPhase(j, "waiting_for_gpu"))
    <3>1. NextPhase(j, "waiting_for_gpu") \in InTurn(j)
      BY Turns DEF InTurn
    <3>2. task'[j].pc = "enter" /\ task'[j].phase \in InTurn(j)
      BY <1>1, <2>3, <3>1, TurnTypes, EnterEffect
    <3>3. InTurn(j)' = InTurn(j)
      BY DEF InTurn
    <3> QED BY <2>1, <2>3, <3>2, <3>3 DEF OnGpu, Native, TaskPc
  <2> QED BY <1>18, <2>2, <2>3 DEF Lane
<1>19. CASE Cancel(j)
  BY <1>1, <1>19 DEF Cancel, gpu, OnGpu, InTurn
<1> QED BY <1>5, <1>6, <1>7, <1>8, <1>9, <1>10, <1>11, <1>12, <1>13, <1>14, <1>15, <1>16,
           <1>17, <1>18, <1>19 DEF JobStep, Admission, Run

\* Every step keeps GpuOK.
LEMMA GpuStep ==
  ASSUME IInv, [Next]_vars
  PROVE  GpuOK'
<1> USE DEF IInv
<1>0. None \notin Jobs /\ Direct \notin Jobs /\ Direct # None
  BY Apart
<1>1. ASSUME NEW j \in Jobs, JobStep(j)
      PROVE  GpuOK'
  <2>1. OthersStay(j)
    BY <1>1, AdmissionTypes, RunTypes DEF JobStep
  <2> QED BY <1>1, <2>1, JobOnGpu, OthersOnGpu
<1>2. CASE Initialize \/ UNCHANGED vars
  BY <1>2 DEF Initialize, vars, gpu, GpuOK, OnGpu, InTurn
<1>3. CASE Restart
  BY <1>3, RestartEffect DEF Restart, GpuOK, OnGpu, Native, TaskPc
<1>4. CASE DirectStarts
  <2>1. lane = None /\ lane' = Direct /\ procs' = procs \cup {Direct} /\ task' = task
    BY <1>4 DEF DirectStarts
  <2>2. ASSUME NEW k \in Jobs
        PROVE  OnGpu(k)'
    <3>1. OnGpu(k) /\ lane # k /\ k # Direct
      BY <1>0, <2>1 DEF GpuOK
    <3> QED BY <2>1, <3>1 DEF OnGpu, InTurn
  <2> QED BY <2>1, <2>2 DEF GpuOK
<1>5. CASE DirectEnds
  <2>1. lane = Direct /\ lane' = None /\ procs' = procs \ {Direct} /\ task' = task
    BY <1>5 DEF DirectEnds
  <2>2. ASSUME NEW k \in Jobs
        PROVE  OnGpu(k)'
    <3>1. OnGpu(k) /\ lane # k
      BY <1>0, <2>1 DEF GpuOK
    <3> QED BY <2>1, <3>1 DEF OnGpu, InTurn
  <2> QED BY <2>1, <2>2 DEF GpuOK
<1> QED BY <1>1, <1>2, <1>3, <1>4, <1>5 DEF Next, JobStep

-----------------------------------------------------------------------------
\* The invariant holds at first.
LEMMA InitInv == Init => IInv
<1> SUFFICES ASSUME Init
             PROVE  IInv
  OBVIOUS
<1>1. Types
  <2>1. [pc |-> "new", phase |-> "queued", outcome |-> "none"] \in Tasks
    BY DEF Tasks, Pcs, Phases, Outcomes
  <2>2. task \in [Jobs -> Tasks]
    BY <2>1 DEF Init
  <2>3. /\ file \in [Jobs -> Record \cup {None}] /\ records \in [Jobs -> Record \cup {None}]
        /\ index \in Seq(Jobs) /\ order \in Seq(Jobs) /\ IsFiniteSet(active)
    BY FS_EmptySet DEF Init
  <2> QED BY <2>2, <2>3 DEF Init, Types
<1>2. RoomOK
  <2>1. Cardinality({}) = 0 /\ depth \in Nat
    BY FS_EmptySet, Apart DEF Init
  <2> QED BY <2>1 DEF Init, RoomOK, AdmissionPc
<1>3. JobsOK
  BY DEF Init, JobsOK, Stage, Published, Told, Placing, AdmissionPc, TaskPc
<1>4. ReadyOK /\ GpuOK
  BY DEF Init, ReadyOK, GpuOK, OnGpu, Native, TaskPc
<1> QED BY <1>1, <1>2, <1>3, <1>4 DEF IInv

\* Every step keeps the invariant.
LEMMA NextInv == IInv /\ [Next]_vars => IInv'
<1> SUFFICES ASSUME IInv, [Next]_vars
             PROVE  IInv'
  OBVIOUS
<1>1. Types'
  <2>1. ASSUME NEW j \in Jobs, JobStep(j)
        PROVE  Types'
    BY <2>1, AdmissionTypes, RunTypes DEF JobStep, IInv
  <2>2. CASE UNCHANGED vars
    BY <2>2 DEF vars, disk, memory, gpu, bounds, IInv, Types
  <2> QED BY <2>1, <2>2, OtherTypes DEF Next, JobStep, IInv
<1> QED BY <1>1, RoomStep, JobsStep, ReadyStep, GpuStep DEF IInv

\* The invariant holds always.
LEMMA SpecInv == Spec => []IInv
BY InitInv, NextInv, PTL DEF Spec

\* Every variable has its type, and no more jobs are admitted than
\* photo_queue_depth, however submissions interleave (submit_object).
THEOREM TypeCorrect == Spec => []TypeOK
<1>1. IInv => TypeOK
  BY DEF IInv, Types, RoomOK, TypeOK, QueueIsBounded, Tasks, Pcs
<1> QED BY <1>1, SpecInv, PTL

\* What a client is told of a job that is over is what happened to its mesh,
\* whatever write failed and wherever the worker stopped (finish, initialize).
THEOREM RecordsAreTrue == Spec => []OutcomesAreTrue
<1>1. IInv => OutcomesAreTrue
  BY DEF IInv, JobsOK, Told, Honest, OutcomesAreTrue
<1> QED BY <1>1, SpecInv, PTL

\* A mesh is never published after the cancellation of its job was accepted
\* (cancel, JobControl::enter).
THEOREM CancelledStaysUnpublished == Spec => []CancellationIsKept
<1>1. IInv => CancellationIsKept
  BY DEF IInv, JobsOK, Told, Honest, CancellationIsKept
<1> QED BY <1>1, SpecInv, PTL

\* Two processes that are waited for never use the GPU at once (run_command,
\* job_permit).
THEOREM OneAtATime == Spec => []OneOnTheGpu
<1>1. ASSUME IInv
      PROVE  OneOnTheGpu
  <2> DEFINE S == {p \in procs : UsesGpu(p)}
  <2>1. \A p \in S : p = lane
    <3>1. ASSUME NEW p \in S, p # Direct
          PROVE  p = lane
      <4>1. p \in Jobs /\ p \in procs /\ task[p].phase # "preparing_models"
        BY <3>1 DEF UsesGpu
      <4>2. OnGpu(p)
        BY <1>1, <4>1 DEF IInv, GpuOK
      <4> QED BY <4>1, <4>2 DEF OnGpu, Native
    <3> QED BY <1>1, <3>1 DEF IInv, GpuOK
  <2>2. IsFiniteSet({lane}) /\ Cardinality({lane}) = 1
    BY FS_Singleton
  <2>3. S \subseteq {lane}
    BY <2>1
  <2>4. Cardinality(S) <= 1
    BY <2>2, <2>3, FS_Subset
  <2> QED BY <2>4 DEF OneOnTheGpu
<1> QED BY <1>1, SpecInv, PTL

\* No task, request, failed write or restart changes the file of a job that is
\* known to be over (finish, cancel, initialize).
THEOREM LastWordIsFinal == Spec => LastWordStays
<1>1. IInv /\ [Next]_vars => [\A j \in Jobs : LastWord(file[j]) => file'[j] = file[j]]_vars
  BY JobsStep DEF WordStays
<1> QED BY <1>1, SpecInv, PTL DEF Spec, LastWordStays

-----------------------------------------------------------------------------
(* The history: who is in the index and in the order, and what each failed   *)
(* operation of the storage leaves behind.                                  *)

\* A submission that takes back what it has written.
Removing == {"unrecord", "uninput", "uninput_uncertain"}
Submitting == {"new", "snapshot"} \cup AdmissionPc

\* A job has a task as long as it is admitted, and its evidence is complete.
Held(j) ==
  /\ task[j].pc \in TaskPc <=> j \in active
  /\ j \in active => j \in Range(index) /\ j \in Range(order) /\ j \in input /\ file[j] # None

\* A submission is not known before its last step; on the disk it may be listed
\* when writing the index has failed, and then its record stays.
Listing(j) ==
  /\ task[j].pc \in Submitting => j \notin Range(order)
  /\ task[j].pc \in Submitting /\ j \in Range(index) =>
       task[j].pc \in {"refused", "uncertain"} /\ file[j] # None
  /\ task[j].pc = "index" => file[j] # None
  /\ task[j].pc \in {"record", "index"} => j \in input

\* A job is known, or listed, without a record only after three operations
\* have failed: one of the submission, one of the removal, and the last record.
Counted(j) ==
  /\ task[j].pc \in {"refused", "unrecord", "uninput"} => faults >= 1
  /\ task[j].pc = "uninput_uncertain" => faults >= 2
  /\ task[j].pc = "uncertain" /\ file[j] = None => faults >= 2
  /\ j \in Range(index) \cup Range(order) /\ file[j] = None => faults >= 3

Worded(j) == LastWord(records[j]) => file[j] = records[j]

Kept(j)   == Held(j) /\ Listing(j) /\ Counted(j) /\ Worded(j)
HistoryOK == (\A j \in Jobs : Kept(j)) /\ (~ready => active = {})

\* Who is in a list that one job is appended to.
LEMMA Appended ==
  ASSUME NEW s \in Seq(Jobs), NEW j \in Jobs
  PROVE  Range(Append(s, j)) = Range(s) \cup {j}
<1>1. DOMAIN s = 1..Len(s) /\ DOMAIN Append(s, j) = 1..Len(s)+1 /\ Len(s) \in Nat
      /\ Append(s, j)[Len(s)+1] = j /\ \A i \in 1..Len(s) : Append(s, j)[i] = s[i]
  OBVIOUS
<1>2. ASSUME NEW k \in Range(Append(s, j))
      PROVE  k \in Range(s) \cup {j}
  BY <1>1 DEF Range
<1>3. ASSUME NEW k \in Range(s)
      PROVE  k \in Range(Append(s, j))
  BY <1>1 DEF Range
<1>4. j \in Range(Append(s, j))
  BY <1>1 DEF Range
<1> QED BY <1>2, <1>3, <1>4

\* A write that fails is counted.
LEMMA PersistCounts ==
  ASSUME NEW j, NEW r, NEW ok \in BOOLEAN, Persist(j, r, ok)
  PROVE  faults' = faults \/ (~ok /\ Fault)
BY DEF Persist

\* What the steps about one job do to the lists, the inputs, the admitted jobs
\* and the count of failures.
LEMMA ListsEffect ==
  ASSUME IInv, NEW j \in Jobs, JobStep(j)
  PROVE  /\ faults' = faults \/ Fault
         /\ index' = index \/ (SaveIndex(j) /\ index' = Append(order, j))
         /\ order' = order \/ ((SaveIndex(j) \/ Uncertain(j)) /\ order' = Append(order, j))
         /\ input' \in {input, input \cup {j}, input \ {j}}
         /\ active' = active \/ (SaveIndex(j) /\ active' = active \cup {j})
            \/ (Finish(j) /\ active' = active \ {j})
<1>1. CASE Submit(j) \/ Admit(j) \/ Refused(j)
  BY <1>1 DEF Submit, Admit, Refused, disk, memory, bounds
<1>2. CASE SaveInput(j)
  BY <1>2 DEF SaveInput, memory
<1>3. CASE SaveRecord(j)
  BY <1>3, PersistCounts DEF SaveRecord, memory
<1>4. CASE SaveIndex(j)
  BY <1>4 DEF SaveIndex
<1>5. CASE RemoveRecord(j) \/ RemoveInput(j)
  BY <1>5 DEF RemoveRecord, RemoveInput, memory
<1>6. CASE Uncertain(j)
  BY <1>6, PersistCounts DEF Uncertain
<1>7. CASE Enter(j)
  <2>1. faults' = faults \/ Fault
    BY <1>7, PersistCounts DEF Enter
  <2> QED BY <1>7, <2>1 DEF Enter
<1>8. CASE Fails(j) \/ Lane(j) \/ Spawn(j) \/ ProcessSucceeds(j) \/ ProcessFails(j) \/ Kill(j)
           \/ KilledExits(j) \/ Publish(j)
  BY <1>8 DEF Fails, Lane, Spawn, ProcessSucceeds, ProcessFails, Kill, KilledExits, Publish,
              disk, memory, bounds
<1>9. CASE Finish(j)
  <2>1. faults' = faults \/ Fault
    BY <1>9, PersistCounts DEF Finish
  <2> QED BY <1>9, <2>1 DEF Finish
<1>10. CASE Cancel(j)
  BY <1>10, PersistCounts DEF Cancel
<1> QED BY <1>1, <1>2, <1>3, <1>4, <1>5, <1>6, <1>7, <1>8, <1>9, <1>10
      DEF JobStep, Admission, Run

\* What is kept of the other jobs: who appends to a list has the lock, so that
\* no other submission has a claim to the index.
LEMMA OthersHistory ==
  ASSUME IInv, HistoryOK, NEW j \in Jobs, JobStep(j), NEW k \in Jobs \ {j}
  PROVE  Kept(k)'
<1> USE DEF IInv
<1>1. Kept(k) /\ index \in Seq(Jobs) /\ order \in Seq(Jobs) /\ faults \in Nat
  BY DEF HistoryOK, Types
<1>2. task'[k] = task[k] /\ records'[k] = records[k] /\ file'[k] = file[k]
  BY AdmissionTypes, RunTypes DEF JobStep, OthersStay
<1>3. /\ k \in input' <=> k \in input
      /\ k \in active' <=> k \in active
      /\ faults' \in Nat /\ faults' >= faults
  BY <1>1, ListsEffect DEF Fault
<1>4. k \in Range(order') <=> k \in Range(order)
  <2>1. order' = order \/ order' = Append(order, j)
    BY ListsEffect
  <2>2. Range(Append(order, j)) = Range(order) \cup {j}
    BY <1>1, Appended
  <2> QED BY <2>1, <2>2
<1>5. CASE k \in Range(index') <=> k \in Range(index)
  <2>1. Held(k)' /\ Listing(k)'
    BY <1>1, <1>2, <1>3, <1>4, <1>5 DEF Kept, Held, Listing
  <2>2. Counted(k)'
    BY <1>1, <1>2, <1>3, <1>4, <1>5 DEF Kept, Counted
  <2>3. Worded(k)'
    BY <1>1, <1>2 DEF Kept, Worded
  <2> QED BY <2>1, <2>2, <2>3 DEF Kept
<1>6. CASE SaveIndex(j) /\ index' = Append(order, j)
  <2>1. k \in Range(index') <=> k \in Range(order)
    BY <1>1, <1>6, Appended
  <2>2. task[k].pc \notin AdmissionPc
    <3>1. task[j].pc \in AdmissionPc
      BY <1>6 DEF SaveIndex, At, AdmissionPc
    <3> QED BY <3>1 DEF RoomOK
  <2>3. Held(k)' /\ Listing(k)'
    BY <1>1, <1>2, <1>3, <1>4, <2>1, <2>2 DEF Kept, Held, Listing, Submitting
  <2>4. Counted(k)'
    BY <1>1, <1>2, <1>3, <1>4, <2>1 DEF Kept, Counted
  <2>5. Worded(k)'
    BY <1>1, <1>2 DEF Kept, Worded
  <2> QED BY <2>3, <2>4, <2>5 DEF Kept
<1> QED BY <1>5, <1>6, ListsEffect

\* A submission is listed with its record and its photograph, or its removal has
\* failed, and that is counted (submit_object).
LEMMA AdmissionHistory ==
  ASSUME IInv, HistoryOK, NEW j \in Jobs, Submit(j) \/ Admission(j)
  PROVE  Kept(j)'
<1> USE DEF IInv
<1>0. JobStep(j)
  BY DEF JobStep
<1>1. /\ Held(j) /\ Listing(j) /\ Counted(j) /\ Types
      /\ index \in Seq(Jobs) /\ order \in Seq(Jobs) /\ faults \in Nat
      /\ NewRecord \in Record /\ NewRecord # None
  <2>1. NewRecord \in Record
    BY DEF NewRecord, Record, States, Phases
  <2> QED BY <2>1, NoneAssumption DEF HistoryOK, Kept, Types
<1>2. {"snapshot", "gone"} \cup AdmissionPc \subseteq Pcs
  BY DEF Pcs
<1>3. task[j].pc \in Submitting /\ task[j].pc \notin TaskPc /\ j \notin active
  <2>1. task[j].pc \in Submitting
    BY DEF Submit, Admission, Admit, SaveInput, SaveRecord, SaveIndex, Refused, RemoveRecord,
           RemoveInput, Uncertain, At, Submitting, AdmissionPc
  <2> QED BY <2>1, <1>1 DEF Held, Submitting, AdmissionPc, TaskPc
<1>4. /\ faults' \in {faults, faults + 1} /\ faults' \in Nat
      /\ active' = active \/ SaveIndex(j)
  <2>1. ~Finish(j)
    BY <1>3 DEF Finish, At, TaskPc
  <2> QED BY <1>0, <1>1, <2>1, ListsEffect DEF Fault
\* Of who has not been listed nothing is promised.
<1>5. ASSUME task'[j].pc \in {"snapshot", "input", "gone"}, UNCHANGED <<index, order, active, file, faults>>,
             task[j].pc \in {"new", "snapshot"}
      PROVE  Held(j)' /\ Listing(j)' /\ Counted(j)'
  BY <1>1, <1>3, <1>5 DEF Held, Listing, Counted, Submitting, AdmissionPc, TaskPc
<1>6. Worded(j)'
  <2>1. JobOK(j)'
    BY AdmissionKeeps
  <2>2. CASE Uncertain(j)
    <3> DEFINE r == [NewRecord EXCEPT !.state = "outcome_unknown"]
    <3>1. r.state = "outcome_unknown"
      BY DEF NewRecord
    <3>2. records' = [records EXCEPT ![j] = r]
      BY <2>2 DEF Uncertain
    <3> HIDE DEF r
    <3>3. records'[j] = r
      BY <3>2 DEF Types
    <3> QED BY <3>1, <3>3 DEF Worded, LastWord
  <2>3. CASE ~Uncertain(j)
    <3>1. records[j] = None
      BY <1>3 DEF JobsOK, Stage, Waiting, Placing, Submitting
    <3>2. records' = records \/ records' = [records EXCEPT ![j] = NewRecord]
      BY <2>3 DEF Submit, Admission, Admit, SaveInput, SaveRecord, SaveIndex, Refused, RemoveRecord,
                  RemoveInput, memory
    <3>3. records'[j] = None \/ records'[j] = NewRecord
      BY <3>1, <3>2 DEF Types
    <3>4. NewRecord.state = "queued"
      BY DEF NewRecord
    <3> QED BY <3>3, <3>4 DEF Worded, LastWord, Terminal
  <2> QED BY <2>2, <2>3
<1>7. CASE Submit(j)
  <2>1. task'[j].pc = "snapshot"
    BY <1>2, <1>7, GoToEffect DEF Submit
  <2> QED BY <1>5, <1>6, <1>7, <2>1 DEF Submit, At, disk, memory, bounds, Kept
<1>8. CASE Admit(j)
  <2>1. GoTo(j, "input") \/ GoTo(j, "gone")
    BY <1>8 DEF Admit
  <2>2. task'[j].pc \in {"input", "gone"}
    BY <1>2, <2>1, GoToEffect DEF AdmissionPc
  <2> QED BY <1>5, <1>6, <1>8, <2>2 DEF Admit, At, disk, memory, bounds, Kept
<1>9. CASE SaveInput(j)
  <2>1. UNCHANGED <<index, order, active, file>> /\ task[j].pc = "input"
    BY <1>9 DEF SaveInput, At, memory
  <2>2. CASE input' = input \cup {j} /\ GoTo(j, "record")
    <3>1. task'[j].pc = "record"
      BY <1>2, <2>2, GoToEffect DEF AdmissionPc
    <3> QED BY <1>1, <1>3, <1>4, <1>6, <2>1, <2>2, <3>1
          DEF Kept, Held, Listing, Counted, Submitting, AdmissionPc, TaskPc
  <2>3. CASE Fault /\ GoTo(j, "refused")
    <3>1. task'[j].pc = "refused"
      BY <1>2, <2>3, GoToEffect DEF AdmissionPc
    <3> QED BY <1>1, <1>3, <1>6, <2>1, <2>3, <3>1
          DEF Kept, Held, Listing, Counted, Submitting, AdmissionPc, TaskPc, Fault
  <2> QED BY <1>9, <2>2, <2>3 DEF SaveInput
<1>10. CASE SaveRecord(j)
  <2>1. UNCHANGED <<index, order, active, input>> /\ task[j].pc = "record"
    BY <1>10 DEF SaveRecord, At, memory
  <2>2. PICK ok \in BOOLEAN : Persist(j, NewRecord, ok) /\ GoTo(j, IF ok THEN "index" ELSE "refused")
    BY <1>10 DEF SaveRecord
  <2>3. j \in input /\ j \notin Range(index) /\ j \notin Range(order)
    BY <1>1, <1>3, <2>1 DEF Listing
  <2>4. CASE ok
    <3>1. task'[j].pc = "index"
      BY <1>2, <2>2, <2>4, GoToEffect DEF AdmissionPc
    <3>2. file'[j] = NewRecord
      BY <1>1, <2>2, <2>4, PersistEffect
    <3> QED BY <1>1, <1>3, <1>4, <1>6, <2>1, <2>3, <3>1, <3>2
          DEF Kept, Held, Listing, Counted, Submitting, AdmissionPc, TaskPc
  <2>5. CASE ~ok
    <3>1. task'[j].pc = "refused"
      BY <1>2, <2>2, <2>5, GoToEffect DEF AdmissionPc
    <3>2. faults' = faults + 1
      BY <2>2, <2>5 DEF Persist, Fault
    <3> QED BY <1>1, <1>3, <1>6, <2>1, <2>3, <3>1, <3>2
          DEF Kept, Held, Listing, Counted, Submitting, AdmissionPc, TaskPc
  <2> QED BY <2>4, <2>5
<1>11. CASE SaveIndex(j)
  <2>1. file' = file /\ input' = input /\ task[j].pc = "index"
    BY <1>11 DEF SaveIndex, At
  <2>2. j \in input /\ j \notin Range(index) /\ j \notin Range(order) /\ file[j] # None
    BY <1>1, <1>3, <2>1 DEF Listing
  <2>3. j \in Range(Append(order, j))
    BY <1>1, Appended
  <2>4. CASE /\ index' = Append(order, j) /\ order' = Append(order, j)
             /\ active' = active \cup {j} /\ EnterNext(j, PhasesOf(j)[1])
    <3>1. task'[j].pc = "enter"
      BY <1>1, <2>4, FirstPhase, TurnTypes, EnterEffect
    <3> QED BY <1>1, <1>4, <1>6, <2>1, <2>2, <2>3, <2>4, <3>1
          DEF Kept, Held, Listing, Counted, Submitting, AdmissionPc, TaskPc
  <2>5. CASE Fault /\ GoTo(j, "refused") /\ order' = order /\ active' = active
    <3>1. task'[j].pc = "refused"
      BY <1>2, <2>5, GoToEffect DEF AdmissionPc
    <3> QED BY <1>1, <1>3, <1>6, <2>1, <2>2, <2>5, <3>1
          DEF Kept, Held, Listing, Counted, Submitting, AdmissionPc, TaskPc, Fault
  <2> QED BY <1>11, <2>4, <2>5 DEF SaveIndex
<1>12. CASE Refused(j)
  <2>1. UNCHANGED <<index, order, active, file, input>> /\ task[j].pc = "refused"
    BY <1>12 DEF Refused, At, disk, memory
  <2>2. CASE GoTo(j, IF \E i \in DOMAIN index : index[i] = j THEN "uncertain" ELSE "unrecord")
    <3>1. task'[j].pc = IF \E i \in DOMAIN index : index[i] = j THEN "uncertain" ELSE "unrecord"
      BY <1>2, <2>2, GoToEffect DEF AdmissionPc
    <3>2. (\E i \in DOMAIN index : index[i] = j) <=> j \in Range(index)
      BY DEF Range
    <3> QED BY <1>1, <1>3, <1>4, <1>6, <2>1, <3>1, <3>2
          DEF Kept, Held, Listing, Counted, Submitting, AdmissionPc, TaskPc
  <2>3. CASE Fault /\ GoTo(j, "uncertain")
    <3>1. task'[j].pc = "uncertain"
      BY <1>2, <2>3, GoToEffect DEF AdmissionPc
    <3> QED BY <1>1, <1>3, <1>6, <2>1, <2>3, <3>1
          DEF Kept, Held, Listing, Counted, Submitting, AdmissionPc, TaskPc, Fault
  <2> QED BY <1>12, <2>2, <2>3 DEF Refused
<1>13. CASE RemoveRecord(j)
  <2>1. UNCHANGED <<index, order, active, input>> /\ task[j].pc = "unrecord"
    BY <1>13 DEF RemoveRecord, At, memory
  <2>2. CASE GoTo(j, "uninput") /\ UNCHANGED faults
    <3>1. task'[j].pc = "uninput"
      BY <1>2, <2>2, GoToEffect DEF AdmissionPc
    <3> QED BY <1>1, <1>3, <1>6, <2>1, <2>2, <3>1
          DEF Kept, Held, Listing, Counted, Submitting, AdmissionPc, TaskPc
  <2>3. CASE Fault /\ GoTo(j, "uninput_uncertain")
    <3>1. task'[j].pc = "uninput_uncertain"
      BY <1>2, <2>3, GoToEffect DEF AdmissionPc
    <3> QED BY <1>1, <1>3, <1>6, <2>1, <2>3, <3>1
          DEF Kept, Held, Listing, Counted, Submitting, AdmissionPc, TaskPc, Fault
  <2> QED BY <1>13, <2>2, <2>3 DEF RemoveRecord
<1>14. CASE RemoveInput(j)
  <2>1. UNCHANGED <<index, order, active, file>> /\ task[j].pc \in {"uninput", "uninput_uncertain"}
    BY <1>14 DEF RemoveInput, At, memory
  <2>2. CASE GoTo(j, "gone") /\ UNCHANGED faults
    <3>1. task'[j].pc = "gone"
      BY <1>2, <2>2, GoToEffect
    <3> QED BY <1>1, <1>3, <1>6, <2>1, <2>2, <3>1
          DEF Kept, Held, Listing, Counted, Submitting, AdmissionPc, TaskPc
  <2>3. CASE /\ GoTo(j, "uncertain")
             /\ Fault \/ (task[j].pc = "uninput_uncertain" /\ UNCHANGED faults)
    <3>1. task'[j].pc = "uncertain"
      BY <1>2, <2>3, GoToEffect DEF AdmissionPc
    <3> QED BY <1>1, <1>3, <1>6, <2>1, <2>3, <3>1
          DEF Kept, Held, Listing, Counted, Submitting, AdmissionPc, TaskPc, Fault
  <2> QED BY <1>14, <2>1, <2>2, <2>3 DEF RemoveInput, At
<1>15. CASE Uncertain(j)
  <2> DEFINE r == [NewRecord EXCEPT !.state = "outcome_unknown"]
  <2>1. r \in Record /\ r # None
    <3>1. r \in Record
      BY DEF NewRecord, Record, States, Phases
    <3> QED BY <3>1, NoneAssumption
  <2>2. PICK ok \in BOOLEAN : Persist(j, r, ok)
    BY <1>15 DEF Uncertain
  <2> HIDE DEF r
  <2>3. UNCHANGED <<index, active, input>> /\ GoTo(j, "gone") /\ task[j].pc = "uncertain"
    BY <1>15 DEF Uncertain, At
  <2>4. task'[j].pc = "gone"
    BY <1>2, <2>3, GoToEffect
  <2>5. file'[j] \in {file[j], r} /\ (ok => file'[j] = r)
    BY <1>1, <2>1, <2>2, PersistEffect
  <2>6. ~ok => faults' = faults + 1
    BY <2>2 DEF Persist, Fault
  <2>7. Counted(j)'
    BY <1>1, <2>1, <2>3, <2>4, <2>5, <2>6 DEF Counted
  <2> QED BY <1>1, <1>3, <1>6, <2>3, <2>4, <2>7
        DEF Kept, Held, Listing, Submitting, AdmissionPc, TaskPc
<1> QED BY <1>7, <1>8, <1>9, <1>10, <1>11, <1>12, <1>13, <1>14, <1>15 DEF Admission

\* A task keeps its job listed, and finish gives the answer that is on the disk,
\* or an unknown outcome.
LEMMA RunHistory ==
  ASSUME IInv, HistoryOK, NEW j \in Jobs, Run(j) \/ Lane(j) \/ Cancel(j)
  PROVE  Kept(j)'
<1> USE DEF IInv
<1>1. JobStep(j) /\ Held(j) /\ Listing(j) /\ Counted(j) /\ Types /\ faults \in Nat
  BY DEF JobStep, HistoryOK, Kept, Types
<1>2. task[j].pc \in TaskPc
  <2>1. CASE Cancel(j)
    <3>1. records[j] # None /\ ~Terminal(records[j]) /\ task[j].pc \in Pcs
      BY <2>1 DEF Cancel, Types, Tasks
    <3>2. Stage(j)
      BY DEF JobsOK
    <3> QED BY <3>1, <3>2 DEF Stage, Waiting, Placing, Pcs, AdmissionPc
  <2>2. CASE Run(j) \/ Lane(j)
    BY <2>2 DEF Run, Lane, Enter, Fails, Spawn, ProcessSucceeds, ProcessFails, Kill, KilledExits,
         Publish, Finish, At, TaskPc
  <2> QED BY <2>1, <2>2
<1>3. /\ j \in active /\ j \in Range(index) /\ j \in Range(order) /\ j \in input /\ file[j] # None
      /\ records[j] \in Record /\ ~Terminal(records[j])
  <2>1. Stage(j)
    BY DEF JobsOK
  <2> QED BY <1>1, <1>2, <2>1 DEF Held, Stage, Types
<1>4. /\ UNCHANGED <<index, order, input>> /\ faults' \in {faults, faults + 1}
      /\ active' = active \/ (Finish(j) /\ active' = active \ {j})
  <2>1. ~SaveIndex(j) /\ ~Uncertain(j)
    BY <1>2 DEF SaveIndex, Uncertain, At, TaskPc
  <2>2. input' = input
    BY DEF Run, Lane, Enter, Fails, Spawn, ProcessSucceeds, ProcessFails, Kill, KilledExits,
           Publish, Finish, Cancel, disk
  <2> QED BY <1>1, <2>1, <2>2, ListsEffect DEF Fault
<1>5. file' = file \/ \E r \in Record, ok \in BOOLEAN : Persist(j, r, ok)
  <2>1. CASE Enter(j)
    <3>1. task[j].phase \in Phases
      BY <1>1 DEF Types, Tasks
    <3>2. [records[j] EXCEPT !.state = "running", !.phase = task[j].phase] \in Record
      BY <1>3, <3>1, RecordTypes
    <3> QED BY <2>1, <3>2 DEF Enter
  <2>2. CASE Finish(j)
    <3>1. Final(records[j], task[j].outcome) \in Record
      BY <1>3, RecordTypes
    <3> QED BY <2>2, <3>1 DEF Finish
  <2>3. CASE Cancel(j)
    <3>1. [records[j] EXCEPT !.cancel = TRUE] \in Record
      BY <1>3, RecordTypes
    <3> QED BY <2>3, <3>1 DEF Cancel
  <2>4. CASE Fails(j) \/ Lane(j) \/ Spawn(j) \/ ProcessSucceeds(j) \/ ProcessFails(j) \/ Kill(j)
             \/ KilledExits(j) \/ Publish(j)
    BY <2>4 DEF Fails, Lane, Spawn, ProcessSucceeds, ProcessFails, Kill, KilledExits, Publish, disk
  <2> QED BY <2>1, <2>2, <2>3, <2>4 DEF Run
<1>6. file'[j] # None
  BY <1>1, <1>3, <1>5, PersistEffect, NoneAssumption
<1>7. JobOK(j)'
  BY RunKeeps, CancelKeeps
<1>8. CASE task'[j].pc \in TaskPc /\ ~Finish(j)
  <2>1. ~Terminal(records'[j])
    BY <1>7, <1>8 DEF JobOK, Stage
  <2> QED BY <1>1, <1>3, <1>4, <1>6, <1>8, <2>1
        DEF Kept, Held, Listing, Counted, Worded, LastWord, Submitting, AdmissionPc, TaskPc
<1>9. CASE Finish(j)
  <2>r. PICK r : r = Final(records[j], task[j].outcome)
    OBVIOUS
  <2>u. PICK u : u = [r EXCEPT !.state = "outcome_unknown"]
    OBVIOUS
  <2>1. r \in Record
    BY <1>3, <2>r, RecordTypes
  <2>2. u.state = "outcome_unknown"
    BY <2>1, <2>u DEF Record
  <2>3. ASSUME Persist(j, r, TRUE), records' = [records EXCEPT ![j] = r]
        PROVE  Worded(j)'
    <3>1. file'[j] = r /\ records'[j] = r
      BY <1>1, <2>1, <2>3, PersistEffect DEF Types
    <3> QED BY <3>1 DEF Worded
  <2>4. ASSUME records' = [records EXCEPT ![j] = u]
        PROVE  Worded(j)'
    <3>1. records'[j] = u
      BY <1>1, <2>4 DEF Types
    <3> QED BY <2>2, <3>1 DEF Worded, LastWord
  <2>5. Worded(j)'
    BY <1>9, <2>r, <2>u, <2>3, <2>4 DEF Finish
  <2>6. task'[j].pc = "gone" /\ active' = active \ {j}
    <3>1. "gone" \in Pcs
      BY DEF Pcs
    <3> QED BY <1>1, <1>9, <3>1, GoToEffect DEF Finish
  <2> QED BY <1>1, <1>3, <1>4, <1>6, <2>5, <2>6
        DEF Kept, Held, Listing, Counted, Submitting, AdmissionPc, TaskPc
<1>10. CASE task'[j] = task[j] /\ Cancel(j)
  <2>1. ~Finish(j) \/ Finish(j)
    OBVIOUS
  <2> QED BY <1>2, <1>8, <1>9, <1>10, <2>1
<1> QED BY <1>8, <1>9, <1>10, RunPc

\* A restart forgets, and initialize reads what the index lists.
LEMMA OtherHistory ==
  ASSUME IInv, HistoryOK, Initialize \/ Restart \/ DirectStarts \/ DirectEnds \/ UNCHANGED vars,
         NEW j \in Jobs
  PROVE  Kept(j)'
<1> USE DEF IInv
<1>1. Kept(j) /\ Types /\ faults \in Nat
  BY DEF HistoryOK, Types
<1>2. CASE Initialize
  <2>1. task[j].pc \in {"new", "gone"} /\ task' = task /\ index' = index /\ input' = input
        /\ active' = active /\ active = {}
    BY <1>2 DEF Initialize, ReadyOK, HistoryOK
  <2>2. file'[j] = file[j] \/ (file[j] # None /\ file'[j] = Settled(file[j]))
    BY <1>1, <1>2, InitializeEffect
  <2>3. records'[j] = records[j] \/ records'[j] = None \/ records'[j] = file'[j]
    BY <1>1, <1>2, InitializeEffect
  <2>4. file[j] # None => file'[j] # None
    <3>1. \A r \in Record : Settled(r) \in Record
      BY RecordTypes
    <3> QED BY <1>1, <2>2, <3>1, NoneAssumption DEF Types
  <2>5. order' \in {order, index} /\ faults' \in {faults, faults + 1}
    BY <1>2 DEF Initialize, Fault
  <2>6. Worded(j)'
    BY <1>1, <2>2, <2>3 DEF Kept, Worded, LastWord, Settled
  <2> QED BY <1>1, <2>1, <2>4, <2>5, <2>6
        DEF Kept, Held, Listing, Counted, Submitting, AdmissionPc, TaskPc
<1>3. CASE Restart
  <2>1. UNCHANGED <<file, index, input, faults>> /\ records'[j] = None /\ active' = {}
    BY <1>3 DEF Restart, disk
  <2>2. Range(order') = {}
    BY <1>3 DEF Restart, Range
  <2>3. IF task[j].pc = "new" THEN task'[j].pc = "new" ELSE task'[j].pc = "gone"
    BY <1>1, <1>3, RestartEffect
  <2> QED BY <1>1, <2>1, <2>2, <2>3
        DEF Kept, Held, Listing, Counted, Worded, LastWord, Submitting, AdmissionPc, TaskPc
<1>4. CASE DirectStarts \/ DirectEnds \/ UNCHANGED vars
  <2>1. UNCHANGED <<disk, memory, task, bounds>>
    BY <1>4 DEF DirectStarts, DirectEnds, vars
  <2> QED BY <1>1, <2>1 DEF disk, memory, bounds, Kept, Held, Listing, Counted, Worded
<1> QED BY <1>2, <1>3, <1>4

\* The history holds at first, and every step keeps it.
LEMMA HistoryInit == Init => HistoryOK
BY DEF Init, HistoryOK, Kept, Held, Listing, Counted, Worded, LastWord, Range, Submitting,
       AdmissionPc, TaskPc

LEMMA HistoryStep == IInv /\ HistoryOK /\ [Next]_vars => HistoryOK'
<1> SUFFICES ASSUME IInv, HistoryOK, [Next]_vars
             PROVE  HistoryOK'
  OBVIOUS
<1>1. CASE \E j \in Jobs : JobStep(j)
  <2>1. PICK j \in Jobs : JobStep(j)
    BY <1>1
  <2>2. ready'
    BY <2>1, Ready
  <2>3. Kept(j)'
    BY <2>1, AdmissionHistory, RunHistory DEF JobStep
  <2> QED BY <2>1, <2>2, <2>3, OthersHistory DEF HistoryOK
<1>2. CASE Initialize \/ Restart \/ DirectStarts \/ DirectEnds \/ UNCHANGED vars
  <2>1. ~ready' => active' = {}
    BY <1>2 DEF Initialize, Restart, DirectStarts, DirectEnds, vars, memory, HistoryOK
  <2> QED BY <1>2, <2>1, OtherHistory DEF HistoryOK
<1> QED BY <1>1, <1>2 DEF Next, JobStep

LEMMA HistorySpec == Spec => []HistoryOK
BY HistoryInit, HistoryStep, SpecInv, PTL DEF Spec

\* A job that was accepted is in the index with its record and its photograph
\* until it is over, however often the storage fails (submit_object).
THEOREM AcceptedStays == Spec => []AcceptedIsKept
<1>1. ASSUME IInv, HistoryOK
      PROVE  AcceptedIsKept
  <2>1. ASSUME NEW j \in active
        PROVE  /\ j \in Range(index) /\ j \in input
               /\ file[j] # None /\ ~Terminal(records[j])
    <3>1. j \in Jobs /\ Held(j) /\ Stage(j)
      BY <1>1 DEF HistoryOK, Kept, IInv, Types, JobsOK
    <3> QED BY <3>1 DEF Held, Stage
  <2> QED BY <2>1 DEF AcceptedIsKept
<1> QED BY <1>1, SpecInv, HistorySpec, PTL

\* The last word a client is told is the one a restart reads, however often the
\* storage fails (finish).
THEOREM LastWordOnDisk == Spec => []LastWordIsKept
<1>1. HistoryOK => LastWordIsKept
  BY DEF HistoryOK, Kept, Worded, LastWordIsKept
<1> QED BY <1>1, HistorySpec, PTL

\* All of the history is kept as long as fewer than three operations of the
\* storage have failed; with three, what the index lists may be gone.
THEOREM HistoryStays == Spec => [](faults < 3 => HistoryIsKept)
<1>1. ASSUME IInv, HistoryOK, faults < 3
      PROVE  IndexedIsRecorded
  <2>1. ASSUME NEW i \in DOMAIN index
        PROVE  file[index[i]] # None
    <3>1. index[i] \in Jobs /\ index[i] \in Range(index) /\ faults \in Nat
      BY <1>1 DEF IInv, Types, Range
    <3>2. Counted(index[i])
      BY <1>1, <3>1 DEF HistoryOK, Kept
    <3> QED BY <1>1, <3>1, <3>2 DEF Counted
  <2> QED BY <2>1 DEF IndexedIsRecorded
<1> QED BY <1>1, SpecInv, HistorySpec, AcceptedStays, LastWordOnDisk, PTL DEF HistoryIsKept

\* No more operations of the storage fail than the bound says.
LEMMA FaultsAreBounded == Spec => [](faults \in Nat /\ faults <= MaxFaults)
<1> DEFINE Few == faults \in Nat /\ faults <= MaxFaults
<1>1. Init => Few
  BY Apart DEF Init
<1>2. IInv /\ Few /\ [Next]_vars => Few'
  <2> SUFFICES ASSUME IInv, Few, [Next]_vars
               PROVE  Few'
    OBVIOUS
  <2>1. ASSUME NEW j \in Jobs, JobStep(j)
        PROVE  faults' = faults \/ Fault
    BY <2>1, ListsEffect
  <2>2. faults' = faults \/ Fault
    BY <2>1 DEF Next, JobStep, Initialize, Restart, DirectStarts, DirectEnds, vars, bounds
  <2> QED BY <2>2, Apart DEF Fault
<1> QED BY <1>1, <1>2, SpecInv, PTL DEF Spec

\* The history is kept when two operations of the storage may fail, whatever
\* the number of jobs, of places in the queue and of restarts.
THEOREM HistoryStaysWithTwoFaults ==
  ASSUME MaxFaults <= 2
  PROVE  Spec => []HistoryIsKept
<1>1. faults \in Nat /\ faults <= MaxFaults => faults < 3
  BY Apart
<1> QED BY <1>1, FaultsAreBounded, HistoryStays, PTL

=============================================================================
