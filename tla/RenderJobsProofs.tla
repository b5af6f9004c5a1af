--------------------------- MODULE RenderJobsProofs ---------------------------
(***************************************************************************)
(* What holds of RenderJobs for every value of its constants: types, the   *)
(* capacity of the queue, and that no write makes a record older.          *)
(*                                                                         *)
(* NoStaleWrite is not inductive by itself.  IInv adds what it rests on:   *)
(* the jobs that the queue and the processes refer to are on disk, a job   *)
(* that is being staged is nobody else's, and whoever owns the persistence *)
(* lock stands where the code holds it.  The proof first says what each    *)
(* operation does to the memory (the lemmas ...Effect), then that every    *)
(* step keeps each part of IInv (the lemmas ...Step).                      *)
(***************************************************************************)
EXTENDS RenderJobs, SequenceTheorems, FiniteSetTheorems, TLAPS

\* RemoveAt takes one element out of a sequence and keeps the others: what
\* JobQueue::remove and an eviction leave.
LEMMA RemoveAtProperties ==
  ASSUME NEW S, NEW s \in Seq(S), NEW i \in DOMAIN s
  PROVE  /\ RemoveAt(s, i) \in Seq(S)
         /\ Len(RemoveAt(s, i)) = Len(s) - 1
         /\ \A k \in DOMAIN RemoveAt(s, i) : \E m \in DOMAIN s : RemoveAt(s, i)[k] = s[m]
         /\ \A m \in DOMAIN s : m # i => \E k \in DOMAIN RemoveAt(s, i) : RemoveAt(s, i)[k] = s[m]
<1> DEFINE a == SubSeq(s, 1, i - 1)
           b == SubSeq(s, i + 1, Len(s))
<1>1. Len(s) \in Nat /\ DOMAIN s = 1 .. Len(s) /\ i \in 1 .. Len(s)
  BY LenProperties
<1>2. \A k \in 1 .. Len(s) : s[k] \in S
  BY ElementOfSeq
<1>3. /\ a \in Seq(S) /\ Len(a) = i - 1
      /\ \A k \in 1 .. i - 1 : a[k] = s[k]
  <2>1. \A k \in 1 .. i - 1 : s[k] \in S
    BY <1>1, <1>2
  <2> QED BY <1>1, <2>1, SubSeqProperties
<1>4. /\ b \in Seq(S) /\ Len(b) = Len(s) - i
      /\ \A k \in 1 .. Len(s) - i : b[k] = s[i + k]
  <2>1. \A k \in i + 1 .. Len(s) : s[k] \in S
    BY <1>1, <1>2
  <2> QED BY <1>1, <2>1, SubSeqProperties
<1> HIDE DEF a, b
<1>5. /\ a \o b \in Seq(S) /\ Len(a \o b) = Len(s) - 1
      /\ \A k \in 1 .. Len(s) - 1 : (a \o b)[k] = IF k <= i - 1 THEN a[k] ELSE b[k - (i - 1)]
  <2>1. /\ a \o b \in Seq(S) /\ Len(a \o b) = Len(a) + Len(b)
        /\ \A k \in 1 .. Len(a) + Len(b) : (a \o b)[k] = IF k <= Len(a) THEN a[k] ELSE b[k - Len(a)]
    BY <1>3, <1>4, ConcatProperties, Zenon
  <2> QED BY <1>1, <1>3, <1>4, <2>1
<1>6. \A k \in 1 .. Len(s) - 1 : \E m \in 1 .. Len(s) : (a \o b)[k] = s[m]
  <2> TAKE k \in 1 .. Len(s) - 1
  <2>1. CASE k <= i - 1
    BY <2>1, <1>1, <1>3, <1>5
  <2>2. CASE ~(k <= i - 1)
    <3>1. k - (i - 1) \in 1 .. Len(s) - i /\ k + 1 \in 1 .. Len(s)
      BY <2>2, <1>1
    <3>2. b[k - (i - 1)] = s[i + (k - (i - 1))] /\ i + (k - (i - 1)) = k + 1
      BY <3>1, <1>1, <1>4
    <3>3. (a \o b)[k] = s[k + 1]
      BY <2>2, <3>2, <1>5
    <3> QED BY <3>1, <3>3
  <2> QED BY <2>1, <2>2
<1>7. ASSUME NEW m \in 1 .. Len(s), m # i
      PROVE  \E k \in 1 .. Len(s) - 1 : (a \o b)[k] = s[m]
  <2>1. CASE m < i
    <3>1. m \in 1 .. Len(s) - 1 /\ m \in 1 .. i - 1
      BY <2>1, <1>1
    <3>2. (a \o b)[m] = s[m]
      BY <3>1, <1>1, <1>3, <1>5
    <3> QED BY <3>1, <3>2
  <2>2. CASE ~(m < i)
    <3>1. m - 1 \in 1 .. Len(s) - 1 /\ ~(m - 1 <= i - 1) /\ m - i \in 1 .. Len(s) - i
      BY <2>2, <1>1, <1>7
    <3>2. b[m - i] = s[i + (m - i)] /\ i + (m - i) = m /\ (m - 1) - (i - 1) = m - i
      BY <3>1, <1>1, <1>4
    <3>3. (a \o b)[m - 1] = s[m]
      BY <3>1, <3>2, <1>5
    <3> QED BY <3>1, <3>3
  <2> QED BY <2>1, <2>2
<1>8. RemoveAt(s, i) = a \o b
  BY DEF RemoveAt, a, b
<1>9. DOMAIN (a \o b) = 1 .. Len(s) - 1
  BY <1>5, LenProperties
<1> QED BY <1>1, <1>5, <1>6, <1>7, <1>8, <1>9

-----------------------------------------------------------------------------
(* The inductive invariant.                                                *)

\* The worker's steps between start_job and the end of the job.
WorkerRunning == {"start", "run", "load_phase", "load", "frames", "frame_phase",
                  "render", "progress", "outcome", "outcome_save", "finish",
                  "encode_phase", "encode", "complete"}

\* The worker's job is on disk, and runs while the worker works on it.
WorkerOK ==
  /\ IF worker.pc = "idle" THEN worker.job = None
     ELSE worker.job \in Jobs /\ record[worker.job] # None
  /\ worker.pc \in WorkerRunning =>
       mem[worker.job] # None /\ mem[worker.job].state = "running"

\* Whatever the queue holds is on disk.
QueueOK == \A i \in DOMAIN queue : record[queue[i]] # None

\* The job that is being staged belongs to the stager alone, and nothing knows
\* it before it is registered.
StagerOK ==
  stager.pc # "idle" =>
    /\ stager.job \in Jobs
    /\ worker.job # stager.job
    /\ \A i \in DOMAIN queue : queue[i] # stager.job
    /\ stager.pc = "snapshot" =>
         /\ mem[stager.job] = None /\ record[stager.job] = None
         /\ \A c \in Clients : client[c].job # stager.job
    /\ stager.pc \notin {"snapshot", "admit", "record", "reject"} =>
         record[stager.job] # None

ClientOK ==
  \A c \in Clients : IF client[c].pc = "idle" THEN client[c].job = None
                                              ELSE client[c].job \in Jobs

\* The lock has one owner, who stands where the code holds the lock.
LockOK ==
  /\ lock = "free" => image = None
  /\ lock # "free" => image # None
  /\ lock = "worker" => worker.pc \in WorkerSaving
  /\ lock = "stager" => stager.pc \in StagerSaving \cup {"record", "index"}
  /\ stager.pc \in {"record", "index"} => lock = "stager"
  /\ \A c \in Clients : lock = c <=> client[c].pc = "saving"

Refs == WorkerOK /\ QueueOK /\ StagerOK /\ ClientOK /\ LockOK

IInv == TypeOK /\ Refs /\ NoStaleWrite

-----------------------------------------------------------------------------
(* What the steps do to the records, stated once for all that follows.      *)

\* The record of j is replaced by one that may follow it.
Updates(j) ==
  /\ j \in Jobs /\ mem[j] # None
  /\ \E r \in Record : Follows(mem[j], r) /\ mem' = [mem EXCEPT ![j] = r]

\* What setting one field of a record leaves.
LEMMA SetField ==
  ASSUME NEW a \in Record, NEW s \in JobState, NEW b \in BOOLEAN
  PROVE  /\ [a EXCEPT !.state = s] \in Record
         /\ [a EXCEPT !.finished = b] \in Record
         /\ [a EXCEPT !.cancel = b] \in Record
         /\ [a EXCEPT !.failed = b] \in Record
BY DEF Record

\* Records that follow one another form one life of a job.
LEMMA FollowsTransitive ==
  ASSUME NEW a \in Record, NEW b \in Record, NEW c \in Record,
         Follows(a, b), Follows(b, c)
  PROVE  Follows(a, c)
BY DEF Follows, Record

\* The effect of an update on each record.
LEMMA UpdateEffect ==
  ASSUME TypeOK, NEW j, Updates(j)
  PROVE  /\ mem' \in [Jobs -> Record \cup {None}]
         /\ mem'[j] \in Record /\ Follows(mem[j], mem'[j])
         /\ \A i \in Jobs : i # j => mem'[i] = mem[i]
BY DEF Updates, TypeOK, MemoryType

\* start_job changes nothing but the state of a queued job.
LEMMA StartEffect ==
  ASSUME TypeOK, Refs, StartJob
  PROVE  \/ UNCHANGED mem /\ worker'.pc = "release"
         \/ /\ Updates(worker.job) /\ mem'[worker.job].state = "running"
            /\ worker'.pc = "start"
<1> DEFINE r == [mem[worker.job] EXCEPT !.state = "running"]
<1>1. worker.job \in Jobs /\ worker \in [pc : WorkerPc, job : Jobs \cup {None}, outcome : Outcome]
  BY DEF StartJob, At, Refs, WorkerOK, TypeOK, ProcessType
<1>2. CASE Startable(worker.job)
  <2>1. mem[worker.job] \in Record /\ mem[worker.job].state = "queued" /\ mem[worker.job] # None
    BY <1>1, <1>2 DEF Startable, TypeOK, MemoryType
  <2>2. r \in Record /\ Follows(mem[worker.job], r) /\ r.state = "running"
    BY <2>1 DEF Record, JobState, Follows, Terminal
  <2>3. mem' = [mem EXCEPT ![worker.job] = r] /\ GoTo("start")
    BY <1>2 DEF StartJob
  <2>4. mem'[worker.job] = r
    BY <2>3, <1>1 DEF TypeOK, MemoryType
  <2>5. worker'.pc = "start"
    BY <2>3, <1>1 DEF GoTo
  <2> HIDE DEF r
  <2> QED BY <1>1, <2>1, <2>2, <2>3, <2>4, <2>5 DEF Updates
<1>3. CASE ~Startable(worker.job)
  BY <1>1, <1>3 DEF StartJob, GoTo
<1> QED BY <1>2, <1>3

\* A frame is counted for a running job.
LEMMA RenderEffect ==
  ASSUME TypeOK, Refs, RenderFrame
  PROVE  \/ UNCHANGED mem
         \/ Updates(worker.job) /\ mem'[worker.job].state = "running"
<1> DEFINE r == [mem[worker.job] EXCEPT !.done = mem[worker.job].done + 1]
<1>1. /\ worker.job \in Jobs
      /\ mem[worker.job] \in Record /\ mem[worker.job].state = "running"
      /\ mem[worker.job] # None
  BY DEF RenderFrame, At, Refs, WorkerOK, WorkerRunning, TypeOK, MemoryType
<1>2. r \in Record /\ Follows(mem[worker.job], r) /\ r.state = "running"
  BY <1>1 DEF Record, Follows
<1>3. UNCHANGED mem \/ mem' = [mem EXCEPT ![worker.job] = r]
  BY DEF RenderFrame
<1>4. mem' = [mem EXCEPT ![worker.job] = r] => mem'[worker.job] = r
  BY <1>1 DEF TypeOK, MemoryType
<1> HIDE DEF r
<1> QED BY <1>1, <1>2, <1>3, <1>4 DEF Updates

\* The end of Blender's work is noted for a running job.
LEMMA OutcomeEffect ==
  ASSUME TypeOK, Refs, RecordOutcome
  PROVE  Updates(worker.job) /\ mem'[worker.job].state = "running"
<1> DEFINE lost == worker.outcome = "failed"
           r    == [[mem[worker.job] EXCEPT !.finished = TRUE] EXCEPT !.failed = lost]
<1>1. /\ worker.job \in Jobs
      /\ mem[worker.job] \in Record /\ mem[worker.job].state = "running"
      /\ mem[worker.job] # None
  BY DEF RecordOutcome, At, Refs, WorkerOK, WorkerRunning, TypeOK, MemoryType
<1>2. lost \in BOOLEAN
  OBVIOUS
<1>3. mem' = [mem EXCEPT ![worker.job] = r]
  <2>1. mem' = [mem EXCEPT ![worker.job].finished = TRUE, ![worker.job].failed = lost]
    BY DEF RecordOutcome
  <2> HIDE DEF lost
  <2>2. [mem EXCEPT ![worker.job].finished = TRUE, ![worker.job].failed = lost]
        = [mem EXCEPT ![worker.job] = r]
    BY <1>1, <1>2
  <2> QED BY <2>1, <2>2
<1> HIDE DEF lost
<1>4. r \in Record /\ Follows(mem[worker.job], r) /\ r.state = "running"
  <2>1. [mem[worker.job] EXCEPT !.finished = TRUE] \in Record
    BY <1>1, SetField DEF JobState
  <2>2. r \in Record
    BY <1>2, <2>1, SetField DEF JobState
  <2>3. /\ r.state = mem[worker.job].state /\ r.done = mem[worker.job].done
        /\ r.finished = TRUE /\ r.cancel = mem[worker.job].cancel
    BY <1>1
  <2> HIDE DEF r
  <2> QED BY <1>1, <2>2, <2>3 DEF Follows, Record
<1>5. mem'[worker.job] = r
  BY <1>1, <1>3 DEF TypeOK, MemoryType
<1> HIDE DEF r
<1> QED BY <1>1, <1>3, <1>4, <1>5 DEF Updates

\* complete_job ends a running job.
LEMMA CompleteEffect ==
  ASSUME TypeOK, Refs, CompleteJob
  PROVE  Updates(worker.job)
<1> DEFINE s == IF mem[worker.job].cancel THEN "cancelled" ELSE "succeeded"
           r == [mem[worker.job] EXCEPT !.state = s]
<1>1. /\ worker.job \in Jobs
      /\ mem[worker.job] \in Record /\ mem[worker.job].state = "running"
      /\ mem[worker.job] # None
  BY DEF CompleteJob, At, Refs, WorkerOK, WorkerRunning, TypeOK, MemoryType
<1>2. s \in Terminal
  BY DEF Terminal
<1>3. mem' = [mem EXCEPT ![worker.job] = r]
  BY <1>1 DEF CompleteJob
<1> HIDE DEF s
<1>4. r \in Record /\ Follows(mem[worker.job], r)
  BY <1>1, <1>2 DEF Record, JobState, Follows, Terminal
<1> HIDE DEF r
<1> QED BY <1>1, <1>3, <1>4 DEF Updates

\* mark_cancelled ends an active job.
LEMMA MarkEffect ==
  ASSUME TypeOK, Refs, MarkCancelled
  PROVE  UNCHANGED mem \/ Updates(worker.job)
<1> DEFINE r == [[mem[worker.job] EXCEPT !.state = "cancelled"] EXCEPT !.cancel = TRUE]
<1>1. worker.job \in Jobs
  BY DEF MarkCancelled, At, Refs, WorkerOK
<1>2. CASE IsActive(worker.job)
  <2>1. mem[worker.job] \in Record /\ mem[worker.job] # None
        /\ mem[worker.job].state \notin Terminal
    BY <1>1, <1>2 DEF IsActive, TypeOK, MemoryType
  <2>2. mem' = [mem EXCEPT ![worker.job] = r]
    BY <1>1, <1>2, <2>1 DEF MarkCancelled
  <2>3. r \in Record /\ Follows(mem[worker.job], r)
    <3>1. [mem[worker.job] EXCEPT !.state = "cancelled"] \in Record
      BY <2>1, SetField DEF JobState, Terminal
    <3>2. r \in Record
      BY <3>1, SetField DEF JobState
    <3>3. /\ r.done = mem[worker.job].done /\ r.finished = mem[worker.job].finished
          /\ r.cancel = TRUE \/ r.cancel = mem[worker.job].cancel
      BY <2>1
    <3> HIDE DEF r
    <3> QED BY <2>1, <3>2, <3>3 DEF Follows, Record
  <2> HIDE DEF r
  <2> QED BY <1>1, <2>1, <2>2, <2>3 DEF Updates
<1>3. CASE ~IsActive(worker.job)
  BY <1>3 DEF MarkCancelled
<1> QED BY <1>2, <1>3

\* fail_job ends an active job.
LEMMA FailEffect ==
  ASSUME TypeOK, NEW j \in Jobs, mem' = Failed(j)
  PROVE  UNCHANGED mem \/ Updates(j)
<1> DEFINE r == [[mem[j] EXCEPT !.state = "failed"] EXCEPT !.failed = TRUE]
<1>1. CASE IsActive(j)
  <2>1. mem[j] \in Record /\ mem[j] # None /\ mem[j].state \notin Terminal
    BY <1>1 DEF IsActive, TypeOK, MemoryType
  <2>2. mem' = [mem EXCEPT ![j] = r]
    BY <1>1, <2>1 DEF Failed
  <2>3. r \in Record /\ Follows(mem[j], r)
    <3>1. [mem[j] EXCEPT !.state = "failed"] \in Record
      BY <2>1, SetField DEF JobState, Terminal
    <3>2. r \in Record
      BY <3>1, SetField DEF JobState
    <3>3. /\ r.done = mem[j].done /\ r.finished = mem[j].finished
          /\ r.cancel = TRUE \/ r.cancel = mem[j].cancel
      BY <2>1
    <3> HIDE DEF r
    <3> QED BY <2>1, <3>2, <3>3 DEF Follows, Record
  <2> HIDE DEF r
  <2> QED BY <2>1, <2>2, <2>3 DEF Updates
<1>2. CASE ~IsActive(j)
  BY <1>2 DEF Failed
<1> QED BY <1>1, <1>2

\* cancel ends a queued job, and leaves a running one running.
LEMMA CancelEffect ==
  ASSUME TypeOK, NEW c \in Clients, NEW j \in Jobs, Cancel(c, j)
  PROVE  \/ UNCHANGED mem
         \/ /\ Updates(j)
            /\ mem[j].state = "running" => mem'[j].state = "running"
<1> DEFINE s == IF mem[j].state = "queued" THEN "cancelled" ELSE mem[j].state
           r == [[mem[j] EXCEPT !.cancel = TRUE] EXCEPT !.state = s]
<1>1. CASE IsActive(j)
  <2>1. mem[j] \in Record /\ mem[j] # None /\ mem[j].state \notin Terminal
    BY <1>1 DEF IsActive, TypeOK, MemoryType
  <2>2. mem' = [mem EXCEPT ![j] = r]
    BY <1>1, <2>1 DEF Cancel
  <2>3. s \in JobState /\ (mem[j].state = "running" => s = "running")
    BY <2>1 DEF Record, JobState, Terminal
  <2> HIDE DEF s
  <2>4. /\ r \in Record /\ Follows(mem[j], r)
        /\ mem[j].state = "running" => r.state = "running"
    <3>1. [mem[j] EXCEPT !.cancel = TRUE] \in Record
      BY <2>1, SetField DEF JobState
    <3>2. r \in Record
      BY <2>3, <3>1, SetField
    <3>3. /\ r.done = mem[j].done /\ r.finished = mem[j].finished
          /\ r.cancel = TRUE /\ r.state = s
      BY <2>1
    <3> HIDE DEF r
    <3> QED BY <2>1, <2>3, <3>2, <3>3 DEF Follows, Record
  <2>5. mem'[j] = r
    BY <2>2 DEF TypeOK, MemoryType
  <2> HIDE DEF r
  <2> QED BY <2>1, <2>2, <2>4, <2>5 DEF Updates
<1>2. CASE ~IsActive(j)
  BY <1>2 DEF Cancel
<1> QED BY <1>1, <1>2

\* Where the worker goes on after a write, it keeps its job, and it goes on
\* running the job only if it was.
LEMMA ResumeEffect ==
  ASSUME ProcessType, NEW saved \in BOOLEAN, worker.pc \in WorkerSaving, Resume(saved)
  PROVE  /\ worker' \in [pc : WorkerPc, job : Jobs \cup {None}, outcome : Outcome]
         /\ worker'.job = worker.job
         /\ worker'.pc # "idle" /\ worker'.pc \notin WorkerSaving
         /\ worker'.pc \in WorkerRunning => worker.pc \in WorkerRunning
<1>1. CASE saved = TRUE
  <2>1. Resume(TRUE)
    BY <1>1
  <2> QED BY <2>1 DEF Resume, GoTo, ProcessType, WorkerPc, WorkerSaving, WorkerRunning
<1>2. CASE saved = FALSE
  <2>1. Resume(FALSE)
    BY <1>2
  <2> QED BY <2>1
     DEF Resume, Return, GoTo, ProcessType, WorkerPc, WorkerSaving, WorkerRunning,
         Outcome
<1> QED BY <1>1, <1>2

\* The one job that leaves the history has ended.
LEMMA EvictEffect ==
  ASSUME TypeOK, NEW evicted, NEW kept, Evict(evicted, kept)
  PROVE  /\ kept \in Seq(Jobs)
         /\ \A j \in Jobs : j = evicted => ~IsActive(j)
<1>1. order \in Seq(Jobs)
  BY DEF TypeOK, MemoryType
<1>2. CASE evicted = None /\ kept = order
  BY <1>1, <1>2, JobsAssumption
<1>3. CASE \E i \in DOMAIN order : ~IsActive(order[i]) /\ evicted = order[i]
                                 /\ kept = RemoveAt(order, i)
  BY <1>1, <1>3, RemoveAtProperties
<1> QED BY <1>2, <1>3 DEF Evict

\* A registered job is new; no other job changes, except one that has ended
\* and is forgotten.
LEMMA RegisterEffect ==
  ASSUME TypeOK, Refs, Register
  PROVE  /\ stager.pc = "snapshot" /\ stager.job \in Jobs
         /\ order' \in Seq(Jobs)
         /\ token' \in [Jobs -> Token]
         /\ mem' \in [Jobs -> Record \cup {None}]
         /\ mem'[stager.job] = NewRecord /\ NewRecord \in Record
         /\ \A j \in Jobs : j # stager.job =>
              mem'[j] = mem[j] \/ (mem'[j] = None /\ ~IsActive(j))
<1>1. stager.pc = "snapshot" /\ stager.job \in Jobs
  BY DEF Register, Staging, Refs, StagerOK
<1>2. PICK evicted, kept :
        /\ Evict(evicted, kept)
        /\ order' = Append(kept, stager.job)
        /\ mem'   = [j \in Jobs |-> IF j = stager.job THEN NewRecord
                                    ELSE IF j = evicted THEN None ELSE mem[j]]
        /\ token' = [j \in Jobs |-> IF j = stager.job THEN "live"
                                    ELSE IF j = evicted THEN "absent" ELSE token[j]]
  BY DEF Register
<1>3. kept \in Seq(Jobs) /\ \A j \in Jobs : j = evicted => ~IsActive(j)
  BY <1>2, EvictEffect
<1>4. order' \in Seq(Jobs)
  BY <1>1, <1>2, <1>3, AppendProperties
<1>5. token' \in [Jobs -> Token]
  BY <1>2 DEF TypeOK, MemoryType, Token
<1>6. NewRecord \in Record
  BY DEF NewRecord, Record, JobState
<1>7. mem' \in [Jobs -> Record \cup {None}]
  BY <1>2, <1>6 DEF TypeOK, MemoryType
<1>8. mem'[stager.job] = NewRecord
  BY <1>1, <1>2
<1>9. \A j \in Jobs : j # stager.job => mem'[j] = mem[j] \/ (mem'[j] = None /\ ~IsActive(j))
  BY <1>2, <1>3
<1> QED BY <1>1, <1>4, <1>5, <1>6, <1>7, <1>8, <1>9

\* A record that is recovered may follow the one on disk.
LEMMA RecoveredFollows ==
  ASSUME NEW j \in Jobs, record[j] \in Record
  PROVE  Recovered(j) \in Record /\ Follows(record[j], Recovered(j))
<1> DEFINE s == IF record[j].cancel THEN "cancelled" ELSE "queued"
           r == [record[j] EXCEPT !.state = s]
<1>1. s \in JobState
  BY DEF JobState, Terminal
<1> HIDE DEF s
<1>2. r \in Record /\ (record[j].state = "running" => Follows(record[j], r))
  BY <1>1, SetField DEF Record, Follows, Terminal
<1>3. Follows(record[j], record[j])
  BY DEF Follows, Record
<1>4. Recovered(j) = IF record[j].state # "running" THEN record[j] ELSE r
  BY DEF Recovered, s
<1> HIDE DEF r
<1> QED BY <1>2, <1>3, <1>4

\* A restart rebuilds the memory from the records; those it rewrites may follow
\* the old ones, and the memory may follow what is then on disk.
LEMMA RestartEffect ==
  ASSUME TypeOK, Restart
  PROVE  /\ mem' \in [Jobs -> Record \cup {None}]
         /\ order' \in Seq(Jobs)
         /\ queue' \in Seq(Jobs) /\ Len(queue') <= QueueDepth
         /\ token' \in [Jobs -> Token]
         /\ record' \in [Jobs -> Record \cup {None}]
         /\ \A j \in Jobs : record'[j] = None <=> record[j] = None
         /\ \A j \in Jobs : mem'[j] # None =>
              record'[j] # None /\ Follows(record'[j], mem'[j])
         /\ \A i \in DOMAIN queue' : record'[queue'[i]] # None
<1>1. PICK q \in [1 .. Cardinality(Waiting) -> Waiting] :
        /\ mem' = Booted(q)
        /\ queue' = IF Unreadable THEN <<>>
                    ELSE IF Len(q) <= QueueDepth THEN q ELSE SubSeq(q, 1, QueueDepth)
        /\ token' = [j \in Jobs |-> IF j \notin Waiting \ Dropped(q) THEN "absent"
                                    ELSE IF record[j].cancel THEN "cancelled" ELSE "live"]
        /\ \E requeued \in SUBSET {j \in Known : Recovered(j) # record[j]},
              failed \in SUBSET Dropped(q) :
             record' = [j \in Jobs |-> IF j \in failed THEN Booted(q)[j]
                                       ELSE IF j \in requeued THEN Recovered(j)
                                       ELSE record[j]]
  BY DEF Restart
<1>2. PICK requeued \in SUBSET {j \in Known : Recovered(j) # record[j]},
           failed \in SUBSET Dropped(q) :
        record' = [j \in Jobs |-> IF j \in failed THEN Booted(q)[j]
                                  ELSE IF j \in requeued THEN Recovered(j)
                                  ELSE record[j]]
  BY <1>1
<1>3. /\ record \in [Jobs -> Record \cup {None}] /\ index \in Seq(Jobs)
      /\ QueueDepth \in Nat
  BY DepthAssumption DEF TypeOK, DiskType
<1>4. Known \subseteq {j \in Jobs : record[j] # None} /\ Waiting \subseteq Known
  <2>1. Listed \subseteq Jobs
    BY <1>3, ElementOfSeq, LenProperties DEF Listed
  <2> QED BY <2>1 DEF Known, Waiting, Valid
<1>5. \A j \in Known : /\ record[j] \in Record
                       /\ Recovered(j) \in Record /\ Follows(record[j], Recovered(j))
  <2> TAKE j \in Known
  <2>1. j \in Jobs /\ record[j] \in Record
    BY <1>3, <1>4
  <2> QED BY <2>1, RecoveredFollows
<1>6. Cardinality(Waiting) \in Nat
  <2>1. IsFiniteSet(Waiting)
    BY <1>4, JobsAssumption, FS_Subset
  <2> QED BY <2>1, FS_CardinalityType
<1>7. Dropped(q) \subseteq Waiting
  BY <1>1 DEF Dropped
<1>8. \A j \in Known : /\ Booted(q)[j] \in Record
                       /\ Follows(Recovered(j), Booted(q)[j])
  <2> TAKE j \in Known
  <2> DEFINE r == [[Recovered(j) EXCEPT !.state = "failed"] EXCEPT !.failed = TRUE]
  <2>1. j \in Jobs /\ Recovered(j) \in Record
    BY <1>4, <1>5
  <2>2. CASE j \in Dropped(q)
    <3>1. Recovered(j).state = "queued"
      BY <2>2, <1>7 DEF Waiting
    <3>2. Booted(q)[j] = r
      BY <2>1, <2>2 DEF Booted
    <3>3. [Recovered(j) EXCEPT !.state = "failed"] \in Record
      BY <2>1, SetField DEF JobState, Terminal
    <3>4. r \in Record
      BY <3>3, SetField DEF JobState
    <3>5. /\ r.done = Recovered(j).done /\ r.finished = Recovered(j).finished
          /\ r.cancel = Recovered(j).cancel
      BY <2>1
    <3> HIDE DEF r
    <3>6. Follows(Recovered(j), r)
      BY <2>1, <3>1, <3>4, <3>5 DEF Follows, Record, Terminal
    <3> QED BY <3>2, <3>4, <3>6
  <2>3. CASE j \notin Dropped(q)
    <3>1. Booted(q)[j] = Recovered(j)
      BY <2>1, <2>3 DEF Booted
    <3> QED BY <3>1, <2>1 DEF Follows, Record
  <2> QED BY <2>2, <2>3
<1>9. \A j \in Jobs \ Known : Booted(q)[j] = None
  BY DEF Booted
<1>10. mem' \in [Jobs -> Record \cup {None}]
  <2>1. mem' = [j \in Jobs |-> mem'[j]]
    BY <1>1 DEF Booted
  <2> QED BY <2>1, <1>1, <1>8, <1>9
<1>11. order' \in Seq(Jobs)
  <2>1. IsFiniteSet(Known)
    BY <1>4, JobsAssumption, FS_Subset
  <2>2. Cardinality(Known) \in Nat
    BY <2>1, FS_CardinalityType
  <2>3. order' \in [1 .. Cardinality(Known) -> Jobs]
    BY <1>4 DEF Restart
  <2> QED BY <2>2, <2>3, SeqDef
<1>12. q \in Seq(Jobs) /\ \A i \in DOMAIN q : q[i] \in Waiting
  <2>1. q \in [1 .. Cardinality(Waiting) -> Jobs]
    BY <1>1, <1>4
  <2>2. q \in Seq(Jobs)
    BY <2>1, <1>6, SeqDef
  <2> QED BY <1>1, <2>2
<1>13. /\ queue' \in Seq(Jobs) /\ Len(queue') <= QueueDepth
       /\ \A i \in DOMAIN queue' : queue'[i] \in Waiting
  <2>1. CASE Unreadable
    BY <2>1, <1>1, <1>3
  <2>2. CASE ~Unreadable /\ Len(q) <= QueueDepth
    BY <2>2, <1>1, <1>12
  <2>3. CASE ~Unreadable /\ ~(Len(q) <= QueueDepth)
    <3> DEFINE h == SubSeq(q, 1, QueueDepth)
    <3>1. queue' = h
      BY <2>3, <1>1
    <3>2. DOMAIN q = 1 .. Len(q) /\ Len(q) \in Nat
      BY <1>12, LenProperties
    <3>3. \A i \in 1 .. QueueDepth : q[i] \in Waiting
      BY <2>3, <3>2, <1>12, <1>3
    <3>4. h \in Seq(Waiting) /\ Len(h) = QueueDepth
      BY <3>3, <1>3, SubSeqProperties
    <3>5. \A i \in DOMAIN h : h[i] \in Waiting
      BY <3>4, ElementOfSeq, LenProperties
    <3>6. h \in Seq(Jobs)
      BY <3>4, <1>4, SeqMonotonic
    <3> QED BY <3>1, <3>4, <3>5, <3>6, <1>3
  <2> QED BY <2>1, <2>2, <2>3
<1>14. token' \in [Jobs -> Token]
  BY <1>1 DEF Token
<1>15. \A j \in Jobs : \/ record'[j] = record[j]
                       \/ j \in Known /\ record'[j] = Recovered(j)
                       \/ j \in Known /\ record'[j] = Booted(q)[j]
  BY <1>2, <1>4, <1>7
<1>16. /\ \A j \in Jobs : record'[j] \in Record \cup {None}
       /\ \A j \in Jobs : record'[j] = None <=> record[j] = None
  BY <1>15, <1>3, <1>4, <1>5, <1>8, NoneAssumption
<1>17. record' \in [Jobs -> Record \cup {None}]
  BY <1>2, <1>16
<1>18. ASSUME NEW j \in Jobs, mem'[j] # None
       PROVE  record'[j] # None /\ Follows(record'[j], mem'[j])
  <2>1. j \in Known /\ mem'[j] = Booted(q)[j] /\ record'[j] # None
    BY <1>18, <1>1, <1>4, <1>9, <1>16
  <2>2. Follows(record[j], Booted(q)[j]) /\ Follows(Booted(q)[j], Booted(q)[j])
    <3>1. /\ record[j] \in Record /\ Recovered(j) \in Record /\ Booted(q)[j] \in Record
          /\ Follows(record[j], Recovered(j)) /\ Follows(Recovered(j), Booted(q)[j])
      BY <2>1, <1>5, <1>8
    <3>2. Follows(record[j], Booted(q)[j])
      BY <3>1, FollowsTransitive
    <3> QED BY <3>1, <3>2 DEF Follows, Record
  <2> QED BY <2>1, <2>2, <1>8, <1>15
<1>19. \A i \in DOMAIN queue' : record'[queue'[i]] # None
  BY <1>4, <1>13, <1>16
<1> QED BY <1>10, <1>11, <1>13, <1>14, <1>16, <1>17, <1>18, <1>19

\* An update of a record that is written by nobody new cannot make a write stale.
LEMMA UpdateKeeps ==
  ASSUME TypeOK, Refs, NoStaleWrite, NEW j, UNCHANGED mem \/ Updates(j),
         UNCHANGED <<record, image>>,
         \A i \in Jobs : Writing(i)' => Writing(i)
  PROVE  NoStaleWrite'
<1> SUFFICES ASSUME NEW i \in Jobs
             PROVE  /\ mem'[i] # None /\ record'[i] # None => Follows(record'[i], mem'[i])
                    /\ Writing(i)' =>
                         /\ record'[i] # None => Follows(record'[i], image')
                         /\ mem'[i] # None => Follows(image', mem'[i])
  BY DEF NoStaleWrite
<1>1. CASE mem'[i] = mem[i]
  BY <1>1 DEF NoStaleWrite
<1>2. CASE mem'[i] # mem[i]
  <2>1. i = j /\ Updates(j)
    BY <1>2, UpdateEffect
  <2>2. mem[i] \in Record /\ mem[i] # None /\ mem'[i] \in Record /\ Follows(mem[i], mem'[i])
    BY <2>1, UpdateEffect DEF Updates, TypeOK, MemoryType
  <2>3. record[i] # None => record[i] \in Record /\ Follows(record[i], mem'[i])
    BY <2>2, FollowsTransitive DEF NoStaleWrite, TypeOK, DiskType
  <2>4. Writing(i) => image \in Record
    BY ProcAssumption DEF Writing, Refs, LockOK, TypeOK, MemoryType
  <2>5. Writing(i) => Follows(image, mem'[i])
    BY <2>2, <2>4, FollowsTransitive DEF NoStaleWrite
  <2> QED BY <2>3, <2>5 DEF NoStaleWrite
<1> QED BY <1>1, <1>2

\* The memory stays well typed.
LEMMA MemoryTypeStep ==
  ASSUME TypeOK, Refs, Next
  PROVE  MemoryType'
<1> USE JobsAssumption, NoneAssumption, ProcAssumption
<1>1. CASE UNCHANGED <<mem, order, queue, token, lock, image, blocked>>
  BY <1>1 DEF TypeOK, MemoryType
<1>2. CASE Receive
  <2>1. Tail(queue) \in Seq(Jobs) /\ Len(Tail(queue)) = Len(queue) - 1
    BY <1>2, HeadTailProperties DEF Receive, TypeOK, MemoryType
  <2>2. Len(queue) \in Nat /\ QueueDepth \in Nat /\ Len(queue) <= QueueDepth
    BY LenProperties, DepthAssumption DEF TypeOK, MemoryType
  <2>3. Len(Tail(queue)) <= QueueDepth
    BY <2>1, <2>2
  <2> QED BY <1>2, <2>1, <2>3 DEF Receive, TypeOK, MemoryType
<1>3. CASE StartJob
  <2>1. UNCHANGED mem \/ \E j : Updates(j)
    BY <1>3, StartEffect
  <2>2. mem' \in [Jobs -> Record \cup {None}]
    BY <2>1, UpdateEffect DEF TypeOK, MemoryType
  <2> QED BY <1>3, <2>2 DEF StartJob, TypeOK, MemoryType
<1>4. CASE RenderFrame
  <2>1. UNCHANGED mem \/ \E j : Updates(j)
    BY <1>4, RenderEffect
  <2>2. mem' \in [Jobs -> Record \cup {None}]
    BY <2>1, UpdateEffect DEF TypeOK, MemoryType
  <2> QED BY <1>4, <2>2 DEF RenderFrame, TypeOK, MemoryType
<1>5. CASE RecordOutcome
  <2>1. UNCHANGED mem \/ \E j : Updates(j)
    BY <1>5, OutcomeEffect
  <2>2. mem' \in [Jobs -> Record \cup {None}]
    BY <2>1, UpdateEffect DEF TypeOK, MemoryType
  <2> QED BY <1>5, <2>2 DEF RecordOutcome, TypeOK, MemoryType
<1>6. CASE CompleteJob
  <2>1. UNCHANGED mem \/ \E j : Updates(j)
    BY <1>6, CompleteEffect
  <2>2. mem' \in [Jobs -> Record \cup {None}]
    BY <2>1, UpdateEffect DEF TypeOK, MemoryType
  <2> QED BY <1>6, <2>2 DEF CompleteJob, TypeOK, MemoryType
<1>7. CASE MarkCancelled
  <2>1. UNCHANGED mem \/ \E j : Updates(j)
    BY <1>7, MarkEffect
  <2>2. mem' \in [Jobs -> Record \cup {None}]
    BY <2>1, UpdateEffect DEF TypeOK, MemoryType
  <2> QED BY <1>7, <2>2 DEF MarkCancelled, TypeOK, MemoryType
<1>8. CASE FailJob
  <2>1. UNCHANGED mem \/ \E j : Updates(j)
    BY <1>8, FailEffect DEF FailJob, At, Refs, WorkerOK
  <2>2. mem' \in [Jobs -> Record \cup {None}]
    BY <2>1, UpdateEffect DEF TypeOK, MemoryType
  <2> QED BY <1>8, <2>2 DEF FailJob, TypeOK, MemoryType
<1>9. CASE WorkerCopies
  BY <1>9 DEF WorkerCopies, MemoryType, TypeOK, Refs, WorkerOK, Copy, WorkerSaving
<1>10. CASE WorkerWrites
  BY <1>10 DEF WorkerWrites, MemoryType, TypeOK, Write
<1>11. CASE Release
  BY <1>11 DEF Release, MemoryType, TypeOK, Token
<1>12. CASE Register
  BY <1>12, RegisterEffect DEF Register, TypeOK, MemoryType
<1>13. CASE CopyRecordAndIndex
  BY <1>13 DEF CopyRecordAndIndex, MemoryType, TypeOK, Refs, StagerOK, Staging, Copy
<1>14. CASE WriteAdmittedRecord
  BY <1>14 DEF WriteAdmittedRecord, MemoryType, TypeOK
<1>15. CASE WriteIndex
  BY <1>15 DEF WriteIndex, MemoryType, TypeOK
<1>16. CASE Reject
  <2>1. PICK i \in DOMAIN order : order' = RemoveAt(order, i)
    BY <1>16 DEF Reject
  <2>2. order' \in Seq(Jobs)
    BY <2>1, RemoveAtProperties DEF TypeOK, MemoryType
  <2>3. mem' \in [Jobs -> Record \cup {None}] /\ token' \in [Jobs -> Token]
    BY <1>16 DEF Reject, TypeOK, MemoryType, Token
  <2> QED BY <1>16, <2>2, <2>3 DEF Reject, TypeOK, MemoryType
<1>17. CASE Push
  <2>1. stager.job \in Jobs
    BY <1>17 DEF Push, Staging, Refs, StagerOK
  <2>2. queue \in Seq(Jobs) /\ Len(queue) \in Nat /\ QueueDepth \in Nat /\ Len(queue) <= QueueDepth
    BY LenProperties, DepthAssumption DEF TypeOK, MemoryType
  <2>3. Append(queue, stager.job) \in Seq(Jobs) /\ Len(Append(queue, stager.job)) = Len(queue) + 1
    BY <2>1, <2>2, AppendProperties
  <2>4. queue' \in Seq(Jobs) /\ Len(queue') <= QueueDepth
    BY <1>17, <2>2, <2>3 DEF Push
  <2> QED BY <1>17, <2>4 DEF Push, TypeOK, MemoryType
<1>18. CASE StagingFails
  <2>1. UNCHANGED mem \/ \E j : Updates(j)
    BY <1>18, FailEffect DEF StagingFails, Staging, Refs, StagerOK
  <2>2. mem' \in [Jobs -> Record \cup {None}]
    BY <2>1, UpdateEffect DEF TypeOK, MemoryType
  <2> QED BY <1>18, <2>2 DEF StagingFails, TypeOK, MemoryType
<1>19. CASE StagerCopies
  BY <1>19 DEF StagerCopies, MemoryType, TypeOK, Refs, StagerOK, Copy, StagerSaving
<1>20. CASE StagerWrites
  BY <1>20 DEF StagerWrites, MemoryType, TypeOK, Write
<1>21. CASE StagerReleases
  BY <1>21 DEF StagerReleases, MemoryType, TypeOK, Token
<1>22. ASSUME NEW c \in Clients, NEW j \in Jobs, Cancel(c, j)
      PROVE  MemoryType'
  <2>1. UNCHANGED mem \/ \E i : Updates(i)
    BY <1>22, CancelEffect
  <2>2. mem' \in [Jobs -> Record \cup {None}]
    BY <2>1, UpdateEffect DEF TypeOK, MemoryType
  <2>3. queue' \in Seq(Jobs) /\ Len(queue') <= QueueDepth
    <3>1. queue' = queue \/ \E i \in DOMAIN queue : queue' = RemoveAt(queue, i)
      BY <1>22 DEF Cancel
    <3>2. queue \in Seq(Jobs) /\ Len(queue) <= QueueDepth
      BY DEF TypeOK, MemoryType
    <3>3. Len(queue) \in Nat /\ QueueDepth \in Nat
      BY <3>2, LenProperties, DepthAssumption
    <3>4. \A i \in DOMAIN queue : /\ RemoveAt(queue, i) \in Seq(Jobs)
                                 /\ Len(RemoveAt(queue, i)) = Len(queue) - 1
      BY <3>2, RemoveAtProperties
    <3> QED BY <3>1, <3>2, <3>3, <3>4
  <2> QED BY <1>22, <2>2, <2>3 DEF Cancel, TypeOK, MemoryType
<1>23. ASSUME NEW c \in Clients, CancelToken(c)
      PROVE  MemoryType'
  BY <1>23 DEF CancelToken, MemoryType, TypeOK, Token
<1>24. ASSUME NEW c \in Clients, CancelCopies(c)
      PROVE  MemoryType'
  BY <1>24 DEF CancelCopies, MemoryType, TypeOK, Refs, ClientOK, Copy
<1>25. ASSUME NEW c \in Clients, CancelWrites(c)
      PROVE  MemoryType'
  BY <1>25 DEF CancelWrites, MemoryType, TypeOK, Write
<1>26. CASE Restart
  <2>1. Unreadable \in BOOLEAN
    BY DEF Unreadable
  <2> QED BY <1>26, <2>1, RestartEffect DEF Restart, MemoryType
<1> QED
  BY <1>1, <1>2, <1>3, <1>4, <1>5, <1>6, <1>7, <1>8, <1>9, <1>10, <1>11, <1>12, <1>13,
     <1>14, <1>15, <1>16, <1>17, <1>18, <1>19, <1>20, <1>21, <1>22, <1>23, <1>24, <1>25,
     <1>26
     DEF Next, Worker, Stager, Client, Copy, Write, Answer, RunJob, LoadSource,
         NextFrame, FinishAfterBlender, EncodeVideo, WorkerFindsNoJob, Submit,
         SnapshotFails, CommitSource, MarkWaiting, CancelEnds, disk, history, memory

\* The processes stay well typed.
LEMMA ProcessTypeStep ==
  ASSUME TypeOK, Refs, Next
  PROVE  ProcessType'
<1> USE JobsAssumption, NoneAssumption, ProcAssumption
<1>1. CASE UNCHANGED <<worker, stager, client>>
  BY <1>1 DEF TypeOK, ProcessType
<1>2. CASE Receive
  <2>1. Head(queue) \in Jobs
    BY <1>2, HeadTailProperties DEF Receive, TypeOK, MemoryType
  <2> QED BY <1>2, <2>1 DEF Receive, TypeOK, ProcessType, WorkerPc, Outcome
<1>3. CASE StartJob
  BY <1>3 DEF StartJob, ProcessType, TypeOK, GoTo, WorkerSaving, WorkerPc
<1>4. CASE RunJob
  BY <1>4 DEF RunJob, ProcessType, TypeOK, GoTo, WorkerSaving, WorkerPc
<1>5. CASE LoadSource
  BY <1>5 DEF LoadSource, ProcessType, TypeOK, GoTo, Return, WorkerPc, Outcome
<1>6. CASE NextFrame
  BY <1>6
     DEF NextFrame, ProcessType, TypeOK, memory, disk, history, At, GoTo, Return,
         WorkerSaving, StagerSaving, WorkerPc, StagerPc, ClientPc, Outcome, Token,
         Record, JobState, Terminal
<1>7. CASE RenderFrame
  BY <1>7
     DEF RenderFrame, ProcessType, TypeOK, GoTo, Return, WorkerSaving, WorkerPc, Outcome
<1>8. CASE RecordOutcome
  BY <1>8 DEF RecordOutcome, ProcessType, TypeOK, GoTo, WorkerSaving, WorkerPc
<1>9. CASE FinishAfterBlender
  BY <1>9 DEF FinishAfterBlender, ProcessType, TypeOK, GoTo, WorkerSaving, WorkerPc
<1>10. CASE EncodeVideo
  BY <1>10 DEF EncodeVideo, ProcessType, TypeOK, GoTo, WorkerPc
<1>11. CASE CompleteJob
  BY <1>11 DEF CompleteJob, ProcessType, TypeOK, GoTo, WorkerSaving, WorkerPc
<1>12. CASE MarkCancelled
  BY <1>12 DEF MarkCancelled, ProcessType, TypeOK, GoTo, WorkerSaving, WorkerPc
<1>13. CASE FailJob
  BY <1>13 DEF FailJob, ProcessType, TypeOK, GoTo, WorkerSaving, WorkerPc
<1>14. CASE WorkerWrites
  <2>1. PICK out \in WriteOutcome : Resume(out = "ok")
    BY <1>14 DEF WorkerWrites
  <2>2. worker' \in [pc : WorkerPc, job : Jobs \cup {None}, outcome : Outcome]
    BY <1>14, <2>1, ResumeEffect DEF WorkerWrites, TypeOK
  <2> QED BY <1>14, <2>2 DEF WorkerWrites, TypeOK, ProcessType
<1>15. CASE WorkerFindsNoJob
  BY <1>15, ResumeEffect DEF WorkerFindsNoJob, TypeOK, ProcessType
<1>16. CASE Release
  BY <1>16 DEF Release, ProcessType, TypeOK, IdleWorker, WorkerPc, Outcome
<1>17. CASE Submit
  BY <1>17 DEF Submit, ProcessType, TypeOK, StagerPc
<1>18. CASE Register
  BY <1>18 DEF Register, ProcessType, TypeOK, StagerTo, StagerPc
<1>19. CASE SnapshotFails
  BY <1>19 DEF SnapshotFails, ProcessType, TypeOK, IdleStager, StagerPc
<1>20. CASE CopyRecordAndIndex
  BY <1>20 DEF CopyRecordAndIndex, ProcessType, TypeOK, StagerTo, StagerPc
<1>21. CASE WriteAdmittedRecord
  BY <1>21 DEF WriteAdmittedRecord, ProcessType, TypeOK, StagerTo, StagerPc
<1>22. CASE WriteIndex
  BY <1>22 DEF WriteIndex, ProcessType, TypeOK, StagerTo, StagerPc
<1>23. CASE Reject
  BY <1>23 DEF Reject, ProcessType, TypeOK, IdleStager, StagerPc
<1>24. CASE CommitSource
  BY <1>24 DEF CommitSource, ProcessType, TypeOK, StagerTo, StagerPc
<1>25. CASE MarkWaiting
  BY <1>25
     DEF MarkWaiting, ProcessType, TypeOK, StagerTo, IdleStager, Answer, StagerSaving,
         StagerPc
<1>26. CASE Push
  BY <1>26 DEF Push, ProcessType, TypeOK, StagerTo, IdleStager, Answer, StagerPc
<1>27. CASE StagingFails
  BY <1>27 DEF StagingFails, ProcessType, TypeOK, StagerTo, StagerSaving, StagerPc
<1>28. CASE StagerWrites
  BY <1>28 DEF StagerWrites, ProcessType, TypeOK, StagerTo, StagerPc
<1>29. CASE StagerReleases
  BY <1>29 DEF StagerReleases, ProcessType, TypeOK, IdleStager, Answer, StagerPc
<1>30. ASSUME NEW c \in Clients, NEW j \in Jobs, Cancel(c, j)
      PROVE  ProcessType'
  BY <1>30 DEF Cancel, ProcessType, TypeOK, ClientPc
<1>31. ASSUME NEW c \in Clients, CancelToken(c)
      PROVE  ProcessType'
  BY <1>31 DEF CancelToken, ProcessType, TypeOK, ClientTo, ClientPc
<1>32. ASSUME NEW c \in Clients, CancelCopies(c)
      PROVE  ProcessType'
  BY <1>32 DEF CancelCopies, ProcessType, TypeOK, ClientTo, ClientPc
<1>33. ASSUME NEW c \in Clients, CancelWrites(c)
      PROVE  ProcessType'
  BY <1>33 DEF CancelWrites, ProcessType, TypeOK, IdleClient, ClientPc
<1>34. ASSUME NEW c \in Clients, CancelEnds(c)
      PROVE  ProcessType'
  BY <1>34 DEF CancelEnds, ProcessType, TypeOK, IdleClient, ClientPc
<1>35. CASE Restart
  BY <1>35
     DEF Restart, ProcessType, IdleWorker, IdleStager, IdleClient, WorkerPc, StagerPc,
         ClientPc, Outcome
<1> QED
  BY <1>1, <1>2, <1>3, <1>4, <1>5, <1>6, <1>7, <1>8, <1>9, <1>10, <1>11, <1>12, <1>13,
     <1>14, <1>15, <1>16, <1>17, <1>18, <1>19, <1>20, <1>21, <1>22, <1>23, <1>24, <1>25,
     <1>26, <1>27, <1>28, <1>29, <1>30, <1>31, <1>32, <1>33, <1>34, <1>35
     DEF Next, Worker, Stager, Client, Copy, Write, Answer, WorkerCopies, StagerCopies,
         disk, history, memory

\* The disk stays well typed.
LEMMA DiskTypeStep ==
  ASSUME TypeOK, Refs, Next
  PROVE  DiskType'
<1> USE JobsAssumption, NoneAssumption, ProcAssumption
<1>1. CASE UNCHANGED <<record, index, indexed, source, faults>>
  BY <1>1 DEF TypeOK, DiskType
<1>2. CASE WorkerWrites
  <2>1. image \in Record /\ worker.job \in Jobs
    BY <1>2, ProcAssumption
       DEF WorkerWrites, Write, Refs, LockOK, TypeOK, MemoryType, WorkerOK, WorkerSaving
  <2>2. PICK out \in WriteOutcome : Write("worker", worker.job, out)
    BY <1>2 DEF WorkerWrites
  <2>3. record' \in [Jobs -> Record \cup {None}]
    BY <2>1, <2>2 DEF Write, TypeOK, DiskType
  <2>4. faults' \in Nat
    BY <2>2 DEF Write, Medium, TypeOK, DiskType
  <2> QED BY <2>2, <2>3, <2>4 DEF Write, TypeOK, DiskType
<1>3. CASE WriteAdmittedRecord
  BY <1>3
     DEF WriteAdmittedRecord, DiskType, TypeOK, MemoryType, Refs, StagerOK, Staging,
         Medium
<1>4. CASE WriteIndex
  <2>1. order \in Seq(Jobs)
    BY DEF TypeOK, MemoryType
  <2>2. PICK out \in WriteOutcome :
          /\ Medium(out)
          /\ IF out = "lost" THEN UNCHANGED <<index, indexed>>
                             ELSE index' = order /\ indexed' = TRUE
    BY <1>4 DEF WriteIndex
  <2>3. index' \in Seq(Jobs) /\ indexed' \in BOOLEAN
    BY <2>1, <2>2 DEF TypeOK, DiskType
  <2>4. faults' \in Nat
    BY <2>2 DEF Medium, TypeOK, DiskType
  <2> QED BY <1>4, <2>3, <2>4 DEF WriteIndex, TypeOK, DiskType
<1>5. CASE CommitSource
  BY <1>5 DEF CommitSource, DiskType, TypeOK, Refs, StagerOK, Staging, Medium
<1>6. CASE StagerWrites
  BY <1>6
     DEF StagerWrites, DiskType, TypeOK, MemoryType, Refs, StagerOK, Write, Medium,
         StagerSaving
<1>7. ASSUME NEW c \in Clients, CancelWrites(c)
      PROVE  DiskType'
  <2>1. image \in Record /\ client[c].job \in Jobs
    BY <1>7, ProcAssumption DEF CancelWrites, Refs, LockOK, TypeOK, MemoryType, ClientOK
  <2>2. PICK out \in WriteOutcome : Write(c, client[c].job, out)
    BY <1>7 DEF CancelWrites
  <2>3. record' \in [Jobs -> Record \cup {None}]
    BY <2>1, <2>2 DEF Write, TypeOK, DiskType
  <2>4. faults' \in Nat
    BY <2>2 DEF Write, Medium, TypeOK, DiskType
  <2> QED BY <2>2, <2>3, <2>4 DEF Write, TypeOK, DiskType
<1>8. CASE Restart
  BY <1>8, RestartEffect DEF Restart, TypeOK, DiskType
<1> QED
  BY <1>1, <1>2, <1>3, <1>4, <1>5, <1>6, <1>7, <1>8
     DEF Next, Worker, Stager, Client, Receive, StartJob, RunJob, LoadSource, NextFrame,
         RenderFrame, RecordOutcome, FinishAfterBlender, EncodeVideo, CompleteJob,
         MarkCancelled, FailJob, WorkerCopies, WorkerFindsNoJob, Release, Submit,
         Register, SnapshotFails, CopyRecordAndIndex, Reject, MarkWaiting, Push,
         StagingFails, StagerCopies, StagerReleases, Cancel, CancelToken, CancelCopies,
         CancelEnds, disk

\* What the environment has seen stays well typed.
LEMMA HistoryTypeStep ==
  ASSUME TypeOK, Refs, Next
  PROVE  HistoryType'
<1> USE JobsAssumption, NoneAssumption, ProcAssumption
<1>1. CASE UNCHANGED <<restarts, accepted, acked>>
  BY <1>1 DEF TypeOK, HistoryType
<1>2. CASE MarkWaiting
  BY <1>2 DEF MarkWaiting, HistoryType, TypeOK, Refs, StagerOK, history, Staging, Answer
<1>3. CASE Push
  BY <1>3 DEF Push, HistoryType, TypeOK, Refs, StagerOK, history, Staging, Answer
<1>4. CASE StagerReleases
  BY <1>4 DEF StagerReleases, HistoryType, TypeOK, Refs, StagerOK, Staging, Answer
<1>5. ASSUME NEW c \in Clients, CancelWrites(c)
      PROVE  HistoryType'
  BY <1>5 DEF CancelWrites, HistoryType, TypeOK, Refs, ClientOK
<1>6. CASE Restart
  BY <1>6 DEF Restart, HistoryType, TypeOK
<1> QED
  BY <1>1, <1>2, <1>3, <1>4, <1>5, <1>6
     DEF Next, Worker, Stager, Client, Receive, StartJob, RunJob, LoadSource, NextFrame,
         RenderFrame, RecordOutcome, FinishAfterBlender, EncodeVideo, CompleteJob,
         MarkCancelled, FailJob, WorkerCopies, WorkerWrites, WorkerFindsNoJob, Release,
         Submit, Register, SnapshotFails, CopyRecordAndIndex, WriteAdmittedRecord,
         WriteIndex, Reject, CommitSource, StagingFails, StagerCopies, StagerWrites,
         Cancel, CancelToken, CancelCopies, CancelEnds, history

\* WorkerOK is kept: only the worker ends its job.
LEMMA WorkerStep ==
  ASSUME TypeOK, Refs, Next
  PROVE  WorkerOK'
<1> USE JobsAssumption, NoneAssumption, ProcAssumption
<1>1. CASE UNCHANGED <<worker, record, mem>>
  BY <1>1 DEF Refs, WorkerOK
<1>2. CASE Receive
  <2>1. Head(queue) \in Jobs /\ \E i \in DOMAIN queue : Head(queue) = queue[i]
    BY <1>2, HeadTailProperties, EmptySeq, LenProperties DEF Receive, TypeOK, MemoryType
  <2>2. record[Head(queue)] # None
    BY <2>1 DEF Refs, QueueOK
  <2> QED BY <1>2, <2>1, <2>2 DEF Receive, disk, WorkerRunning, WorkerOK
<1>3. CASE StartJob
  <2>1. worker'.job = worker.job /\ worker.job \in Jobs /\ worker.pc # "idle"
        /\ worker'.pc \in {"release", "start"}
    BY <1>3 DEF StartJob, At, GoTo, Refs, WorkerOK, TypeOK, ProcessType
  <2>2. worker'.pc = "start" => mem'[worker.job] \in Record /\ mem'[worker.job].state = "running"
    BY <1>3, StartEffect, UpdateEffect
  <2> QED BY <1>3, <2>1, <2>2 DEF StartJob, disk, Refs, WorkerOK, WorkerRunning
<1>4. CASE RunJob
  BY <1>4
     DEF RunJob, WorkerOK, TypeOK, MemoryType, ProcessType, DiskType, Refs, QueueOK,
         StagerOK, LockOK, memory, disk, history, At, GoTo, Token, Record, JobState,
         Terminal, WorkerRunning
<1>5. CASE LoadSource
  BY <1>5
     DEF LoadSource, WorkerOK, TypeOK, MemoryType, ProcessType, DiskType, Refs, QueueOK,
         StagerOK, LockOK, memory, disk, history, At, GoTo, Return, Token, Record,
         JobState, Terminal, WorkerRunning
<1>6. CASE NextFrame
  BY <1>6
     DEF NextFrame, WorkerOK, TypeOK, MemoryType, ProcessType, DiskType, Refs, QueueOK,
         StagerOK, LockOK, memory, disk, history, At, GoTo, Return, Token, Record,
         JobState, Terminal, WorkerRunning
<1>7. CASE RenderFrame
  <2>1. worker'.job = worker.job /\ worker.job \in Jobs /\ worker.pc # "idle"
    BY <1>7 DEF RenderFrame, At, GoTo, Return, Refs, WorkerOK, TypeOK, ProcessType
  <2>2. worker'.pc # "idle"
    BY <1>7 DEF RenderFrame, GoTo, Return, TypeOK, ProcessType
  <2>3. mem'[worker.job] # None /\ mem'[worker.job].state = "running"
    BY <1>7, RenderEffect, UpdateEffect, NoneAssumption
       DEF RenderFrame, At, Refs, WorkerOK, WorkerRunning
  <2> QED BY <1>7, <2>1, <2>2, <2>3 DEF RenderFrame, disk, Refs, WorkerOK
<1>8. CASE RecordOutcome
  <2>1. worker'.job = worker.job /\ worker.job \in Jobs /\ worker.pc # "idle"
    BY <1>8 DEF RecordOutcome, At, GoTo, Refs, WorkerOK
  <2>2. worker'.pc # "idle"
    BY <1>8 DEF RecordOutcome, GoTo
  <2>3. mem'[worker.job] # None /\ mem'[worker.job].state = "running"
    BY <1>8, OutcomeEffect, UpdateEffect, NoneAssumption DEF At, Refs, WorkerOK
  <2> QED BY <1>8, <2>1, <2>2, <2>3 DEF RecordOutcome, disk, Refs, WorkerOK
<1>9. CASE FinishAfterBlender
  BY <1>9 DEF FinishAfterBlender, WorkerOK, Refs, memory, disk, At, GoTo, WorkerRunning
<1>10. CASE EncodeVideo
  BY <1>10
     DEF EncodeVideo, WorkerOK, TypeOK, ProcessType, Refs, memory, disk, At, GoTo,
         Token, WorkerRunning
<1>11. CASE CompleteJob
  BY <1>11 DEF CompleteJob, WorkerOK, Refs, disk, At, GoTo, WorkerRunning
<1>12. CASE MarkCancelled
  BY <1>12 DEF MarkCancelled, WorkerOK, Refs, disk, At, GoTo, WorkerRunning
<1>13. CASE FailJob
  BY <1>13 DEF FailJob, WorkerOK, Refs, disk, At, GoTo, WorkerRunning
<1>14. CASE WorkerWrites
  <2>1. PICK out \in WriteOutcome : Write("worker", worker.job, out) /\ Resume(out = "ok")
    BY <1>14 DEF WorkerWrites
  <2>2. /\ worker'.job = worker.job /\ worker'.pc # "idle"
        /\ worker'.pc \in WorkerRunning => worker.pc \in WorkerRunning
    BY <1>14, <2>1, ResumeEffect DEF WorkerWrites, TypeOK
  <2>3. worker.job \in Jobs /\ record[worker.job] # None
    BY <1>14 DEF WorkerWrites, WorkerSaving, Refs, WorkerOK
  <2>4. record'[worker.job] # None
    BY <2>1, <2>3 DEF Write, Refs, LockOK
  <2> QED BY <2>1, <2>2, <2>3, <2>4 DEF Write, Refs, WorkerOK
<1>15. CASE WorkerFindsNoJob
  <2>1. /\ worker'.job = worker.job /\ worker'.pc # "idle"
        /\ worker'.pc \in WorkerRunning => worker.pc \in WorkerRunning
    BY <1>15, ResumeEffect DEF WorkerFindsNoJob, TypeOK
  <2> QED BY <1>15, <2>1 DEF WorkerFindsNoJob, disk, WorkerSaving, Refs, WorkerOK
<1>16. CASE Release
  BY <1>16 DEF Release, WorkerOK, IdleWorker, WorkerRunning
<1>17. CASE Register
  <2>1. worker.pc \in WorkerRunning => mem'[worker.job] = mem[worker.job]
    BY <1>17, RegisterEffect
       DEF Refs, WorkerOK, StagerOK, IsActive, WorkerRunning, Terminal
  <2> QED BY <1>17, <2>1 DEF Register, disk, Refs, WorkerOK
<1>18. CASE WriteAdmittedRecord
  BY <1>18 DEF WriteAdmittedRecord, WorkerOK, Refs, LockOK, Staging
<1>19. CASE Reject
  BY <1>19 DEF Reject, WorkerOK, Refs, StagerOK, disk, Staging
<1>20. CASE StagingFails
  BY <1>20
     DEF StagingFails, WorkerOK, TypeOK, MemoryType, Refs, StagerOK, disk, Failed,
         Staging, WorkerRunning
<1>21. CASE StagerWrites
  BY <1>21 DEF StagerWrites, WorkerOK, Refs, LockOK, Write
<1>22. ASSUME NEW c \in Clients, NEW j \in Jobs, Cancel(c, j)
      PROVE  WorkerOK'
  <2>1. worker.pc \in WorkerRunning =>
          mem'[worker.job] # None /\ mem'[worker.job].state = "running"
    <3>1. worker.pc \in WorkerRunning =>
            worker.job \in Jobs /\ mem[worker.job] # None /\ mem[worker.job].state = "running"
      BY DEF Refs, WorkerOK, WorkerRunning
    <3> QED BY <1>22, <3>1, CancelEffect, UpdateEffect, NoneAssumption
  <2> QED BY <1>22, <2>1 DEF Cancel, disk, Refs, WorkerOK
<1>23. ASSUME NEW c \in Clients, CancelWrites(c)
      PROVE  WorkerOK'
  BY <1>23 DEF CancelWrites, WorkerOK, Refs, LockOK, Write
<1>24. CASE Restart
  BY <1>24 DEF Restart, IdleWorker, WorkerRunning, WorkerOK
<1> QED
  BY <1>1, <1>2, <1>3, <1>4, <1>5, <1>6, <1>7, <1>8, <1>9, <1>10, <1>11, <1>12, <1>13,
     <1>14, <1>15, <1>16, <1>17, <1>18, <1>19, <1>20, <1>21, <1>22, <1>23, <1>24
     DEF Next, Worker, Stager, Client, Copy, Write, Answer, WorkerCopies, Submit,
         SnapshotFails, CopyRecordAndIndex, WriteIndex, CommitSource, MarkWaiting, Push,
         StagerCopies, StagerReleases, CancelToken, CancelCopies, CancelEnds, disk,
         history, memory

\* QueueOK is kept: a job is queued after its record was written.
LEMMA QueueStep ==
  ASSUME TypeOK, Refs, Next
  PROVE  QueueOK'
<1> USE JobsAssumption, NoneAssumption, ProcAssumption
<1>1. CASE UNCHANGED <<queue, record>>
  BY <1>1 DEF Refs, QueueOK
<1>2. CASE Receive
  <2>1. \A i \in DOMAIN Tail(queue) : \E k \in DOMAIN queue : Tail(queue)[i] = queue[k]
    BY <1>2, HeadTailProperties, LenProperties DEF TypeOK, MemoryType
  <2> QED BY <1>2, <2>1 DEF Receive, disk, Refs, QueueOK
<1>3. CASE WorkerWrites
  BY <1>3 DEF WorkerWrites, QueueOK, Refs, LockOK, Write
<1>4. CASE WriteAdmittedRecord
  BY <1>4 DEF WriteAdmittedRecord, QueueOK, Refs, LockOK, Staging
<1>5. CASE Push
  <2>1. stager.job \in Jobs /\ record[stager.job] # None
    BY <1>5 DEF Push, Staging, Refs, StagerOK
  <2>2. \A i \in DOMAIN Append(queue, stager.job) :
          \/ Append(queue, stager.job)[i] = stager.job
          \/ i \in DOMAIN queue /\ Append(queue, stager.job)[i] = queue[i]
    BY <2>1, AppendProperties, LenProperties
  <2> QED BY <1>5, <2>1, <2>2 DEF Push, disk, Refs, QueueOK
<1>6. CASE StagerWrites
  BY <1>6 DEF StagerWrites, QueueOK, Refs, LockOK, Write
<1>7. ASSUME NEW c \in Clients, NEW j \in Jobs, Cancel(c, j)
      PROVE  QueueOK'
  <2>1. queue' = queue \/ \E i \in DOMAIN queue : queue' = RemoveAt(queue, i)
    BY <1>7 DEF Cancel
  <2>2. \A i \in DOMAIN queue : \A k \in DOMAIN RemoveAt(queue, i) :
          \E m \in DOMAIN queue : RemoveAt(queue, i)[k] = queue[m]
    BY RemoveAtProperties DEF TypeOK, MemoryType
  <2>3. \A k \in DOMAIN queue' : \E m \in DOMAIN queue : queue'[k] = queue[m]
    BY <2>1, <2>2
  <2> QED BY <1>7, <2>3 DEF Cancel, disk, Refs, QueueOK
<1>8. ASSUME NEW c \in Clients, CancelWrites(c)
      PROVE  QueueOK'
  BY <1>8 DEF CancelWrites, QueueOK, Refs, LockOK, Write
<1>9. CASE Restart
  BY <1>9, RestartEffect DEF QueueOK
<1> QED
  BY <1>1, <1>2, <1>3, <1>4, <1>5, <1>6, <1>7, <1>8, <1>9
     DEF Next, Worker, Stager, Client, Copy, StartJob, RunJob, LoadSource, NextFrame,
         RenderFrame, RecordOutcome, FinishAfterBlender, EncodeVideo, CompleteJob,
         MarkCancelled, FailJob, WorkerCopies, WorkerFindsNoJob, Release, Submit,
         Register, SnapshotFails, CopyRecordAndIndex, WriteIndex, Reject, CommitSource,
         MarkWaiting, StagingFails, StagerCopies, StagerReleases, CancelToken,
         CancelCopies, CancelEnds, disk, memory

\* StagerOK is kept: the job being staged is the stager's alone.
LEMMA StagerStep ==
  ASSUME TypeOK, Refs, Next
  PROVE  StagerOK'
<1> USE JobsAssumption, NoneAssumption, ProcAssumption
<1>1. CASE UNCHANGED <<stager, worker, queue, mem, record, client>>
  BY <1>1 DEF Refs, StagerOK
<1>2. CASE Receive
  <2>1. \A i \in DOMAIN Tail(queue) : \E k \in DOMAIN queue : Tail(queue)[i] = queue[k]
    BY <1>2, HeadTailProperties, LenProperties DEF TypeOK, MemoryType
  <2>2. \E k \in DOMAIN queue : Head(queue) = queue[k]
    BY <1>2, HeadTailProperties, EmptySeq, LenProperties DEF Receive
  <2> QED BY <1>2, <2>1, <2>2 DEF Receive, disk, Refs, StagerOK
<1>3. CASE StartJob
  BY <1>3 DEF StartJob, StagerOK, TypeOK, MemoryType, ProcessType, Refs, disk, GoTo
<1>4. CASE RunJob
  BY <1>4 DEF RunJob, StagerOK, TypeOK, ProcessType, Refs, memory, disk, GoTo
<1>5. CASE LoadSource
  BY <1>5
     DEF LoadSource, StagerOK, TypeOK, ProcessType, Refs, memory, disk, GoTo, Return
<1>6. CASE NextFrame
  BY <1>6
     DEF NextFrame, StagerOK, TypeOK, ProcessType, Refs, memory, disk, GoTo, Return,
         Token
<1>7. CASE RenderFrame
  BY <1>7
     DEF RenderFrame, StagerOK, TypeOK, MemoryType, ProcessType, Refs, disk, GoTo,
         Return
<1>8. CASE RecordOutcome
  BY <1>8 DEF RecordOutcome, StagerOK, TypeOK, MemoryType, Refs, disk, GoTo
<1>9. CASE FinishAfterBlender
  BY <1>9 DEF FinishAfterBlender, StagerOK, Refs, memory, disk, GoTo
<1>10. CASE EncodeVideo
  BY <1>10 DEF EncodeVideo, StagerOK, TypeOK, ProcessType, Refs, memory, disk, GoTo
<1>11. CASE CompleteJob
  BY <1>11 DEF CompleteJob, StagerOK, Refs, disk, GoTo
<1>12. CASE MarkCancelled
  BY <1>12 DEF MarkCancelled, StagerOK, TypeOK, MemoryType, Refs, disk, GoTo
<1>13. CASE FailJob
  BY <1>13 DEF FailJob, StagerOK, TypeOK, MemoryType, Refs, disk, GoTo, Failed
<1>14. CASE WorkerWrites
  <2>1. PICK out \in WriteOutcome : Write("worker", worker.job, out) /\ Resume(out = "ok")
    BY <1>14 DEF WorkerWrites
  <2>2. worker'.job = worker.job
    BY <1>14, <2>1, ResumeEffect DEF WorkerWrites, TypeOK
  <2>3. worker.job \in Jobs /\ worker.pc # "idle"
    BY <1>14 DEF WorkerWrites, WorkerSaving, Refs, WorkerOK
  <2>4. /\ \A j \in Jobs : j # worker.job => record'[j] = record[j]
        /\ \A j \in Jobs : record[j] # None => record'[j] # None
        /\ UNCHANGED <<mem, queue>>
    BY <2>1, <2>3 DEF Write, Refs, LockOK
  <2> QED BY <1>14, <2>2, <2>4 DEF WorkerWrites, Refs, StagerOK
<1>15. CASE WorkerFindsNoJob
  <2>1. worker'.job = worker.job
    BY <1>15, ResumeEffect DEF WorkerFindsNoJob, TypeOK
  <2> QED BY <1>15, <2>1 DEF WorkerFindsNoJob, memory, disk, Refs, StagerOK
<1>16. CASE Release
  BY <1>16 DEF Release, StagerOK, Refs, disk, IdleWorker
<1>17. CASE Submit
  BY <1>17 DEF Submit, StagerOK, Refs, QueueOK, memory, disk, Fresh
<1>18. CASE Register
  BY <1>18 DEF Register, StagerOK, Refs, Staging, StagerTo
<1>19. CASE SnapshotFails
  BY <1>19 DEF SnapshotFails, StagerOK, IdleStager
<1>20. CASE CopyRecordAndIndex
  BY <1>20 DEF CopyRecordAndIndex, StagerOK, Refs, Staging, StagerTo, Copy
<1>21. CASE WriteAdmittedRecord
  BY <1>21
     DEF WriteAdmittedRecord, StagerOK, TypeOK, ProcessType, DiskType, Refs, LockOK,
         Staging, StagerTo, Token
<1>22. CASE WriteIndex
  BY <1>22 DEF WriteIndex, StagerOK, Refs, Staging, StagerTo
<1>23. CASE Reject
  BY <1>23 DEF Reject, StagerOK, IdleStager
<1>24. CASE CommitSource
  BY <1>24 DEF CommitSource, StagerOK, Refs, memory, Staging, StagerTo
<1>25. CASE MarkWaiting
  BY <1>25
     DEF MarkWaiting, StagerOK, TypeOK, ProcessType, Refs, memory, disk, Staging,
         StagerTo, IdleStager, Answer
<1>26. CASE Push
  BY <1>26
     DEF Push, StagerOK, TypeOK, ProcessType, Refs, disk, Staging, StagerTo, IdleStager,
         Answer
<1>27. CASE StagingFails
  BY <1>27 DEF StagingFails, StagerOK, Refs, disk, Staging, StagerTo
<1>28. CASE StagerWrites
  BY <1>28 DEF StagerWrites, StagerOK, Refs, LockOK, StagerTo, Write, StagerSaving
<1>29. CASE StagerReleases
  BY <1>29 DEF StagerReleases, StagerOK, IdleStager, Answer
<1>30. ASSUME NEW c \in Clients, NEW j \in Jobs, Cancel(c, j)
      PROVE  StagerOK'
  <2>1. queue' = queue \/ \E i \in DOMAIN queue : queue' = RemoveAt(queue, i)
    BY <1>30 DEF Cancel
  <2>2. \A i \in DOMAIN queue : \A k \in DOMAIN RemoveAt(queue, i) :
          \E m \in DOMAIN queue : RemoveAt(queue, i)[k] = queue[m]
    BY RemoveAtProperties DEF TypeOK, MemoryType
  <2>3. \A k \in DOMAIN queue' : \E m \in DOMAIN queue : queue'[k] = queue[m]
    BY <2>1, <2>2
  <2>4. stager.pc = "snapshot" => mem'[stager.job] = None /\ j # stager.job
    BY <1>30, CancelEffect, UpdateEffect DEF Cancel, Refs, StagerOK
  <2>5. \A i \in Clients : client'[i].job \in {client[i].job, j}
    BY <1>30 DEF Cancel
  <2> QED BY <1>30, <2>3, <2>4, <2>5 DEF Cancel, disk, Refs, StagerOK
<1>31. ASSUME NEW c \in Clients, CancelToken(c)
      PROVE  StagerOK'
  BY <1>31 DEF CancelToken, StagerOK, Refs, disk, ClientTo
<1>32. ASSUME NEW c \in Clients, CancelCopies(c)
      PROVE  StagerOK'
  BY <1>32 DEF CancelCopies, StagerOK, Refs, disk, ClientTo, Copy
<1>33. ASSUME NEW c \in Clients, CancelWrites(c)
      PROVE  StagerOK'
  BY <1>33 DEF CancelWrites, StagerOK, Refs, LockOK, IdleClient, Write
<1>34. ASSUME NEW c \in Clients, CancelEnds(c)
      PROVE  StagerOK'
  BY <1>34 DEF CancelEnds, StagerOK, Refs, memory, disk, IdleClient
<1>35. CASE Restart
  BY <1>35 DEF Restart, StagerOK, IdleStager
<1> QED
  BY <1>1, <1>2, <1>3, <1>4, <1>5, <1>6, <1>7, <1>8, <1>9, <1>10, <1>11, <1>12, <1>13,
     <1>14, <1>15, <1>16, <1>17, <1>18, <1>19, <1>20, <1>21, <1>22, <1>23, <1>24, <1>25,
     <1>26, <1>27, <1>28, <1>29, <1>30, <1>31, <1>32, <1>33, <1>34, <1>35
     DEF Next, Worker, Stager, Client, Copy, Write, Answer, WorkerCopies, StagerCopies,
         disk, history, memory

\* ClientOK is kept.
LEMMA ClientStep ==
  ASSUME TypeOK, Refs, Next
  PROVE  ClientOK'
<1> USE JobsAssumption, NoneAssumption, ProcAssumption
<1>1. CASE UNCHANGED <<client>>
  BY <1>1 DEF Refs, ClientOK
<1>2. ASSUME NEW c \in Clients, NEW j \in Jobs, Cancel(c, j)
      PROVE  ClientOK'
  BY <1>2 DEF Cancel, ClientOK, Refs
<1>3. ASSUME NEW c \in Clients, CancelToken(c)
      PROVE  ClientOK'
  BY <1>3 DEF CancelToken, ClientOK, Refs, ClientTo
<1>4. ASSUME NEW c \in Clients, CancelCopies(c)
      PROVE  ClientOK'
  BY <1>4 DEF CancelCopies, ClientOK, Refs, ClientTo
<1>5. ASSUME NEW c \in Clients, CancelWrites(c)
      PROVE  ClientOK'
  BY <1>5 DEF CancelWrites, ClientOK, Refs, IdleClient
<1>6. ASSUME NEW c \in Clients, CancelEnds(c)
      PROVE  ClientOK'
  BY <1>6 DEF CancelEnds, ClientOK, Refs, IdleClient
<1>7. CASE Restart
  BY <1>7 DEF Restart, ClientOK, IdleClient
<1> QED
  BY <1>1, <1>2, <1>3, <1>4, <1>5, <1>6, <1>7
     DEF Next, Worker, Stager, Client, Receive, StartJob, RunJob, LoadSource, NextFrame,
         RenderFrame, RecordOutcome, FinishAfterBlender, EncodeVideo, CompleteJob,
         MarkCancelled, FailJob, WorkerCopies, WorkerWrites, WorkerFindsNoJob, Release,
         Submit, Register, SnapshotFails, CopyRecordAndIndex, WriteAdmittedRecord,
         WriteIndex, Reject, CommitSource, MarkWaiting, Push, StagingFails,
         StagerCopies, StagerWrites, StagerReleases

\* LockOK is kept: the lock changes hands only through its owner.
LEMMA LockStep ==
  ASSUME TypeOK, Refs, Next
  PROVE  LockOK'
<1> USE JobsAssumption, NoneAssumption, ProcAssumption
<1>1. CASE Receive
  BY <1>1 DEF Receive, LockOK, Refs, At, WorkerSaving
<1>2. CASE StartJob
  BY <1>2 DEF StartJob, LockOK, Refs, At, WorkerSaving
<1>3. CASE RunJob
  BY <1>3 DEF RunJob, LockOK, Refs, memory, At, WorkerSaving
<1>4. CASE LoadSource
  BY <1>4 DEF LoadSource, LockOK, Refs, memory, At, WorkerSaving
<1>5. CASE NextFrame
  BY <1>5 DEF NextFrame, LockOK, Refs, memory, At, WorkerSaving
<1>6. CASE RenderFrame
  BY <1>6 DEF RenderFrame, LockOK, Refs, At, WorkerSaving
<1>7. CASE RecordOutcome
  BY <1>7 DEF RecordOutcome, LockOK, Refs, GoTo, WorkerSaving
<1>8. CASE FinishAfterBlender
  BY <1>8 DEF FinishAfterBlender, LockOK, Refs, memory, At, WorkerSaving
<1>9. CASE EncodeVideo
  BY <1>9 DEF EncodeVideo, LockOK, Refs, memory, At, WorkerSaving
<1>10. CASE CompleteJob
  BY <1>10 DEF CompleteJob, LockOK, Refs, GoTo, WorkerSaving
<1>11. CASE MarkCancelled
  BY <1>11 DEF MarkCancelled, LockOK, Refs, GoTo, WorkerSaving
<1>12. CASE FailJob
  BY <1>12 DEF FailJob, LockOK, Refs, At, WorkerSaving
<1>13. CASE WorkerCopies
  BY <1>13 DEF WorkerCopies, LockOK, Refs, Copy
<1>14. CASE WorkerWrites
  BY <1>14 DEF WorkerWrites, LockOK, Refs, Write
<1>15. CASE WorkerFindsNoJob
  BY <1>15 DEF WorkerFindsNoJob, LockOK, Refs, memory
<1>16. CASE Release
  BY <1>16 DEF Release, LockOK, Refs, At, WorkerSaving
<1>17. CASE Submit
  BY <1>17 DEF Submit, LockOK, Refs, memory, Staging, StagerSaving
<1>18. CASE Register
  BY <1>18 DEF Register, LockOK, Refs, Staging, StagerTo, StagerSaving
<1>19. CASE SnapshotFails
  BY <1>19 DEF SnapshotFails, LockOK, Refs, memory, Staging, IdleStager, StagerSaving
<1>20. CASE CopyRecordAndIndex
  BY <1>20 DEF CopyRecordAndIndex, LockOK, Refs, StagerTo, Copy
<1>21. CASE WriteAdmittedRecord
  BY <1>21 DEF WriteAdmittedRecord, LockOK, TypeOK, ProcessType, Refs, Staging, StagerTo
<1>22. CASE WriteIndex
  BY <1>22 DEF WriteIndex, LockOK, Refs, Staging, StagerTo
<1>23. CASE Reject
  BY <1>23 DEF Reject, LockOK, Refs, Staging, IdleStager, StagerSaving
<1>24. CASE CommitSource
  BY <1>24 DEF CommitSource, LockOK, Refs, memory, Staging, StagerTo, StagerSaving
<1>25. CASE MarkWaiting
  BY <1>25
     DEF MarkWaiting, LockOK, TypeOK, ProcessType, Refs, memory, Staging, StagerTo,
         IdleStager, Answer, StagerSaving
<1>26. CASE Push
  BY <1>26
     DEF Push, LockOK, TypeOK, ProcessType, Refs, Staging, StagerTo, IdleStager, Answer,
         StagerSaving
<1>27. CASE StagingFails
  BY <1>27 DEF StagingFails, LockOK, Refs, Staging, StagerTo, StagerSaving
<1>28. CASE StagerCopies
  BY <1>28 DEF StagerCopies, LockOK, Refs, Copy
<1>29. CASE StagerWrites
  BY <1>29 DEF StagerWrites, LockOK, Refs, StagerTo, Write
<1>30. CASE StagerReleases
  BY <1>30 DEF StagerReleases, LockOK, Refs, Staging, IdleStager, Answer, StagerSaving
<1>31. ASSUME NEW c \in Clients, NEW j \in Jobs, Cancel(c, j)
      PROVE  LockOK'
  BY <1>31 DEF Cancel, LockOK, Refs
<1>32. ASSUME NEW c \in Clients, CancelToken(c)
      PROVE  LockOK'
  BY <1>32 DEF CancelToken, LockOK, Refs, ClientTo
<1>33. ASSUME NEW c \in Clients, CancelCopies(c)
      PROVE  LockOK'
  BY <1>33 DEF CancelCopies, LockOK, TypeOK, ProcessType, Refs, ClientTo, Copy
<1>34. ASSUME NEW c \in Clients, CancelWrites(c)
      PROVE  LockOK'
  BY <1>34 DEF CancelWrites, LockOK, TypeOK, ProcessType, Refs, IdleClient, Write
<1>35. ASSUME NEW c \in Clients, CancelEnds(c)
      PROVE  LockOK'
  BY <1>35 DEF CancelEnds, LockOK, Refs, memory, IdleClient
<1>36. CASE Restart
  BY <1>36 DEF Restart, LockOK, IdleStager, IdleClient
<1> QED
  BY <1>1, <1>2, <1>3, <1>4, <1>5, <1>6, <1>7, <1>8, <1>9, <1>10, <1>11, <1>12, <1>13,
     <1>14, <1>15, <1>16, <1>17, <1>18, <1>19, <1>20, <1>21, <1>22, <1>23, <1>24, <1>25,
     <1>26, <1>27, <1>28, <1>29, <1>30, <1>31, <1>32, <1>33, <1>34, <1>35, <1>36
     DEF Next, Worker, Stager, Client, Copy, Write, Answer, disk, history, memory

\* NoStaleWrite is kept.
LEMMA StaleStep ==
  ASSUME TypeOK, Refs, NoStaleWrite, Next
  PROVE  NoStaleWrite'
<1> USE JobsAssumption, NoneAssumption, ProcAssumption
<1>1. CASE Receive
  <2>1. UNCHANGED <<mem, record, image>> /\ \A i \in Jobs : Writing(i)' => Writing(i)
    BY <1>1 DEF Receive, At, disk, Writing, Refs, LockOK, WorkerSaving
  <2> QED BY <2>1, UpdateKeeps
<1>2. CASE StartJob
  <2>1. UNCHANGED mem \/ Updates(worker.job)
    BY <1>2, StartEffect
  <2>2. UNCHANGED <<record, image>> /\ \A i \in Jobs : Writing(i)' => Writing(i)
    BY <1>2 DEF StartJob, At, disk, Writing, Refs, LockOK, WorkerSaving
  <2> QED BY <2>1, <2>2, UpdateKeeps
<1>3. CASE RunJob
  BY <1>3 DEF RunJob, NoStaleWrite, Writing, TypeOK, ProcessType, memory, disk, GoTo
<1>4. CASE LoadSource
  BY <1>4
     DEF LoadSource, NoStaleWrite, Writing, Follows, TypeOK, MemoryType, ProcessType,
         DiskType, Refs, WorkerOK, StagerOK, ClientOK, LockOK, memory, disk, history,
         At, GoTo, Return, Token, Record, JobState, Terminal
<1>5. CASE NextFrame
  <2>1. worker'.job = worker.job
    BY <1>5 DEF NextFrame, GoTo, Return, TypeOK, ProcessType
  <2>2. UNCHANGED <<mem, record, image>> /\ \A i \in Jobs : Writing(i)' => Writing(i)
    BY <1>5, <2>1 DEF NextFrame, memory, disk, Writing
  <2> QED BY <2>2, UpdateKeeps
<1>6. CASE RenderFrame
  <2>1. UNCHANGED mem \/ Updates(worker.job)
    BY <1>6, RenderEffect
  <2>2. UNCHANGED <<record, image>> /\ \A i \in Jobs : Writing(i)' => Writing(i)
    BY <1>6 DEF RenderFrame, At, disk, Writing, Refs, LockOK, WorkerSaving
  <2> QED BY <2>1, <2>2, UpdateKeeps
<1>7. CASE RecordOutcome
  <2>1. UNCHANGED mem \/ Updates(worker.job)
    BY <1>7, OutcomeEffect
  <2>2. UNCHANGED <<record, image>> /\ \A i \in Jobs : Writing(i)' => Writing(i)
    BY <1>7 DEF RecordOutcome, GoTo, disk, Writing
  <2> QED BY <2>1, <2>2, UpdateKeeps
<1>8. CASE FinishAfterBlender
  BY <1>8 DEF FinishAfterBlender, NoStaleWrite, Writing, memory, disk, GoTo
<1>9. CASE EncodeVideo
  BY <1>9
     DEF EncodeVideo, NoStaleWrite, Writing, TypeOK, ProcessType, memory, disk, GoTo
<1>10. CASE CompleteJob
  <2>1. UNCHANGED mem \/ Updates(worker.job)
    BY <1>10, CompleteEffect
  <2>2. UNCHANGED <<record, image>> /\ \A i \in Jobs : Writing(i)' => Writing(i)
    BY <1>10 DEF CompleteJob, GoTo, disk, Writing
  <2> QED BY <2>1, <2>2, UpdateKeeps
<1>11. CASE MarkCancelled
  <2>1. UNCHANGED mem \/ Updates(worker.job)
    BY <1>11, MarkEffect
  <2>2. UNCHANGED <<record, image>> /\ \A i \in Jobs : Writing(i)' => Writing(i)
    BY <1>11 DEF MarkCancelled, GoTo, disk, Writing
  <2> QED BY <2>1, <2>2, UpdateKeeps
<1>12. CASE FailJob
  <2>1. UNCHANGED mem \/ Updates(worker.job)
    BY <1>12, FailEffect DEF FailJob, At, Refs, WorkerOK
  <2>2. UNCHANGED <<record, image>> /\ \A i \in Jobs : Writing(i)' => Writing(i)
    BY <1>12 DEF FailJob, GoTo, disk, Writing
  <2> QED BY <2>1, <2>2, UpdateKeeps
<1>13. CASE WorkerCopies
  BY <1>13
     DEF WorkerCopies, NoStaleWrite, Writing, Follows, TypeOK, MemoryType, disk, Copy,
         Record
<1>14. CASE WorkerWrites
  BY <1>14 DEF WorkerWrites, NoStaleWrite, Writing, Write
<1>15. CASE WorkerFindsNoJob
  BY <1>15 DEF WorkerFindsNoJob, NoStaleWrite, Writing, memory, disk
<1>16. CASE Release
  BY <1>16 DEF Release, NoStaleWrite, Writing, disk, IdleWorker
<1>17. CASE Submit
  BY <1>17 DEF Submit, NoStaleWrite, Writing, memory, disk, Fresh
<1>18. CASE Register
  <2>1. UNCHANGED <<record, image>> /\ \A i \in Jobs : Writing(i)' => Writing(i)
    BY <1>18 DEF Register, Staging, StagerTo, disk, Writing
  <2>2. record[stager.job] = None /\ ~Writing(stager.job)
    BY <1>18 DEF Register, Staging, Writing, Refs, StagerOK, LockOK, StagerSaving
  <2>3. \A j \in Jobs : j # stager.job => mem'[j] = mem[j] \/ mem'[j] = None
    BY <1>18, RegisterEffect
  <2> QED BY <2>1, <2>2, <2>3 DEF NoStaleWrite
<1>19. CASE SnapshotFails
  BY <1>19 DEF SnapshotFails, NoStaleWrite, Writing, memory, disk, IdleStager
<1>20. CASE CopyRecordAndIndex
  BY <1>20
     DEF CopyRecordAndIndex, NoStaleWrite, Writing, Follows, TypeOK, MemoryType, disk,
         StagerTo, Copy, Record
<1>21. CASE WriteAdmittedRecord
  BY <1>21
     DEF WriteAdmittedRecord, NoStaleWrite, Writing, TypeOK, ProcessType, Refs, LockOK,
         Staging, StagerTo
<1>22. CASE WriteIndex
  BY <1>22 DEF WriteIndex, NoStaleWrite, Writing
<1>23. CASE Reject
  BY <1>23 DEF Reject, NoStaleWrite, Writing, disk, IdleStager
<1>24. CASE CommitSource
  BY <1>24 DEF CommitSource, NoStaleWrite, Writing, memory, Staging, StagerTo
<1>25. CASE MarkWaiting
  BY <1>25
     DEF MarkWaiting, NoStaleWrite, Writing, TypeOK, ProcessType, memory, disk, Staging,
         StagerTo, IdleStager, Answer
<1>26. CASE Push
  BY <1>26
     DEF Push, NoStaleWrite, Writing, TypeOK, ProcessType, disk, Staging, StagerTo,
         IdleStager, Answer
<1>27. CASE StagingFails
  <2>1. UNCHANGED mem \/ Updates(stager.job)
    BY <1>27, FailEffect DEF StagingFails, Staging, Refs, StagerOK
  <2>2. UNCHANGED <<record, image>> /\ \A i \in Jobs : Writing(i)' => Writing(i)
    BY <1>27 DEF StagingFails, Staging, StagerTo, disk, Writing
  <2> QED BY <2>1, <2>2, UpdateKeeps
<1>28. CASE StagerCopies
  BY <1>28
     DEF StagerCopies, NoStaleWrite, Writing, Follows, TypeOK, MemoryType, disk, Copy,
         Record
<1>29. CASE StagerWrites
  BY <1>29 DEF StagerWrites, NoStaleWrite, Writing, Write, StagerSaving
<1>30. CASE StagerReleases
  BY <1>30 DEF StagerReleases, NoStaleWrite, Writing, disk, IdleStager, Answer
<1>31. ASSUME NEW c \in Clients, NEW j \in Jobs, Cancel(c, j)
      PROVE  NoStaleWrite'
  <2>1. UNCHANGED mem \/ Updates(j)
    BY <1>31, CancelEffect
  <2>2. UNCHANGED <<record, image>> /\ \A i \in Jobs : Writing(i)' => Writing(i)
    BY <1>31 DEF Cancel, disk, Writing, Refs, LockOK
  <2> QED BY <2>1, <2>2, UpdateKeeps
<1>32. ASSUME NEW c \in Clients, CancelToken(c)
      PROVE  NoStaleWrite'
  BY <1>32 DEF CancelToken, NoStaleWrite, Writing, disk, ClientTo
<1>33. ASSUME NEW c \in Clients, CancelCopies(c)
      PROVE  NoStaleWrite'
  BY <1>33
     DEF CancelCopies, NoStaleWrite, Writing, Follows, TypeOK, MemoryType, disk,
         ClientTo, Copy, Record
<1>34. ASSUME NEW c \in Clients, CancelWrites(c)
      PROVE  NoStaleWrite'
  BY <1>34 DEF CancelWrites, NoStaleWrite, Writing, Write
<1>35. ASSUME NEW c \in Clients, CancelEnds(c)
      PROVE  NoStaleWrite'
  BY <1>35 DEF CancelEnds, NoStaleWrite, Writing, memory, disk, IdleClient
<1>36. CASE Restart
  <2>1. \A j \in Jobs : mem'[j] # None => Follows(record'[j], mem'[j])
    BY <1>36, RestartEffect
  <2>2. \A j \in Jobs : ~Writing(j)'
    BY <1>36, ProcAssumption DEF Restart, Writing
  <2> QED BY <2>1, <2>2 DEF NoStaleWrite
<1> QED
  BY <1>1, <1>2, <1>3, <1>4, <1>5, <1>6, <1>7, <1>8, <1>9, <1>10, <1>11, <1>12, <1>13,
     <1>14, <1>15, <1>16, <1>17, <1>18, <1>19, <1>20, <1>21, <1>22, <1>23, <1>24, <1>25,
     <1>26, <1>27, <1>28, <1>29, <1>30, <1>31, <1>32, <1>33, <1>34, <1>35, <1>36
     DEF Next, Worker, Stager, Client, Copy, Write, Answer, disk, history, memory

-----------------------------------------------------------------------------
(* The theorems.                                                           *)

\* An empty registry satisfies the invariant.
LEMMA InvariantInit ==
  ASSUME Init
  PROVE  IInv
<1> USE JobsAssumption, ProcAssumption, DepthAssumption
<1>1. TypeOK
  <2>1. <<>> \in Seq(Jobs) /\ Len(<<>>) = 0
    BY EmptySeq
  <2>2. MemoryType
    <3>1. 0 <= QueueDepth
      OBVIOUS
    <3>2. mem \in [Jobs -> Record \cup {None}] /\ token \in [Jobs -> Token]
      BY DEF Init, Token
    <3>3. order \in Seq(Jobs) /\ queue \in Seq(Jobs) /\ Len(queue) <= QueueDepth
      BY <2>1, <3>1 DEF Init
    <3> QED BY <3>2, <3>3 DEF Init, MemoryType
  <2>3. ProcessType
    BY
       DEF Init, ProcessType, IdleWorker, IdleStager, IdleClient, WorkerPc, StagerPc,
           ClientPc, Outcome
  <2> QED BY <2>1, <2>2, <2>3 DEF Init, TypeOK, DiskType, HistoryType
<1>2. Refs
  BY
     DEF Init, Refs, WorkerOK, QueueOK, StagerOK, ClientOK, LockOK, IdleWorker,
         IdleStager, IdleClient, WorkerRunning
<1>3. NoStaleWrite
  BY DEF Init, NoStaleWrite
<1> QED BY <1>1, <1>2, <1>3 DEF IInv

\* Every step of the worker, the stager, a client or a restart keeps it.
LEMMA InvariantStep ==
  ASSUME IInv, [Next]_vars
  PROVE  IInv'
<1>1. CASE Next
  <2>1. TypeOK'
    BY <1>1, MemoryTypeStep, ProcessTypeStep, DiskTypeStep, HistoryTypeStep
       DEF IInv, TypeOK
  <2>2. Refs'
    BY <1>1, WorkerStep, QueueStep, StagerStep, ClientStep, LockStep DEF IInv, Refs
  <2>3. NoStaleWrite'
    BY <1>1, StaleStep DEF IInv
  <2> QED BY <2>1, <2>2, <2>3 DEF IInv
<1>2. CASE UNCHANGED vars
  <2>1. TypeOK'
    BY <1>2
       DEF IInv, vars, memory, disk, history, TypeOK, MemoryType, ProcessType, DiskType,
           HistoryType
  <2>2. Refs'
    BY <1>2
       DEF IInv, vars, memory, disk, Refs, WorkerOK, QueueOK, StagerOK, ClientOK, LockOK
  <2>3. NoStaleWrite'
    BY <1>2 DEF IInv, vars, memory, disk, NoStaleWrite, Writing
  <2> QED BY <2>1, <2>2, <2>3 DEF IInv
<1> QED BY <1>1, <1>2

\* The inductive invariant holds: it is what the other theorems follow from.
THEOREM Invariance == Spec => []IInv
<1>1. Init => IInv
  BY InvariantInit
<1>2. IInv /\ [Next]_vars => IInv'
  BY InvariantStep
<1> QED BY <1>1, <1>2, PTL DEF Spec

\* Every variable of the registry ranges over what the code can hold, and the
\* physical queue never holds more than its capacity, whatever the number of
\* jobs, clients, failed writes and restarts.
THEOREM TypeCorrect == Spec => []TypeOK
<1>1. IInv => TypeOK
  BY DEF IInv
<1> QED BY <1>1, Invariance, PTL

\* No write of a record can put an older record over a newer one: whoever
\* writes, and whenever the server stops, what is on disk may be followed by
\* the copy that is being written, and that by the memory.
THEOREM NoStaleWrites == Spec => []NoStaleWrite
<1>1. IInv => NoStaleWrite
  BY DEF IInv
<1> QED BY <1>1, Invariance, PTL

=============================================================================
