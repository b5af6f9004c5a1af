------------------------- MODULE SessionRecoveryProofs -------------------------
(***************************************************************************)
(* Proofs about SessionRecovery, for every finite queue of jobs, set of      *)
(* clients, length of a job, and number of restarts and failed writes.       *)
(*                                                                         *)
(* The record of a job is in three places: in memory, in the copy that a     *)
(* writer has taken of it, and on the disk.  IInv says that the copy is a    *)
(* version that the memory has gone on from (Follows), and so is the disk,   *)
(* or the worker's marker "restored" is there before the memory has it       *)
(* (Ahead).  All that is promised of a restart follows from the record then. *)
(*                                                                         *)
(* That the scene is the users' own needs more: the disk must not lose the   *)
(* marker again.  A client can make it do so, which is a finding; CopiesInTime *)
(* says that no client does, and SInv is what holds then.                   *)
(***************************************************************************)
EXTENDS SessionRecovery, FiniteSetTheorems, WellFoundedInduction, TLAPS

-----------------------------------------------------------------------------
(* What is kept of a sequence.                                              *)

\* Every set of numbers has a least element.
LEMMA Smallest ==
  ASSUME NEW S \in SUBSET Nat, S # {}
  PROVE  \E n \in S : \A m \in S : n <= m
<1> DEFINE R == OpToRel(<, Nat)
<1>1. IsWellFoundedOn(R, Nat)
  BY NatLessThanWellFounded
<1>2. \A m, n \in Nat : <<m, n>> \in R <=> m < n
  BY DEF OpToRel
<1> HIDE DEF R
<1>3. PICK n \in S : \A m \in S : ~(<<m, n>> \in R)
  BY <1>1, WFMin
<1>4. ASSUME NEW m \in S
      PROVE  n <= m
  <2>1. m \in Nat /\ n \in Nat /\ ~(m < n)
    BY <1>2, <1>3
  <2> QED BY <2>1
<1> QED BY <1>4

\* So a set of numbers that has 0, and n whenever it has n - 1, has them all.
LEMMA Upwards ==
  ASSUME NEW N \in Nat, NEW G, 0 \in G, \A n \in 1 .. N : n - 1 \in G => n \in G
  PROVE  0 .. N \subseteq G
<1> DEFINE B == (0 .. N) \ G
<1> SUFFICES ASSUME B # {}
             PROVE  FALSE
  OBVIOUS
<1>1. PICK m \in B : \A n \in B : m <= n
  <2>1. B \in SUBSET Nat
    OBVIOUS
  <2> HIDE DEF B
  <2> QED BY <2>1, Smallest
<1>2. m \in 1 .. N /\ m - 1 \in 0 .. N /\ ~(m <= m - 1)
  BY <1>1
<1> QED BY <1>1, <1>2

\* The step of the recursion in Only.
Pick(s, S, g, i) ==
  IF i = 0 THEN <<>> ELSE IF s[i] \in S THEN Append(g[i - 1], s[i]) ELSE g[i - 1]

\* The recursion has a solution, and Only is its last value.
LEMMA OnlySolves ==
  ASSUME NEW s, NEW S, Len(s) \in Nat
  PROVE  \E g : Only(s, S) = g[Len(s)] /\ g = [i \in 0 .. Len(s) |-> Pick(s, S, g, i)]
<1> DEFINE N == Len(s)
           Solves(g, n) == \A i \in 0 .. n : g[i] = Pick(s, S, g, i)
           G == {n \in 0 .. N : \E g : Solves(g, n)}
<1>1. 0 \in G
  <2>1. Solves([i \in {0} |-> <<>>], 0)
    BY DEF Pick
  <2> QED BY <2>1
<1>2. ASSUME NEW n \in 1 .. N, n - 1 \in G
      PROVE  n \in G
  <2>1. PICK g : Solves(g, n - 1)
    BY <1>2
  <2> DEFINE h == [i \in 0 .. n |-> Pick(s, S, g, i)]
  <2>2. ASSUME NEW i \in 0 .. n
        PROVE  h[i] = Pick(s, S, h, i)
    <3>1. CASE i = 0
      BY <3>1 DEF Pick
    <3>2. CASE i # 0
      <4>1. i - 1 \in 0 .. n - 1 /\ i - 1 \in 0 .. n
        BY <3>2
      <4>2. h[i - 1] = g[i - 1]
        BY <2>1, <4>1
      <4>3. Pick(s, S, h, i) = Pick(s, S, g, i)
        BY <3>2, <4>2 DEF Pick
      <4> QED BY <4>3
    <3> QED BY <3>1, <3>2
  <2>3. Solves(h, n)
    BY <2>2
  <2>4. \E k : Solves(k, n)
    <3> HIDE DEF h
    <3> QED BY <2>3
  <2> QED BY <2>4
<1>3. N \in G
  <2>1. 0 .. N \subseteq G
    <3> HIDE DEF G, N
    <3>1. N \in Nat
      BY DEF N
    <3> QED BY <1>1, <1>2, <3>1, Upwards
  <2> QED BY <2>1
<1>4. PICK g : Solves(g, N)
  BY <1>3
<1> DEFINE h  == [i \in 0 .. N |-> g[i]]
           it == CHOOSE k : k = [i \in 0 .. N |-> Pick(s, S, k, i)]
<1>5. ASSUME NEW i \in 0 .. N
      PROVE  h[i] = Pick(s, S, h, i)
  <2>1. g[i] = Pick(s, S, g, i)
    BY <1>4
  <2>2. i # 0 => i - 1 \in 0 .. N
    OBVIOUS
  <2> QED BY <2>1, <2>2 DEF Pick
<1>6. h = [i \in 0 .. N |-> Pick(s, S, h, i)]
  BY <1>5
<1>7. it = [i \in 0 .. N |-> Pick(s, S, it, i)]
  BY <1>6
<1>8. Only(s, S) = it[N]
  BY DEF Only, Pick
<1> QED BY <1>7, <1>8

\* Only keeps what is in S of a sequence, and nothing else.
LEMMA OnlyKeeps ==
  ASSUME NEW U, NEW s \in Seq(U), NEW S
  PROVE  /\ Only(s, S) \in Seq(U)
         /\ \A i \in DOMAIN Only(s, S) : Only(s, S)[i] \in S
         /\ \A k \in DOMAIN s : s[k] \in S => \E i \in DOMAIN Only(s, S) : Only(s, S)[i] = s[k]
<1>1. Len(s) \in Nat /\ DOMAIN s = 1 .. Len(s) /\ \A k \in 1 .. Len(s) : s[k] \in U
  OBVIOUS
<1>2. PICK g : Only(s, S) = g[Len(s)] /\ g = [i \in 0 .. Len(s) |-> Pick(s, S, g, i)]
  BY <1>1, OnlySolves
<1> DEFINE Fine(n) == /\ g[n] \in Seq(U)
                      /\ \A i \in DOMAIN g[n] : g[n][i] \in S
                      /\ \A k \in 1 .. n : s[k] \in S => \E i \in DOMAIN g[n] : g[n][i] = s[k]
           G == {n \in 0 .. Len(s) : Fine(n)}
<1>3. 0 \in G
  <2>1. g[0] = <<>>
    BY <1>1, <1>2 DEF Pick
  <2>2. Fine(0)
    BY <2>1
  <2> QED BY <1>1, <2>2
<1>4. ASSUME NEW n \in 1 .. Len(s), n - 1 \in G
      PROVE  n \in G
  <2>1. g[n] = IF s[n] \in S THEN Append(g[n - 1], s[n]) ELSE g[n - 1]
    <3>1. n \in 0 .. Len(s) /\ n # 0
      BY <1>1
    <3>2. g[n] = Pick(s, S, g, n)
      BY <1>2, <3>1
    <3> QED BY <3>1, <3>2 DEF Pick
  <2>2. Fine(n - 1) /\ s[n] \in U
    BY <1>1, <1>4
  <2>3. \A k \in 1 .. n : k = n \/ k \in 1 .. (n - 1)
    OBVIOUS
  <2>4. CASE s[n] \in S
    <3> DEFINE q == g[n - 1]
    <3>1. g[n] = Append(q, s[n]) /\ q \in Seq(U)
      BY <2>1, <2>2, <2>4
    <3>2. /\ Append(q, s[n]) \in Seq(U) /\ Len(Append(q, s[n])) = Len(q) + 1
          /\ \A i \in 1 .. Len(q) : Append(q, s[n])[i] = q[i]
          /\ Append(q, s[n])[Len(q) + 1] = s[n]
      BY <2>2, <3>1
    <3>3. \A i \in DOMAIN g[n] : g[n][i] \in S
      <4>1. DOMAIN g[n] = 1 .. (Len(q) + 1) /\ DOMAIN q = 1 .. Len(q) /\ Len(q) \in Nat
        BY <3>1, <3>2
      <4> QED BY <2>2, <2>4, <3>1, <3>2, <4>1
    <3>4. ASSUME NEW k \in 1 .. n, s[k] \in S
          PROVE  \E i \in DOMAIN g[n] : g[n][i] = s[k]
      <4>1. DOMAIN g[n] = 1 .. (Len(q) + 1) /\ DOMAIN q = 1 .. Len(q) /\ Len(q) \in Nat
        BY <3>1, <3>2
      <4>2. CASE k = n
        <5>1. Len(q) + 1 \in DOMAIN g[n]
          BY <4>1
        <5> QED BY <3>1, <3>2, <4>2, <5>1
      <4>3. CASE k \in 1 .. (n - 1)
        <5>1. PICK i \in DOMAIN q : q[i] = s[k]
          BY <2>2, <3>4, <4>3
        <5>2. i \in DOMAIN g[n] /\ i \in 1 .. Len(q)
          BY <4>1
        <5> QED BY <3>1, <3>2, <5>1, <5>2
      <4> QED BY <2>3, <4>2, <4>3
    <3>5. Fine(n)
      BY <3>1, <3>2, <3>3, <3>4
    <3> QED BY <3>5
  <2>5. CASE s[n] \notin S
    <3>1. g[n] = g[n - 1]
      BY <2>1, <2>5
    <3>2. Fine(n)
      BY <2>2, <2>3, <2>5, <3>1
    <3> QED BY <3>2
  <2> QED BY <2>4, <2>5
<1>5. Fine(Len(s))
  <2>1. 0 .. Len(s) \subseteq G
    <3> HIDE DEF G
    <3> QED BY <1>1, <1>3, <1>4, Upwards
  <2> QED BY <1>1, <2>1
<1> QED BY <1>1, <1>2, <1>5

-----------------------------------------------------------------------------
(* The invariant.                                                           *)

\* Where the worker's job runs: at which of these places its session is
\* captured, its work has no outcome, it has one, and the session is back.
Runs     == WorkerPc \ {"idle", "popped", "settle", "release"}
Open     == {"captured", "load_phase", "load", "frames", "frame_phase", "render",
             "progress", "broken"}
Ending   == {"pending", "pending_again", "lane_again", "restore", "marker", "restored"}
Captured == Open \cup Ending \cup {"work", "note"}
Over     == {"finish", "encode_phase", "encode", "complete", "cancel"}
InLane   == Open \cup {"capture_phase", "capture", "work", "pending", "restore", "error"}

\* What validate_recovered_job asks of a record.
Sound(j, r) ==
  /\ r.restored => r.captured
  /\ r.pending # "none" => r.captured /\ ~r.restored
  /\ r.pending = "completed" => r.done = Total(j)
  /\ r.pending = "cancelled" => r.cancel
  /\ r.done <= Total(j)
  /\ r.restored /\ ~r.cancel /\ ~r.failed => r.done = Total(j)

\* b may be a later version of a: an outcome stays until it has taken effect.
Follows(a, b) ==
  /\ a.captured => b.captured
  /\ a.restored => b.restored
  /\ a.pending # "none" =>
       b.pending = a.pending \/ (b.restored /\ (a.pending = "failed" => b.failed))
  /\ a.restored /\ a.failed => b.failed

\* The record says that the session is restored, before the memory does.
Ahead(r) == /\ r.captured /\ r.restored /\ r.pending = "none"
            /\ r.failed = (worker.outcome = "failed")

\* The job of the copy that is being written.
Subject == IF lock = "worker" THEN job ELSE client[lock].job

\* The record r of a job in memory, and of the job of the worker w.
Kept(j, r) == /\ r # None /\ Sound(j, r)
              /\ MustRestore(r) => r.state \notin Terminal

Fits(w, r) ==
  /\ w.pc \in Runs => r.state = "running"
  /\ w.pc \in {"settle", "release"} => r.state \in Terminal
  /\ w.pc \in {"capture_phase", "capture"} => ~r.captured
  /\ w.pc \in Captured => MustRestore(r)
  /\ w.pc \in Open => r.pending = "none"
  /\ w.pc \in {"frame_phase", "render"} => r.done # Total(w.job)
  /\ w.pc \in Ending => w.outcome # "none" /\ r.pending = w.outcome
  /\ w.pc \in Over => r.restored
  /\ w.pc = "fail" => ~MustRestore(r)

MemoryOK == \A j \in Jobs : Kept(j, mem[j])

WorkerOK ==
  /\ worker.pc = "idle" <=> job = None
  /\ worker.pc # "idle" => Fits(worker, mem[job])
  /\ \A j \in Jobs : mem[j].state = "running" => job = j /\ worker.pc \in Runs

\* The fence is up, or the worker has just captured the session and will raise it.
ScheduleOK ==
  /\ ~blocked
  /\ worker.pc \in InLane => lane = "worker"
  /\ \A j \in Jobs : MustRestore(mem[j]) =>
       /\ job = j \/ \E i \in DOMAIN queue : queue[i] = j
       /\ fence \/ (job = j /\ worker.pc = "captured")

TokenOK ==
  /\ \A j \in Jobs : token[j] = "cancelled" => mem[j].cancel \/ mem[j].state \in Terminal
  /\ \A c \in Clients : client[c].pc = "token" =>
       mem[client[c].job].cancel \/ mem[client[c].job].state \in Terminal

LockOK ==
  /\ lock = "worker" => worker.pc \in WorkerSaving \cup {"marker"}
  /\ \A c \in Clients : /\ client[c].pc # "idle" => client[c].job \in Jobs
                        /\ client[c].pc = "saving" <=> lock = c

\* A copy and a record are versions that the memory has gone on from, or the
\* marker that it has not yet come to.
ImageOK ==
  lock # "free" =>
    /\ image # None /\ Sound(Subject, image)
    /\ \/ Follows(image, mem[Subject])
       \/ lock = "worker" /\ worker.pc = "marker" /\ Ahead(image)
    /\ record[Subject].pending = "none" \/ Follows(record[Subject], image)

DiskOK ==
  \A j \in Jobs :
    /\ Sound(j, record[j])
    /\ \/ Follows(record[j], mem[j])
       \/ job = j /\ worker.pc \in {"marker", "restored"} /\ Ahead(record[j])

IInv == /\ TypeOK /\ MemoryOK /\ WorkerOK /\ ScheduleOK /\ TokenOK
        /\ LockOK /\ ImageOK /\ DiskOK

-----------------------------------------------------------------------------
(* Records and their versions.                                              *)

\* None is told apart from what it stands in the place of; the names of the
\* owners of the lock differ.
LEMMA Apart ==
  /\ None \notin Jobs /\ None \notin Record /\ None \notin Nat
  /\ "worker" \notin Clients /\ "user" \notin Clients /\ "free" \notin Clients
  /\ Frames \in Nat /\ Frames # 0 /\ QueueDepth \in Nat
BY OrderAssumption, OwnerAssumption, NoneAssumption, SizeAssumption

LEMMA TotalType == \A j \in Jobs : Total(j) \in Nat /\ Total(j) # 0
BY Apart DEF Total

LEMMA FollowsItself == \A a \in Record : Follows(a, a)
BY DEF Follows

LEMMA FollowsOn ==
  ASSUME NEW a \in Record, NEW b \in Record, NEW c \in Record, Follows(a, b), Follows(b, c)
  PROVE  Follows(a, c)
BY DEF Follows

\* A record with other fields is a record.
LEMMA RecordFields ==
  ASSUME NEW r \in Record
  PROVE  /\ r.state \in JobState /\ r.captured \in BOOLEAN /\ r.restored \in BOOLEAN
         /\ r.pending \in Outcome /\ r.done \in Nat /\ r.cancel \in BOOLEAN
         /\ r.failed \in BOOLEAN
         /\ r # None
BY Apart DEF Record

\* mem' is mem with r for the job j.
Puts(j, r) == /\ mem' \in [Jobs -> Record \cup {None}] /\ mem'[j] = r
              /\ \A i \in Jobs : i # j => mem'[i] = mem[i]

\* What a step of the worker at its job, other than the first and last, does to
\* the memory.
Advances(r) ==
  /\ Puts(job, r) /\ Kept(job, r) /\ Follows(mem[job], r)
  /\ Fits(worker', r)
  /\ r \in Record
  /\ r.state = "running" => worker'.pc \in Runs
  /\ mem[job].cancel => r.cancel
  /\ mem[job].state \in Terminal => r.state \in Terminal

-----------------------------------------------------------------------------
(* The worker and its job.                                                  *)

LEMMA WorkerFields ==
  ASSUME NEW w \in [pc : WorkerPc, job : Jobs \cup {None}, outcome : Outcome], NEW p, NEW o
  PROVE  /\ [w EXCEPT !.pc = p] = [pc |-> p, job |-> w.job, outcome |-> w.outcome]
         /\ [w EXCEPT !.pc = p, !.outcome = o] = [pc |-> p, job |-> w.job, outcome |-> o]
<1>1. [w EXCEPT !.pc = p] = [pc |-> p, job |-> w.job, outcome |-> w.outcome]
  OBVIOUS
<1>2. [w EXCEPT !.pc = p, !.outcome = o] = [[w EXCEPT !.pc = p] EXCEPT !.outcome = o]
  OBVIOUS
<1>3. [[pc |-> p, job |-> w.job, outcome |-> w.outcome] EXCEPT !.outcome = o]
        = [pc |-> p, job |-> w.job, outcome |-> o]
  OBVIOUS
<1> QED BY <1>1, <1>2, <1>3

\* What holds of the worker's job.
LEMMA Here ==
  ASSUME IInv, worker.pc # "idle"
  PROVE  /\ job \in Jobs /\ mem[job] \in Record /\ mem[job] # None
         /\ Kept(job, mem[job]) /\ Fits(worker, mem[job])
         /\ worker.pc \in WorkerPc /\ worker.outcome \in Outcome
         /\ worker = [pc |-> worker.pc, job |-> job, outcome |-> worker.outcome]
<1>1. worker \in [pc : WorkerPc, job : Jobs \cup {None}, outcome : Outcome]
  BY DEF IInv, TypeOK
<1>2. job \in Jobs
  BY <1>1 DEF IInv, WorkerOK, job
<1>3. mem[job] \in Record \cup {None} /\ Kept(job, mem[job]) /\ Fits(worker, mem[job])
  BY <1>2 DEF IInv, TypeOK, MemoryOK, WorkerOK
<1>4. worker = [pc |-> worker.pc, job |-> job, outcome |-> worker.outcome]
  BY <1>1 DEF job
<1> QED BY <1>1, <1>2, <1>3, <1>4 DEF Kept

\* The worker goes on to another place with its job, its memory of it as r.
Moves(pc, outcome, r) ==
  /\ worker' = [pc |-> pc, job |-> job, outcome |-> outcome]
  /\ Puts(job, r) /\ r \in Record

\* The ways on.
LEMMA GoToMoves ==
  ASSUME IInv, worker.pc # "idle", NEW p, GoTo(p), UNCHANGED mem
  PROVE  Moves(p, worker.outcome, mem[job])
BY Here DEF GoTo, Moves, Puts, IInv, TypeOK

LEMMA OutcomesMoves ==
  ASSUME IInv, worker.pc # "idle", NEW o \in Outcome, Outcomes(o)
  PROVE  Moves("pending", o, [mem[job] EXCEPT !.pending = o])
<1>1. job \in Jobs /\ mem[job] \in Record
  BY Here
<1>2. [mem[job] EXCEPT !.pending = o] \in Record
  BY <1>1 DEF Record
<1>3. worker' = [pc |-> "pending", job |-> job, outcome |-> o]
  BY WorkerFields DEF Outcomes, IInv, TypeOK, job
<1>4. Puts(job, [mem[job] EXCEPT !.pending = o])
  BY <1>1, <1>2 DEF Outcomes, Puts, IInv, TypeOK
<1> QED BY <1>2, <1>3, <1>4 DEF Moves

LEMMA RunFailsMoves ==
  ASSUME IInv, worker.pc # "idle", RunFails
  PROVE  \/ MustRestore(mem[job]) /\ Moves("note", worker.outcome, [mem[job] EXCEPT !.failed = TRUE])
         \/ ~MustRestore(mem[job]) /\ Moves("fail", worker.outcome, mem[job])
<1>1. job \in Jobs /\ mem[job] \in Record
  BY Here
<1>2. CASE MustRestore(mem[job])
  <2>1. worker' = [pc |-> "note", job |-> job, outcome |-> worker.outcome]
    BY <1>2, Here DEF RunFails, GoTo
  <2>2. [mem[job] EXCEPT !.failed = TRUE] \in Record
    BY <1>1 DEF Record
  <2>3. Puts(job, [mem[job] EXCEPT !.failed = TRUE])
    BY <1>1, <1>2, <2>2 DEF RunFails, Puts, IInv, TypeOK
  <2> QED BY <1>2, <2>1, <2>2, <2>3 DEF Moves
<1>3. CASE ~MustRestore(mem[job])
  BY <1>3, GoToMoves DEF RunFails
<1> QED BY <1>2, <1>3

\* A move that leaves the job as it should be at the next place.
LEMMA MovesAdvance ==
  ASSUME IInv, worker.pc # "idle", NEW p, NEW o, NEW r, Moves(p, o, r),
         Kept(job, r), Follows(mem[job], r),
         Fits([pc |-> p, job |-> job, outcome |-> o], r),
         r.state = "running" => p \in Runs, mem[job].cancel => r.cancel,
         mem[job].state \in Terminal => r.state \in Terminal
  PROVE  Advances(r)
BY DEF Moves, Advances

\* Steps that leave the record alone.
LEMMA StaysAdvance ==
  ASSUME IInv, worker.pc # "idle", NEW p, NEW o, Moves(p, o, mem[job]),
         Fits([pc |-> p, job |-> job, outcome |-> o], mem[job]),
         mem[job].state = "running" => p \in Runs
  PROVE  Advances(mem[job])
BY Here, FollowsItself, MovesAdvance

\* An outcome is recorded where there was none.
LEMMA OutcomesAdvance ==
  ASSUME IInv, worker.pc \in Open \cup {"work"}, mem[job].pending = "none",
         NEW o \in {"completed", "cancelled", "failed"}, Outcomes(o),
         o = "completed" => mem[job].done = Total(job),
         o = "cancelled" => mem[job].cancel
  PROVE  /\ Advances([mem[job] EXCEPT !.pending = o]) /\ worker'.pc = "pending"
         /\ worker'.job = job /\ worker'.outcome = o
<1> DEFINE m == mem[job]
           r == [mem[job] EXCEPT !.pending = o]
<1>1. worker.pc # "idle" /\ worker.pc \in Runs /\ worker.pc \in Captured
  BY DEF Open, Runs, Captured, WorkerPc, WorkerSaving
<1>2. Moves("pending", o, r)
  BY <1>1, OutcomesMoves DEF Outcome
<1>3. m \in Record /\ job \in Jobs /\ Kept(job, m) /\ Fits(worker, m)
  BY <1>1, Here
<1>4. /\ r.state = m.state /\ r.captured = m.captured /\ r.restored = m.restored
      /\ r.pending = o /\ r.done = m.done /\ r.cancel = m.cancel /\ r.failed = m.failed
  BY <1>3 DEF Record
<1>5. m.state = "running" /\ m.captured /\ ~m.restored /\ r # None
  BY <1>1, <1>2, <1>3, RecordFields DEF Fits, MustRestore, Moves
<1> HIDE DEF r
<1>6. Kept(job, r)
  BY <1>3, <1>4, <1>5 DEF Kept, Sound, MustRestore, Terminal
<1>7. Follows(m, r)
  BY <1>4 DEF Follows
<1>8. Fits([pc |-> "pending", job |-> job, outcome |-> o], r)
  BY <1>4, <1>5
  DEF Fits, Runs, WorkerPc, WorkerSaving, Captured, Open, Ending, Over, MustRestore
<1>9. "pending" \in Runs
  BY DEF Runs, WorkerPc, WorkerSaving
<1>10. Advances(r)
  BY <1>1, <1>2, <1>4, <1>6, <1>7, <1>8, <1>9, MovesAdvance
<1> QED BY <1>2, <1>10 DEF Moves, r

\* An error is noted, or the job will fail.
LEMMA RunFailsAdvances ==
  ASSUME IInv, worker.pc \in Runs, RunFails
  PROVE  /\ \E r : Advances(r) /\ (MustRestore(r) => MustRestore(mem[job]))
         /\ worker'.pc \in {"note", "fail"} /\ worker'.job = job
         /\ worker'.outcome = worker.outcome
<1> DEFINE m == mem[job]
           r == [mem[job] EXCEPT !.failed = TRUE]
<1>1. worker.pc # "idle"
  BY DEF Runs
<1>2. m \in Record /\ job \in Jobs /\ Kept(job, m) /\ Fits(worker, m) /\ m.state = "running"
  BY <1>1, Here DEF Fits
<1>3. CASE MustRestore(m)
  <2>1. Moves("note", worker.outcome, r)
    BY <1>1, <1>3, RunFailsMoves
  <2>2. /\ r.state = m.state /\ r.captured = m.captured /\ r.restored = m.restored
        /\ r.pending = m.pending /\ r.done = m.done /\ r.cancel = m.cancel /\ r.failed
    BY <1>2 DEF Record
  <2>3. m.captured /\ ~m.restored /\ r # None
    BY <1>3, <2>1, RecordFields DEF MustRestore, Moves
  <2> HIDE DEF r
  <2>4. Kept(job, r) /\ MustRestore(r)
    BY <1>2, <2>2, <2>3 DEF Kept, Sound, MustRestore
  <2>5. Follows(m, r)
    BY <2>2, <2>3 DEF Follows
  <2>6. Fits([pc |-> "note", job |-> job, outcome |-> worker.outcome], r)
    BY <1>2, <2>2, <2>4
    DEF Fits, Runs, WorkerPc, WorkerSaving, Captured, Open, Ending, Over
  <2>7. "note" \in Runs
    BY DEF Runs, WorkerPc, WorkerSaving
  <2>8. Advances(r)
    BY <1>1, <2>1, <2>2, <2>4, <2>5, <2>6, <2>7, MovesAdvance
  <2> QED BY <1>3, <2>1, <2>4, <2>8 DEF Moves
<1>4. CASE ~MustRestore(m)
  <2>1. Moves("fail", worker.outcome, m)
    BY <1>1, <1>4, RunFailsMoves
  <2>2. Fits([pc |-> "fail", job |-> job, outcome |-> worker.outcome], m)
    BY <1>2, <1>4 DEF Fits, Runs, WorkerPc, WorkerSaving, Captured, Open, Ending, Over
  <2>3. "fail" \in Runs
    BY DEF Runs, WorkerPc, WorkerSaving
  <2>4. Advances(m)
    BY <1>1, <2>1, <2>2, <2>3, StaysAdvance
  <2> QED BY <2>1, <2>4 DEF Moves
<1> QED BY <1>3, <1>4

\* A step of the worker with its job in its hands: the job is as it should be at
\* the next place, the worker has the lane where it needs it, and the fence goes
\* up or down with what the memory says, or stays.
Carries ==
  /\ worker.pc # "idle" /\ worker'.pc # "idle" /\ worker'.job = job
  /\ worker' \in [pc : WorkerPc, job : Jobs \cup {None}, outcome : Outcome]
  /\ \E r : Advances(r) /\ (MustRestore(r) => MustRestore(mem[job]) \/ worker'.pc = "captured")
  /\ lane' \in {"free", "worker", "user"}
  /\ worker'.pc \in InLane => lane' = "worker"
  /\ \/ fence' = Fenced(mem', blocked)
     \/ fence' = fence /\ (worker.pc = "captured" => worker'.pc = "captured")
  /\ UNCHANGED <<queue, token, blocked, client, edits, restarts>>

\* A move to another place, the job as it was.
LEMMA StaysCarries ==
  ASSUME IInv, worker.pc # "idle", NEW p \in WorkerPc \ {"idle"}, NEW o \in Outcome,
         Moves(p, o, mem[job]), Fits([pc |-> p, job |-> job, outcome |-> o], mem[job]),
         mem[job].state = "running" => p \in Runs,
         lane' \in {"free", "worker", "user"}, p \in InLane => lane' = "worker",
         \/ fence' = Fenced(mem', blocked)
         \/ fence' = fence /\ (worker.pc = "captured" => p = "captured"),
         UNCHANGED <<queue, token, blocked, client, edits, restarts>>
  PROVE  Carries
<1>1. Advances(mem[job]) /\ job \in Jobs
  BY Here, StaysAdvance
<1>2. worker' = [pc |-> p, job |-> job, outcome |-> o]
  BY DEF Moves
<1> QED BY <1>1, <1>2 DEF Carries

\* The end of Blender's work is noted.
LEMMA OutcomesCarries ==
  ASSUME IInv, worker.pc \in Open \cup {"work"}, worker.pc # "captured",
         mem[job].pending = "none",
         NEW o \in {"completed", "cancelled", "failed"}, Outcomes(o),
         o = "completed" => mem[job].done = Total(job),
         o = "cancelled" => mem[job].cancel,
         UNCHANGED <<queue, token, blocked, client, edits, restarts, fence, lane>>
  PROVE  Carries
<1> DEFINE r == [mem[job] EXCEPT !.pending = o]
<1>1. worker.pc # "idle" /\ worker.pc \in InLane /\ worker.pc \in Captured
  BY DEF Open, InLane, Captured
<1>2. Advances(r) /\ worker'.pc = "pending" /\ worker'.job = job /\ worker'.outcome = o
  BY OutcomesAdvance
<1>3. worker' = [pc |-> "pending", job |-> job, outcome |-> o] /\ o \in Outcome
  BY <1>1, OutcomesMoves DEF Moves, Outcome
<1>4. job \in Jobs /\ MustRestore(mem[job]) /\ lane = "worker"
  BY <1>1, Here DEF Fits, IInv, ScheduleOK
<1>5. worker' \in [pc : WorkerPc, job : Jobs \cup {None}, outcome : Outcome]
  BY <1>3, <1>4 DEF WorkerPc, WorkerSaving
<1> HIDE DEF r
<1> QED BY <1>1, <1>2, <1>4, <1>5 DEF Carries

\* An error ends the run.
LEMMA RunFailsCarries ==
  ASSUME IInv, worker.pc \in Runs, worker.pc # "captured", RunFails,
         lane' \in {"free", "worker", "user"},
         UNCHANGED <<queue, token, blocked, client, edits, restarts, fence>>
  PROVE  Carries
<1>1. worker.pc # "idle"
  BY DEF Runs
<1>2. /\ \E r : Advances(r) /\ (MustRestore(r) => MustRestore(mem[job]))
      /\ worker'.pc \in {"note", "fail"} /\ worker'.job = job
      /\ worker'.outcome = worker.outcome
  BY RunFailsAdvances
<1>3. worker' = [pc |-> worker'.pc, job |-> job, outcome |-> worker.outcome]
  BY <1>1, <1>2, RunFailsMoves DEF Moves
<1>4. worker' \in [pc : WorkerPc, job : Jobs \cup {None}, outcome : Outcome]
  BY <1>1, <1>2, <1>3, Here DEF WorkerPc, WorkerSaving
<1>5. worker'.pc \notin InLane
  BY <1>2 DEF InLane, Open
<1> QED BY <1>1, <1>2, <1>4, <1>5 DEF Carries

\* A token of the running job that is cancelled was told by its record.
LEMMA TokenTells ==
  ASSUME IInv, worker.pc \in Runs, Cancelled
  PROVE  mem[job].cancel
<1>1. job \in Jobs /\ mem[job].state = "running"
  BY Here DEF Runs, Fits
<1> QED BY <1>1 DEF Cancelled, IInv, TokenOK, Terminal

\* The steps that change nothing but the place, or break off.
LEMMA PlainStep ==
  ASSUME IInv, FramesBreakOff \/ RunBreaksOff \/ SkipBlender \/ TakeLane \/ LaneTimesOut
               \/ EncodeVideo \/ FinishAfterBlender
  PROVE  Carries
<1> USE DEF Fits, Runs, WorkerPc, WorkerSaving, Captured, Open, Ending, Over, InLane
<1>1. CASE FramesBreakOff
  <2>1. worker.pc = "broken" /\ Outcomes("failed")
        /\ UNCHANGED <<queue, token, blocked, client, edits, restarts, fence, lane>>
    BY <1>1 DEF FramesBreakOff, At, blender, bounds
  <2> QED BY <2>1, Here, OutcomesCarries
<1>2. CASE RunBreaksOff
  <2>1. worker.pc = "error" /\ RunFails /\ lane' = "free"
        /\ UNCHANGED <<queue, token, blocked, client, edits, restarts, fence>>
    BY <1>2 DEF RunBreaksOff, At, blender, bounds
  <2> QED BY <2>1, RunFailsCarries
<1>3. CASE SkipBlender
  <2>1. worker.pc = "run" /\ mem[job].restored /\ GoTo("finish") /\ UNCHANGED mem
        /\ UNCHANGED <<queue, token, blocked, client, edits, restarts, fence, lane>>
    BY <1>3 DEF SkipBlender, At, registry, blender, bounds
  <2>2. Moves("finish", worker.outcome, mem[job]) /\ worker.outcome \in Outcome
    BY <2>1, GoToMoves, Here
  <2>3. Fits([pc |-> "finish", job |-> job, outcome |-> worker.outcome], mem[job])
    BY <2>1, Here
  <2> QED BY <2>1, <2>2, <2>3, StaysCarries DEF IInv, TypeOK
<1>4. CASE TakeLane
  <2>1. /\ UNCHANGED <<mem, queue, token, blocked, client, edits, restarts, fence>>
        /\ lane' = "worker"
    BY <1>4 DEF TakeLane, registry, blender, bounds
  <2>2. PICK p \in {"work", "capture_phase", "restore"} :
          /\ GoTo(p) /\ worker.pc # "idle" /\ worker.pc # "captured"
          /\ Fits([pc |-> p, job |-> job, outcome |-> worker.outcome], mem[job])
    <3>1. CASE At("run") /\ ~mem[job].restored
               /\ GoTo(IF mem[job].captured THEN "work" ELSE "capture_phase")
      <4>1. worker.pc = "run"
        BY <3>1 DEF At
      <4> QED BY <3>1, <4>1, Here DEF MustRestore
    <3>2. CASE At("lane_again") /\ GoTo("restore")
      <4>1. worker.pc = "lane_again"
        BY <3>2 DEF At
      <4> QED BY <3>2, <4>1, Here
    <3> QED BY <1>4, <3>1, <3>2 DEF TakeLane
  <2>3. Moves(p, worker.outcome, mem[job]) /\ worker.outcome \in Outcome
    BY <2>1, <2>2, GoToMoves, Here
  <2> QED BY <2>1, <2>2, <2>3, StaysCarries
<1>5. CASE LaneTimesOut
  <2>1. /\ worker.pc \in {"run", "lane_again"} /\ RunFails
        /\ UNCHANGED <<queue, token, blocked, client, edits, restarts, fence, lane>>
    BY <1>5 DEF LaneTimesOut, At, blender, bounds
  <2> QED BY <2>1, RunFailsCarries DEF IInv, TypeOK
<1>6. CASE EncodeVideo
  <2>1. /\ worker.pc = "encode"
        /\ UNCHANGED <<mem, queue, token, blocked, client, edits, restarts, fence, lane>>
    BY <1>6 DEF EncodeVideo, At, registry, blender, bounds
  <2>2. PICK p \in {"complete", "fail", "cancel"} : GoTo(p)
    BY <1>6 DEF EncodeVideo
  <2>3. Moves(p, worker.outcome, mem[job]) /\ worker.outcome \in Outcome
    BY <2>1, <2>2, GoToMoves, Here
  <2>4. Fits([pc |-> p, job |-> job, outcome |-> worker.outcome], mem[job])
    BY <2>1, Here DEF MustRestore
  <2> QED BY <2>1, <2>3, <2>4, StaysCarries DEF IInv, TypeOK
<1>7. CASE FinishAfterBlender
  <2>1. /\ worker.pc = "finish"
        /\ UNCHANGED <<mem, queue, token, blocked, client, edits, restarts, fence, lane>>
    BY <1>7 DEF FinishAfterBlender, At, registry, blender, bounds
  <2>2. PICK p \in {"complete", "fail", "cancel", "encode_phase"} : GoTo(p)
    BY <1>7 DEF FinishAfterBlender
  <2>3. Moves(p, worker.outcome, mem[job]) /\ worker.outcome \in Outcome
    BY <2>1, <2>2, GoToMoves, Here
  <2>4. Fits([pc |-> p, job |-> job, outcome |-> worker.outcome], mem[job])
    BY <2>1, Here DEF MustRestore
  <2> QED BY <2>1, <2>3, <2>4, StaysCarries DEF IInv, TypeOK
<1> QED BY <1>1, <1>2, <1>3, <1>4, <1>5, <1>6, <1>7

\* A job starts, or has ended while it waited.
LEMMA StartStep ==
  ASSUME IInv, StartJob
  PROVE  Carries
<1> USE DEF Fits, Runs, WorkerPc, WorkerSaving, Captured, Open, Ending, Over, InLane
<1> DEFINE m == mem[job]
           r == [mem[job] EXCEPT !.state = "running"]
<1>1. /\ worker.pc = "popped"
      /\ UNCHANGED <<queue, token, blocked, client, edits, restarts, fence, lane>>
  BY DEF StartJob, At, blender, bounds
<1>2. /\ job \in Jobs /\ m \in Record /\ m # None /\ Kept(job, m) /\ worker.outcome \in Outcome
      /\ m.state \in JobState /\ lane \in {"free", "worker", "user"}
  BY <1>1, Here, RecordFields DEF IInv, TypeOK
<1>3. CASE m.state = "queued"
  <2>1. mem' = [mem EXCEPT ![job].state = "running"] /\ GoTo("start")
    BY <1>2, <1>3 DEF StartJob
  <2>2. worker' = [pc |-> "start", job |-> job, outcome |-> worker.outcome]
    BY <2>1, WorkerFields DEF GoTo, IInv, TypeOK, job
  <2>3. r \in Record
    BY <1>2 DEF Record, JobState
  <2>4. Puts(job, r)
    BY <1>2, <2>1, <2>3 DEF Puts, IInv, TypeOK
  <2>5. /\ r.state = "running" /\ r.captured = m.captured /\ r.restored = m.restored
        /\ r.pending = m.pending /\ r.done = m.done /\ r.cancel = m.cancel
        /\ r.failed = m.failed
    BY <1>2 DEF Record
  <2> HIDE DEF r
  <2>6. Kept(job, r) /\ Follows(m, r) /\ (MustRestore(r) => MustRestore(m))
    BY <1>2, <2>3, <2>5, RecordFields DEF Kept, Follows, Sound, MustRestore, Terminal
  <2>7. Fits([pc |-> "start", job |-> job, outcome |-> worker.outcome], r)
    BY <2>5
  <2>8. Advances(r)
    BY <1>1, <1>2, <1>3, <2>2, <2>3, <2>4, <2>5, <2>6, <2>7, MovesAdvance DEF Moves, Terminal
  <2>9. worker' \in [pc : WorkerPc, job : Jobs \cup {None}, outcome : Outcome]
        /\ worker'.pc = "start" /\ worker'.job = job
    BY <1>2, <2>2
  <2> QED BY <1>1, <1>2, <2>6, <2>8, <2>9 DEF Carries
<1>4. CASE m.state # "queued"
  <2>1. UNCHANGED mem /\ GoTo("release")
    BY <1>4 DEF StartJob
  <2>2. m.state # "running"
    BY <1>1, <1>2 DEF IInv, WorkerOK
  <2>3. m.state \in Terminal
    BY <1>2, <1>4, <2>2 DEF JobState
  <2>4. Moves("release", worker.outcome, m)
    BY <1>1, <2>1, GoToMoves
  <2>5. Fits([pc |-> "release", job |-> job, outcome |-> worker.outcome], m)
    BY <2>3
  <2> QED BY <1>1, <1>2, <2>2, <2>4, <2>5, StaysCarries
<1> QED BY <1>3, <1>4

\* Blender saved the live session, or could not.
LEMMA CaptureStep ==
  ASSUME IInv, Capture
  PROVE  Carries
<1> DEFINE m == mem[job]
           r == [mem[job] EXCEPT !.captured = TRUE, !.restored = FALSE]
<1>1. /\ worker.pc = "capture"
      /\ UNCHANGED <<queue, token, blocked, client, edits, restarts, fence>>
  BY DEF Capture, At, blender, bounds
<1>2. worker.pc \in Runs /\ worker.pc \in InLane
  BY <1>1 DEF Runs, InLane, WorkerPc, WorkerSaving
<1>3. /\ job \in Jobs /\ m \in Record /\ m # None /\ Kept(job, m) /\ worker.outcome \in Outcome
      /\ m.state = "running" /\ ~m.captured
  BY <1>1, <1>2, Here DEF Fits
<1>4. CASE RunFails /\ lane' = "free"
  BY <1>1, <1>2, <1>4, RunFailsCarries
<1>5. CASE /\ mem' = [mem EXCEPT ![job].captured = TRUE, ![job].restored = FALSE]
           /\ GoTo("captured") /\ UNCHANGED lane
  <2>1. worker' = [pc |-> "captured", job |-> job, outcome |-> worker.outcome]
    BY <1>5, WorkerFields DEF GoTo, IInv, TypeOK, job
  <2>2. r \in Record
    BY <1>3 DEF Record
  <2>3. Puts(job, r)
    BY <1>3, <1>5, <2>2 DEF Puts, IInv, TypeOK
  <2>4. /\ r.state = "running" /\ r.captured /\ ~r.restored
        /\ r.pending = m.pending /\ r.done = m.done /\ r.cancel = m.cancel
        /\ r.failed = m.failed
    BY <1>3 DEF Record
  <2> HIDE DEF r
  <2>5. m.pending = "none" /\ ~m.restored
    BY <1>3 DEF Kept, Sound
  <2>6. Kept(job, r) /\ Follows(m, r) /\ MustRestore(r)
    BY <1>3, <2>2, <2>4, <2>5, RecordFields DEF Kept, Follows, Sound, MustRestore, Terminal
  <2>7. Fits([pc |-> "captured", job |-> job, outcome |-> worker.outcome], r)
    BY <2>4, <2>5, <2>6 DEF Fits, Runs, WorkerPc, WorkerSaving, Captured, Open, Ending, Over
  <2>8. "captured" \in Runs /\ "captured" \in WorkerPc
    BY DEF Runs, WorkerPc, WorkerSaving
  <2>9. Advances(r)
    BY <1>1, <1>3, <2>1, <2>2, <2>3, <2>4, <2>6, <2>7, <2>8, MovesAdvance DEF Moves, Terminal
  <2>10. worker' \in [pc : WorkerPc, job : Jobs \cup {None}, outcome : Outcome]
         /\ worker'.pc = "captured" /\ worker'.job = job
    BY <1>3, <2>1, <2>8
  <2>11. lane' = "worker"
    BY <1>2, <1>5 DEF IInv, ScheduleOK
  <2> QED BY <1>1, <2>9, <2>10, <2>11 DEF Carries
<1> QED BY <1>4, <1>5 DEF Capture

\* The work with the session captured begins, or has ended before.
LEMMA WorkStep ==
  ASSUME IInv, StartWork \/ NextFrame
  PROVE  Carries
<1>1. /\ worker.pc \in {"work", "frames"}
      /\ UNCHANGED <<queue, token, blocked, client, edits, restarts, fence, lane>>
  BY DEF StartWork, NextFrame, At, blender, bounds
<1>2. /\ worker.pc \in Runs /\ worker.pc \in InLane /\ worker.pc \in Captured
      /\ worker.pc \in Open \cup {"work"}
  BY <1>1 DEF Runs, InLane, WorkerPc, WorkerSaving, Captured, Open
<1>3. /\ job \in Jobs /\ mem[job] \in Record /\ Kept(job, mem[job])
      /\ worker.outcome \in Outcome /\ mem[job].pending \in Outcome
      /\ mem[job].state = "running" /\ MustRestore(mem[job]) /\ lane = "worker"
      /\ Fits(worker, mem[job])
  BY <1>1, <1>2, Here, RecordFields DEF Fits, IInv, ScheduleOK
<1>4. CASE mem[job].pending = "none" /\ Cancelled /\ Outcomes("cancelled")
  BY <1>1, <1>2, <1>4, TokenTells, OutcomesCarries
<1>5. CASE mem[job].pending = "none" /\ mem[job].done = Total(job) /\ Outcomes("completed")
  BY <1>1, <1>2, <1>5, OutcomesCarries
<1>6. CASE /\ worker.pc = "work" /\ mem[job].pending # "none"
           /\ worker' = [worker EXCEPT !.pc = "restore", !.outcome = mem[job].pending]
           /\ UNCHANGED mem
  <2>1. Moves("restore", mem[job].pending, mem[job])
    <3>1. worker' = [pc |-> "restore", job |-> job, outcome |-> mem[job].pending]
      BY <1>6, WorkerFields DEF IInv, TypeOK, job
    <3> QED BY <1>3, <1>6, <3>1 DEF Moves, Puts, IInv, TypeOK
  <2>2. Fits([pc |-> "restore", job |-> job, outcome |-> mem[job].pending], mem[job])
    BY <1>3, <1>6 DEF Fits, Runs, WorkerPc, WorkerSaving, Captured, Open, Ending, Over
  <2>3. "restore" \in WorkerPc \ {"idle"} /\ "restore" \in Runs
    BY DEF Runs, WorkerPc
  <2> QED BY <1>1, <1>3, <1>6, <2>1, <2>2, <2>3, StaysCarries
<1>7. CASE mem[job].pending = "none" /\ UNCHANGED mem
           /\ \/ GoTo("load_phase")
              \/ GoTo("frame_phase") /\ mem[job].done # Total(job)
  <2>1. PICK p \in {"load_phase", "frame_phase"} :
          GoTo(p) /\ (p = "frame_phase" => mem[job].done # Total(job))
    BY <1>7
  <2>2. Moves(p, worker.outcome, mem[job])
    BY <1>1, <1>7, <2>1, GoToMoves
  <2>3. Fits([pc |-> p, job |-> job, outcome |-> worker.outcome], mem[job])
    BY <1>3, <1>7, <2>1 DEF Fits, Runs, WorkerPc, WorkerSaving, Captured, Open, Ending, Over
  <2>4. p \in WorkerPc \ {"idle"} /\ p \in Runs /\ p # "captured"
    BY DEF Runs, WorkerPc, WorkerSaving
  <2> QED BY <1>1, <1>3, <2>2, <2>3, <2>4, StaysCarries
<1>8. worker.pc = "frames" => mem[job].pending = "none"
  BY <1>3 DEF Fits, Open
<1>9. CASE StartWork
  <2>1. worker.pc = "work"
    BY <1>9 DEF StartWork, At
  <2> QED BY <1>4, <1>6, <1>7, <1>9, <2>1 DEF StartWork
<1>10. CASE NextFrame
  <2>1. worker.pc = "frames"
    BY <1>10 DEF NextFrame, At
  <2> QED BY <1>4, <1>5, <1>7, <1>8, <1>10, <2>1 DEF NextFrame
<1> QED BY <1>9, <1>10

\* Blender loads the source, or renders a frame, or cannot.
LEMMA BlenderStep ==
  ASSUME IInv, LoadSource \/ RenderFrame
  PROVE  Carries
<1> DEFINE m == mem[job]
           r == [mem[job] EXCEPT !.done = @ + 1]
<1>1. /\ worker.pc \in {"load", "render"}
      /\ UNCHANGED <<queue, token, blocked, client, edits, restarts, fence, lane>>
  BY DEF LoadSource, RenderFrame, At, blender, bounds
<1>2. /\ worker.pc \in Runs /\ worker.pc \in InLane /\ worker.pc \in Captured
      /\ worker.pc \in Open
  BY <1>1 DEF Runs, InLane, WorkerPc, WorkerSaving, Captured, Open
<1>3. /\ job \in Jobs /\ m \in Record /\ m # None /\ Kept(job, m)
      /\ worker.outcome \in Outcome /\ m.pending = "none"
      /\ m.state = "running" /\ MustRestore(m) /\ lane = "worker"
      /\ worker.pc = "render" => m.done # Total(job)
  BY <1>1, <1>2, Here DEF Fits, IInv, ScheduleOK
<1>4. CASE Outcomes("failed")
  BY <1>1, <1>2, <1>3, <1>4, OutcomesCarries
<1>5. CASE GoTo("frames") /\ UNCHANGED mem
  <2>1. Moves("frames", worker.outcome, m)
    BY <1>1, <1>5, GoToMoves
  <2>2. Fits([pc |-> "frames", job |-> job, outcome |-> worker.outcome], m)
    BY <1>3 DEF Fits, Runs, WorkerPc, WorkerSaving, Captured, Open, Ending, Over
  <2>3. "frames" \in WorkerPc \ {"idle"} /\ "frames" \in Runs
    BY DEF Runs, WorkerPc
  <2> QED BY <1>1, <1>3, <2>1, <2>2, <2>3, StaysCarries
<1>6. CASE /\ worker.pc = "render"
           /\ mem' = [mem EXCEPT ![job].done = @ + 1] /\ GoTo("progress")
  <2>1. worker' = [pc |-> "progress", job |-> job, outcome |-> worker.outcome]
    BY <1>6, WorkerFields DEF GoTo, IInv, TypeOK, job
  <2>2. m.done \in Nat
    BY <1>3, RecordFields
  <2>3. r \in Record /\ r.done = m.done + 1
    BY <1>3, <2>2 DEF Record
  <2>4. Puts(job, r)
    BY <1>3, <1>6, <2>3 DEF Puts, IInv, TypeOK
  <2>5. /\ r.state = "running" /\ r.captured = m.captured /\ r.restored = m.restored
        /\ r.pending = m.pending /\ r.cancel = m.cancel /\ r.failed = m.failed
    BY <1>3 DEF Record
  <2> HIDE DEF r
  <2>6. r.done <= Total(job)
    <3>1. m.done <= Total(job) /\ m.done # Total(job) /\ Total(job) \in Nat
      BY <1>3, <1>6, TotalType DEF Kept, Sound
    <3> QED BY <2>2, <2>3, <3>1
  <2>7. Kept(job, r) /\ Follows(m, r) /\ MustRestore(r)
    BY <1>3, <2>3, <2>5, <2>6, RecordFields DEF Kept, Follows, Sound, MustRestore, Terminal
  <2>8. Fits([pc |-> "progress", job |-> job, outcome |-> worker.outcome], r)
    BY <1>3, <2>5, <2>7
    DEF Fits, Runs, WorkerPc, WorkerSaving, Captured, Open, Ending, Over
  <2>9. "progress" \in Runs /\ "progress" \in WorkerPc
    BY DEF Runs, WorkerPc, WorkerSaving
  <2>10. Advances(r)
    BY <1>1, <1>3, <2>1, <2>3, <2>4, <2>5, <2>7, <2>8, <2>9, MovesAdvance DEF Moves, Terminal
  <2>11. worker' \in [pc : WorkerPc, job : Jobs \cup {None}, outcome : Outcome]
         /\ worker'.pc = "progress" /\ worker'.job = job
    BY <1>3, <2>1, <2>9
  <2> QED BY <1>1, <1>3, <2>10, <2>11 DEF Carries
<1>7. CASE LoadSource
  BY <1>4, <1>5, <1>7 DEF LoadSource
<1>8. CASE RenderFrame
  BY <1>4, <1>6, <1>8 DEF RenderFrame, At
<1> QED BY <1>7, <1>8

\* Blender puts the session back, or cannot.
LEMMA RestoreStep ==
  ASSUME IInv, Restore
  PROVE  Carries
<1>1. /\ worker.pc = "restore" /\ lane' = "free"
      /\ UNCHANGED <<queue, token, blocked, client, edits, restarts, fence>>
  BY DEF Restore, At, blender, bounds
<1>2. worker.pc \in Runs /\ worker.pc # "idle"
  BY <1>1 DEF Runs, WorkerPc
<1>3. CASE RunFails
  BY <1>1, <1>2, <1>3, RunFailsCarries
<1>4. CASE GoTo("marker") /\ UNCHANGED mem
  <2>1. Moves("marker", worker.outcome, mem[job])
    BY <1>2, <1>4, GoToMoves
  <2>2. Fits([pc |-> "marker", job |-> job, outcome |-> worker.outcome], mem[job])
    BY <1>1, <1>2, Here DEF Fits, Runs, WorkerPc, WorkerSaving, Captured, Open, Ending, Over
  <2>3. "marker" \in WorkerPc \ {"idle"} /\ "marker" \in Runs /\ "marker" \notin InLane
    BY DEF Runs, WorkerPc, InLane, Open
  <2> QED BY <1>1, <1>2, <2>1, <2>2, <2>3, Here, StaysCarries
<1> QED BY <1>3, <1>4 DEF Restore

\* The job of the marker is a later version of the job, and has its end.
LEMMA RestoredFollows ==
  ASSUME IInv, worker.pc \in {"marker", "restored"}
  PROVE  LET r == Restored(mem[job]) IN
         /\ r \in Record /\ Sound(job, r) /\ Follows(mem[job], r) /\ Ahead(r)
         /\ r.state = "running" /\ r.cancel = mem[job].cancel
<1> DEFINE m == mem[job]
           r == Restored(mem[job])
<1>1. worker.pc \in Runs /\ worker.pc \in Captured /\ worker.pc \in Ending
  BY DEF Runs, WorkerPc, Captured, Ending
<1>2. /\ job \in Jobs /\ m \in Record /\ m # None /\ Kept(job, m) /\ m.state = "running"
      /\ MustRestore(m) /\ m.pending = worker.outcome /\ worker.outcome \in Outcome
      /\ worker.outcome # "none"
  BY <1>1, Here DEF Fits
<1>3. /\ m.captured /\ ~m.restored
  BY <1>2 DEF MustRestore
<1>4. r \in Record
  BY <1>2 DEF Restored, Record, Outcome
<1>5. /\ r.state = m.state /\ r.captured = m.captured /\ r.restored
      /\ r.pending = "none" /\ r.done = m.done /\ r.cancel = m.cancel
      /\ r.failed = (worker.outcome = "failed")
  BY <1>2 DEF Restored, Record
<1> HIDE DEF r
<1>6. Sound(job, r)
  BY <1>2, <1>3, <1>5 DEF Sound, Kept, Outcome
<1>7. Follows(m, r) /\ Ahead(r)
  BY <1>2, <1>3, <1>5 DEF Follows, Ahead
<1> QED BY <1>2, <1>4, <1>5, <1>6, <1>7 DEF r

\* The memory learns of the restore.
LEMMA NoteStep ==
  ASSUME IInv, NoteRestored
  PROVE  Carries
<1> DEFINE r == Restored(mem[job])
<1>1. /\ worker.pc = "restored" /\ fence' = Fenced(mem', blocked)
      /\ mem' = [mem EXCEPT ![job] = Restored(mem[job])]
      /\ UNCHANGED <<queue, token, blocked, client, edits, restarts, lane>>
  BY DEF NoteRestored, At, blender, bounds
<1>2. worker.pc # "idle"
  BY <1>1
<1>3. /\ r \in Record /\ Sound(job, r) /\ Follows(mem[job], r) /\ Ahead(r)
      /\ r.state = "running" /\ r.cancel = mem[job].cancel
  BY <1>1, RestoredFollows
<1>4. PICK p \in {"fail", "cancel", "finish"} : GoTo(p)
  BY DEF NoteRestored
<1> HIDE DEF r
<1>5. /\ job \in Jobs /\ mem[job].state = "running" /\ worker.outcome \in Outcome
      /\ lane \in {"free", "worker", "user"}
  BY <1>1, <1>2, Here DEF Fits, Runs, WorkerPc, IInv, TypeOK
<1>6. worker' = [pc |-> p, job |-> job, outcome |-> worker.outcome]
  BY <1>4, WorkerFields DEF GoTo, IInv, TypeOK, job
<1>7. Puts(job, r)
  BY <1>1, <1>3, <1>5 DEF Puts, IInv, TypeOK, r
<1>8. Kept(job, r) /\ ~MustRestore(r)
  BY <1>3, RecordFields DEF Kept, MustRestore, Ahead
<1>9. Fits([pc |-> p, job |-> job, outcome |-> worker.outcome], r)
  BY <1>3, <1>8 DEF Fits, Runs, WorkerPc, WorkerSaving, Captured, Open, Ending, Over, Ahead
<1>10. p \in Runs /\ p \in WorkerPc /\ p # "idle" /\ p \notin InLane
  BY DEF Runs, WorkerPc, InLane, Open
<1>11. Advances(r)
  BY <1>2, <1>3, <1>5, <1>6, <1>7, <1>8, <1>9, <1>10, MovesAdvance DEF Moves, Terminal
<1>12. worker' \in [pc : WorkerPc, job : Jobs \cup {None}, outcome : Outcome]
       /\ worker'.pc = p /\ worker'.job = job
  BY <1>5, <1>6, <1>10
<1> QED BY <1>1, <1>2, <1>5, <1>8, <1>10, <1>11, <1>12 DEF Carries

\* The job ends.
LEMMA EndStep ==
  ASSUME IInv, CompleteJob \/ MarkCancelled \/ FailJob
  PROVE  Carries
<1> DEFINE m == mem[job]
<1>1. /\ worker.pc \in {"complete", "cancel", "fail"}
      /\ UNCHANGED <<queue, token, blocked, client, edits, restarts, lane>>
      /\ fence' = fence \/ fence' = Fenced(mem', blocked)
  BY DEF CompleteJob, MarkCancelled, FailJob, At, blender, bounds
<1>2. /\ job \in Jobs /\ m \in Record /\ m # None /\ Kept(job, m) /\ m.state = "running"
      /\ ~MustRestore(m) /\ worker.outcome \in Outcome /\ lane \in {"free", "worker", "user"}
  BY <1>1, Here DEF Fits, Runs, WorkerPc, WorkerSaving, Over, MustRestore, IInv, TypeOK
<1>3. IsActive(job)
  BY <1>2 DEF IsActive, Terminal
<1>4. GoTo("settle")
  BY <1>3 DEF CompleteJob, MarkCancelled, FailJob
<1>5. worker' = [pc |-> "settle", job |-> job, outcome |-> worker.outcome]
  BY <1>4, WorkerFields DEF GoTo, IInv, TypeOK, job
<1>6. PICK r \in Record :
        /\ mem' = [mem EXCEPT ![job] = r]
        /\ r.state \in Terminal /\ r.captured = m.captured /\ r.restored = m.restored
        /\ r.pending = m.pending /\ r.done = m.done
        /\ m.cancel => r.cancel
        /\ m.failed => r.failed
  <2>1. CASE CompleteJob
    <3> DEFINE s == IF m.cancel THEN "cancelled" ELSE "succeeded"
               r == [m EXCEPT !.state = s]
    <3>1. mem' = [mem EXCEPT ![job] = r]
      BY <1>2, <2>1 DEF CompleteJob
    <3>2. r \in Record /\ r.state = s
      BY <1>2 DEF Record, JobState, Terminal
    <3>3. /\ r.captured = m.captured /\ r.restored = m.restored
          /\ r.pending = m.pending /\ r.done = m.done
          /\ m.cancel => r.cancel
          /\ m.failed => r.failed
      BY <1>2 DEF Record
    <3> QED BY <3>1, <3>2, <3>3 DEF Terminal
  <2>2. CASE MarkCancelled
    <3> DEFINE r == [m EXCEPT !.state = "cancelled", !.cancel = TRUE]
    <3>1. mem' = [mem EXCEPT ![job] = r]
      BY <1>2, <1>3, <2>2 DEF MarkCancelled
    <3>2. r \in Record /\ r.state = "cancelled"
      BY <1>2 DEF Record, JobState, Terminal
    <3>3. /\ r.captured = m.captured /\ r.restored = m.restored
          /\ r.pending = m.pending /\ r.done = m.done
          /\ m.cancel => r.cancel
          /\ m.failed => r.failed
      BY <1>2 DEF Record
    <3> QED BY <3>1, <3>2, <3>3 DEF Terminal
  <2>3. CASE FailJob
    <3> DEFINE r == [m EXCEPT !.state = "failed", !.failed = TRUE]
    <3>1. mem' = [mem EXCEPT ![job] = r]
      BY <1>2, <1>3, <2>3 DEF FailJob
    <3>2. r \in Record /\ r.state = "failed"
      BY <1>2 DEF Record, JobState, Terminal
    <3>3. /\ r.captured = m.captured /\ r.restored = m.restored
          /\ r.pending = m.pending /\ r.done = m.done
          /\ m.cancel => r.cancel
          /\ m.failed => r.failed
      BY <1>2 DEF Record
    <3> QED BY <3>1, <3>2, <3>3 DEF Terminal
  <2> QED BY <2>1, <2>2, <2>3
<1>7. Puts(job, r)
  BY <1>2, <1>6 DEF Puts, IInv, TypeOK
<1>8. r # None /\ ~MustRestore(r)
  BY <1>2, <1>6, RecordFields DEF MustRestore
<1>9. Kept(job, r) /\ Follows(m, r)
  BY <1>2, <1>6, <1>8, RecordFields DEF Kept, Sound, Follows
<1>10. Fits([pc |-> "settle", job |-> job, outcome |-> worker.outcome], r)
  BY <1>6 DEF Fits, Runs, Captured, Open, Ending, Over
<1>11. r.state # "running"
  BY <1>6 DEF Terminal
<1>12. Advances(r)
  BY <1>1, <1>2, <1>5, <1>6, <1>7, <1>9, <1>10, <1>11, MovesAdvance DEF Moves, Terminal
<1>13. worker' \in [pc : WorkerPc, job : Jobs \cup {None}, outcome : Outcome]
       /\ worker'.pc = "settle" /\ worker'.job = job /\ "settle" \notin InLane
  BY <1>2, <1>5 DEF WorkerPc, WorkerSaving, InLane, Open
<1> QED BY <1>1, <1>2, <1>8, <1>12, <1>13 DEF Carries

\* The worker takes its copy, or writes the marker.
LEMMA CopyStep ==
  ASSUME IInv, MarkerCopies \/ WorkerCopies
  PROVE  Carries
<1>1. /\ UNCHANGED <<worker, mem, queue, token, blocked, client, edits, restarts, lane, fence>>
      /\ worker.pc # "idle"
  BY DEF MarkerCopies, WorkerCopies, At, WorkerSaving, registry, blender, bounds
<1>2. Moves(worker.pc, worker.outcome, mem[job])
  BY <1>1, Here DEF Moves, Puts, IInv, TypeOK
<1>3. /\ Fits([pc |-> worker.pc, job |-> job, outcome |-> worker.outcome], mem[job])
      /\ mem[job].state = "running" => worker.pc \in Runs
  BY <1>1, Here DEF IInv, WorkerOK
<1> QED BY <1>1, <1>2, <1>3, Here, StaysCarries DEF IInv, TypeOK, ScheduleOK

LEMMA MarkerStep ==
  ASSUME IInv, MarkerWrites
  PROVE  Carries
<1>1. /\ worker.pc = "marker"
      /\ UNCHANGED <<mem, queue, token, blocked, client, edits, restarts, lane, fence>>
  BY DEF MarkerWrites, At, Write, registry, blender
<1>2. PICK p \in {"marker", "restored"} : GoTo(p)
  BY DEF MarkerWrites
<1>3. Moves(p, worker.outcome, mem[job])
  BY <1>1, <1>2, GoToMoves
<1>4. /\ Fits([pc |-> p, job |-> job, outcome |-> worker.outcome], mem[job])
      /\ p \in Runs /\ p \in WorkerPc \ {"idle"} /\ p \notin InLane
  BY <1>1, Here DEF Fits, Runs, WorkerPc, WorkerSaving, Captured, Open, Ending, Over, InLane
<1> QED BY <1>1, <1>3, <1>4, Here, StaysCarries DEF IInv, TypeOK

\* The worker's write has ended, well or not.
LEMMA WriteStep ==
  ASSUME IInv, WorkerWrites
  PROVE  Carries
<1> DEFINE m == mem[job]
<1>1. /\ worker.pc \in WorkerSaving /\ worker.pc # "idle"
      /\ UNCHANGED <<mem, queue, token, blocked, client, edits, restarts>>
      /\ fence' = IF worker.pc = "captured" THEN Fenced(mem', blocked) ELSE fence
      /\ lane' \in {lane, "free"} /\ (worker.pc # "pending" => lane' = lane)
  BY DEF WorkerWrites, At, Write, registry, blender, WorkerSaving
<1>2. /\ job \in Jobs /\ m \in Record /\ Kept(job, m) /\ worker.outcome \in Outcome
      /\ Fits(worker, m) /\ lane \in {"free", "worker", "user"}
      /\ worker.pc \in InLane => lane = "worker"
  BY <1>1, Here DEF IInv, TypeOK, ScheduleOK
<1>3. PICK p \in {Saved[worker.pc], Unsaved[worker.pc]} :
        /\ GoTo(p)
        /\ worker.pc = "pending" /\ p = "restore" => lane' = lane
  <2>1. PICK out \in WriteOutcome :
          /\ GoTo(IF out = "ok" THEN Saved[worker.pc] ELSE Unsaved[worker.pc])
          /\ lane' = IF worker.pc = "pending" /\ out # "ok" THEN "free" ELSE lane
    BY DEF WorkerWrites, At
  <2>2. CASE out = "ok"
    BY <2>1, <2>2
  <2>3. CASE out # "ok"
    <3>1. worker.pc = "pending" => Unsaved[worker.pc] = "pending_again"
      BY DEF Unsaved
    <3> QED BY <2>1, <2>3, <3>1
  <2> QED BY <2>2, <2>3
<1>4. /\ worker.pc = "start" => p \in {"run"} \cup (IF MustRestore(m) THEN {"start"} ELSE {"fail"})
      /\ worker.pc = "capture_phase" => p \in {"capture", "error"}
      /\ worker.pc = "captured" => p \in {"work", "error"}
      /\ worker.pc = "load_phase" => p \in {"load", "broken"}
      /\ worker.pc = "frame_phase" => p \in {"render", "broken"}
      /\ worker.pc = "progress" => p \in {"frames", "broken"}
      /\ worker.pc = "pending" => p \in {"restore", "pending_again"}
      /\ worker.pc = "pending_again" => p \in {"lane_again", "pending_again"}
      /\ worker.pc = "note" => p = "run"
      /\ worker.pc = "encode_phase" => p \in {"encode", "fail"}
      /\ worker.pc = "settle" => p = "release"
  BY <1>3 DEF Saved, Unsaved
<1>5. Moves(p, worker.outcome, m)
  BY <1>1, <1>3, GoToMoves
<1>6. /\ p \in WorkerPc \ {"idle"} /\ (m.state = "running" => p \in Runs)
      /\ p # "captured"
  BY <1>1, <1>2, <1>4 DEF Fits, Runs, WorkerPc, WorkerSaving, Terminal
<1>7. Fits([pc |-> p, job |-> job, outcome |-> worker.outcome], m)
  <2> USE DEF Fits, Runs, WorkerPc, WorkerSaving, Captured, Open, Ending, Over
  <2>1. CASE worker.pc \in {"start", "capture_phase", "captured"}
    BY <1>2, <1>4, <2>1
  <2>2. CASE worker.pc \in {"load_phase", "frame_phase", "progress"}
    BY <1>2, <1>4, <2>2 DEF job
  <2>3. CASE worker.pc \in {"pending", "pending_again"}
    BY <1>2, <1>4, <2>3
  <2>4. CASE worker.pc \in {"note", "encode_phase", "settle"}
    BY <1>2, <1>4, <2>4 DEF MustRestore
  <2> QED BY <1>1, <2>1, <2>2, <2>3, <2>4
<1>8. p \in InLane => lane' = "worker"
  <2> USE DEF InLane, Open
  <2>1. CASE worker.pc \in {"start", "capture_phase", "captured", "load_phase",
                            "frame_phase", "progress"}
    BY <1>1, <1>2, <1>4, <2>1
  <2>2. CASE worker.pc \in {"pending", "pending_again", "note", "encode_phase", "settle"}
    BY <1>1, <1>2, <1>3, <1>4, <2>2
  <2> QED BY <1>1, <2>1, <2>2 DEF WorkerSaving
<1>9. lane' \in {"free", "worker", "user"} /\ worker.outcome \in Outcome
  BY <1>1, <1>2
<1> QED BY <1>1, <1>5, <1>6, <1>7, <1>8, <1>9, StaysCarries

-----------------------------------------------------------------------------
(* The memory, the worker, the schedule and the tokens.                     *)

\* They are as they should be after a step with the job in hand.
LEMMA CarriesOn ==
  ASSUME IInv, Carries
  PROVE  MemoryOK' /\ WorkerOK' /\ ScheduleOK' /\ TokenOK'
<1>1. PICK r : Advances(r) /\ (MustRestore(r) => MustRestore(mem[job]) \/ worker'.pc = "captured")
  BY DEF Carries
<1>2. /\ job \in Jobs /\ job # None /\ job' = job /\ worker.pc # "idle" /\ worker'.pc # "idle"
      /\ job' = worker'.job
  BY Here, Apart DEF Carries, job
<1>3. /\ mem'[job] = r /\ Kept(job, r) /\ Fits(worker', r)
      /\ r.state = "running" => worker'.pc \in Runs
      /\ mem[job].cancel => r.cancel
      /\ mem[job].state \in Terminal => r.state \in Terminal
      /\ \A j \in Jobs : j # job => mem'[j] = mem[j]
  BY <1>1 DEF Advances, Puts
<1>4. MemoryOK'
  <2>1. ASSUME NEW j \in Jobs
        PROVE  Kept(j, mem'[j])
    BY <1>3 DEF IInv, MemoryOK
  <2> QED BY <2>1 DEF MemoryOK
<1>5. WorkerOK'
  <2>1. Fits(worker', mem'[job])
    BY <1>3
  <2>2. ASSUME NEW j \in Jobs, mem'[j].state = "running"
        PROVE  job' = j /\ worker'.pc \in Runs
    BY <1>2, <1>3, <2>2 DEF IInv, WorkerOK
  <2> QED BY <1>2, <2>1, <2>2 DEF WorkerOK
<1>6. ScheduleOK'
  <2>1. /\ ~blocked' /\ (worker'.pc \in InLane => lane' = "worker") /\ queue' = queue
    BY DEF Carries, IInv, ScheduleOK
  <2>2. ASSUME NEW j \in Jobs, MustRestore(mem'[j])
        PROVE  /\ job' = j \/ \E i \in DOMAIN queue' : queue'[i] = j
               /\ fence' \/ (job' = j /\ worker'.pc = "captured")
    <3>1. j # job => MustRestore(mem[j])
      BY <1>3, <2>2
    <3>2. j = job => MustRestore(mem[job]) \/ worker'.pc = "captured"
      BY <1>1, <1>3, <2>2
    <3>3. job' = j \/ \E i \in DOMAIN queue' : queue'[i] = j
      BY <1>2, <2>1, <3>1 DEF IInv, ScheduleOK
    <3>4. CASE fence' = Fenced(mem', blocked)
      <4>1. Fenced(mem', blocked)
        BY <2>2 DEF Fenced
      <4> QED BY <3>3, <3>4, <4>1
    <3>5. CASE fence' = fence /\ (worker.pc = "captured" => worker'.pc = "captured")
      <4>1. MustRestore(mem[j]) => fence \/ (job = j /\ worker.pc = "captured")
        BY DEF IInv, ScheduleOK
      <4> QED BY <1>2, <3>1, <3>2, <3>3, <3>5, <4>1
    <3> QED BY <3>4, <3>5 DEF Carries
  <2> QED BY <2>1, <2>2 DEF ScheduleOK
<1>7. TokenOK'
  <2>1. \A j \in Jobs : mem[j].cancel \/ mem[j].state \in Terminal =>
                          mem'[j].cancel \/ mem'[j].state \in Terminal
    BY <1>3
  <2>2. token' = token /\ client' = client
    BY DEF Carries
  <2>3. \A c \in Clients : client[c].pc = "token" => client[c].job \in Jobs
    BY DEF IInv, LockOK
  <2>4. \A j \in Jobs : token'[j] = "cancelled" => mem'[j].cancel \/ mem'[j].state \in Terminal
    BY <2>1, <2>2 DEF IInv, TokenOK
  <2>5. \A c \in Clients : client'[c].pc = "token" =>
          mem'[client'[c].job].cancel \/ mem'[client'[c].job].state \in Terminal
    BY <2>1, <2>2, <2>3 DEF IInv, TokenOK
  <2> QED BY <2>4, <2>5 DEF TokenOK
<1> QED BY <1>4, <1>5, <1>6, <1>7

\* The head and the tail of a queue.
LEMMA QueueTail ==
  ASSUME NEW q \in Seq(Jobs), q # <<>>
  PROVE  /\ Head(q) \in Jobs /\ Tail(q) \in Seq(Jobs)
         /\ \A i \in DOMAIN q : q[i] = Head(q) \/ \E k \in DOMAIN Tail(q) : Tail(q)[k] = q[i]
<1>1. Head(q) \in Jobs /\ Tail(q) \in Seq(Jobs) /\ Len(q) \in Nat /\ Len(q) # 0
  OBVIOUS
<1>2. ASSUME NEW i \in DOMAIN q
      PROVE  q[i] = Head(q) \/ \E k \in DOMAIN Tail(q) : Tail(q)[k] = q[i]
  <2>1. CASE i = 1
    BY <2>1
  <2>2. CASE i # 1
    <3>1. i - 1 \in DOMAIN Tail(q) /\ Tail(q)[i - 1] = q[i]
      BY <1>1, <2>2
    <3> QED BY <3>1
  <2> QED BY <2>1, <2>2
<1> QED BY <1>1, <1>2

\* The worker takes the first job of the queue.
LEMMA ReceiveStep ==
  ASSUME IInv, Receive
  PROVE  /\ MemoryOK' /\ WorkerOK' /\ ScheduleOK' /\ TokenOK'
         /\ worker' \in [pc : WorkerPc, job : Jobs \cup {None}, outcome : Outcome]
         /\ queue' \in Seq(Jobs)
<1>1. /\ worker.pc = "idle" /\ queue # <<>> /\ queue' = Tail(queue)
      /\ worker' = [pc |-> "popped", job |-> Head(queue), outcome |-> "none"]
      /\ UNCHANGED <<mem, token, blocked, lane, fence, client>>
  BY DEF Receive, At
<1>2. /\ Head(queue) \in Jobs /\ queue' \in Seq(Jobs)
      /\ \A i \in DOMAIN queue : queue[i] = Head(queue)
                                 \/ \E k \in DOMAIN queue' : queue'[k] = queue[i]
  BY <1>1, QueueTail DEF IInv, TypeOK
<1>3. /\ worker'.pc = "popped" /\ worker'.job = Head(queue) /\ job' = Head(queue)
      /\ worker' \in [pc : WorkerPc, job : Jobs \cup {None}, outcome : Outcome]
  BY <1>1, <1>2 DEF job, WorkerPc, Outcome
<1>4. job = None
  BY <1>1 DEF IInv, WorkerOK
<1>5. MemoryOK' /\ TokenOK'
  BY <1>1 DEF IInv, MemoryOK, TokenOK
<1>6. WorkerOK'
  <2>1. Fits(worker', mem'[job'])
    BY <1>3 DEF Fits, Runs, Captured, Open, Ending, Over
  <2>2. \A j \in Jobs : mem'[j].state # "running"
    BY <1>1, <1>4, Apart DEF IInv, WorkerOK
  <2> QED BY <1>2, <1>3, <2>1, <2>2, Apart DEF WorkerOK
<1>7. ScheduleOK'
  <2>1. ~blocked' /\ worker'.pc \notin InLane
    BY <1>1, <1>3 DEF IInv, ScheduleOK, InLane, Open
  <2>2. ASSUME NEW j \in Jobs, MustRestore(mem'[j])
        PROVE  (job' = j \/ \E i \in DOMAIN queue' : queue'[i] = j) /\ fence'
    <3>1. MustRestore(mem[j]) /\ job # j
      BY <1>1, <1>4, <2>2, Apart
    <3>2. fence /\ \E i \in DOMAIN queue : queue[i] = j
      BY <1>1, <3>1 DEF IInv, ScheduleOK
    <3> QED BY <1>1, <1>2, <1>3, <3>2
  <2> QED BY <2>1, <2>2 DEF ScheduleOK
<1> QED BY <1>2, <1>3, <1>5, <1>6, <1>7

\* The worker lets its job go, which has ended.
LEMMA ReleaseStep ==
  ASSUME IInv, Release
  PROVE  /\ MemoryOK' /\ WorkerOK' /\ ScheduleOK' /\ TokenOK'
         /\ worker' \in [pc : WorkerPc, job : Jobs \cup {None}, outcome : Outcome]
         /\ token' \in [Jobs -> Token]
<1>1. /\ worker.pc = "release" /\ worker' = IdleWorker
      /\ token' = [token EXCEPT ![job] = "absent"]
      /\ UNCHANGED <<mem, queue, blocked, lane, fence, client>>
  BY DEF Release, At
<1>2. /\ worker'.pc = "idle" /\ worker'.job = None /\ job' = None
      /\ worker' \in [pc : WorkerPc, job : Jobs \cup {None}, outcome : Outcome]
  BY <1>1 DEF job, IdleWorker, WorkerPc, Outcome
<1>3. job \in Jobs /\ mem[job].state \in Terminal /\ Kept(job, mem[job])
  BY <1>1, Here DEF Fits
<1>4. token' \in [Jobs -> Token] /\ \A j \in Jobs : token'[j] = "cancelled" => token[j] = "cancelled"
  BY <1>1 DEF IInv, TypeOK, Token
<1>5. MemoryOK' /\ TokenOK'
  BY <1>1, <1>4 DEF IInv, MemoryOK, TokenOK
<1>6. WorkerOK'
  <2>1. \A j \in Jobs : mem'[j].state # "running"
    BY <1>1, <1>3 DEF IInv, WorkerOK, Terminal
  <2> QED BY <1>2, <2>1 DEF WorkerOK
<1>7. ScheduleOK'
  <2>1. ~blocked' /\ worker'.pc \notin InLane
    BY <1>1, <1>2 DEF IInv, ScheduleOK, InLane, Open
  <2>2. ASSUME NEW j \in Jobs, MustRestore(mem'[j])
        PROVE  (\E i \in DOMAIN queue' : queue'[i] = j) /\ fence'
    <3>1. MustRestore(mem[j]) /\ job # j
      BY <1>1, <1>3, <2>2 DEF Kept
    <3> QED BY <1>1, <3>1 DEF IInv, ScheduleOK
  <2> QED BY <2>1, <2>2 DEF ScheduleOK
<1> QED BY <1>2, <1>4, <1>5, <1>6, <1>7

-----------------------------------------------------------------------------
(* The copies and the records.                                              *)

\* The owner of the lock is the worker, at a place where it saves, or a client.
LEMMA Owner ==
  ASSUME IInv, lock # "free"
  PROVE  /\ Subject \in Jobs /\ image \in Record
         /\ lock = "worker" => worker.pc \in WorkerSaving \cup {"marker"} /\ Subject = job
         /\ lock # "worker" => lock \in Clients /\ Subject = client[lock].job
<1>1. lock \in {"worker"} \cup Clients /\ image \in Record
  BY DEF IInv, TypeOK, ImageOK
<1>2. CASE lock = "worker"
  <2>1. worker.pc \in WorkerSaving \cup {"marker"}
    BY <1>2 DEF IInv, LockOK
  <2> QED BY <1>1, <1>2, <2>1, Here DEF Subject, WorkerSaving
<1>3. CASE lock # "worker"
  <2>1. lock \in Clients /\ client[lock].pc = "saving"
    BY <1>1, <1>3 DEF IInv, LockOK
  <2> QED BY <1>1, <1>3, <2>1 DEF Subject, IInv, LockOK
<1> QED BY <1>2, <1>3

\* Every job in memory is a record, and so is every record.
LEMMA Records ==
  ASSUME IInv
  PROVE  \A j \in Jobs : mem[j] \in Record /\ record[j] \in Record
BY DEF IInv, TypeOK, MemoryOK, Kept

\* The marker is a later version of what is ahead of the memory.
LEMMA AheadFollows ==
  ASSUME NEW a \in Record, NEW b \in Record, Ahead(a), Ahead(b)
  PROVE  Follows(a, b)
BY DEF Ahead, Follows

\* Nothing is written and the memory goes on from what it was.
LEMMA SavingStays ==
  ASSUME IInv, UNCHANGED <<lock, image, record>>,
         \A j \in Jobs : mem'[j] \in Record /\ Follows(mem[j], mem'[j]),
         lock = "worker" => worker' = worker,
         \A c \in Clients : lock = c => client'[c] = client[c],
         worker.pc \in {"marker", "restored"} =>
           worker' = worker \/ (mem'[job] = Restored(mem[job]) /\ worker.pc = "restored")
  PROVE  ImageOK' /\ DiskOK'
<1>1. ASSUME lock # "free"
      PROVE  /\ image # None /\ Sound(Subject', image')
             /\ \/ Follows(image', mem'[Subject'])
                \/ lock' = "worker" /\ worker'.pc = "marker" /\ Ahead(image)'
             /\ record'[Subject'].pending = "none" \/ Follows(record'[Subject'], image')
  <2>1. /\ Subject \in Jobs /\ image \in Record /\ Subject' = Subject
    BY <1>1, Owner DEF Subject, job
  <2>2. image # None /\ Sound(Subject, image)
        /\ (record[Subject].pending = "none" \/ Follows(record[Subject], image))
    BY <1>1 DEF IInv, ImageOK
  <2>3. CASE Follows(image, mem[Subject])
    <3>1. Follows(image, mem'[Subject])
      BY <2>1, <2>3, Records, FollowsOn
    <3> QED BY <2>1, <2>2, <3>1
  <2>4. CASE lock = "worker" /\ worker.pc = "marker" /\ Ahead(image)
    <3>1. worker' = worker /\ Ahead(image)'
      BY <2>4 DEF Ahead
    <3> QED BY <2>1, <2>2, <2>4, <3>1
  <2> QED BY <1>1, <2>3, <2>4 DEF IInv, ImageOK
<1>2. ImageOK'
  BY <1>1 DEF ImageOK
<1>3. ASSUME NEW j \in Jobs
      PROVE  /\ Sound(j, record'[j])
             /\ \/ Follows(record'[j], mem'[j])
                \/ job' = j /\ worker'.pc \in {"marker", "restored"} /\ Ahead(record[j])'
  <2>1. Sound(j, record[j]) /\ mem[j] \in Record /\ record[j] \in Record
    BY Records DEF IInv, DiskOK
  <2>2. CASE Follows(record[j], mem[j])
    BY <2>1, <2>2, FollowsOn
  <2>3. CASE job = j /\ worker.pc \in {"marker", "restored"} /\ Ahead(record[j])
    <3>1. CASE worker' = worker
      <4>1. Ahead(record[j])' /\ job' = j
        BY <2>3, <3>1 DEF Ahead, job
      <4> QED BY <2>1, <2>3, <3>1, <4>1
    <3>2. CASE mem'[job] = Restored(mem[job]) /\ worker.pc = "restored"
      <4>1. Restored(mem[job]) \in Record /\ Ahead(Restored(mem[job]))
        BY <2>3, RestoredFollows
      <4>2. Follows(record[j], mem'[j])
        BY <2>1, <2>3, <3>2, <4>1, AheadFollows
      <4> QED BY <2>1, <4>2
    <3> QED BY <2>3, <3>1, <3>2
  <2> QED BY <2>2, <2>3 DEF IInv, DiskOK
<1>4. DiskOK'
  BY <1>3 DEF DiskOK
<1> QED BY <1>2, <1>4

\* The owner of the lock has written its copy, or has not.
LEMMA WriteEnds ==
  ASSUME IInv, lock # "free", NEW out, Write(lock, Subject, out),
         worker'.job = job, worker'.outcome = worker.outcome,
         worker.pc = "restored" => worker'.pc = "restored",
         worker.pc = "marker" => worker'.pc \in {"marker", "restored"}
  PROVE  /\ ImageOK' /\ DiskOK' /\ record' \in [Jobs -> Record]
         /\ lock' = "free" /\ image' = None
<1>1. /\ lock' = "free" /\ image' = None /\ mem' = mem
      /\ record' = record \/ record' = [record EXCEPT ![Subject] = image]
  BY DEF Write, registry
<1>2. Subject \in Jobs /\ image \in Record /\ record \in [Jobs -> Record]
  BY Owner DEF IInv, TypeOK
<1>3. ImageOK'
  BY <1>1 DEF ImageOK
<1>4. record' \in [Jobs -> Record]
  BY <1>1, <1>2
<1>5. ASSUME NEW j \in Jobs
      PROVE  /\ Sound(j, record'[j])
             /\ \/ Follows(record'[j], mem'[j])
                \/ job' = j /\ worker'.pc \in {"marker", "restored"} /\ Ahead(record[j])'
  <2>1. job' = job /\ (worker.pc \in {"marker", "restored"} => worker'.pc \in {"marker", "restored"})
    BY DEF job
  <2>2. CASE record'[j] = record[j]
    <3>1. Ahead(record[j]) => Ahead(record[j])'
      BY <2>2 DEF Ahead
    <3> QED BY <1>1, <2>1, <2>2, <3>1 DEF IInv, DiskOK
  <2>3. CASE record'[j] = image /\ j = Subject
    <3>1. Ahead(image) => Ahead(record[j])'
      BY <2>3 DEF Ahead
    <3>2. lock = "worker" => Subject = job
      BY Owner
    <3> QED BY <1>1, <2>1, <2>3, <3>1, <3>2 DEF IInv, ImageOK
  <2>4. record'[j] = record[j] \/ (record'[j] = image /\ j = Subject)
    BY <1>1, <1>2
  <2> QED BY <2>2, <2>3, <2>4
<1>6. DiskOK'
  BY <1>5 DEF DiskOK
<1> QED BY <1>1, <1>3, <1>4, <1>6

\* The worker takes a copy.
LEMMA WorkerCopyTaken ==
  ASSUME IInv, MarkerCopies \/ WorkerCopies
  PROVE  ImageOK' /\ DiskOK' /\ LockOK' /\ lock' = "worker" /\ image' \in Record
<1>1. /\ lock = "free" /\ lock' = "worker" /\ UNCHANGED <<mem, worker, client, record>>
      /\ worker.pc \in WorkerSaving \cup {"marker"}
      /\ image' = IF worker.pc = "marker" THEN Restored(mem[job]) ELSE mem[job]
  BY DEF MarkerCopies, WorkerCopies, Copy, At, registry, WorkerSaving
<1>2. /\ job \in Jobs /\ job' = job /\ Subject' = job /\ mem[job] \in Record
      /\ Sound(job, mem[job]) /\ record[job] \in Record
  BY <1>1, Here, Records DEF WorkerSaving, Subject, job, Kept
<1>3. DiskOK'
  <2>1. \A j \in Jobs : Ahead(record[j]) => Ahead(record[j])'
    BY <1>1 DEF Ahead
  <2> QED BY <1>1, <1>2, <2>1 DEF IInv, DiskOK
<1>4. LockOK'
  BY <1>1, Apart DEF IInv, LockOK
<1>5. /\ image' \in Record /\ Sound(job, image')
      /\ \/ Follows(image', mem[job])
         \/ worker.pc = "marker" /\ Ahead(image)'
      /\ record[job].pending = "none" \/ Follows(record[job], image')
  <2>1. CASE worker.pc = "marker"
    <3>1. /\ image' \in Record /\ Sound(job, image') /\ Follows(mem[job], image')
          /\ Ahead(Restored(mem[job]))
      BY <1>1, <2>1, RestoredFollows
    <3>2. Ahead(image)'
      BY <1>1, <2>1, <3>1 DEF Ahead
    <3>3. Follows(record[job], mem[job]) \/ record[job].pending = "none"
      BY <1>2 DEF IInv, DiskOK, Ahead
    <3>4. Follows(record[job], mem[job]) => Follows(record[job], image')
      BY <1>2, <3>1, FollowsOn
    <3> QED BY <2>1, <3>1, <3>2, <3>3, <3>4
  <2>2. CASE worker.pc # "marker"
    <3>1. worker.pc # "restored" /\ image' = mem[job]
      BY <1>1, <2>2 DEF WorkerSaving
    <3>2. Follows(record[job], mem[job])
      BY <1>2, <2>2, <3>1 DEF IInv, DiskOK
    <3> QED BY <1>2, <3>1, <3>2, FollowsItself
  <2> QED BY <2>1, <2>2
<1>6. ImageOK'
  BY <1>1, <1>2, <1>5, Apart DEF ImageOK
<1> QED BY <1>1, <1>3, <1>4, <1>5, <1>6

-----------------------------------------------------------------------------
(* The steps of the worker.                                                 *)

\* What the live Blender and the bounds range over.
Ranges == /\ checkpoint \in [Jobs -> Nat \cup {None}] /\ scene \in Nat \cup {None}
          /\ edits \in Nat /\ faults \in Nat /\ restarts \in Nat

LEMMA WorkerRanges ==
  ASSUME IInv, Worker
  PROVE  Ranges'
<1>1. Ranges /\ (worker.pc # "idle" => job \in Jobs)
  BY Here DEF IInv, TypeOK, Ranges
<1>2. CASE UNCHANGED <<checkpoint, scene, edits, faults, restarts>>
  BY <1>1, <1>2 DEF Ranges
<1>3. ASSUME NEW ok, Attempt(ok)
      PROVE  faults' \in Nat
  BY <1>1, <1>3 DEF Attempt, Ranges
<1>4. CASE Capture
  <2>1. worker.pc # "idle" /\ UNCHANGED <<scene, edits, restarts>>
    BY <1>4 DEF Capture, At
  <2>2. faults' \in Nat
    BY <1>3, <1>4 DEF Capture
  <2>3. checkpoint' = checkpoint \/ checkpoint' = [checkpoint EXCEPT ![job] = scene]
    BY <1>4 DEF Capture
  <2>4. checkpoint' \in [Jobs -> Nat \cup {None}]
    BY <1>1, <2>3 DEF Ranges
  <2> QED BY <1>1, <2>1, <2>2, <2>4 DEF Ranges
<1>5. CASE LoadSource
  <2>1. UNCHANGED <<checkpoint, edits, restarts>> /\ scene' \in {scene, None}
    BY <1>5 DEF LoadSource
  <2>2. faults' \in Nat
    BY <1>3, <1>5 DEF LoadSource
  <2> QED BY <1>1, <2>1, <2>2 DEF Ranges
<1>6. CASE RenderFrame
  <2>1. UNCHANGED <<checkpoint, scene, edits, restarts>>
    BY <1>6 DEF RenderFrame, blender
  <2>2. faults' \in Nat
    BY <1>3, <1>6 DEF RenderFrame
  <2> QED BY <1>1, <2>1, <2>2 DEF Ranges
<1>7. CASE Restore
  <2>1. UNCHANGED <<checkpoint, edits, restarts>> /\ scene' \in {scene, checkpoint[job]}
    BY <1>7 DEF Restore
  <2>2. worker.pc # "idle"
    BY <1>7 DEF Restore, At
  <2>3. faults' \in Nat
    BY <1>3, <1>7 DEF Restore
  <2> QED BY <1>1, <2>1, <2>2, <2>3 DEF Ranges
<1>8. CASE \E out : Write("worker", job, out)
  <2>1. UNCHANGED <<checkpoint, scene, edits, restarts>>
    BY <1>8 DEF Write, blender
  <2>2. faults' \in Nat
    BY <1>3, <1>8 DEF Write
  <2> QED BY <1>1, <2>1, <2>2 DEF Ranges
<1>9. CASE MarkerWrites \/ WorkerWrites
  BY <1>8, <1>9 DEF MarkerWrites, WorkerWrites
<1>10. CASE \/ Receive \/ StartJob \/ SkipBlender \/ TakeLane \/ LaneTimesOut \/ StartWork
            \/ NextFrame \/ FramesBreakOff \/ MarkerCopies \/ NoteRestored \/ RunBreaksOff
            \/ FinishAfterBlender \/ EncodeVideo \/ CompleteJob \/ MarkCancelled \/ FailJob
            \/ WorkerCopies \/ Release
  <2>1. UNCHANGED <<checkpoint, scene, edits, faults, restarts>>
    BY <1>10 DEF Receive, StartJob, SkipBlender, TakeLane, LaneTimesOut, StartWork, NextFrame,
       FramesBreakOff, MarkerCopies, NoteRestored, RunBreaksOff, FinishAfterBlender,
       EncodeVideo, CompleteJob, MarkCancelled, FailJob, WorkerCopies, Release, blender, bounds
  <2> QED BY <1>2, <2>1
<1> QED BY <1>4, <1>5, <1>6, <1>7, <1>9, <1>10 DEF Worker

\* The parts of the type invariant that the other parts do not give.
LEMMA TypeParts ==
  ASSUME MemoryOK', mem' \in [Jobs -> Record \cup {None}], record' \in [Jobs -> Record],
         queue' \in Seq(Jobs), token' \in [Jobs -> Token],
         lock' \in {"free", "worker"} \cup Clients, image' \in Record \cup {None},
         blocked' \in BOOLEAN, fence' \in BOOLEAN, lane' \in {"free", "worker", "user"},
         worker' \in [pc : WorkerPc, job : Jobs \cup {None}, outcome : Outcome],
         client' \in [Clients -> [pc : ClientPc, job : Jobs \cup {None}]], Ranges'
  PROVE  TypeOK'
<1>1. \A j \in Jobs : mem'[j].done <= Total(j)
  BY DEF MemoryOK, Kept, Sound
<1> QED BY <1>1 DEF TypeOK, Ranges

\* The steps with the job in hand that leave the lock alone.
LEMMA QuietStep ==
  ASSUME IInv, Worker, Carries, UNCHANGED <<lock, image, record>>,
         worker.pc \notin WorkerSaving \cup {"marker"},
         worker.pc = "restored" => mem'[job] = Restored(mem[job])
  PROVE  IInv'
<1>1. MemoryOK' /\ WorkerOK' /\ ScheduleOK' /\ TokenOK'
  BY CarriesOn
<1>2. /\ lock # "worker" /\ client' = client /\ UNCHANGED <<queue, token, blocked>>
      /\ lane' \in {"free", "worker", "user"}
      /\ worker' \in [pc : WorkerPc, job : Jobs \cup {None}, outcome : Outcome]
  BY DEF Carries, IInv, LockOK
<1>3. LockOK'
  BY <1>2 DEF IInv, LockOK
<1>4. PICK r \in Record : Puts(job, r) /\ Follows(mem[job], r)
  BY DEF Carries, Advances
<1>5. \A j \in Jobs : mem'[j] \in Record /\ Follows(mem[j], mem'[j])
  BY <1>4, Records, FollowsItself DEF Puts
<1>6. ImageOK' /\ DiskOK'
  BY <1>2, <1>5, SavingStays
<1>7. fence' \in BOOLEAN
  BY DEF Carries, Fenced, IInv, TypeOK
<1>8. TypeOK'
  <2>1. mem' \in [Jobs -> Record \cup {None}]
    BY <1>4 DEF Puts
  <2> QED BY <1>1, <1>2, <1>7, <2>1, WorkerRanges, TypeParts DEF IInv, TypeOK
<1> QED BY <1>1, <1>3, <1>6, <1>8 DEF IInv

\* The steps at which the worker holds the lock, or takes it.
LEMMA SavingStep ==
  ASSUME IInv, Worker, MarkerCopies \/ WorkerCopies \/ MarkerWrites \/ WorkerWrites
  PROVE  IInv'
<1>1. Carries
  BY CopyStep, MarkerStep, WriteStep
<1>2. MemoryOK' /\ WorkerOK' /\ ScheduleOK' /\ TokenOK'
  BY <1>1, CarriesOn
<1>3. /\ client' = client /\ UNCHANGED <<queue, token, blocked>>
      /\ lane' \in {"free", "worker", "user"} /\ worker'.job = job
      /\ worker' \in [pc : WorkerPc, job : Jobs \cup {None}, outcome : Outcome]
  BY <1>1 DEF Carries
<1>4. mem' \in [Jobs -> Record \cup {None}] /\ fence' \in BOOLEAN
  BY <1>1 DEF Carries, Advances, Puts, Fenced, IInv, TypeOK
<1>5. CASE MarkerCopies \/ WorkerCopies
  <2>1. ImageOK' /\ DiskOK' /\ LockOK' /\ lock' = "worker" /\ image' \in Record
    BY <1>5, WorkerCopyTaken
  <2>2. record' = record
    BY <1>5 DEF MarkerCopies, WorkerCopies
  <2>3. TypeOK'
    BY <1>2, <1>3, <1>4, <2>1, <2>2, WorkerRanges, TypeParts DEF IInv, TypeOK
  <2> QED BY <1>2, <2>1, <2>3 DEF IInv
<1>6. CASE MarkerWrites \/ WorkerWrites
  <2>1. PICK out : Write("worker", job, out)
    BY <1>6 DEF MarkerWrites, WorkerWrites
  <2>2. lock = "worker" /\ Subject = job
    BY <2>1, Owner DEF Write
  <2>3. /\ worker'.outcome = worker.outcome
        /\ worker.pc # "restored"
        /\ worker.pc = "marker" => worker'.pc \in {"marker", "restored"}
    <3>1. CASE MarkerWrites
      <4>1. PICK p \in {"marker", "restored"} : GoTo(p) /\ worker.pc = "marker"
        BY <3>1 DEF MarkerWrites, At
      <4>2. worker' = [pc |-> p, job |-> job, outcome |-> worker.outcome]
        BY <4>1, WorkerFields DEF GoTo, IInv, TypeOK, job
      <4> QED BY <4>1, <4>2
    <3>2. CASE WorkerWrites
      <4>1. PICK p : GoTo(p) /\ worker.pc \in WorkerSaving
        BY <3>2 DEF WorkerWrites
      <4>2. worker' = [pc |-> p, job |-> job, outcome |-> worker.outcome]
        BY <4>1, WorkerFields DEF GoTo, IInv, TypeOK, job
      <4> QED BY <4>1, <4>2 DEF WorkerSaving
    <3> QED BY <1>6, <3>1, <3>2
  <2>4. /\ ImageOK' /\ DiskOK' /\ record' \in [Jobs -> Record]
        /\ lock' = "free" /\ image' = None
    BY <1>3, <2>1, <2>2, <2>3, WriteEnds
  <2>5. LockOK'
    BY <1>3, <2>2, <2>4, Apart DEF IInv, LockOK
  <2>6. TypeOK'
    BY <1>2, <1>3, <1>4, <2>4, WorkerRanges, TypeParts DEF IInv, TypeOK
  <2> QED BY <1>2, <2>4, <2>5, <2>6 DEF IInv
<1> QED BY <1>5, <1>6

\* The worker takes a job, or lets it go.
LEMMA HandStep ==
  ASSUME IInv, Worker, Receive \/ Release
  PROVE  IInv'
<1>1. /\ MemoryOK' /\ WorkerOK' /\ ScheduleOK' /\ TokenOK'
      /\ worker' \in [pc : WorkerPc, job : Jobs \cup {None}, outcome : Outcome]
      /\ token' \in [Jobs -> Token] /\ queue' \in Seq(Jobs)
  <2>1. Receive => UNCHANGED token
    BY DEF Receive
  <2>2. Release => UNCHANGED queue
    BY DEF Release
  <2> QED BY <2>1, <2>2, ReceiveStep, ReleaseStep DEF IInv, TypeOK
<1>2. /\ worker.pc \in {"idle", "release"}
      /\ UNCHANGED <<mem, blocked, lock, image, fence, lane, client, record>>
  BY DEF Receive, Release, At, saving
<1>3. lock # "worker"
  BY <1>2 DEF IInv, LockOK, WorkerSaving
<1>4. LockOK'
  BY <1>2, <1>3 DEF IInv, LockOK
<1>5. ImageOK' /\ DiskOK'
  BY <1>2, <1>3, Records, FollowsItself, SavingStays
<1>6. TypeOK'
  BY <1>1, <1>2, WorkerRanges, TypeParts DEF IInv, TypeOK
<1> QED BY <1>1, <1>4, <1>5, <1>6 DEF IInv

LEMMA WorkerStep ==
  ASSUME IInv, Worker
  PROVE  IInv'
<1>1. CASE Receive \/ Release
  BY <1>1, HandStep
<1>2. CASE MarkerCopies \/ WorkerCopies \/ MarkerWrites \/ WorkerWrites
  BY <1>2, SavingStep
<1>3. CASE NoteRestored
  <2>1. /\ worker.pc = "restored" /\ UNCHANGED <<lock, image, record>>
        /\ mem'[job] = Restored(mem[job])
    <3>1. At("restored") /\ mem' = [mem EXCEPT ![job] = Restored(mem[job])]
          /\ UNCHANGED <<lock, image, record>>
      BY <1>3 DEF NoteRestored, saving
    <3> QED BY <3>1, Here DEF At, IInv, TypeOK
  <2> QED BY <1>3, <2>1, NoteStep, QuietStep DEF WorkerSaving
<1>4. CASE \/ StartJob \/ SkipBlender \/ TakeLane \/ LaneTimesOut \/ Capture \/ StartWork
           \/ LoadSource \/ NextFrame \/ RenderFrame \/ FramesBreakOff \/ Restore
           \/ RunBreaksOff \/ FinishAfterBlender \/ EncodeVideo
           \/ CompleteJob \/ MarkCancelled \/ FailJob
  <2>1. Carries
    BY <1>4, StartStep, PlainStep, CaptureStep, WorkStep, BlenderStep, RestoreStep, EndStep
  <2>2. /\ UNCHANGED <<lock, image, record>>
        /\ worker.pc \notin WorkerSaving \cup {"marker", "restored"}
    BY <1>4 DEF StartJob, SkipBlender, TakeLane, LaneTimesOut, Capture, StartWork, LoadSource,
       NextFrame, RenderFrame, FramesBreakOff, Restore, RunBreaksOff, FinishAfterBlender,
       EncodeVideo, CompleteJob, MarkCancelled, FailJob, At, saving, WorkerSaving
  <2> QED BY <2>1, <2>2, QuietStep
<1> QED BY <1>1, <1>2, <1>3, <1>4 DEF Worker

-----------------------------------------------------------------------------
(* The steps of the users and of the clients.                               *)

LEMMA UserStep ==
  ASSUME IInv, EnterLane \/ Command
  PROVE  IInv'
<1>1. /\ UNCHANGED <<registry, saving, fence, worker, client, record, checkpoint, bounds>>
      /\ lane \in {"free", "user"} /\ lane' \in {"free", "user"}
  BY DEF EnterLane, Command, blender
<1>2. /\ UNCHANGED <<mem, queue, token, blocked, lock, image, fence, worker, client, record,
                     checkpoint, faults, restarts, job>>
  BY <1>1 DEF registry, saving, bounds, job
<1>3. MemoryOK' /\ WorkerOK' /\ TokenOK' /\ LockOK'
  BY <1>2 DEF IInv, MemoryOK, WorkerOK, TokenOK, LockOK
<1>4. ScheduleOK'
  BY <1>1, <1>2 DEF IInv, ScheduleOK
<1>5. ImageOK' /\ DiskOK'
  BY <1>2, Records, FollowsItself, SavingStays
<1>6. Ranges'
  <2>1. /\ \/ edits' = edits + 1 /\ scene' = edits'
           \/ UNCHANGED <<edits, scene>>
    BY DEF EnterLane, Command, blender
  <2>2. edits \in Nat
    BY DEF IInv, TypeOK
  <2>3. edits' \in Nat /\ scene' \in Nat \cup {None}
    BY <2>1, <2>2 DEF IInv, TypeOK
  <2> QED BY <1>2, <2>3 DEF IInv, TypeOK, Ranges
<1>7. TypeOK'
  BY <1>1, <1>2, <1>3, <1>6, TypeParts DEF IInv, TypeOK
<1> QED BY <1>3, <1>4, <1>5, <1>7 DEF IInv

\* A client's request to cancel changes the job so.
LEMMA CancelRecord ==
  ASSUME IInv, NEW c \in Clients, NEW j \in Jobs, Cancel(c, j)
  PROVE  LET m    == mem[j]
             ends == mem[j].state = "queued" /\ ~MustRestore(mem[j]) IN
         /\ queue' = IF ends THEN Only(queue, Jobs \ {j}) ELSE queue
         /\ \E r \in Record :
              /\ mem' = [mem EXCEPT ![j] = r]
              /\ r.captured = m.captured /\ r.restored = m.restored
              /\ r.pending = m.pending /\ r.done = m.done /\ r.failed = m.failed
              /\ m.cancel => r.cancel
              /\ r.cancel \/ r.state \in Terminal
              /\ r.state = IF ends THEN "cancelled" ELSE m.state
<1> DEFINE m    == mem[j]
           ends == mem[j].state = "queued" /\ ~MustRestore(mem[j])
<1>1. m \in Record /\ mem \in [Jobs -> Record \cup {None}]
  BY Records DEF IInv, TypeOK
<1>2. /\ queue' = IF ends THEN Only(queue, Jobs \ {j}) ELSE queue
      /\ mem' = IF ~IsActive(j) THEN mem
                ELSE [mem EXCEPT ![j].cancel = TRUE,
                                 ![j].state = IF ends THEN "cancelled" ELSE @]
  BY DEF Cancel
<1>3. CASE ~IsActive(j)
  <2>1. m.state \in Terminal
    BY <1>1, <1>3, RecordFields DEF IsActive
  <2>2. mem' = [mem EXCEPT ![j] = m]
    BY <1>1, <1>2, <1>3
  <2>3. ~ends
    BY <2>1 DEF Terminal
  <2> QED BY <1>1, <1>2, <2>1, <2>2, <2>3
<1>4. CASE IsActive(j)
  <2> DEFINE s == IF ends THEN "cancelled" ELSE m.state
             r == [m EXCEPT !.cancel = TRUE, !.state = s]
  <2>1. mem' = [mem EXCEPT ![j] = r]
    <3>1. mem' = [mem EXCEPT ![j] = [[m EXCEPT !.cancel = TRUE] EXCEPT !.state = s]]
      <4>1. [m EXCEPT !.cancel = TRUE].state = m.state
        BY <1>1 DEF Record
      <4> QED BY <1>1, <1>2, <1>4, <4>1
    <3> QED BY <3>1
  <2>2. s \in JobState
    BY <1>1, RecordFields DEF JobState, Terminal
  <2> HIDE DEF s
  <2>3. r \in Record
    BY <1>1, <2>2 DEF Record
  <2>4. /\ r.captured = m.captured /\ r.restored = m.restored
        /\ r.pending = m.pending /\ r.done = m.done /\ r.failed = m.failed
        /\ r.cancel /\ r.state = s
    BY <1>1 DEF Record
  <2> HIDE DEF r
  <2> QED BY <1>2, <2>1, <2>3, <2>4 DEF s
<1> QED BY <1>3, <1>4

LEMMA CancelStep ==
  ASSUME IInv, NEW c \in Clients, NEW j \in Jobs, Cancel(c, j)
  PROVE  IInv'
<1> DEFINE m    == mem[j]
           ends == mem[j].state = "queued" /\ ~MustRestore(mem[j])
<1>1. /\ UNCHANGED <<token, blocked, lock, image, fence, lane, worker, record, checkpoint,
                     scene, edits, faults, restarts, job>>
      /\ client[c].pc = "idle"
      /\ client' = [client EXCEPT ![c] = [pc |-> "token", job |-> j]]
  BY DEF Cancel, saving, blender, bounds, job
<1>2. queue' = IF ends THEN Only(queue, Jobs \ {j}) ELSE queue
  BY CancelRecord
<1>3. PICK r \in Record :
        /\ mem' = [mem EXCEPT ![j] = r]
        /\ r.captured = m.captured /\ r.restored = m.restored
        /\ r.pending = m.pending /\ r.done = m.done /\ r.failed = m.failed
        /\ m.cancel => r.cancel
        /\ r.cancel \/ r.state \in Terminal
        /\ r.state = IF ends THEN "cancelled" ELSE m.state
  BY CancelRecord
<1>4. /\ mem' \in [Jobs -> Record \cup {None}] /\ mem'[j] = r
      /\ \A i \in Jobs : i # j => mem'[i] = mem[i]
      /\ m \in Record /\ m # None /\ r # None /\ Kept(j, m)
  BY <1>3, Records, RecordFields DEF IInv, TypeOK, MemoryOK
<1>5. Kept(j, r) /\ Follows(m, r) /\ (MustRestore(r) <=> MustRestore(m))
  BY <1>3, <1>4, RecordFields DEF Kept, Follows, Sound, MustRestore, Terminal
<1> HIDE DEF m, ends
<1>6. MemoryOK'
  BY <1>4, <1>5 DEF IInv, MemoryOK
<1>7. m.state \in Terminal => r.state \in Terminal
  BY <1>3 DEF ends, Terminal, m
<1>8. r.state = "running" <=> m.state = "running"
  BY <1>3 DEF ends, m
<1>9. WorkerOK'
  <2>1. worker.pc # "idle" => Fits(worker, mem'[job])
    <3>1. CASE job = j
      <4>1. worker.pc # "idle" => Fits(worker, m)
        BY <3>1 DEF IInv, WorkerOK, m
      <4>2. worker.pc # "idle" => Fits(worker, r)
        BY <1>3, <1>5, <1>7, <1>8, <4>1 DEF Fits
      <4> QED BY <1>4, <3>1, <4>2
    <3>2. CASE job # j
      <4>1. worker.pc # "idle" => mem'[job] = mem[job]
        BY <1>4, <3>2, Here
      <4> QED BY <4>1 DEF IInv, WorkerOK
    <3> QED BY <3>1, <3>2
  <2>2. \A i \in Jobs : mem'[i].state = "running" => mem[i].state = "running"
    BY <1>4, <1>8 DEF m
  <2> QED BY <1>1, <2>1, <2>2 DEF IInv, WorkerOK
<1>10. /\ queue' \in Seq(Jobs)
       /\ \A i \in Jobs : (\E k \in DOMAIN queue : queue[k] = i) /\ (ends => i # j) =>
                            \E k \in DOMAIN queue' : queue'[k] = i
  <2>1. queue \in Seq(Jobs)
    BY DEF IInv, TypeOK
  <2>2. CASE ends
    <3> DEFINE q == Only(queue, Jobs \ {j})
    <3>1. /\ q \in Seq(Jobs)
          /\ \A k \in DOMAIN queue : queue[k] \in Jobs \ {j} =>
               \E i \in DOMAIN q : q[i] = queue[k]
      BY <2>1, OnlyKeeps
    <3>2. queue' = q
      BY <1>2, <2>2
    <3> HIDE DEF q
    <3> QED BY <2>2, <3>1, <3>2
  <2>3. CASE ~ends
    BY <1>2, <2>1, <2>3
  <2> QED BY <2>2, <2>3
<1>11. ScheduleOK'
  <2>1. ASSUME NEW i \in Jobs, MustRestore(mem'[i])
        PROVE  /\ job = i \/ \E k \in DOMAIN queue' : queue'[k] = i
               /\ fence \/ (job = i /\ worker.pc = "captured")
    <3>1. MustRestore(mem[i])
      BY <1>4, <1>5, <2>1 DEF m
    <3>2. ends => i # j
      BY <3>1 DEF ends
    <3>3. /\ job = i \/ \E k \in DOMAIN queue : queue[k] = i
          /\ fence \/ (job = i /\ worker.pc = "captured")
      BY <3>1 DEF IInv, ScheduleOK
    <3> QED BY <1>10, <3>2, <3>3
  <2> QED BY <1>1, <2>1 DEF IInv, ScheduleOK
<1>12. \A i \in Jobs : mem[i].cancel \/ mem[i].state \in Terminal =>
                         mem'[i].cancel \/ mem'[i].state \in Terminal
  BY <1>3, <1>4
<1>13. client \in [Clients -> [pc : ClientPc, job : Jobs \cup {None}]]
  BY DEF IInv, TypeOK
<1>14. /\ client' \in [Clients -> [pc : ClientPc, job : Jobs \cup {None}]]
       /\ client'[c].pc = "token" /\ client'[c].job = j
       /\ \A d \in Clients : d # c => client'[d] = client[d]
  BY <1>1, <1>13 DEF ClientPc
<1>15. TokenOK'
  <2>1. \A i \in Jobs : token'[i] = "cancelled" => mem'[i].cancel \/ mem'[i].state \in Terminal
    BY <1>1, <1>12 DEF IInv, TokenOK
  <2>2. ASSUME NEW d \in Clients, client'[d].pc = "token"
        PROVE  mem'[client'[d].job].cancel \/ mem'[client'[d].job].state \in Terminal
    <3>1. CASE d = c
      BY <1>3, <1>4, <1>14, <3>1
    <3>2. CASE d # c
      <4>1. client'[d] = client[d] /\ client[d].job \in Jobs
        BY <1>14, <2>2, <3>2 DEF IInv, LockOK
      <4> QED BY <1>12, <2>2, <4>1 DEF IInv, TokenOK
    <3> QED BY <3>1, <3>2
  <2> QED BY <2>1, <2>2 DEF TokenOK
<1>16. lock # c
  BY <1>1 DEF IInv, LockOK
<1>17. LockOK'
  BY <1>1, <1>14, <1>16 DEF IInv, LockOK
<1>18. ImageOK' /\ DiskOK'
  <2>1. \A i \in Jobs : mem'[i] \in Record /\ Follows(mem[i], mem'[i])
    BY <1>4, <1>5, Records, FollowsItself DEF m
  <2>2. \A d \in Clients : lock = d => client'[d] = client[d]
    BY <1>14, <1>16
  <2> QED BY <1>1, <2>1, <2>2, SavingStays
<1>19. TypeOK'
  BY <1>1, <1>4, <1>6, <1>10, <1>14, TypeParts DEF IInv, TypeOK, Ranges
<1> QED BY <1>6, <1>9, <1>11, <1>15, <1>17, <1>18, <1>19 DEF IInv

\* The rest of a client's request: it tells the worker, takes a copy and writes
\* it, or is dropped.
LEMMA RequestStep ==
  ASSUME IInv, NEW c \in Clients,
         CancelToken(c) \/ CancelCopies(c) \/ CancelWrites(c) \/ CancelEnds(c)
  PROVE  IInv'
<1> DEFINE j == client[c].job
<1>1. /\ UNCHANGED <<mem, queue, blocked, fence, lane, worker, checkpoint,
                     scene, edits, restarts, job>>
      /\ client[c].pc # "idle"
      /\ \E p \in ClientPc, i \in Jobs \cup {None} :
           /\ client' = [client EXCEPT ![c] = [pc |-> p, job |-> i]]
           /\ p # "token"
           /\ p # "idle" => i = j
           /\ p = "saving" <=> CancelCopies(c)
  <2>1. client \in [Clients -> [pc : ClientPc, job : Jobs \cup {None}]]
    BY DEF IInv, TypeOK
  <2>2. ASSUME NEW p, ClientTo(c, p)
        PROVE  client' = [client EXCEPT ![c] = [pc |-> p, job |-> j]]
    <3>1. [client[c] EXCEPT !.pc = p] = [pc |-> p, job |-> j]
      BY <2>1
    <3> QED BY <2>2, <3>1 DEF ClientTo
  <2>3. j \in Jobs \cup {None}
    BY <2>1
  <2>4. CASE CancelToken(c)
    <3>1. client[c].pc = "token" /\ client' = [client EXCEPT ![c] = [pc |-> "save", job |-> j]]
      BY <2>2, <2>4 DEF CancelToken
    <3> QED BY <2>3, <2>4, <3>1
            DEF CancelToken, CancelCopies, blender, bounds, ClientPc, job
  <2>5. CASE CancelCopies(c)
    <3>1. client[c].pc = "save" /\ client' = [client EXCEPT ![c] = [pc |-> "saving", job |-> j]]
      BY <2>2, <2>5 DEF CancelCopies
    <3> QED BY <2>3, <2>5, <3>1 DEF CancelCopies, registry, blender, bounds, ClientPc, job
  <2>6. CASE CancelWrites(c) \/ CancelEnds(c)
    <3>1. client' = [client EXCEPT ![c] = [pc |-> "idle", job |-> None]]
          /\ client[c].pc # "idle"
      BY <2>6 DEF CancelWrites, CancelEnds, IdleClient
    <3>2. UNCHANGED <<mem, queue, blocked, fence, lane, worker, checkpoint,
                      scene, edits, restarts, job>>
      BY <2>6 DEF CancelWrites, CancelEnds, Write, registry, blender, bounds, job
    <3>3. ~CancelCopies(c)
      <4>1. client'[c].pc = "idle"
        BY <2>1, <3>1
      <4>2. CancelCopies(c) => client'[c].pc = "saving"
        BY <2>1, <2>2 DEF CancelCopies
      <4> QED BY <4>1, <4>2
    <3> QED BY <3>1, <3>2, <3>3 DEF ClientPc
  <2> QED BY <2>4, <2>5, <2>6
<1>2. PICK p \in ClientPc, i \in Jobs \cup {None} :
        /\ client' = [client EXCEPT ![c] = [pc |-> p, job |-> i]]
        /\ p # "token"
        /\ p # "idle" => i = j
        /\ p = "saving" <=> CancelCopies(c)
  BY <1>1
<1>3. /\ client' \in [Clients -> [pc : ClientPc, job : Jobs \cup {None}]]
      /\ client'[c].pc = p /\ client'[c].job = i
      /\ \A d \in Clients : d # c => client'[d] = client[d]
  BY <1>2 DEF IInv, TypeOK
<1>4. j \in Jobs
  BY <1>1 DEF IInv, LockOK
<1>5. MemoryOK' /\ WorkerOK' /\ ScheduleOK'
  BY <1>1 DEF IInv, MemoryOK, WorkerOK, ScheduleOK
<1>6. /\ token' \in [Jobs -> Token]
      /\ \A k \in Jobs : token'[k] = "cancelled" =>
                           token[k] = "cancelled" \/ (k = j /\ client[c].pc = "token")
  <2>1. token \in [Jobs -> Token]
    BY DEF IInv, TypeOK
  <2>2. CASE CancelToken(c)
    <3>1. client[c].pc = "token"
          /\ token' = [token EXCEPT ![j] = IF @ = "live" THEN "cancelled" ELSE @]
      BY <2>2 DEF CancelToken
    <3> QED BY <1>4, <2>1, <3>1 DEF Token
  <2>3. CASE CancelCopies(c) \/ CancelWrites(c) \/ CancelEnds(c)
    <3>1. token' = token
      BY <2>3 DEF CancelCopies, CancelWrites, CancelEnds, Write, registry
    <3> QED BY <2>1, <3>1
  <2> QED BY <2>2, <2>3
<1>7. TokenOK'
  <2>1. \A k \in Jobs : token'[k] = "cancelled" => mem[k].cancel \/ mem[k].state \in Terminal
    BY <1>6 DEF IInv, TokenOK
  <2>2. \A d \in Clients : client'[d].pc = "token" => d # c /\ client'[d] = client[d]
    BY <1>2, <1>3
  <2>3. \A d \in Clients : client'[d].pc = "token" =>
          mem[client'[d].job].cancel \/ mem[client'[d].job].state \in Terminal
    BY <2>2 DEF IInv, TokenOK
  <2> QED BY <1>1, <2>1, <2>3 DEF TokenOK
<1>8. CASE CancelToken(c) \/ CancelEnds(c)
  <2>1. UNCHANGED <<lock, image, record, faults>> /\ client[c].pc # "saving"
    BY <1>8 DEF CancelToken, CancelEnds, saving, bounds
  <2>2. p # "saving" /\ lock # c
    <3>1. lock # c
      BY <2>1 DEF IInv, LockOK
    <3>2. ~CancelCopies(c)
      <4>1. CASE CancelToken(c)
        BY <4>1 DEF CancelToken, CancelCopies
      <4>2. CASE CancelEnds(c)
        <5>1. client'[c].pc = "idle"
          BY <4>2 DEF CancelEnds, IdleClient, IInv, TypeOK
        <5>2. CancelCopies(c) => client'[c].pc = "saving"
          BY DEF CancelCopies, ClientTo, IInv, TypeOK
        <5> QED BY <5>1, <5>2
      <4> QED BY <1>8, <4>1, <4>2
    <3> QED BY <1>2, <3>1, <3>2
  <2>3. LockOK'
    BY <1>1, <1>2, <1>3, <1>4, <2>1, <2>2 DEF IInv, LockOK
  <2>4. ImageOK' /\ DiskOK'
    <3>1. \A d \in Clients : lock = d => client'[d] = client[d]
      BY <1>3, <2>2
    <3> QED BY <1>1, <2>1, <3>1, Records, FollowsItself, SavingStays
  <2>5. TypeOK'
    BY <1>1, <1>3, <1>5, <1>6, <2>1, TypeParts DEF IInv, TypeOK, Ranges
  <2> QED BY <1>5, <1>7, <2>3, <2>4, <2>5 DEF IInv
<1>9. CASE CancelCopies(c)
  <2>1. /\ lock = "free" /\ lock' = c /\ image' = mem[j] /\ UNCHANGED <<record, faults>>
    BY <1>9 DEF CancelCopies, Copy, bounds
  <2>2. LockOK'
    BY <1>1, <1>2, <1>3, <1>4, <1>9, <2>1, Apart DEF IInv, LockOK
  <2>3. Subject' = j /\ lock' # "worker" /\ lock' # "free"
    BY <1>2, <1>3, <1>9, <2>1, Apart DEF Subject
  <2>4. /\ mem[j] \in Record /\ record[j] \in Record /\ Sound(j, mem[j]) /\ mem[j] # None
        /\ Follows(record[j], mem[j]) \/ record[j].pending = "none"
    BY <1>4, Records DEF IInv, MemoryOK, Kept, DiskOK, Ahead
  <2>5. ImageOK'
    BY <1>1, <2>1, <2>3, <2>4, FollowsItself DEF ImageOK
  <2>6. DiskOK'
    <3>1. \A k \in Jobs : Ahead(record[k]) => Ahead(record[k])'
      BY <1>1, <2>1 DEF Ahead
    <3> QED BY <1>1, <2>1, <3>1 DEF IInv, DiskOK
  <2>7. TypeOK'
    BY <1>1, <1>3, <1>5, <1>6, <2>1, <2>4, TypeParts DEF IInv, TypeOK, Ranges
  <2> QED BY <1>5, <1>7, <2>2, <2>5, <2>6, <2>7 DEF IInv
<1>10. CASE CancelWrites(c)
  <2>1. PICK out \in WriteOutcome : Write(c, j, out)
    BY <1>10 DEF CancelWrites
  <2>2. lock = c /\ lock # "worker" /\ lock # "free" /\ Subject = j
    BY <2>1, Apart DEF Write, Subject
  <2>3. /\ ImageOK' /\ DiskOK' /\ record' \in [Jobs -> Record]
        /\ lock' = "free" /\ image' = None
    <3>1. worker'.job = job
      BY <1>1 DEF job
    <3> QED BY <1>1, <2>1, <2>2, <3>1, WriteEnds
  <2>4. LockOK'
    <3>1. p # "saving"
      <4>1. client'[c].pc = "idle"
        BY <1>10 DEF CancelWrites, IdleClient, IInv, TypeOK
      <4> QED BY <1>3, <4>1
    <3> QED BY <1>1, <1>2, <1>3, <1>4, <2>2, <2>3, <3>1, Apart DEF IInv, LockOK
  <2>5. Ranges'
    <3>1. faults' \in Nat
      BY <2>1 DEF Write, Attempt, IInv, TypeOK
    <3> QED BY <1>1, <3>1 DEF IInv, TypeOK, Ranges
  <2>6. TypeOK'
    BY <1>1, <1>3, <1>5, <1>6, <2>3, <2>5, TypeParts DEF IInv, TypeOK
  <2> QED BY <1>5, <1>7, <2>3, <2>4, <2>6 DEF IInv
<1> QED BY <1>8, <1>9, <1>10

-----------------------------------------------------------------------------
(* A restart.                                                               *)

\* What the restart makes of a record.
LEMMA RecoveredRecord ==
  ASSUME IInv, NEW j \in Jobs
  PROVE  LET a == record[j]
             b == Recovered(record[j]) IN
         /\ b \in Record /\ a \in Record
         /\ b.captured = a.captured /\ b.restored = a.restored /\ b.pending = a.pending
         /\ b.done = a.done /\ b.cancel = a.cancel /\ b.failed = a.failed
         /\ b.state # "running"
         /\ MustRestore(a) => b.state = "queued"
<1> DEFINE a == record[j]
           s == IF a.cancel /\ ~MustRestore(a) THEN "cancelled" ELSE "queued"
<1>1. a \in Record
  BY Records
<1>2. CASE a.state = "running" \/ MustRestore(a)
  <2>1. Recovered(record[j]) = [a EXCEPT !.state = s]
    BY <1>2 DEF Recovered
  <2>2. s \in JobState /\ s # "running" /\ (MustRestore(a) => s = "queued")
    BY DEF JobState, Terminal
  <2> HIDE DEF s
  <2>3. [a EXCEPT !.state = s] \in Record
    BY <1>1, <2>2 DEF Record
  <2>4. LET b == [a EXCEPT !.state = s] IN
        /\ b.captured = a.captured /\ b.restored = a.restored /\ b.pending = a.pending
        /\ b.done = a.done /\ b.cancel = a.cancel /\ b.failed = a.failed /\ b.state = s
    BY <1>1 DEF Record
  <2> QED BY <1>1, <2>1, <2>2, <2>3, <2>4
<1>3. CASE ~(a.state = "running" \/ MustRestore(a))
  BY <1>1, <1>3 DEF Recovered
<1> QED BY <1>2, <1>3

\* No record is refused.
LEMMA AllKnown ==
  ASSUME IInv
  PROVE  Known = Jobs /\ Required = {j \in Jobs : MustRestore(record[j])}
<1>1. ASSUME NEW j \in Jobs
      PROVE  Valid(j)
  <2>1. Sound(j, record[j]) /\ record[j] # None
    BY Records, RecordFields DEF IInv, DiskOK
  <2> QED BY <2>1 DEF Valid, Sound, MustRestore
<1> QED BY <1>1 DEF Known, Required

\* The jobs that must restore the session are taken, and none is left out.
LEMMA RequiredTaken ==
  ASSUME IInv, NEW depth \in Nat
  PROVE  /\ Taken(depth) \in Seq(Jobs)
         /\ \A j \in Required : \E i \in DOMAIN Taken(depth) : Taken(depth)[i] = j
         /\ Required # {} => Taken(depth) # <<>> /\ Head(Taken(depth)) \in Required
         /\ Dropped(depth) \cap Required = {}
<1> DEFINE R == Only(Order, Required)
           O == Only(Order, Ordinary)
           I == {i \in DOMAIN Waiting : Waiting[i] \in Required}
<1>1. Order \in Seq(Jobs) /\ \A j \in Jobs : \E i \in DOMAIN Order : Order[i] = j
  BY OrderAssumption DEF Jobs
<1>2. /\ R \in Seq(Jobs) /\ \A i \in DOMAIN R : R[i] \in Required
      /\ \A j \in Required : \E i \in DOMAIN R : R[i] = j
  <2>1. /\ R \in Seq(Jobs) /\ \A i \in DOMAIN R : R[i] \in Required
        /\ \A k \in DOMAIN Order : Order[k] \in Required => \E i \in DOMAIN R : R[i] = Order[k]
    BY <1>1, OnlyKeeps
  <2>2. Required \subseteq Jobs
    BY DEF Required, Known
  <2> HIDE DEF R
  <2> QED BY <1>1, <2>1, <2>2
<1>3. O \in Seq(Jobs) /\ \A i \in DOMAIN O : O[i] \in Ordinary
  BY <1>1, OnlyKeeps
<1>4. Waiting = R \o O
  BY DEF Waiting
<1> HIDE DEF R, O
<1>5. /\ Waiting \in Seq(Jobs) /\ Len(Waiting) = Len(R) + Len(O)
      /\ Len(R) \in Nat /\ Len(O) \in Nat
      /\ DOMAIN R = 1 .. Len(R) /\ DOMAIN O = 1 .. Len(O) /\ DOMAIN Waiting = 1 .. Len(Waiting)
      /\ \A i \in 1 .. Len(R) : Waiting[i] = R[i]
      /\ \A i \in 1 .. Len(Waiting) : i > Len(R) => Waiting[i] = O[i - Len(R)]
  BY <1>2, <1>3, <1>4
<1>6. /\ Cardinality(I) \in Nat /\ Len(R) <= Cardinality(I)
  <2>1. 1 .. Len(R) \subseteq I /\ I \subseteq 1 .. Len(Waiting)
    BY <1>2, <1>5
  <2>2. IsFiniteSet(1 .. Len(Waiting))
    BY <1>5, FS_Interval
  <2> HIDE DEF I
  <2>3. IsFiniteSet(I)
    BY <2>1, <2>2, FS_Subset
  <2>4. Cardinality(1 .. Len(R)) <= Cardinality(I) /\ Cardinality(I) \in Nat
    BY <2>1, <2>3, FS_Subset, FS_CardinalityType
  <2>5. Cardinality(1 .. Len(R)) = Len(R)
    <3>1. 1 \in Int /\ Len(R) \in Int
      BY <1>5
    <3>2. Cardinality(1 .. Len(R)) = IF 1 > Len(R) THEN 0 ELSE Len(R) - 1 + 1
      BY <3>1, FS_Interval
    <3> QED BY <1>5, <3>2
  <2> QED BY <2>4, <2>5
<1>7. Capacity(depth) = IF depth < Cardinality(I) THEN Cardinality(I) ELSE depth
  BY DEF Capacity
<1> HIDE DEF I
<1>8. Capacity(depth) \in Nat /\ Len(R) <= Capacity(depth)
  BY <1>5, <1>6, <1>7
<1> DEFINE n == IF Len(Waiting) < Capacity(depth) THEN Len(Waiting) ELSE Capacity(depth)
<1>9. n \in 0 .. Len(Waiting) /\ Len(R) <= n
  BY <1>5, <1>8
<1>10. Taken(depth) = SubSeq(Waiting, 1, n)
  BY DEF Taken
<1> HIDE DEF n
<1>11. /\ Taken(depth) \in Seq(Jobs) /\ DOMAIN Taken(depth) = 1 .. n
       /\ \A i \in 1 .. n : Taken(depth)[i] = Waiting[i]
  BY <1>5, <1>9, <1>10
<1>12. ASSUME NEW j \in Required
       PROVE  \E i \in DOMAIN Taken(depth) : Taken(depth)[i] = j
  <2>1. PICK i \in 1 .. Len(R) : R[i] = j
    BY <1>2, <1>5
  <2>2. i \in 1 .. n
    BY <1>5, <1>9
  <2> QED BY <1>5, <1>11, <2>1, <2>2
<1>13. ASSUME Required # {}
       PROVE  Taken(depth) # <<>> /\ Head(Taken(depth)) \in Required
  <2>1. Len(R) # 0
    BY <1>2, <1>5, <1>13
  <2>2. 1 \in 1 .. Len(R) /\ 1 \in 1 .. n
    BY <1>5, <1>9, <2>1
  <2>3. Taken(depth)[1] \in Required
    BY <1>2, <1>5, <1>11, <2>2
  <2> DEFINE t == Taken(depth)
  <2> HIDE DEF t
  <2>4. t \in Seq(Jobs) /\ 1 \in DOMAIN t
    BY <1>11, <2>2 DEF t
  <2>5. t # <<>>
    BY <2>4
  <2>6. Head(t) = t[1]
    BY <2>4, <2>5
  <2> QED BY <2>3, <2>5, <2>6 DEF t
<1>14. ASSUME NEW k \in DOMAIN Waiting, k > Capacity(depth)
       PROVE  Waiting[k] \notin Required
  <2>1. k > Len(R) /\ k - Len(R) \in 1 .. Len(O)
    BY <1>5, <1>8, <1>14
  <2>2. Waiting[k] \in Ordinary
    BY <1>3, <1>5, <2>1
  <2> QED BY <2>2 DEF Ordinary
<1>15. Dropped(depth) \cap Required = {}
  BY <1>14 DEF Dropped
<1> QED BY <1>11, <1>12, <1>13, <1>15

\* What the restart has in memory.
LEMMA BootedRecord ==
  ASSUME IInv, NEW depth \in Nat, NEW j \in Jobs
  PROVE  LET a == record[j]
             b == Booted(depth)[j] IN
         /\ b \in Record
         /\ b.captured = a.captured /\ b.restored = a.restored /\ b.pending = a.pending
         /\ b.done = a.done /\ b.cancel = a.cancel /\ (a.failed => b.failed)
         /\ b.state # "running"
         /\ MustRestore(a) => b.state = "queued"
<1> DEFINE a == record[j]
           c == Recovered(record[j])
           d == [Recovered(record[j]) EXCEPT !.state = "failed", !.failed = TRUE]
<1>1. /\ c \in Record /\ a \in Record
      /\ c.captured = a.captured /\ c.restored = a.restored /\ c.pending = a.pending
      /\ c.done = a.done /\ c.cancel = a.cancel /\ c.failed = a.failed
      /\ c.state # "running"
      /\ MustRestore(a) => c.state = "queued"
  BY RecoveredRecord
<1>2. Booted(depth)[j] = IF j \in Dropped(depth) THEN d ELSE c
  BY AllKnown DEF Booted
<1>3. j \in Dropped(depth) => ~MustRestore(a)
  BY AllKnown, RequiredTaken
<1>4. CASE j \in Dropped(depth)
  <2> HIDE DEF c
  <2>1. d \in Record /\ d.state = "failed"
    <3> USE DEF c
    <3> QED BY <1>1 DEF Record, JobState, Terminal
  <2>2. /\ d.captured = c.captured /\ d.restored = c.restored /\ d.pending = c.pending
        /\ d.done = c.done /\ d.cancel = c.cancel /\ d.failed
    <3> USE DEF c
    <3> QED BY <1>1 DEF Record
  <2> QED BY <1>1, <1>2, <1>3, <1>4, <2>1, <2>2
<1>5. CASE j \notin Dropped(depth)
  BY <1>1, <1>2, <1>5
<1> QED BY <1>4, <1>5

\* What the restart leaves of the records, and how the memory stands to them.
LEMMA Rewritten ==
  ASSUME IInv, Restart, NEW j \in Jobs
  PROVE  /\ record'[j].pending = record[j].pending /\ record'[j].restored = record[j].restored
         /\ MustRestore(record[j]) => MustRestore(record'[j])
         /\ mem'[j].restored = record[j].restored
         /\ MustRestore(mem'[j]) => MustRestore(record[j])
<1>1. PICK depth \in 1 .. QueueDepth :
        /\ mem' = Booted(depth)
        /\ \E requeued \in SUBSET {k \in Known : Recovered(record[k]) # record[k]},
              failed \in SUBSET Dropped(depth) :
             record' = [k \in Jobs |-> IF k \in failed THEN Booted(depth)[k]
                                       ELSE IF k \in requeued THEN Recovered(record[k])
                                       ELSE record[k]]
  BY DEF Restart
<1>2. record'[j] \in {record[j], Recovered(record[j]), Booted(depth)[j]} /\ depth \in Nat
  BY <1>1, Apart
<1>3. LET a == record[j]
          b == record'[j]
          d == mem'[j] IN
      /\ a \in Record /\ b \in Record
      /\ b.captured = a.captured /\ b.restored = a.restored /\ b.pending = a.pending
      /\ d.captured = a.captured /\ d.restored = a.restored
  BY <1>1, <1>2, RecoveredRecord, BootedRecord
<1> QED BY <1>3, RecordFields DEF MustRestore

LEMMA RestartStep ==
  ASSUME IInv, Restart
  PROVE  IInv'
<1>1. PICK depth \in 1 .. QueueDepth :
        /\ mem' = Booted(depth)
        /\ queue' = IF blocked' THEN <<>> ELSE Taken(depth)
        /\ token' = [j \in Jobs |->
             IF \A i \in DOMAIN Taken(depth) : Taken(depth)[i] # j THEN "absent"
             ELSE IF record[j].cancel THEN "cancelled" ELSE "live"]
        /\ \E requeued \in SUBSET {j \in Known : Recovered(record[j]) # record[j]},
              failed \in SUBSET Dropped(depth) :
             record' = [j \in Jobs |-> IF j \in failed THEN Booted(depth)[j]
                                       ELSE IF j \in requeued THEN Recovered(record[j])
                                       ELSE record[j]]
  BY DEF Restart
<1>2. /\ blocked' = FALSE /\ fence' = Fenced(mem', blocked')
      /\ lock' = "free" /\ image' = None /\ lane' = "free"
      /\ worker' = IdleWorker /\ client' = [c \in Clients |-> IdleClient]
      /\ UNCHANGED <<checkpoint, scene, edits, faults>> /\ restarts' = restarts + 1
  BY AllKnown DEF Restart, blender
<1>3. depth \in Nat
  BY Apart
<1>4. \A j \in Jobs : LET a == record[j]
                          b == mem'[j] IN
        /\ a \in Record /\ b \in Record /\ b # None
        /\ b.captured = a.captured /\ b.restored = a.restored /\ b.pending = a.pending
        /\ b.done = a.done /\ b.cancel = a.cancel /\ (a.failed => b.failed)
        /\ b.state # "running"
        /\ MustRestore(a) => b.state = "queued"
  BY <1>1, <1>3, BootedRecord, Records, RecordFields
<1>5. mem' \in [Jobs -> Record \cup {None}]
  <2>1. mem' = [j \in Jobs |-> mem'[j]]
    BY <1>1 DEF Booted
  <2> QED BY <1>4, <2>1
<1>6. \A j \in Jobs : MustRestore(mem'[j]) => MustRestore(record[j])
  BY <1>4, RecordFields DEF MustRestore
<1>7. \A j \in Jobs : Sound(j, record[j])
  BY DEF IInv, DiskOK
<1>8. MemoryOK'
  <2>1. ASSUME NEW j \in Jobs
        PROVE  Kept(j, mem'[j])
    <3>1. Sound(j, mem'[j])
      BY <1>4, <1>7 DEF Sound
    <3> QED BY <1>4, <1>6, <3>1 DEF Kept, Terminal
  <2> QED BY <2>1 DEF MemoryOK
<1>9. worker'.pc = "idle" /\ job' = None
  BY <1>2 DEF job, IdleWorker
<1>10. WorkerOK'
  BY <1>4, <1>9 DEF WorkerOK
<1>11. /\ Taken(depth) \in Seq(Jobs) /\ queue' = Taken(depth)
       /\ \A j \in Jobs : MustRestore(record[j]) => \E i \in DOMAIN queue' : queue'[i] = j
  BY <1>1, <1>2, <1>3, AllKnown, RequiredTaken
<1>12. ScheduleOK'
  <2>1. \A j \in Jobs : MustRestore(mem'[j]) => fence'
    <3>1. (\E j \in Jobs : MustRestore(mem'[j])) => Fenced(mem', blocked')
      BY DEF Fenced
    <3> QED BY <1>2, <3>1
  <2> QED BY <1>2, <1>6, <1>9, <1>11, <2>1 DEF ScheduleOK, InLane, Open
<1>13. token' \in [Jobs -> Token] /\ \A j \in Jobs : token'[j] = "cancelled" => record[j].cancel
  BY <1>1 DEF Token
<1>14. \A c \in Clients : client'[c].pc = "idle" /\ client'[c].job = None
  BY <1>2 DEF IdleClient
<1>15. TokenOK'
  BY <1>4, <1>13, <1>14 DEF TokenOK
<1>16. LockOK'
  BY <1>2, <1>14, Apart DEF LockOK
<1>17. ImageOK'
  BY <1>2 DEF ImageOK
<1>18. \A j \in Jobs : /\ record'[j] \in Record /\ Sound(j, record'[j])
                       /\ Follows(record'[j], mem'[j])
  <2>1. ASSUME NEW j \in Jobs
        PROVE  /\ record'[j] \in Record /\ Sound(j, record'[j])
               /\ Follows(record'[j], mem'[j])
    <3>1. record'[j] \in {record[j], Recovered(record[j]), mem'[j]}
      BY <1>1
    <3>2. /\ record'[j] \in Record
          /\ record'[j].captured = record[j].captured
          /\ record'[j].restored = record[j].restored
          /\ record'[j].pending = record[j].pending
          /\ record'[j].done = record[j].done /\ record'[j].cancel = record[j].cancel
          /\ record[j].failed => record'[j].failed
          /\ record'[j].failed => mem'[j].failed
      BY <1>4, <3>1, RecoveredRecord
    <3>3. Sound(j, record'[j])
      BY <1>7, <3>2 DEF Sound
    <3>4. Follows(record'[j], mem'[j])
      BY <1>4, <3>2 DEF Follows
    <3> QED BY <3>2, <3>3, <3>4
  <2> QED BY <2>1
<1>19. DiskOK'
  BY <1>18 DEF DiskOK
<1>20. record' \in [Jobs -> Record]
  <2>1. record' = [j \in Jobs |-> record'[j]]
    BY <1>1
  <2> QED BY <1>18, <2>1
<1>21. fence' \in BOOLEAN
  BY <1>2 DEF Fenced
<1>22. Ranges'
  BY <1>2 DEF IInv, TypeOK, Ranges
<1>23. /\ worker' \in [pc : WorkerPc, job : Jobs \cup {None}, outcome : Outcome]
       /\ client' \in [Clients -> [pc : ClientPc, job : Jobs \cup {None}]]
  BY <1>2 DEF IdleWorker, IdleClient, WorkerPc, Outcome, ClientPc
<1>24. TypeOK'
  BY <1>2, <1>5, <1>8, <1>11, <1>13, <1>20, <1>21, <1>22, <1>23, TypeParts
<1> QED BY <1>8, <1>10, <1>12, <1>15, <1>16, <1>17, <1>19, <1>24 DEF IInv

-----------------------------------------------------------------------------
(* The theorems.                                                            *)

LEMMA Beginning ==
  ASSUME Init
  PROVE  IInv
<1>1. NewRecord \in Record
  BY DEF NewRecord, Record, JobState, Outcome
<1>2. /\ NewRecord.state = "queued" /\ ~NewRecord.captured /\ ~NewRecord.restored
      /\ NewRecord.pending = "none" /\ NewRecord.done = 0 /\ ~NewRecord.cancel
      /\ ~NewRecord.failed
  BY DEF NewRecord
<1>3. /\ \A j \in Jobs : mem[j] = NewRecord /\ record[j] = NewRecord
      /\ mem \in [Jobs -> Record] /\ record \in [Jobs -> Record]
  BY <1>1 DEF Init
<1>4. \A j \in Jobs : Sound(j, NewRecord) /\ Total(j) \in Nat
  BY <1>2, TotalType DEF Sound
<1>5. NewRecord # None /\ ~MustRestore(NewRecord)
  BY <1>1, <1>2, RecordFields DEF MustRestore
<1>6. worker.pc = "idle" /\ job = None /\ ~blocked /\ lock = "free"
      /\ \A c \in Clients : client[c].pc = "idle" /\ client[c].job = None
  BY DEF Init, IdleWorker, IdleClient, job
<1>7. MemoryOK
  BY <1>3, <1>4, <1>5 DEF MemoryOK, Kept
<1>8. WorkerOK
  BY <1>2, <1>3, <1>6 DEF WorkerOK
<1>9. ScheduleOK
  BY <1>3, <1>5, <1>6 DEF ScheduleOK, InLane, Open
<1>10. TokenOK
  BY <1>6 DEF TokenOK, Init
<1>11. LockOK /\ ImageOK
  BY <1>6, Apart DEF LockOK, ImageOK
<1>12. DiskOK
  BY <1>1, <1>3, <1>4, FollowsItself DEF DiskOK
<1>13. TypeOK
  <2>1. \A j \in Jobs : mem[j].done <= Total(j)
    BY <1>2, <1>3, <1>4
  <2>2. worker \in [pc : WorkerPc, job : Jobs \cup {None}, outcome : Outcome]
        /\ client \in [Clients -> [pc : ClientPc, job : Jobs \cup {None}]]
    BY DEF Init, IdleWorker, IdleClient, WorkerPc, Outcome, ClientPc
  <2>3. token \in [Jobs -> Token] /\ queue \in Seq(Jobs)
    BY OrderAssumption DEF Init, Token
  <2> QED BY <1>3, <2>1, <2>2, <2>3 DEF TypeOK, Init
<1> QED BY <1>7, <1>8, <1>9, <1>10, <1>11, <1>12, <1>13 DEF IInv

LEMMA Step ==
  ASSUME IInv, [Next]_vars
  PROVE  IInv'
<1>1. CASE UNCHANGED vars
  <2>1. UNCHANGED <<mem, queue, token, blocked, lock, image, fence, lane, worker, client,
                    record, checkpoint, scene, edits, faults, restarts>>
    BY <1>1 DEF vars, registry, saving, blender, bounds
  <2> QED BY <2>1 DEF IInv, TypeOK, MemoryOK, WorkerOK, ScheduleOK, TokenOK, LockOK, ImageOK,
          DiskOK, Subject, Ahead, job, IsActive
<1>2. CASE Worker
  BY <1>2, WorkerStep
<1>3. CASE EnterLane \/ Command
  BY <1>3, UserStep
<1>4. CASE \E c \in Clients : Client(c)
  BY <1>4, CancelStep, RequestStep DEF Client
<1>5. CASE Restart
  BY <1>5, RestartStep
<1> QED BY <1>1, <1>2, <1>3, <1>4, <1>5 DEF Next

\* The invariant holds of every behaviour: it is what keeps the session, the
\* fence, the outcome and the records together (jobs.rs:1318-4460).
THEOREM Invariance == Spec => []IInv
<1>1. Init => IInv
  BY Beginning
<1>2. IInv /\ [Next]_vars => IInv'
  BY Step
<1> QED BY <1>1, <1>2, PTL DEF Spec

\* The variables range over what the code can hold, and no job counts more
\* frames than it has.
THEOREM TypeCorrect == Spec => []TypeOK
<1>1. IInv => TypeOK
  BY DEF IInv
<1> QED BY <1>1, Invariance, PTL

\* A session that must be restored is not forgotten: its job does not end, is in
\* the queue or in the worker's hands whatever the queue depth, and the fence is
\* up as soon as the lane is free.
THEOREM RecoveryScheduled == Spec => []RecoveryIsScheduled
<1>1. ASSUME IInv
      PROVE  RecoveryIsScheduled
  <2>1. ASSUME NEW j \in Jobs, MustRestore(mem[j])
        PROVE  /\ IsActive(j)
               /\ worker.job = j \/ \E i \in DOMAIN queue : queue[i] = j
               /\ fence \/ lane = "worker"
    <3>1. IsActive(j)
      BY <1>1, <2>1 DEF IInv, MemoryOK, Kept, IsActive
    <3>2. /\ job = j \/ \E i \in DOMAIN queue : queue[i] = j
          /\ fence \/ worker.pc = "captured"
      BY <1>1, <2>1 DEF IInv, ScheduleOK
    <3>3. worker.pc = "captured" => lane = "worker"
      BY <1>1 DEF IInv, ScheduleOK, InLane, Open
    <3> QED BY <3>1, <3>2, <3>3 DEF job
  <2> QED BY <2>1 DEF RecoveryIsScheduled
<1> QED BY <1>1, Invariance, PTL

\* No record is written that a restart would refuse: a restart finds every job.
THEOREM ReadableRecords == Spec => []RecordsReadable
<1>1. ASSUME IInv
      PROVE  RecordsReadable
  <2>1. ASSUME NEW j \in Jobs
        PROVE  Valid(j)
    <3>1. Sound(j, record[j]) /\ record[j] # None
      BY <1>1, Records, RecordFields DEF IInv, DiskOK
    <3> QED BY <3>1 DEF Valid, Sound, MustRestore
  <2> QED BY <2>1 DEF RecordsReadable
<1> QED BY <1>1, Invariance, PTL

\* Blender's work ends once: a job whose outcome or restore is on disk does not
\* load its source or render again.
THEOREM WorkDoneOnce == Spec => []WorksOnce
<1>1. ASSUME IInv
      PROVE  WorksOnce
  <2>1. ASSUME worker.pc \in {"load", "render"}
        PROVE  record[job].pending = "none" /\ ~record[job].restored
    <3>1. worker.pc \in Open /\ worker.pc \in Captured /\ worker.pc # "idle"
          /\ worker.pc \notin {"marker", "restored"}
      BY <2>1 DEF Open, Captured
    <3>2. job \in Jobs /\ mem[job].pending = "none" /\ MustRestore(mem[job])
      BY <1>1, <3>1, Here DEF Fits
    <3>3. Follows(record[job], mem[job])
      BY <1>1, <3>1, <3>2 DEF IInv, DiskOK
    <3> QED BY <3>2, <3>3 DEF Follows, MustRestore
  <2> QED BY <2>1 DEF WorksOnce, At
<1> QED BY <1>1, Invariance, PTL

\* The outcome that was recorded is the one that takes effect: it stays until the
\* restore is recorded, and a failure with it.
THEOREM OutcomesKept == Spec => OutcomeIsKept
<1> DEFINE Stays(j) ==
             record[j].pending # "none" /\ record'[j].pending # record[j].pending =>
               /\ record'[j].restored
               /\ record[j].pending = "failed" => record'[j].failed
<1>1. ASSUME IInv, NEW out, NEW who, NEW i, Write(who, i, out), who = lock, i = Subject,
             lock # "free", NEW j \in Jobs
      PROVE  Stays(j)
  <2>1. record' = record \/ record' = [record EXCEPT ![Subject] = image]
    BY <1>1 DEF Write
  <2>2. Subject \in Jobs /\ record \in [Jobs -> Record]
    BY <1>1, Owner DEF IInv, TypeOK
  <2>3. record'[j] = record[j] \/ (j = Subject /\ record'[j] = image)
    BY <2>1, <2>2
  <2>4. record[Subject].pending # "none" => Follows(record[Subject], image)
    BY <1>1 DEF IInv, ImageOK
  <2> QED BY <2>3, <2>4 DEF Follows
<1>2. ASSUME IInv, Restart, NEW j \in Jobs
      PROVE  record'[j].pending = record[j].pending
  BY <1>2, Rewritten
<1>3. ASSUME IInv, Worker, NEW j \in Jobs
      PROVE  Stays(j)
  <2>1. CASE MarkerWrites \/ WorkerWrites
    <3>1. PICK out : Write("worker", job, out)
      BY <2>1 DEF MarkerWrites, WorkerWrites
    <3>2. lock = "worker" /\ lock # "free" /\ Subject = job
      BY <1>3, <3>1, Owner DEF Write
    <3> HIDE DEF Stays
    <3> QED BY <1>1, <1>3, <3>1, <3>2
  <2>2. CASE \/ Receive \/ StartJob \/ SkipBlender \/ TakeLane \/ LaneTimesOut
             \/ Capture \/ StartWork \/ LoadSource \/ NextFrame \/ RenderFrame
             \/ FramesBreakOff \/ Restore \/ MarkerCopies
             \/ NoteRestored \/ RunBreaksOff \/ FinishAfterBlender \/ EncodeVideo
             \/ CompleteJob \/ MarkCancelled \/ FailJob \/ WorkerCopies \/ Release
    <3>1. record' = record
      BY <2>2 DEF Receive, StartJob, SkipBlender, TakeLane, LaneTimesOut, Capture, StartWork,
         LoadSource, NextFrame, RenderFrame, FramesBreakOff, Restore, MarkerCopies,
         NoteRestored, RunBreaksOff, FinishAfterBlender, EncodeVideo, CompleteJob,
         MarkCancelled, FailJob, WorkerCopies, Release
    <3> QED BY <3>1
  <2> QED BY <1>3, <2>1, <2>2 DEF Worker
<1>4. ASSUME IInv, NEW c \in Clients, Client(c), NEW j \in Jobs
      PROVE  Stays(j)
  <2>1. CASE CancelWrites(c)
    <3>1. PICK out : Write(c, client[c].job, out)
      BY <2>1 DEF CancelWrites
    <3>2. lock = c /\ lock # "free" /\ Subject = client[c].job
      BY <3>1, Apart DEF Write, Subject
    <3> HIDE DEF Stays
    <3> QED BY <1>1, <1>4, <3>1, <3>2
  <2>2. CASE (\E i \in Jobs : Cancel(c, i)) \/ CancelToken(c) \/ CancelCopies(c) \/ CancelEnds(c)
    <3>1. record' = record
      BY <2>2 DEF Cancel, CancelToken, CancelCopies, CancelEnds
    <3> QED BY <3>1
  <2> QED BY <1>4, <2>1, <2>2 DEF Client
<1>5. ASSUME IInv, [Next]_vars, NEW j \in Jobs
      PROVE  Stays(j)
  <2>1. CASE UNCHANGED vars
    BY <2>1 DEF vars
  <2>2. CASE EnterLane \/ Command
    BY <2>2 DEF EnterLane, Command
  <2> HIDE DEF Stays
  <2>3. CASE Worker
    BY <1>3, <1>5, <2>3
  <2>4. CASE \E c \in Clients : Client(c)
    BY <1>4, <1>5, <2>4
  <2>5. CASE Restart
    BY <1>2, <1>5, <2>5 DEF Stays
  <2> QED BY <1>5, <2>1, <2>2, <2>3, <2>4, <2>5 DEF Next
<1>6. IInv /\ [Next]_vars => [\A j \in Jobs : Stays(j)]_vars
  BY <1>5
<1>7. Spec => [][\A j \in Jobs : Stays(j)]_vars
  BY <1>6, Invariance, PTL DEF Spec
<1> QED BY <1>7 DEF OutcomeIsKept

-----------------------------------------------------------------------------
(* The live scene.                                                          *)

\* No client takes a copy of the worker's job after the marker is written and
\* before the memory knows of it.
CopiesInTime ==
  \A c \in Clients : CancelCopies(c) => ~(At("restored") /\ client[c].job = job)

\* What is on the disk, or about to be: a restore that the memory knows of, and
\* the captured session of a job whose source may be loaded.
WrittenOK ==
  /\ \A j \in Jobs : mem[j].restored => record[j].restored
  /\ At("restored") => record[job].restored
  /\ lock # "free" =>
       /\ record[Subject].captured => image.captured
       /\ mem[Subject].restored => image.restored
       /\ At("restored") => Subject # job
  /\ lock = "worker" => /\ At("load_phase") => image.captured
                        /\ At("marker") => image.restored

\* The job that must restore the session is the worker's, or the next one, and
\* has the users' last edit.
FirstOK ==
  \A j \in Jobs : MustRestore(mem[j]) =>
    /\ checkpoint[j] = edits /\ lane # "user"
    /\ job = j \/ (At("idle") /\ queue # <<>> /\ Head(queue) = j)

SceneOK ==
  /\ SessionIsRecoverable
  /\ At("load") => MustRestore(record[job])
  /\ worker.pc \in {"marker", "restored"} => scene = edits

SInv == WrittenOK /\ FirstOK /\ SceneOK

\* The first element is kept in its place.
LEMMA OnlyHead ==
  ASSUME NEW U, NEW s \in Seq(U), NEW S, s # <<>>, s[1] \in S
  PROVE  Only(s, S) # <<>> /\ Only(s, S)[1] = s[1]
<1>1. Len(s) \in Nat /\ Len(s) # 0 /\ DOMAIN s = 1 .. Len(s) /\ \A k \in 1 .. Len(s) : s[k] \in U
  OBVIOUS
<1>2. PICK g : Only(s, S) = g[Len(s)] /\ g = [i \in 0 .. Len(s) |-> Pick(s, S, g, i)]
  BY <1>1, OnlySolves
<1> DEFINE Fine(n) == /\ g[n] \in Seq(U)
                      /\ n # 0 => Len(g[n]) # 0 /\ g[n][1] = s[1]
           G == {n \in 0 .. Len(s) : Fine(n)}
<1>3. 0 \in G
  <2>1. g[0] = <<>>
    BY <1>1, <1>2 DEF Pick
  <2>2. Fine(0)
    BY <2>1
  <2> QED BY <1>1, <2>2
<1>4. ASSUME NEW n \in 1 .. Len(s), n - 1 \in G
      PROVE  n \in G
  <2> DEFINE q == g[n - 1]
  <2>1. g[n] = IF s[n] \in S THEN Append(q, s[n]) ELSE q
    <3>1. n \in 0 .. Len(s) /\ n # 0
      BY <1>1
    <3>2. g[n] = Pick(s, S, g, n)
      BY <1>2, <3>1
    <3> QED BY <3>1, <3>2 DEF Pick
  <2>2. q \in Seq(U) /\ s[n] \in U /\ (n # 1 => Len(q) # 0 /\ q[1] = s[1])
    BY <1>1, <1>4
  <2>3. n = 1 => q = <<>>
    BY <1>1, <1>2 DEF Pick
  <2> HIDE DEF q
  <2>4. ASSUME n = 1 PROVE Fine(n)
    <3>1. g[n] = <<s[1]>>
      BY <2>1, <2>3, <2>4
    <3>2. Len(g[n]) = 1 /\ g[n][1] = s[1] /\ g[n] \in Seq(U)
      BY <2>2, <2>4, <3>1
    <3> QED BY <3>2
  <2>5. ASSUME n # 1 PROVE Fine(n)
    <3>1. Len(q) \in Nat /\ Len(q) # 0 /\ q[1] = s[1]
      BY <2>2, <2>5
    <3>2. /\ Append(q, s[n]) \in Seq(U) /\ Len(Append(q, s[n])) = Len(q) + 1
          /\ Append(q, s[n])[1] = s[1]
      BY <2>2, <3>1
    <3>3. Len(Append(q, s[n])) # 0
      BY <3>1, <3>2
    <3>4. g[n] = Append(q, s[n]) \/ g[n] = q
      BY <2>1
    <3> QED BY <2>2, <3>1, <3>2, <3>3, <3>4
  <2>6. Fine(n)
    BY <2>4, <2>5
  <2> QED BY <1>1, <2>6
<1>5. Fine(Len(s))
  <2>1. 0 .. Len(s) \subseteq G
    <3> HIDE DEF G
    <3> QED BY <1>1, <1>3, <1>4, Upwards
  <2> QED BY <1>1, <2>1
<1> QED BY <1>1, <1>2, <1>5

\* A record that asks for a restore is not ahead of the memory.
LEMMA OnDisk ==
  ASSUME IInv, WrittenOK, NEW j \in Jobs, MustRestore(record[j])
  PROVE  MustRestore(mem[j])
<1>1. record[j].captured /\ ~record[j].restored /\ mem[j] # None
  BY Records, RecordFields DEF MustRestore
<1>2. Follows(record[j], mem[j])
  BY <1>1 DEF IInv, DiskOK, Ahead
<1> QED BY <1>1, <1>2 DEF Follows, MustRestore, WrittenOK

\* While no job must restore the session, the scene is the users'.
LEMMA OwnScene ==
  ASSUME IInv, SInv, \A j \in Jobs : ~MustRestore(mem[j])
  PROVE  scene = edits
BY OnDisk DEF SInv, SceneOK, SessionIsRecoverable

\* One job at most must restore the session.
LEMMA OnlyOne ==
  ASSUME IInv, FirstOK, NEW i \in Jobs, NEW j \in Jobs, MustRestore(mem[i]), MustRestore(mem[j])
  PROVE  i = j
<1>1. At("idle") => job = None
  BY DEF IInv, WorkerOK, At
<1> QED BY <1>1, Apart DEF FirstOK

\* Nothing is written, and no restore is noted but the worker's.
LEMMA WrittenStays ==
  ASSUME IInv, WrittenOK, UNCHANGED <<lock, image, record>>,
         \A j \in Jobs : mem'[j].restored =>
                           mem[j].restored \/ (j = job /\ worker.pc = "restored"),
         lock = "worker" => worker' = worker,
         \A c \in Clients : lock = c => client'[c] = client[c],
         worker'.pc = "restored" => worker' = worker
  PROVE  WrittenOK'
<1>1. lock # "free" => Subject \in Jobs /\ Subject' = Subject
  BY Owner DEF Subject, job
<1>2. \A j \in Jobs : mem'[j].restored => record'[j].restored
  BY DEF WrittenOK, At
<1>3. At("restored")' => record'[job'].restored
  BY DEF WrittenOK, At, job
<1>4. ASSUME lock # "free"
      PROVE  /\ record'[Subject'].captured => image'.captured
             /\ mem'[Subject'].restored => image'.restored
             /\ At("restored")' => Subject' # job'
  <2>1. worker.pc = "restored" => Subject # job
    BY <1>4 DEF WrittenOK, At
  <2>2. worker'.pc = "restored" => worker.pc = "restored" /\ job' = job
    BY DEF job
  <2> QED BY <1>1, <1>4, <2>1, <2>2 DEF WrittenOK, At
<1>5. lock' = "worker" => /\ At("load_phase")' => image'.captured
                          /\ At("marker")' => image'.restored
  BY DEF WrittenOK, At
<1> QED BY <1>2, <1>3, <1>4, <1>5 DEF WrittenOK

\* The worker goes on with its job, the session wherever it was or put back.
LEMMA SceneStays ==
  ASSUME IInv, SInv, WrittenOK', UNCHANGED <<record, checkpoint, edits>>,
         worker.pc # "idle", worker'.pc # "idle", job' = job,
         \A j \in Jobs : MustRestore(mem'[j]) => MustRestore(mem[j]),
         lane' = "user" => lane = "user",
         scene' \in {scene, edits} \/ worker.pc = "load",
         worker'.pc # "load",
         worker'.pc \in {"marker", "restored"} => scene' = edits
  PROVE  SInv'
<1>1. FirstOK'
  <2>1. ASSUME NEW j \in Jobs, MustRestore(mem'[j])
        PROVE  checkpoint'[j] = edits' /\ lane' # "user" /\ job' = j
    BY <2>1 DEF SInv, FirstOK, At
  <2> QED BY <2>1 DEF FirstOK
<1>2. SessionIsRecoverable'
  <2>1. CASE worker.pc = "load"
    <3>1. job \in Jobs /\ MustRestore(record[job]) /\ MustRestore(mem[job])
      BY <2>1, Here, OnDisk DEF SInv, SceneOK, At
    <3>2. checkpoint[job] = edits
      BY <3>1 DEF SInv, FirstOK
    <3> QED BY <3>1, <3>2 DEF SessionIsRecoverable
  <2>2. CASE scene' \in {scene, edits}
    BY <2>2 DEF SInv, SceneOK, SessionIsRecoverable
  <2> QED BY <2>1, <2>2
<1>3. SceneOK'
  BY <1>2 DEF SceneOK, At
<1> QED BY <1>1, <1>3 DEF SInv

\* The steps at which the worker neither takes nor ends a job, nor saves it.
Inner == \/ StartJob \/ SkipBlender \/ TakeLane \/ LaneTimesOut \/ Capture \/ StartWork
         \/ LoadSource \/ NextFrame \/ RenderFrame \/ FramesBreakOff \/ Restore
         \/ NoteRestored \/ RunBreaksOff \/ FinishAfterBlender \/ EncodeVideo
         \/ CompleteJob \/ MarkCancelled \/ FailJob

LEMMA InnerCarries ==
  ASSUME IInv, Inner
  PROVE  /\ Carries /\ UNCHANGED <<lock, image, record>>
         /\ worker.pc \notin WorkerSaving \cup {"marker"}
<1>1. Carries
  BY StartStep, PlainStep, CaptureStep, WorkStep, BlenderStep, RestoreStep, EndStep, NoteStep
     DEF Inner
<1>2. /\ UNCHANGED <<lock, image, record>>
      /\ worker.pc \notin WorkerSaving \cup {"marker"}
  BY DEF Inner, StartJob, SkipBlender, TakeLane, LaneTimesOut, Capture, StartWork, LoadSource,
     NextFrame, RenderFrame, FramesBreakOff, Restore, NoteRestored, RunBreaksOff,
     FinishAfterBlender, EncodeVideo, CompleteJob, MarkCancelled, FailJob, At, saving,
     WorkerSaving
<1> QED BY <1>1, <1>2

\* Where they lead.
LEMMA InnerPlaces ==
  ASSUME IInv, Inner
  PROVE  /\ worker'.pc \notin {"load", "restored"}
         /\ worker'.pc = "marker" => Restore
         /\ worker'.pc = "captured" => Capture
<1>1. worker.pc # "idle" /\ worker \in [pc : WorkerPc, job : Jobs \cup {None}, outcome : Outcome]
  BY InnerCarries DEF Carries, IInv, TypeOK
<1>2. ASSUME NEW p, GoTo(p)
      PROVE  worker'.pc = p
  BY <1>1, <1>2 DEF GoTo
<1>3. ASSUME NEW o, Outcomes(o)
      PROVE  worker'.pc = "pending"
  BY <1>1, <1>3 DEF Outcomes
<1>4. ASSUME RunFails
      PROVE  worker'.pc \in {"note", "fail"}
  BY <1>2, <1>4 DEF RunFails
<1>5. CASE StartJob \/ SkipBlender \/ TakeLane \/ LaneTimesOut
  <2>1. worker'.pc \in {"start", "release", "finish", "work", "capture_phase", "restore",
                        "note", "fail"}
    BY <1>2, <1>4, <1>5 DEF StartJob, SkipBlender, TakeLane, LaneTimesOut
  <2> QED BY <2>1
<1>6. CASE LoadSource \/ NextFrame \/ RenderFrame \/ FramesBreakOff \/ RunBreaksOff
  <2>1. worker'.pc \in {"frames", "pending", "frame_phase", "progress", "note", "fail"}
    BY <1>2, <1>3, <1>4, <1>6 DEF LoadSource, NextFrame, RenderFrame, FramesBreakOff, RunBreaksOff
  <2> QED BY <2>1
<1>7. CASE StartWork
  <2>1. worker' = [worker EXCEPT !.pc = "restore", !.outcome = mem[job].pending]
          => worker'.pc = "restore"
    BY <1>1
  <2>2. worker'.pc \in {"restore", "pending", "load_phase"}
    BY <1>2, <1>3, <1>7, <2>1 DEF StartWork
  <2> QED BY <2>2
<1>8. CASE Capture
  <2>1. worker'.pc \in {"captured", "note", "fail"}
    BY <1>2, <1>4, <1>8 DEF Capture
  <2> QED BY <1>8, <2>1
<1>9. CASE Restore
  <2>1. worker'.pc \in {"marker", "note", "fail"}
    BY <1>2, <1>4, <1>9 DEF Restore
  <2> QED BY <1>9, <2>1
<1>10. CASE NoteRestored \/ FinishAfterBlender \/ EncodeVideo \/ CompleteJob \/ MarkCancelled \/ FailJob
  <2>1. worker'.pc \in {"fail", "cancel", "finish", "complete", "encode_phase", "settle", "release"}
    BY <1>2, <1>10
       DEF NoteRestored, FinishAfterBlender, EncodeVideo, CompleteJob, MarkCancelled, FailJob
  <2> QED BY <2>1
<1> QED BY <1>5, <1>6, <1>7, <1>8, <1>9, <1>10 DEF Inner

\* They take no restore back, and note none but the worker's.
LEMMA InnerRestores ==
  ASSUME IInv, Inner, NEW j \in Jobs, mem'[j].restored
  PROVE  mem[j].restored \/ (j = job /\ worker.pc = "restored")
<1>1. /\ job \in Jobs /\ mem \in [Jobs -> Record \cup {None}] /\ mem[job] \in Record
      /\ mem[j] \in Record
  BY InnerCarries, Here, Records DEF Carries, IInv, TypeOK
<1>2. ASSUME NEW o, Outcomes(o)
      PROVE  mem'[j].restored = mem[j].restored
  BY <1>1, <1>2 DEF Outcomes, Record
<1>3. ASSUME RunFails
      PROVE  mem'[j].restored = mem[j].restored
  BY <1>1, <1>3 DEF RunFails, Record
<1>4. CASE UNCHANGED mem
  BY <1>4
<1>5. CASE StartJob \/ SkipBlender \/ TakeLane \/ LaneTimesOut \/ StartWork
           \/ LoadSource \/ NextFrame \/ FramesBreakOff \/ Restore \/ RunBreaksOff
           \/ FinishAfterBlender \/ EncodeVideo
  <2>1. CASE StartJob
    <3>1. UNCHANGED mem \/ mem' = [mem EXCEPT ![job].state = "running"]
      BY <2>1 DEF StartJob
    <3> QED BY <1>1, <3>1 DEF Record
  <2>2. CASE SkipBlender \/ TakeLane \/ FinishAfterBlender \/ EncodeVideo
    <3>1. UNCHANGED mem
      BY <2>2 DEF SkipBlender, TakeLane, FinishAfterBlender, EncodeVideo, registry
    <3> QED BY <3>1
  <2>3. CASE LaneTimesOut \/ RunBreaksOff \/ Restore
    <3>1. RunFails \/ UNCHANGED mem
      BY <2>3 DEF LaneTimesOut, RunBreaksOff, Restore
    <3> QED BY <1>3, <3>1
  <2>4. CASE StartWork \/ LoadSource \/ NextFrame \/ FramesBreakOff
    <3>1. UNCHANGED mem \/ \E o : Outcomes(o)
      BY <2>4 DEF StartWork, LoadSource, NextFrame, FramesBreakOff
    <3> QED BY <1>2, <3>1
  <2> QED BY <1>5, <2>1, <2>2, <2>3, <2>4
<1>6. CASE Capture
  <2>1. RunFails \/ mem' = [mem EXCEPT ![job].captured = TRUE, ![job].restored = FALSE]
    BY <1>6 DEF Capture
  <2>2. CASE mem' = [mem EXCEPT ![job].captured = TRUE, ![job].restored = FALSE]
    <3>1. j = job => ~mem'[j].restored
      BY <1>1, <2>2 DEF Record
    <3> QED BY <1>1, <2>2, <3>1
  <2> QED BY <1>3, <2>1, <2>2
<1>7. CASE RenderFrame
  <2>1. (\E o : Outcomes(o)) \/ mem' = [mem EXCEPT ![job].done = @ + 1]
    BY <1>7 DEF RenderFrame
  <2>2. CASE mem' = [mem EXCEPT ![job].done = @ + 1]
    BY <1>1, <2>2 DEF Record
  <2> QED BY <1>2, <2>1, <2>2
<1>8. CASE NoteRestored
  <2>1. worker.pc = "restored" /\ mem' = [mem EXCEPT ![job] = Restored(mem[job])]
    BY <1>8 DEF NoteRestored, At
  <2> QED BY <1>1, <2>1
<1>9. CASE CompleteJob
  <2>1. UNCHANGED mem \/ \E s : mem' = [mem EXCEPT ![job].state = s]
    BY <1>9 DEF CompleteJob
  <2> QED BY <1>1, <2>1 DEF Record
<1>10. CASE MarkCancelled
  <2>1. UNCHANGED mem \/ mem' = [mem EXCEPT ![job].state = "cancelled", ![job].cancel = TRUE]
    BY <1>10 DEF MarkCancelled
  <2> QED BY <1>1, <2>1 DEF Record
<1>11. CASE FailJob
  <2>1. UNCHANGED mem \/ mem' = [mem EXCEPT ![job].state = "failed", ![job].failed = TRUE]
    BY <1>11 DEF FailJob
  <2> QED BY <1>1, <2>1 DEF Record
<1> QED BY <1>5, <1>6, <1>7, <1>8, <1>9, <1>10, <1>11 DEF Inner

\* They keep the scene of a job from the users, and the users' from being lost.
LEMMA InnerScene ==
  ASSUME IInv, SInv, Inner
  PROVE  SInv'
<1>1. /\ Carries /\ UNCHANGED <<lock, image, record>>
      /\ worker.pc \notin WorkerSaving \cup {"marker"}
  BY InnerCarries
<1>2. /\ worker.pc # "idle" /\ worker'.pc # "idle" /\ job' = job /\ job \in Jobs
      /\ client' = client /\ UNCHANGED <<queue, edits>>
  BY <1>1, Here DEF Carries, job
<1>3. WrittenOK'
  <2>1. lock # "worker"
    BY <1>1 DEF IInv, LockOK
  <2> QED BY <1>1, <1>2, <2>1, InnerPlaces, InnerRestores, WrittenStays DEF SInv
<1>4. ASSUME NEW j \in Jobs, MustRestore(mem'[j])
      PROVE  MustRestore(mem[j]) \/ (worker'.pc = "captured" /\ j = job)
  <2>1. PICK r : Advances(r) /\ (MustRestore(r) => MustRestore(mem[job]) \/ worker'.pc = "captured")
    BY <1>1 DEF Carries
  <2> QED BY <1>4, <2>1 DEF Advances, Puts
<1>5. lane' = "user" => lane = "user"
  BY DEF Inner, StartJob, SkipBlender, TakeLane, LaneTimesOut, Capture, StartWork, LoadSource,
     NextFrame, RenderFrame, FramesBreakOff, Restore, NoteRestored, RunBreaksOff,
     FinishAfterBlender, EncodeVideo, CompleteJob, MarkCancelled, FailJob
<1>6. CASE Capture
  <2>1. /\ worker.pc = "capture" /\ UNCHANGED <<scene, edits>> /\ lane = "worker"
        /\ ~MustRestore(mem[job])
    <3>1. worker.pc = "capture" /\ UNCHANGED <<scene, edits>>
      BY <1>6 DEF Capture, At
    <3> QED BY <3>1, Here DEF Fits, MustRestore, IInv, ScheduleOK, InLane
  <2>2. \A j \in Jobs : ~MustRestore(mem[j])
    BY <2>1 DEF SInv, FirstOK, At
  <2>3. scene = edits
    BY <2>2, OwnScene
  <2>4. worker'.pc = "captured" => checkpoint'[job] = edits
    <3>1. CASE RunFails
      <4>1. worker'.pc \in {"note", "fail"}
        BY <3>1, RunFailsAdvances, <2>1 DEF Runs, WorkerPc
      <4> QED BY <4>1
    <3>2. CASE checkpoint' = [checkpoint EXCEPT ![job] = scene]
      BY <1>2, <2>3, <3>2 DEF IInv, TypeOK
    <3> QED BY <1>6, <3>1, <3>2 DEF Capture
  <2>5. FirstOK'
    <3>1. ASSUME NEW j \in Jobs, MustRestore(mem'[j])
          PROVE  checkpoint'[j] = edits' /\ lane' # "user" /\ job' = j
      <4>1. worker'.pc = "captured" /\ j = job
        BY <1>4, <2>2, <3>1
      <4> QED BY <1>2, <1>5, <2>1, <2>4, <4>1
    <3> QED BY <3>1 DEF FirstOK
  <2>6. SceneOK'
    BY <2>1, <2>3, InnerPlaces DEF SceneOK, SessionIsRecoverable, At
  <2> QED BY <1>3, <2>5, <2>6 DEF SInv
<1>7. CASE ~Capture
  <2>1. \A j \in Jobs : MustRestore(mem'[j]) => MustRestore(mem[j])
    <3>1. worker'.pc # "captured"
      BY <1>7, InnerPlaces
    <3> QED BY <1>4, <3>1
  <2>2. UNCHANGED checkpoint
    BY <1>7 DEF Inner, StartJob, SkipBlender, TakeLane, LaneTimesOut, StartWork, LoadSource,
       NextFrame, RenderFrame, FramesBreakOff, Restore, NoteRestored, RunBreaksOff,
       FinishAfterBlender, EncodeVideo, CompleteJob, MarkCancelled, FailJob, blender
  <2>3. scene' = scene \/ (LoadSource /\ worker.pc = "load") \/ (Restore /\ worker.pc = "restore")
    BY <1>7 DEF Inner, StartJob, SkipBlender, TakeLane, LaneTimesOut, StartWork, LoadSource,
       NextFrame, RenderFrame, FramesBreakOff, Restore, NoteRestored, RunBreaksOff,
       FinishAfterBlender, EncodeVideo, CompleteJob, MarkCancelled, FailJob, blender, At
  <2>4. worker.pc = "restore" => checkpoint[job] = edits
    BY Here DEF Fits, Captured, Ending, SInv, FirstOK
  <2>5. Restore => scene' \in {scene, edits} /\ (worker'.pc = "marker" => scene' = edits)
    <3>1. ASSUME Restore
          PROVE  /\ scene' \in {scene, checkpoint[job]} /\ worker.pc = "restore"
                 /\ scene' = checkpoint[job] \/ RunFails
      BY <3>1 DEF Restore, At
    <3>2. ASSUME Restore, RunFails
          PROVE  worker'.pc # "marker"
      <4>1. worker.pc \in Runs
        BY <3>1, <3>2 DEF Runs, WorkerPc
      <4>2. worker'.pc \in {"note", "fail"}
        BY <3>2, <4>1, RunFailsAdvances
      <4> QED BY <4>2
    <3> QED BY <2>4, <3>1, <3>2
  <2>6. worker'.pc \notin {"load", "restored"} /\ (worker'.pc = "marker" => Restore)
    BY InnerPlaces
  <2>7. scene' \in {scene, edits} \/ worker.pc = "load"
    BY <2>3, <2>5
  <2>8. worker'.pc \in {"marker", "restored"} => scene' = edits
    BY <2>5, <2>6
  <2> QED BY <1>1, <1>2, <1>3, <1>5, <2>1, <2>2, <2>6, <2>7, <2>8, SceneStays
<1> QED BY <1>6, <1>7

\* What a write does to a record that asks for a restore.
LEMMA MustStays ==
  ASSUME IInv, SInv, lock # "free", NEW out, Write(lock, Subject, out), NEW j \in Jobs,
         MustRestore(record[j]), ~(lock = "worker" /\ worker.pc = "marker")
  PROVE  MustRestore(record'[j])
<1>1. record' = record \/ record' = [record EXCEPT ![Subject] = image]
  BY DEF Write
<1>2. Subject \in Jobs /\ image \in Record /\ record \in [Jobs -> Record]
  BY Owner DEF IInv, TypeOK
<1>3. record'[j] = record[j] \/ (j = Subject /\ record'[j] = image)
  BY <1>1, <1>2
<1>4. CASE j = Subject /\ record'[j] = image
  <2>1. record[j].captured /\ ~record[j].restored
    BY DEF MustRestore
  <2>2. image.captured
    BY <1>4, <2>1 DEF SInv, WrittenOK
  <2>3. Follows(image, mem[Subject]) /\ image # None
    BY DEF IInv, ImageOK
  <2>4. ~mem[Subject].restored
    BY <1>4, <2>1 DEF SInv, WrittenOK
  <2> QED BY <1>4, <2>2, <2>3, <2>4 DEF MustRestore, Follows
<1> QED BY <1>3, <1>4

\* The session stays recoverable while records are written.
LEMMA WrittenRecoverable ==
  ASSUME IInv, SInv, lock # "free", NEW out, Write(lock, Subject, out)
  PROVE  SessionIsRecoverable'
<1>1. UNCHANGED <<checkpoint, scene, edits>>
  BY DEF Write, blender
<1>2. CASE lock = "worker" /\ worker.pc = "marker"
  BY <1>1, <1>2 DEF SInv, SceneOK, SessionIsRecoverable
<1>3. CASE ~(lock = "worker" /\ worker.pc = "marker") /\ scene # edits
  <2>1. PICK j \in Jobs : MustRestore(record[j]) /\ checkpoint[j] = edits
    BY <1>3 DEF SInv, SceneOK, SessionIsRecoverable
  <2>2. MustRestore(record'[j])
    BY <1>3, <2>1, MustStays
  <2> QED BY <1>1, <2>1, <2>2 DEF SessionIsRecoverable
<1> QED BY <1>1, <1>2, <1>3 DEF SessionIsRecoverable

\* The worker takes a copy.
LEMMA CopyScene ==
  ASSUME IInv, SInv, MarkerCopies \/ WorkerCopies
  PROVE  SInv'
<1>1. /\ lock = "free" /\ lock' = "worker"
      /\ UNCHANGED <<mem, queue, worker, client, record, lane, checkpoint, scene, edits, job>>
      /\ worker.pc \in WorkerSaving \cup {"marker"}
      /\ image' = IF worker.pc = "marker" THEN Restored(mem[job]) ELSE mem[job]
  BY DEF MarkerCopies, WorkerCopies, Copy, At, registry, blender, WorkerSaving, job
<1>2. /\ job \in Jobs /\ Subject' = job /\ mem[job] \in Record /\ worker.pc # "idle"
      /\ worker.pc \notin {"restored", "load"}
  BY <1>1, Here DEF WorkerSaving, Subject, job
<1>3. /\ worker.pc = "marker" => image'.restored /\ image'.captured
      /\ worker.pc # "marker" => image' = mem[job]
  BY <1>1, RestoredFollows DEF Ahead
<1>4. /\ record[job].captured => image'.captured
      /\ mem[job].restored => image'.restored
      /\ worker.pc = "load_phase" => image'.captured
  <2>1. worker.pc # "marker" => Follows(record[job], mem[job])
    BY <1>2 DEF IInv, DiskOK
  <2>2. worker.pc = "load_phase" => mem[job].captured
    BY <1>2, Here DEF Fits, Captured, Open, MustRestore
  <2> QED BY <1>3, <2>1, <2>2 DEF Follows
<1>5. WrittenOK'
  <2>1. \A j \in Jobs : mem'[j].restored => record'[j].restored
    BY <1>1 DEF SInv, WrittenOK
  <2>2. ~At("restored")'
    BY <1>1, <1>2 DEF At
  <2> QED BY <1>1, <1>2, <1>3, <1>4, <2>1, <2>2 DEF WrittenOK, At
<1> QED BY <1>1, <1>2, <1>5, SceneStays DEF SInv, SceneOK

\* The worker's write has ended.
LEMMA WriteScene ==
  ASSUME IInv, SInv, MarkerWrites \/ WorkerWrites
  PROVE  SInv'
<1>1. PICK out \in WriteOutcome :
        /\ Write("worker", job, out)
        /\ \/ /\ worker.pc = "marker" /\ GoTo(IF out = "ok" THEN "restored" ELSE "marker")
           \/ /\ worker.pc \in WorkerSaving
              /\ GoTo(IF out = "ok" THEN Saved[worker.pc] ELSE Unsaved[worker.pc])
  BY DEF MarkerWrites, WorkerWrites, At
<1>2. /\ lock = "worker" /\ Subject = job /\ lock' = "free" /\ client' = client
      /\ UNCHANGED <<mem, queue, checkpoint, scene, edits>>
      /\ record' = IF out = "lost" THEN record ELSE [record EXCEPT ![job] = image]
      /\ lane' = lane \/ lane' = "free"
  BY <1>1, Owner DEF Write, registry, blender, MarkerWrites, WorkerWrites
<1>3. /\ worker.pc # "idle" /\ job \in Jobs /\ image \in Record /\ job' = job
      /\ record \in [Jobs -> Record]
      /\ worker'.pc = "restored" => worker.pc = "marker" /\ out = "ok"
      /\ worker'.pc = "marker" => worker.pc = "marker"
      /\ worker'.pc = "load" => worker.pc = "load_phase" /\ out = "ok"
  <2>1. PICK p : GoTo(p) /\ \/ worker.pc = "marker" /\ p = (IF out = "ok" THEN "restored" ELSE "marker")
                            \/ /\ worker.pc \in WorkerSaving
                               /\ p = IF out = "ok" THEN Saved[worker.pc] ELSE Unsaved[worker.pc]
    BY <1>1
  <2>2. worker.pc # "idle"
    BY <2>1 DEF WorkerSaving
  <2>3. worker' = [pc |-> p, job |-> job, outcome |-> worker.outcome]
    BY <2>1, WorkerFields DEF GoTo, IInv, TypeOK, job
  <2>4. CASE worker.pc = "marker" /\ p = (IF out = "ok" THEN "restored" ELSE "marker")
    BY <1>2, <2>2, <2>3, <2>4, Owner DEF IInv, TypeOK, job
  <2>5. CASE /\ worker.pc \in WorkerSaving
             /\ p = IF out = "ok" THEN Saved[worker.pc] ELSE Unsaved[worker.pc]
    <3>1. p \notin {"restored", "marker"} /\ (p = "load" => worker.pc = "load_phase" /\ out = "ok")
      BY <2>5 DEF Saved, Unsaved, WorkerSaving
    <3> QED BY <1>2, <2>2, <2>3, <3>1, Owner DEF IInv, TypeOK, job
  <2> QED BY <2>1, <2>4, <2>5
<1>4. \A j \in Jobs : record'[j] = record[j] \/ (j = job /\ record'[j] = image)
  BY <1>2, <1>3
<1>5. out = "ok" => record'[job] = image
  BY <1>2, <1>3
<1>6. WrittenOK'
  <2>1. \A j \in Jobs : mem'[j].restored => record'[j].restored
    BY <1>2, <1>4 DEF SInv, WrittenOK
  <2>2. worker'.pc = "restored" => record'[job].restored
    BY <1>2, <1>3, <1>5 DEF SInv, WrittenOK, At
  <2> QED BY <1>2, <1>3, <2>1, <2>2 DEF WrittenOK, At
<1>7. FirstOK'
  <2>1. ASSUME NEW j \in Jobs, MustRestore(mem'[j])
        PROVE  checkpoint'[j] = edits' /\ lane' # "user" /\ job' = j
    BY <1>2, <1>3, <2>1 DEF SInv, FirstOK, At
  <2> QED BY <2>1 DEF FirstOK
<1>8. worker'.pc = "load" => MustRestore(record'[job])
  <2>1. ASSUME worker.pc = "load_phase"
        PROVE  MustRestore(image)
    <3>1. image.captured
      BY <1>2, <2>1 DEF SInv, WrittenOK, At
    <3>2. Follows(image, mem[job]) /\ image # None
      BY <1>2, <2>1 DEF IInv, ImageOK
    <3>3. ~mem[job].restored
      BY <2>1, Here DEF Fits, Captured, Open, MustRestore
    <3> QED BY <3>1, <3>2, <3>3 DEF MustRestore, Follows
  <2> QED BY <1>3, <1>5, <2>1
<1>9. SessionIsRecoverable'
  BY <1>1, <1>2, WrittenRecoverable
<1>10. SceneOK'
  BY <1>2, <1>3, <1>8, <1>9 DEF SceneOK, At, SInv
<1> QED BY <1>6, <1>7, <1>10 DEF SInv

\* The worker takes the next job, or lets its own go.
LEMMA HandScene ==
  ASSUME IInv, SInv, Receive \/ Release
  PROVE  SInv'
<1>1. /\ worker.pc \in {"idle", "release"} /\ worker'.pc \in {"popped", "idle"}
      /\ UNCHANGED <<mem, lock, image, lane, client, record, checkpoint, scene, edits>>
  BY DEF Receive, Release, At, saving, blender, IdleWorker
<1>2. WrittenOK'
  <2>1. lock # "worker"
    BY <1>1 DEF IInv, LockOK, WorkerSaving
  <2> QED BY <1>1, <2>1, WrittenStays DEF SInv
<1>3. ASSUME NEW j \in Jobs, MustRestore(mem'[j])
      PROVE  checkpoint'[j] = edits' /\ lane' # "user" /\ job' = j
  <2>1. /\ MustRestore(mem[j]) /\ checkpoint[j] = edits /\ lane # "user"
        /\ job = j \/ (At("idle") /\ Head(queue) = j)
    BY <1>1, <1>3 DEF SInv, FirstOK
  <2>2. CASE Receive
    <3>1. worker.pc = "idle" /\ job' = Head(queue)
      BY <2>2 DEF Receive, At, job
    <3>2. job = None
      BY <3>1 DEF IInv, WorkerOK
    <3> QED BY <1>1, <2>1, <3>1, <3>2, Apart
  <2>3. CASE Release
    <3>1. worker.pc = "release"
      BY <2>3 DEF Release, At
    <3>2. mem[job].state \in Terminal /\ Kept(job, mem[job])
      BY <3>1, Here DEF Fits
    <3> QED BY <2>1, <3>1, <3>2 DEF Kept, At
  <2> QED BY <2>2, <2>3
<1>4. FirstOK'
  BY <1>3 DEF FirstOK
<1>5. SceneOK'
  BY <1>1 DEF SInv, SceneOK, SessionIsRecoverable, At
<1> QED BY <1>2, <1>4, <1>5 DEF SInv

\* A user's command, which only runs while no session must be restored.
LEMMA UserScene ==
  ASSUME IInv, SInv, EnterLane \/ Command
  PROVE  SInv'
<1>1. /\ UNCHANGED <<mem, queue, lock, image, worker, client, record, checkpoint, job>>
      /\ \/ lane = "free" /\ ~fence /\ UNCHANGED <<scene, edits>>
         \/ lane = "user" /\ (scene' = edits' \/ UNCHANGED <<scene, edits>>)
  BY DEF EnterLane, Command, registry, saving, blender, job
<1>2. WrittenOK'
  BY <1>1, WrittenStays DEF SInv
<1>3. \A j \in Jobs : ~MustRestore(mem[j])
  <2>1. ASSUME NEW j \in Jobs, MustRestore(mem[j])
        PROVE  FALSE
    <3>1. lane # "user"
      BY <2>1 DEF SInv, FirstOK
    <3>2. ~fence /\ lane = "free"
      BY <1>1, <3>1
    <3>3. worker.pc = "captured"
      BY <2>1, <3>2 DEF IInv, ScheduleOK
    <3> QED BY <3>2, <3>3 DEF IInv, ScheduleOK, InLane, Open
  <2> QED BY <2>1
<1>4. scene = edits
  BY <1>3, OwnScene
<1>5. scene' = edits'
  BY <1>1, <1>4
<1>6. FirstOK'
  BY <1>1, <1>3 DEF FirstOK
<1>7. SceneOK'
  BY <1>1, <1>5 DEF SInv, SceneOK, SessionIsRecoverable, At
<1> QED BY <1>2, <1>6, <1>7 DEF SInv

\* A client asks to cancel.
LEMMA CancelScene ==
  ASSUME IInv, SInv, NEW c \in Clients, NEW j \in Jobs, Cancel(c, j)
  PROVE  SInv'
<1> DEFINE ends == mem[j].state = "queued" /\ ~MustRestore(mem[j])
<1>1. /\ UNCHANGED <<lock, image, lane, worker, record, checkpoint, scene, edits, job>>
      /\ client[c].pc = "idle"
      /\ client' = [client EXCEPT ![c] = [pc |-> "token", job |-> j]]
  BY DEF Cancel, saving, blender, job
<1>2. queue' = IF ends THEN Only(queue, Jobs \ {j}) ELSE queue
  BY CancelRecord
<1>3. PICK r \in Record :
        /\ mem' = [mem EXCEPT ![j] = r]
        /\ r.captured = mem[j].captured /\ r.restored = mem[j].restored
  BY CancelRecord
<1>4. \A i \in Jobs : /\ mem'[i].restored => mem[i].restored
                      /\ MustRestore(mem'[i]) => MustRestore(mem[i])
  BY <1>3, Records, RecordFields DEF IInv, TypeOK, MustRestore
<1>5. WrittenOK'
  <2>1. lock # c
    BY <1>1 DEF IInv, LockOK
  <2>2. \A d \in Clients : lock = d => client'[d] = client[d]
    BY <1>1, <2>1 DEF IInv, TypeOK
  <2> QED BY <1>1, <1>4, <2>2, WrittenStays DEF SInv
<1>6. ASSUME NEW i \in Jobs, MustRestore(mem[i]), queue # <<>>, Head(queue) = i
      PROVE  queue' # <<>> /\ Head(queue') = i
  <2>1. CASE ends
    <3> DEFINE q == Only(queue, Jobs \ {j})
    <3>1. queue \in Seq(Jobs) /\ i # j /\ queue[1] = i
      BY <1>6, <2>1 DEF IInv, TypeOK
    <3>2. q # <<>> /\ q[1] = i
      BY <1>6, <3>1, OnlyHead
    <3>3. q \in Seq(Jobs)
      BY <3>1, OnlyKeeps
    <3> HIDE DEF q
    <3>4. Head(q) = q[1]
      BY <3>2, <3>3
    <3>5. queue' = q
      BY <1>2, <2>1 DEF q
    <3> QED BY <3>2, <3>4, <3>5
  <2>2. CASE ~ends
    BY <1>2, <1>6, <2>2
  <2> QED BY <2>1, <2>2
<1>7. FirstOK'
  <2>1. ASSUME NEW i \in Jobs, MustRestore(mem'[i])
        PROVE  /\ checkpoint'[i] = edits' /\ lane' # "user"
               /\ job' = i \/ (At("idle")' /\ queue' # <<>> /\ Head(queue') = i)
    BY <1>1, <1>4, <1>6, <2>1 DEF SInv, FirstOK, At
  <2> QED BY <2>1 DEF FirstOK
<1>8. SceneOK'
  BY <1>1 DEF SInv, SceneOK, SessionIsRecoverable, At
<1> QED BY <1>5, <1>7, <1>8 DEF SInv

\* The rest of the request.
LEMMA RequestScene ==
  ASSUME IInv, SInv, NEW c \in Clients, CopiesInTime,
         CancelToken(c) \/ CancelCopies(c) \/ CancelWrites(c) \/ CancelEnds(c)
  PROVE  SInv'
<1> DEFINE j == client[c].job
<1>1. /\ UNCHANGED <<mem, queue, lane, worker, checkpoint, scene, edits, job>>
      /\ client[c].pc # "idle"
      /\ \A d \in Clients : d # c => client'[d] = client[d]
      /\ CancelCopies(c) => client'[c].job = j
  <2>1. CASE CancelToken(c) \/ CancelEnds(c)
    <3>1. ~CancelCopies(c)
      <4>1. UNCHANGED lock /\ (CancelCopies(c) => lock = "free" /\ lock' = c)
        BY <2>1 DEF CancelToken, CancelEnds, CancelCopies, Copy, saving
      <4> QED BY <4>1, Apart
    <3> QED BY <2>1, <3>1 DEF CancelToken, CancelEnds, ClientTo, registry, blender, job, IInv, TypeOK
  <2>2. CASE CancelCopies(c)
    BY <2>2 DEF CancelCopies, ClientTo, registry, blender, job, IInv, TypeOK
  <2>3. CASE CancelWrites(c)
    <3>1. ~CancelCopies(c)
      BY <2>3, Apart DEF CancelWrites, CancelCopies
    <3> QED BY <2>3, <3>1 DEF CancelWrites, Write, registry, blender, job, IInv, TypeOK
  <2> QED BY <2>1, <2>2, <2>3
<1>2. j \in Jobs
  BY <1>1 DEF IInv, LockOK
<1>3. FirstOK'
  BY <1>1 DEF SInv, FirstOK, At
<1>4. CASE CancelToken(c) \/ CancelEnds(c)
  <2>1. UNCHANGED <<lock, image, record>> /\ client[c].pc # "saving"
    BY <1>4 DEF CancelToken, CancelEnds, saving
  <2>2. lock # c
    BY <2>1 DEF IInv, LockOK
  <2>3. WrittenOK'
    BY <1>1, <2>1, <2>2, WrittenStays DEF SInv
  <2>4. SceneOK'
    BY <1>1, <2>1 DEF SInv, SceneOK, SessionIsRecoverable, At
  <2> QED BY <1>3, <2>3, <2>4 DEF SInv
<1>5. CASE CancelCopies(c)
  <2>1. /\ lock = "free" /\ lock' = c /\ image' = mem[j] /\ UNCHANGED record
        /\ worker.pc = "restored" => j # job
    BY <1>5 DEF CancelCopies, Copy, CopiesInTime, At
  <2>2. Subject' = j /\ lock' # "worker"
    BY <1>1, <1>5, <2>1, Apart DEF Subject
  <2>3. record[j].captured => mem[j].captured
    <3>1. CASE Follows(record[j], mem[j])
      BY <3>1 DEF Follows
    <3>2. CASE job = j /\ worker.pc \in {"marker", "restored"}
      BY <3>2, Here DEF Fits, Captured, Ending, MustRestore
    <3> QED BY <1>2, <3>1, <3>2 DEF IInv, DiskOK
  <2>4. WrittenOK'
    BY <1>1, <2>1, <2>2, <2>3 DEF SInv, WrittenOK, At
  <2>5. SceneOK'
    BY <1>1, <2>1 DEF SInv, SceneOK, SessionIsRecoverable, At
  <2> QED BY <1>3, <2>4, <2>5 DEF SInv
<1>6. CASE CancelWrites(c)
  <2>1. PICK out \in WriteOutcome : Write(c, j, out)
    BY <1>6 DEF CancelWrites
  <2>2. /\ lock = c /\ lock # "worker" /\ lock # "free" /\ Subject = j /\ lock' = "free"
        /\ record' = record \/ record' = [record EXCEPT ![j] = image]
    BY <2>1, Apart DEF Write, Subject
  <2>3. \A i \in Jobs : record'[i] = record[i] \/ (i = j /\ record'[i] = image)
    BY <1>2, <2>2 DEF IInv, TypeOK
  <2>4. WrittenOK'
    <3>1. \A i \in Jobs : mem'[i].restored => record'[i].restored
      BY <1>1, <2>2, <2>3 DEF SInv, WrittenOK
    <3>2. worker.pc = "restored" => job \in Jobs /\ job # j /\ record[job].restored
      BY <2>2, Here DEF SInv, WrittenOK, At
    <3>3. worker.pc = "restored" => record'[job].restored
      BY <2>3, <3>2
    <3> QED BY <1>1, <2>2, <3>1, <3>3 DEF WrittenOK, At
  <2>5. SessionIsRecoverable'
    BY <2>1, <2>2, WrittenRecoverable
  <2>6. worker.pc = "load" => MustRestore(record'[job])
    <3>1. worker.pc = "load" => job \in Jobs /\ MustRestore(record[job])
      BY Here DEF SInv, SceneOK, At
    <3> QED BY <2>1, <2>2, <3>1, MustStays
  <2>7. SceneOK'
    BY <1>1, <2>5, <2>6 DEF SInv, SceneOK, At
  <2> QED BY <1>3, <2>4, <2>7 DEF SInv
<1> QED BY <1>4, <1>5, <1>6

\* A restart: the job that must restore the session is the first of the queue.
LEMMA RestartScene ==
  ASSUME IInv, SInv, Restart
  PROVE  SInv'
<1>1. /\ lock' = "free" /\ lane' = "free" /\ worker'.pc = "idle"
      /\ UNCHANGED <<checkpoint, scene, edits>>
  BY DEF Restart, IdleWorker, blender
<1>2. PICK depth \in Nat : queue' = Taken(depth)
  <2>1. PICK depth \in 1 .. QueueDepth : queue' = IF blocked' THEN <<>> ELSE Taken(depth)
    BY DEF Restart
  <2>2. blocked' = (Known # Jobs) /\ Known = Jobs
    BY AllKnown DEF Restart
  <2>3. depth \in Nat
    BY Apart
  <2> QED BY <2>1, <2>2, <2>3
<1>3. WrittenOK'
  BY <1>1, Rewritten DEF WrittenOK, At
<1>4. ASSUME NEW j \in Jobs, MustRestore(mem'[j])
      PROVE  /\ checkpoint'[j] = edits' /\ lane' # "user"
             /\ queue' # <<>> /\ Head(queue') = j
  <2>1. MustRestore(record[j])
    BY <1>4, Rewritten
  <2>2. MustRestore(mem[j]) /\ checkpoint[j] = edits
    BY <2>1, OnDisk DEF SInv, FirstOK
  <2>3. \A i \in Required : i = j
    BY <2>2, AllKnown, OnDisk, OnlyOne DEF SInv
  <2>4. j \in Required
    BY <2>1, AllKnown
  <2>5. queue' # <<>> /\ Head(queue') \in Required
    BY <1>2, <2>4, RequiredTaken
  <2> QED BY <1>1, <2>2, <2>3, <2>5
<1>5. FirstOK'
  BY <1>1, <1>4 DEF FirstOK, At
<1>6. SessionIsRecoverable'
  BY <1>1, Rewritten DEF SInv, SceneOK, SessionIsRecoverable
<1>7. SceneOK'
  BY <1>1, <1>6 DEF SceneOK, At
<1> QED BY <1>3, <1>5, <1>7 DEF SInv

LEMMA SceneBegins ==
  ASSUME Init
  PROVE  SInv
<1>1. /\ \A j \in Jobs : mem[j] = NewRecord /\ ~NewRecord.restored /\ ~NewRecord.captured
      /\ lock = "free" /\ scene = edits /\ worker.pc = "idle"
  BY DEF Init, NewRecord, IdleWorker
<1> QED BY <1>1 DEF SInv, WrittenOK, FirstOK, SceneOK, SessionIsRecoverable, MustRestore, At

LEMMA SceneStep ==
  ASSUME IInv, SInv, [Next]_vars, [CopiesInTime]_vars
  PROVE  SInv'
<1>1. CASE UNCHANGED vars
  <2>1. UNCHANGED <<mem, queue, lock, image, lane, worker, client, record, checkpoint, scene,
                    edits>>
    BY <1>1 DEF vars, registry, saving, blender
  <2> QED BY <2>1 DEF SInv, WrittenOK, FirstOK, SceneOK, SessionIsRecoverable, Subject, At, job
<1>2. CASE Worker
  <2>1. Inner \/ (Receive \/ Release) \/ (MarkerCopies \/ WorkerCopies)
        \/ (MarkerWrites \/ WorkerWrites)
    BY <1>2 DEF Worker, Inner
  <2> QED BY <2>1, InnerScene, HandScene, CopyScene, WriteScene
<1>3. CASE EnterLane \/ Command
  BY <1>3, UserScene
<1>4. CASE ~UNCHANGED vars /\ \E c \in Clients : Client(c)
  BY <1>4, CancelScene, RequestScene DEF Client
<1>5. CASE Restart
  BY <1>5, RestartScene
<1> QED BY <1>1, <1>2, <1>3, <1>4, <1>5 DEF Next

\* The strengthening of what is promised of the live scene: as long as no
\* client's copy falls between the marker and the memory, the job that must
\* restore the session is the first to run, from the users' last edit, and what
\* the memory knows to be restored is on the disk.
THEOREM SceneInvariance == Spec /\ [][CopiesInTime]_vars => []SInv
<1>1. Init => SInv
  BY SceneBegins
<1>2. IInv /\ SInv /\ [Next]_vars /\ [CopiesInTime]_vars => SInv'
  BY SceneStep
<1> QED BY <1>1, <1>2, Invariance, PTL DEF Spec

\* A user's command finds the scene as the users left it, as long as no client's
\* copy falls between the marker and the memory.
THEOREM OwnSceneFound == Spec /\ [][CopiesInTime]_vars => []UserFindsOwnScene
<1>1. ASSUME IInv, SInv
      PROVE  UserFindsOwnScene
  <2>1. ASSUME lane = "user"
        PROVE  scene = edits
    <3>1. \A j \in Jobs : ~MustRestore(mem[j])
      BY <1>1, <2>1 DEF SInv, FirstOK
    <3> QED BY <1>1, <3>1, OwnScene
  <2> QED BY <2>1 DEF UserFindsOwnScene
<1> QED BY <1>1, Invariance, SceneInvariance, PTL

\* While a job's scene is live, the session can be restored from the disk.
THEOREM SessionRecoverable == Spec /\ [][CopiesInTime]_vars => []SessionIsRecoverable
<1>1. SInv => SessionIsRecoverable
  BY DEF SInv, SceneOK
<1> QED BY <1>1, SceneInvariance, PTL

\* A restore never undoes what users did since.
THEOREM FreshRestore == Spec /\ [][CopiesInTime]_vars => NoStaleRestore
<1>1. ASSUME IInv, SInv, [Next]_vars, worker.pc = "restore"
      PROVE  scene' \in {scene, edits} \/ UNCHANGED vars
  <2>1. CASE Restore
    <3>1. checkpoint[job] = edits
      BY <1>1, Here DEF Fits, Captured, Ending, SInv, FirstOK
    <3> QED BY <2>1, <3>1 DEF Restore
  <2>2. CASE Command
    <3>1. lane # "user"
      BY <1>1, Here DEF Fits, Captured, Ending, SInv, FirstOK
    <3> QED BY <2>2, <3>1 DEF Command
  <2>3. CASE UNCHANGED scene
    BY <2>3
  <2>4. CASE Next /\ ~Restore /\ ~Command
    <3>1. Worker => UNCHANGED scene
      <4>1. ASSUME Worker
            PROVE  UNCHANGED scene
        <5>1. ~LoadSource
          BY <1>1 DEF LoadSource, At
        <5>2. MarkerWrites \/ WorkerWrites => UNCHANGED scene
          BY DEF MarkerWrites, WorkerWrites, Write, blender
        <5>3. \/ Receive \/ StartJob \/ SkipBlender \/ TakeLane \/ LaneTimesOut \/ Capture
              \/ StartWork \/ NextFrame \/ RenderFrame \/ FramesBreakOff \/ MarkerCopies
              \/ MarkerWrites \/ NoteRestored \/ RunBreaksOff \/ FinishAfterBlender
              \/ EncodeVideo \/ CompleteJob \/ MarkCancelled \/ FailJob \/ WorkerCopies
              \/ WorkerWrites \/ Release
          BY <2>4, <4>1, <5>1 DEF Worker
        <5> QED BY <5>2, <5>3 DEF Receive, StartJob, SkipBlender, TakeLane, LaneTimesOut,
               Capture, StartWork, NextFrame, RenderFrame, FramesBreakOff, MarkerCopies,
               NoteRestored, RunBreaksOff, FinishAfterBlender, EncodeVideo, CompleteJob,
               MarkCancelled, FailJob, WorkerCopies, Release, blender
      <4> QED BY <4>1
    <3>2. EnterLane \/ Restart => UNCHANGED scene
      BY DEF EnterLane, Restart, blender
    <3>3. \A c \in Clients : Client(c) => UNCHANGED scene
      BY DEF Client, Cancel, CancelToken, CancelCopies, CancelWrites, CancelEnds, Write, blender
    <3> QED BY <2>4, <3>1, <3>2, <3>3 DEF Next
  <2> QED BY <1>1, <2>1, <2>2, <2>4
<1>2. IInv /\ SInv /\ [Next]_vars => [At("restore") => scene' \in {scene, edits}]_vars
  BY <1>1 DEF At
<1> QED BY <1>2, Invariance, SceneInvariance, PTL DEF Spec, NoStaleRestore

\* Without clients that cancel, all of this holds of every behaviour.
THEOREM Undisturbed ==
  ASSUME Clients = {}
  PROVE  Spec => []UserFindsOwnScene /\ []SessionIsRecoverable /\ NoStaleRestore
<1>1. CopiesInTime
  BY DEF CopiesInTime
<1>2. Spec => [][CopiesInTime]_vars
  BY <1>1, PTL
<1> QED BY <1>2, OwnSceneFound, SessionRecoverable, FreshRestore, PTL
====
