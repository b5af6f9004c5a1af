---------------------------- MODULE ScratchStorage ----------------------------
(***************************************************************************)
(* One workspace directory, spent by several processes against one budget   *)
(* (printable-workspace, workspace/storage.rs).  Every process takes the    *)
(* controller lock, counts what is there, and only then adds to it.         *)
(* Scratch directories reserve room beforehand; the reservation counts for  *)
(* as long as somebody holds the directory's lease, and so does the          *)
(* protection from cleanup.  A native program inherits the lease of the      *)
(* process that started it and may outlive that process.                    *)
(*                                                                         *)
(* The module has the state and the operations, for other modules to build   *)
(* their steps from, and one client of its own: a native worker in another   *)
(* process (CAD, slicer), with its program.                                 *)
(***************************************************************************)
EXTENDS Naturals, FiniteSets, Functions

CONSTANTS
  Dirs,         \* identities of scratch directories
  WorkDir,      \* the one that the native worker uses
  Margin,       \* what a reservation adds for control files (4096 bytes)
  WorkSize,     \* the size that the worker reserves for its program's output
  Budgets,      \* values of PRINTABLE_WORKSPACE_BUDGET_MIB; Unlimited is unset
  Unlimited,
  Nobody,       \* nobody holds the controller lock
  MaxWorks      \* bound: requests of the native worker

ASSUME StorageAssumption ==
  /\ WorkDir \in Dirs
  /\ Margin \in Nat /\ WorkSize \in Nat /\ MaxWorks \in Nat
  /\ Budgets \subseteq Nat \cup {Unlimited} /\ Unlimited \notin Nat
  /\ Nobody # "worker"

VARIABLES
  controller,   \* who holds storage/controller.lock, across several steps
  budget,       \* budget.json
  retained,     \* bytes outside scratch, temporary copies included
  present,      \* the scratch directories that exist
  reserve,      \* [Dirs -> bytes in reservation.json]
  used,         \* [Dirs -> bytes in the directory]
  lease,        \* [Dirs -> who holds the directory's lease]
  dropping,     \* [Dirs -> who let go of the lease and will try to clean up]
  worker,       \* [pc, program, works]: the native worker, and its program
  allowance,    \* the most bytes that were promised since the last configuration
  twice         \* bytes of files that have two names, counted once for each

disk        == <<retained, present, reserve, used>>
storageVars == <<controller, budget, disk, lease, dropping, worker, allowance, twice>>

-----------------------------------------------------------------------------
(* Accounting: logical bytes and the unused part of live reservations.      *)

Larger(a, b)   == IF a > b THEN a ELSE b
Bytes(d)       == IF lease[d] = {} THEN used[d] ELSE Larger(used[d], reserve[d])
Charged        == retained + SumFunctionOnSet([d \in Dirs |-> Bytes(d)], present)

\* Mutant of Fits: each process looks at what it adds itself.
FitsAlone(n) == budget # Unlimited => n <= budget

Fits(n) == budget # Unlimited => Charged + n <= budget

-----------------------------------------------------------------------------
(* Scratch directories.  Creation and cleanup happen under the controller   *)
(* lock, released at the end of the call.                                   *)

Free == controller = Nobody

\* A new directory, held by who.  Identities are random: nobody knows d.
CreateScratch(d, bytes, who) ==
  /\ Free
  /\ d \notin present
  /\ Fits(bytes + Margin)
  /\ present' = present \cup {d}
  /\ reserve' = [reserve EXCEPT ![d] = bytes + Margin]
  /\ used'    = [used EXCEPT ![d] = 0]
  /\ lease'   = [lease EXCEPT ![d] = {who}]

\* ManagedScratch::drop: the lease goes at once, cleanup waits for the lock.
DropScratch(d, who) ==
  /\ lease'    = [lease EXCEPT ![d] = @ \ {who}]
  /\ dropping' = [dropping EXCEPT ![d] = @ \cup {who}]

\* Removes d unless somebody holds it.  A removal may stop half way.
CleanupScratch(d) ==
  /\ Free
  /\ \/ /\ d \in present /\ lease[d] = {}
        /\ \/ present' = present \ {d} /\ used' = [used EXCEPT ![d] = 0]
           \/ present' = present /\ \E n \in {0, used[d]} : used' = [used EXCEPT ![d] = n]
        /\ reserve' = [reserve EXCEPT ![d] = 0]
     \/ /\ d \notin present \/ lease[d] # {}
        /\ UNCHANGED <<present, used, reserve>>

-----------------------------------------------------------------------------
(* Writes.  Under a budget the lock is held from the count to the end.      *)

AdmitWrite(n, who) ==
  /\ Free
  /\ Fits(n)
  /\ controller' = IF budget = Unlimited THEN Nobody ELSE who

EndWrite(who) == controller' = IF controller = who THEN Nobody ELSE controller

-----------------------------------------------------------------------------
(* The native worker: stage, run a program that writes into the staging      *)
(* directory, commit its output, let go.  The worker may be killed; its      *)
(* program then goes on alone, with the lease that it inherited.            *)

WorkerPc == {"idle", "staged", "running", "ended", "copying"}

WorkerAt(pc)   == worker.pc = pc
WorkerTo(pc)   == worker' = [worker EXCEPT !.pc = pc]
ProgramRuns    == worker.program

WorkerStages ==
  /\ WorkerAt("idle") /\ worker.works < MaxWorks
  /\ CreateScratch(WorkDir, WorkSize, "worker")
  /\ worker' = [worker EXCEPT !.pc = "staged", !.works = @ + 1]
  /\ UNCHANGED <<controller, budget, retained, dropping, allowance, twice>>

WorkerStarts ==
  /\ WorkerAt("staged") /\ ~ProgramRuns
  /\ lease' = [lease EXCEPT ![WorkDir] = @ \cup {"program"}]
  /\ worker' = [worker EXCEPT !.pc = "running", !.program = TRUE]
  /\ UNCHANGED <<controller, budget, disk, dropping, allowance, twice>>

\* The program writes what was reserved for it, without any lock.
ProgramWrites ==
  /\ ProgramRuns
  /\ used[WorkDir] < WorkSize
  /\ used' = [used EXCEPT ![WorkDir] = @ + 1]
  /\ UNCHANGED <<controller, budget, retained, present, reserve, lease, dropping,
                 worker, allowance, twice>>

ProgramExits ==
  /\ ProgramRuns
  /\ lease' = [lease EXCEPT ![WorkDir] = @ \ {"program"}]
  /\ worker' = [worker EXCEPT !.program = FALSE,
                              !.pc = IF @ = "running" THEN "ended" ELSE @]
  /\ UNCHANGED <<controller, budget, disk, dropping, allowance, twice>>

\* commit_generated_artifact: the output is copied beside its destination.
WorkerCommits ==
  /\ WorkerAt("ended")
  /\ AdmitWrite(used[WorkDir], "worker")
  /\ WorkerTo("copying")
  /\ UNCHANGED <<budget, disk, lease, dropping, allowance, twice>>

WorkerCopied ==
  /\ WorkerAt("copying")
  /\ \E n \in {0, used[WorkDir]} : retained' = retained + n
  /\ EndWrite("worker")
  /\ DropScratch(WorkDir, "worker")
  /\ WorkerTo("idle")
  /\ UNCHANGED <<budget, present, reserve, used, allowance, twice>>

\* Staging or the program failed, or no room for the output.
WorkerGivesUp ==
  /\ WorkerAt("staged") \/ WorkerAt("ended")
  /\ DropScratch(WorkDir, "worker")
  /\ WorkerTo("idle")
  /\ UNCHANGED <<controller, budget, disk, allowance, twice>>

WorkerCleansUp ==
  /\ "worker" \in dropping[WorkDir]
  /\ CleanupScratch(WorkDir)
  /\ dropping' = [dropping EXCEPT ![WorkDir] = @ \ {"worker"}]
  /\ UNCHANGED <<controller, budget, retained, lease, worker, allowance, twice>>

\* The kernel closes what the worker held; a copy under way may stay behind.
WorkerKilled ==
  /\ ~WorkerAt("idle")
  /\ \E n \in IF WorkerAt("copying") THEN {0, used[WorkDir]} ELSE {0} :
       retained' = retained + n
  /\ EndWrite("worker")
  /\ lease' = [lease EXCEPT ![WorkDir] = @ \ {"worker"}]
  /\ dropping' = [dropping EXCEPT ![WorkDir] = @ \ {"worker"}]
  /\ WorkerTo("idle")
  /\ UNCHANGED <<budget, present, reserve, used, allowance, twice>>

Worker == \/ WorkerStages \/ WorkerStarts \/ WorkerCommits \/ WorkerCopied
          \/ WorkerGivesUp \/ WorkerCleansUp \/ ProgramWrites \/ ProgramExits

-----------------------------------------------------------------------------
(* The operator's cleanup, and the configuration when the server starts.    *)

OperatorCleansUp(d) ==
  /\ CleanupScratch(d)
  /\ UNCHANGED <<controller, budget, retained, lease, dropping, worker, allowance, twice>>

\* Copies admitted while there was no budget go on after one is set.
Unguarded == IF WorkerAt("copying") /\ controller # "worker" THEN used[WorkDir] ELSE 0

Configure(b) ==
  /\ budget' = b
  /\ allowance' = IF b = Unlimited THEN Unlimited ELSE Larger(b, Charged') + Unguarded'

StorageInit ==
  /\ controller = Nobody
  /\ budget \in Budgets
  /\ retained = 0 /\ present = {}
  /\ reserve = [d \in Dirs |-> 0] /\ used = [d \in Dirs |-> 0]
  /\ lease = [d \in Dirs |-> {}] /\ dropping = [d \in Dirs |-> {}]
  /\ worker = [pc |-> "idle", program |-> FALSE, works |-> 0]
  /\ allowance = budget /\ twice = 0

-----------------------------------------------------------------------------
(* No process spends room that another one was given: what is charged stays *)
(* within the budget, or within what was there when a lower one was set     *)
(* (storage.rs, require_storage_capacity and admit_storage_write).  A file    *)
(* that has its temporary and its final name is charged twice without being *)
(* admitted twice; twice takes that back.                                   *)
BudgetRespected == allowance = Unlimited \/ Charged <= allowance + twice

(* A program's staging directory is there, with its reservation, for as     *)
(* long as the program runs, whatever became of the worker that started it  *)
(* (retain_for_command).                                                    *)
ProgramProtected ==
  ProgramRuns => /\ WorkDir \in present
                 /\ reserve[WorkDir] = WorkSize + Margin

=============================================================================
