------------------------------ MODULE JobRecords ------------------------------
(***************************************************************************)
(* The durable record of a render job (JobRecord in jobs.rs) as far as the *)
(* scheduling of the jobs depends on it.                                   *)
(***************************************************************************)
EXTENDS Naturals, FiniteSets

CONSTANTS
  Jobs,    \* identities that random_hex_id may draw
  Stills,  \* the jobs that render one image and encode no video
  Frames,  \* number of frames of a job that is not a still
  None     \* no job, or no record

ASSUME JobsAssumption   == /\ IsFiniteSet(Jobs)
                           /\ Stills \subseteq Jobs
                           /\ None \notin Jobs
ASSUME FramesAssumption == Frames \in Nat \ {0}

Terminal == {"succeeded", "failed", "cancelled"}
JobState == {"queued", "running"} \cup Terminal

\* done: progress.completed_frames; finished: execution.blender_finished;
\* cancel: cancellation_requested; failed: failure is present.
Record == [state : JobState, done : Nat, finished : BOOLEAN,
           cancel : BOOLEAN, failed : BOOLEAN]

ASSUME NoneAssumption   == None \notin Record

Total(j) == IF j \in Stills THEN 1 ELSE Frames

NewRecord == [state |-> "queued", done |-> 0, finished |-> FALSE,
              cancel |-> FALSE, failed |-> FALSE]

\* b may follow a in the life of one job: an ended job stays as it ended, and
\* progress, the end of Blender's work and a cancellation are never undone.
Follows(a, b) ==
  /\ a.state \in Terminal => b.state = a.state
  /\ a.done <= b.done
  /\ a.finished => b.finished
  /\ a.cancel => b.cancel

=============================================================================
