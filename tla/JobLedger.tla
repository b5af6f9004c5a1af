------------------------------- MODULE JobLedger -------------------------------
(***************************************************************************)
(* What the durable records of the render jobs promise to whoever reads    *)
(* them, whatever the processes that write them do and whenever the server *)
(* stops: the abstract specification that RenderJobs implements.           *)
(***************************************************************************)
EXTENDS JobRecords

VARIABLE ledger  \* [Jobs -> Record or None]: the records on disk

\* A job is admitted waiting, or cancelled before it was first written.
Admit(j) ==
  /\ ledger[j] = None
  /\ \E cancelled \in BOOLEAN :
       ledger' = [ledger EXCEPT ![j] =
         [NewRecord EXCEPT !.cancel = cancelled,
                           !.state  = IF cancelled THEN "cancelled" ELSE @]]

\* b may replace a while the server runs: a job never waits again, only a
\* running job makes progress and by one frame at a time, and only a job whose
\* frames are recorded complete, and which nobody cancelled, succeeds.
Successor(j, a, b) ==
  /\ Follows(a, b)
  /\ b.state = "queued" => a.state = "queued"
  /\ b.done # a.done => a.state = "running" /\ ~a.finished /\ b.done = a.done + 1
  /\ b.finished # a.finished => a.state = "running"
  /\ b.state = "succeeded" /\ a.state # "succeeded" =>
       /\ a.state = "running" /\ a.finished /\ a.done = Total(j)
       /\ ~a.failed /\ ~b.failed /\ ~a.cancel

Save(j) ==
  /\ ledger[j] # None
  /\ ledger'[j] \in Record /\ Successor(j, ledger[j], ledger'[j])
  /\ ledger' = [ledger EXCEPT ![j] = ledger'[j]]

\* After a restart a job that was running waits again, or ends if it was
\* cancelled; a job that cannot be queued fails; the others are as they were.
Afresh(a, b) ==
  \/ b = a
  \/ /\ a # None /\ a.state = "running"
     /\ b = [a EXCEPT !.state = IF a.cancel THEN "cancelled" ELSE "queued"]
  \/ /\ a # None /\ a.state \in {"queued", "running"}
     /\ b = [a EXCEPT !.state = "failed", !.failed = TRUE]

Recover ==
  /\ ledger' = [j \in Jobs |-> ledger'[j]]
  /\ \A j \in Jobs : Afresh(ledger[j], ledger'[j])

Init == ledger = [j \in Jobs |-> None]

Next == (\E j \in Jobs : Admit(j) \/ Save(j)) \/ Recover

Spec == Init /\ [][Next]_ledger

=============================================================================
