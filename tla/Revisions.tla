------------------------------- MODULE Revisions -------------------------------
(***************************************************************************)
(* Design revisions of one project (projects/revisions.rs): revise copies    *)
(* the project's files, takes the update lock of the project, compares the   *)
(* head with the parent the caller knows, looks at the files again, and      *)
(* retains the copies, the record and, last, the head.  The callers are in   *)
(* processes of their own that share the workspace; a process may be killed   *)
(* between any two steps, its lock (flock) goes with it.                     *)
(*                                                                         *)
(* A file's content is a number that every edit increases: what stands for   *)
(* its bytes, their digest and what fstat says of the file.                  *)
(***************************************************************************)
EXTENDS Naturals

CONSTANTS
  Clients,      \* callers, one process each
  Names,        \* files of the project that a revision is made of
  Main,         \* ReviseParams.source, one of them
  None,
  MaxOps,       \* bound: calls of revise
  MaxEdits,     \* bound: edits of the project's files
  MaxFaults,    \* bound: failures of storage operations
  MaxKills      \* bound: processes killed during a call

Ids == 1..MaxOps    \* random_hex_id; a call's number

ASSUME RevisionsAssumption ==
  /\ {MaxOps, MaxEdits, MaxFaults, MaxKills} \subseteq Nat
  /\ Main \in Names
  /\ None \notin Clients /\ None \notin Nat /\ None \notin [Names -> Nat]
  /\ None \notin [parent : Ids \cup {None}, files : [Names -> Nat]]

VARIABLES
  file,         \* [Names -> Nat]: the project's files
  moments,      \* the contents all files had together, now or earlier
  input,        \* [Ids -> [Names -> Nat or None]]: <id>/inputs/<name>
  record,       \* [Ids -> Record or None]: <id>/revision.json
  head,         \* head.json
  lock,         \* who has update.lock, or None
  told,         \* [Ids -> the answer to the call]
  ops, edits, faults, kills

(* The call of revise that a client is in: where it is, the revision it makes, *)
(* its parameters, its copies of the files, the names dealt with in the       *)
(* present step; and, for the properties only, the files when the head was    *)
(* compared.                                                                *)
VARIABLES pc, id, parent, expect, snap, done, seen

disk   == <<input, record, head>>
bounds == <<ops, edits, faults, kills>>
fixed  == <<id, parent, expect>>
call   == <<pc, fixed, snap, done, seen>>
vars   == <<file, moments, disk, lock, told, bounds, call>>

Contents == [Names -> Nat]
Record   == [parent : Ids \cup {None}, files : Contents]
Zero     == [n \in Names |-> 0]

Fault == faults < MaxFaults /\ faults' = faults + 1 /\ UNCHANGED <<ops, edits, kills>>

\* The call is over, the lock is dropped with it.
Leave(c) ==
  /\ pc' = [pc EXCEPT ![c] = "idle"] /\ id' = [id EXCEPT ![c] = None]
  /\ parent' = [parent EXCEPT ![c] = None] /\ expect' = [expect EXCEPT ![c] = 0]
  /\ snap' = [snap EXCEPT ![c] = Zero] /\ seen' = [seen EXCEPT ![c] = Zero]
  /\ done' = [done EXCEPT ![c] = {}]
  /\ lock' = IF lock = c THEN None ELSE lock

Tell(c, answer) == told' = [told EXCEPT ![id[c]] = answer] /\ Leave(c)

GoTo(c, step) == pc' = [pc EXCEPT ![c] = step] /\ UNCHANGED <<lock, told>>

\* One more name is dealt with; after the last one the call goes on to step.
Deal(c, n, step) ==
  IF done[c] \cup {n} = Names
  THEN GoTo(c, step) /\ done' = [done EXCEPT ![c] = {}]
  ELSE done' = [done EXCEPT ![c] = @ \cup {n}] /\ UNCHANGED <<pc, lock, told>>

-----------------------------------------------------------------------------
\* The parent can be opened (revisions::get), whether or not it ever was the head;
\* the digest is the one the caller has just seen.
Revise(c, p) ==
  /\ pc[c] = "idle" /\ ops < MaxOps /\ ops' = ops + 1
  /\ p \in Ids => record[p] # None
  /\ GoTo(c, "copy") /\ id' = [id EXCEPT ![c] = ops + 1] /\ parent' = [parent EXCEPT ![c] = p]
  /\ expect' = [expect EXCEPT ![c] = file[Main]]
  /\ UNCHANGED <<file, moments, disk, snap, done, seen, edits, faults, kills>>

Copy(c, n) ==
  /\ pc[c] = "copy" /\ n \notin done[c]
  /\ \/ /\ n = Main => file[n] = expect[c]
        /\ snap' = [snap EXCEPT ![c] = [@ EXCEPT ![n] = file[n]]] /\ Deal(c, n, "lock")
        /\ UNCHANGED <<fixed, seen>>
     \/ n = Main /\ file[n] # expect[c] /\ Tell(c, "changed")
  /\ UNCHANGED <<file, moments, disk, bounds>>

\* Mutant of Lock: the lock does not exclude another process.
LockShared(c) ==
  /\ pc[c] = "lock" /\ lock' = c /\ pc' = [pc EXCEPT ![c] = "head"]
  /\ UNCHANGED <<told, fixed, snap, done, seen, file, moments, disk, bounds>>

Lock(c) ==
  /\ pc[c] = "lock"
  /\ \/ /\ lock = None /\ lock' = c /\ pc' = [pc EXCEPT ![c] = "head"]
        /\ UNCHANGED <<told, fixed, snap, done, seen>>
     \/ lock # None /\ Tell(c, "busy")
  /\ UNCHANGED <<file, moments, disk, bounds>>

CompareHead(c) ==
  /\ pc[c] = "head"
  /\ \/ /\ head = parent[c] /\ GoTo(c, "verify") /\ seen' = [seen EXCEPT ![c] = file]
        /\ UNCHANGED <<fixed, snap, done>>
     \/ head # parent[c] /\ Tell(c, "stale")
  /\ UNCHANGED <<file, moments, disk, bounds>>

\* Mutant of Verify: the main source was compared with its digest, once is enough.
VerifyInputs(c, n) ==
  /\ pc[c] = "verify" /\ n \notin done[c]
  /\ \/ /\ n # Main => file[n] = snap[c][n]
        /\ Deal(c, n, "inputs") /\ UNCHANGED <<fixed, snap, seen>>
     \/ n # Main /\ file[n] # snap[c][n] /\ Tell(c, "changed")
  /\ UNCHANGED <<file, moments, disk, bounds>>

\* verify_snapshot_source
Verify(c, n) ==
  /\ pc[c] = "verify" /\ n \notin done[c]
  /\ \/ file[n] = snap[c][n] /\ Deal(c, n, "inputs") /\ UNCHANGED <<fixed, snap, seen>>
     \/ file[n] # snap[c][n] /\ Tell(c, "changed")
  /\ UNCHANGED <<file, moments, disk, bounds>>

\* A write that fails may have put the file in place: what failed may be the
\* synchronisation of the directory.
RetainInput(c, n) ==
  /\ pc[c] = "inputs" /\ n \notin done[c]
  /\ LET put == [input EXCEPT ![id[c]] = [@ EXCEPT ![n] = snap[c][n]]]
     IN \/ input' = put /\ Deal(c, n, "record") /\ UNCHANGED <<fixed, snap, seen, bounds>>
        \/ Fault /\ input' \in {input, put} /\ Tell(c, "failed")
  /\ UNCHANGED <<file, moments, record, head>>

WriteRecord(c) ==
  /\ pc[c] = "record"
  /\ LET put == [record EXCEPT ![id[c]] = [parent |-> parent[c], files |-> snap[c]]]
     IN \/ record' = put /\ GoTo(c, "advance") /\ UNCHANGED <<fixed, snap, done, seen, bounds>>
        \/ Fault /\ record' \in {record, put} /\ Tell(c, "failed")
  /\ UNCHANGED <<file, moments, input, head>>

\* Mutant of AdvanceHead: the revision is retained, so the call has succeeded.
AdvanceHeadPerhaps(c) ==
  /\ pc[c] = "advance"
  /\ \/ head' = id[c] /\ Tell(c, "done") /\ UNCHANGED bounds
     \/ Fault /\ head' \in {head, id[c]} /\ Tell(c, "done")
  /\ UNCHANGED <<file, moments, input, record>>

AdvanceHead(c) ==
  /\ pc[c] = "advance"
  /\ \/ head' = id[c] /\ Tell(c, "done") /\ UNCHANGED bounds
     \/ Fault /\ head' \in {head, id[c]} /\ Tell(c, "failed")
  /\ UNCHANGED <<file, moments, input, record>>

-----------------------------------------------------------------------------
\* Another tool replaces a file of the project.
Edit(n) ==
  /\ edits < MaxEdits /\ edits' = edits + 1
  /\ file' = [file EXCEPT ![n] = @ + 1] /\ moments' = moments \cup {file'}
  /\ UNCHANGED <<disk, lock, call, told, ops, faults, kills>>

Kill(c) ==
  /\ pc[c] # "idle" /\ kills < MaxKills /\ kills' = kills + 1 /\ Leave(c)
  /\ UNCHANGED <<file, moments, disk, told, ops, edits, faults>>

Init ==
  /\ file = Zero /\ moments = {Zero}
  /\ input = [i \in Ids |-> [n \in Names |-> None]] /\ record = [i \in Ids |-> None]
  /\ head = None /\ lock = None /\ told = [i \in Ids |-> "nothing"]
  /\ pc = [c \in Clients |-> "idle"] /\ id = [c \in Clients |-> None]
  /\ parent = [c \in Clients |-> None] /\ expect = [c \in Clients |-> 0]
  /\ snap = [c \in Clients |-> Zero] /\ seen = [c \in Clients |-> Zero]
  /\ done = [c \in Clients |-> {}]
  /\ ops = 0 /\ edits = 0 /\ faults = 0 /\ kills = 0

Next ==
  \/ \E c \in Clients :
       \/ \E p \in Ids \cup {None} : Revise(c, p)
       \/ \E n \in Names : Copy(c, n) \/ Verify(c, n) \/ RetainInput(c, n)
       \/ Lock(c) \/ CompareHead(c) \/ WriteRecord(c) \/ AdvanceHead(c) \/ Kill(c)
  \/ \E n \in Names : Edit(n)

Spec == Init /\ [][Next]_vars

-----------------------------------------------------------------------------
(* Properties.                                                             *)

Steps   == {"idle", "copy", "lock", "head", "verify", "inputs", "record", "advance"}
Answers == {"nothing", "done", "changed", "busy", "stale", "failed"}

TypeOK ==
  /\ file \in Contents /\ moments \subseteq Contents
  /\ input \in [Ids -> [Names -> Nat \cup {None}]] /\ record \in [Ids -> Record \cup {None}]
  /\ head \in Ids \cup {None} /\ lock \in Clients \cup {None}
  /\ told \in [Ids -> Answers]
  /\ pc \in [Clients -> Steps] /\ id \in [Clients -> Ids \cup {None}]
  /\ parent \in [Clients -> Ids \cup {None}] /\ expect \in [Clients -> Nat]
  /\ snap \in [Clients -> Contents] /\ seen \in [Clients -> Contents]
  /\ done \in [Clients -> SUBSET Names]
  /\ ops \in 0..MaxOps /\ edits \in Nat /\ faults \in Nat /\ kills \in Nat

(* A revision is complete before there is a record of it: every input it      *)
(* names is retained with the content it says (docs/project-revisions.md:     *)
(* "the head advances only after the complete revision is retained").        *)
RecordsAreComplete ==
  \A i \in Ids : record[i] # None => \A n \in Names : input[i][n] = record[i].files[n]

(* A revision is a state of the project: all its files had the retained       *)
(* content at one moment, although they are read one by one while others      *)
(* edit them (revise: the sources are verified under the lock).              *)
RecordsAreMoments == \A i \in Ids : record[i] # None => record[i].files \in moments

\* What is reopened by its identity can be trusted.
RevisionsAreSound ==
  /\ RecordsAreComplete /\ RecordsAreMoments
  /\ head # None => record[head] # None

(* The head goes from a revision to a successor of this very revision, and    *)
(* never back: of two edits of one parent one is refused                     *)
(* (docs/project-revisions.md: "Concurrent edits cannot both replace the same *)
(* parent").                                                                *)
HeadAdvances == [][head' # head => head' # None /\ record[head'] # None
                                   /\ record[head'].parent = head]_vars

\* A revision and those it came from.
Lineage[i \in Ids] ==
  {i} \cup (IF record[i] = None \/ record[i].parent = None THEN {} ELSE Lineage[record[i].parent])

(* A revision that was reported stays in the lineage of the head; one that    *)
(* was refused as stale, changed or busy never gets there.                   *)
AnswersAreKept ==
  \A i \in Ids :
    /\ told[i] = "done" => head # None /\ i \in Lineage[head]
    /\ told[i] \in {"changed", "busy", "stale"} /\ head # None => i \notin Lineage[head]

=============================================================================
