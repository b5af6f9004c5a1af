----------------------------- MODULE PrintDelivery -----------------------------
(***************************************************************************)
(* Printer requests and the evidence kept of them (printers/print_jobs.rs,  *)
(* printers/delivery.rs, printers/operations.rs, provenance.rs).  An import, *)
(* a stage and a start store an intent, send one request to Bambuddy and     *)
(* store what was answered.  The evidence is in files; a request lives in    *)
(* the process only.  Bambuddy is modelled as its client crate uses it: a    *)
(* request may be taken long after its sender has given up, or never, and an *)
(* answer may be lost, but nothing is taken twice.                          *)
(*                                                                         *)
(* Every request of a client has a number, which stands for the random       *)
(* attempt_id in its records and for the digest of these records.            *)
(***************************************************************************)
EXTENDS Integers, FiniteSets, SequencesExt

CONSTANTS
  Clients,      \* who calls the tools
  None,
  MaxOps,       \* bound: requests of the clients
  MaxSlices,    \* bound: times the file to import is sliced anew
  MaxFaults,    \* bound: failures of storage operations
  MaxRestarts   \* bound: restarts of the server

ASSUME PrintAssumption ==
  /\ {MaxOps, MaxSlices, MaxFaults, MaxRestarts} \subseteq Nat
  /\ None \notin Int /\ Clients # {}

Attempts == 0..MaxOps         \* 0: an import before the clients' requests
Slices   == 0..MaxSlices      \* contents of the printer-ready file
Setups   == {0, 1}            \* settings of a queued print
Refused  == -1                \* Bambuddy's answer that the request is not accepted

VARIABLES
  source,       \* content of the project's .gcode.3mf, and its retained slice record
  retained,     \* [Attempts -> Slices or None]: import_files
  intents,      \* [Attempts -> Intent or None]: import intents, unknown submissions
  receipts,     \* [Attempts -> library or print id, or None]: accepted records
  assoc,        \* [library id -> attempt of the import, or None]: bambuddy-library
  links,        \* print_jobs/<print>/<attempt>
  observations, \* retained observations of the queue
  op,           \* [Clients -> request in hand]
  told,         \* [Attempts -> what the caller was told]
  library, queue, plate, wire, reply, taken,    \* Bambuddy, see below
  ops, faults, restarts

disk     == <<retained, intents, receipts, assoc, links, observations>>
backend  == <<library, queue, plate, wire, reply, taken>>
bounds   == <<ops, faults, restarts>>
vars     == <<source, disk, op, told, backend, bounds>>

(* Bambuddy: library[f] and queue[p] have the ids f and p.  plate: the        *)
(* printer awaits a clear plate.  wire: requests on their way.  reply[a]: the *)
(* answer to a, an id or Refused, None before.  taken[a]: how often Bambuddy  *)
(* did what request a asks for.                                             *)
Files  == 1..(2 + MaxOps)
Prints == 1..MaxOps

Job     == [file : Files, by : Attempts, status : {"pending", "printing", "completed", "cancelled"},
            manual : BOOLEAN, setup : Setups]
Request == [act : {"import", "stage", "start", "update", "cancel"}, a : Attempts, bytes : Slices,
            file : Files \cup {0}, print : Prints \cup {0}, manual : BOOLEAN, setup : Setups]
Intent  == [act : {"import"}, bytes : Slices, evidence : Slices \cup {None}]
             \cup [act : {"stage"}, file : Files] \cup [act : {"start"}, job : Job, print : Prints]

Op == [pc : {"idle", "retain", "printer", "reread", "intent", "send", "sent", "receipt",
             "link", "observe"},
       act : {"none", "import", "stage", "start", "update", "cancel", "status"},
       a : Attempts, bytes : Slices, evidence : Slices \cup {None}, file : Files \cup {0},
       print : Prints \cup {0}, setup : Setups, job : Job \cup {None},
       tracked : Attempts \cup {None}]

ASSUME NoneAssumption == None \notin Job \cup Intent

NoOp == [pc |-> "idle", act |-> "none", a |-> 0, bytes |-> 0, evidence |-> None, file |-> 0,
         print |-> 0, setup |-> 0, job |-> None, tracked |-> None]

At(c, pc)   == op[c].pc = pc
Is(c, acts) == op[c].act \in acts
GoTo(c, pc) == op' = [op EXCEPT ![c].pc = pc]
Fault       == faults < MaxFaults /\ faults' = faults + 1 /\ UNCHANGED <<ops, restarts>>

\* The request ends, and its caller is told how.
Tell(c, word) == told' = [told EXCEPT ![op[c].a] = word] /\ op' = [op EXCEPT ![c] = NoOp]

\* provenance::store, write_reserved_artifact: f[k] becomes v; a write that fails
\* may have put the file in place.
Store(f, k, v, ok) ==
  \/ ok /\ f' = [f EXCEPT ![k] = v] /\ UNCHANGED bounds
  \/ ~ok /\ Fault /\ f' \in {f, [f EXCEPT ![k] = v]}

NewOp(c, new) ==
  /\ At(c, "idle") /\ ops < MaxOps
  /\ op' = [op EXCEPT ![c] = [new EXCEPT !.a = ops + 1]]
  /\ ops' = ops + 1
  /\ UNCHANGED <<source, disk, told, backend, faults, restarts>>

-----------------------------------------------------------------------------
(* print.import: the bytes are copied first; what is verified, retained and   *)
(* sent is the copy.                                                        *)

Slice ==
  /\ source < MaxSlices /\ source' = source + 1
  /\ UNCHANGED <<disk, op, told, backend, bounds>>

\* evidence names the retained slice the caller believes the file to be.
Import(c, evidence) ==
  NewOp(c, [NoOp EXCEPT !.pc = "retain", !.act = "import", !.bytes = source,
                        !.evidence = evidence])

\* provenance::verify_import
VerifyImport(c) == op[c].evidence \in {None, op[c].bytes}

Retain(c) ==
  /\ At(c, "retain")
  /\ \/ ~VerifyImport(c) /\ Tell(c, "not_done") /\ UNCHANGED <<retained, bounds>>
     \/ VerifyImport(c) /\ Store(retained, op[c].a, op[c].bytes, TRUE) /\ GoTo(c, "intent")
        /\ UNCHANGED told
     \/ VerifyImport(c) /\ Store(retained, op[c].a, op[c].bytes, FALSE) /\ Tell(c, "not_done")
  /\ UNCHANGED <<source, intents, receipts, assoc, links, observations, backend>>

-----------------------------------------------------------------------------
(* print.stage and print.start: what Bambuddy says of the file, the job and  *)
(* the printer is checked, one request after the other.                      *)

\* check_print_target
Stage(c, f) ==
  /\ f \in DOMAIN library
  /\ NewOp(c, [NoOp EXCEPT !.pc = "intent", !.act = "stage", !.file = f])

Startable(job) == job.status = "pending" /\ job.manual

Start(c, p) ==
  /\ p \in DOMAIN queue /\ Startable(queue[p])
  /\ NewOp(c, [NoOp EXCEPT !.pc = "printer", !.act = "start", !.print = p,
                           !.job = queue[p], !.file = queue[p].file])

PrinterStatus(c) ==
  /\ At(c, "printer")
  /\ \/ ~plate /\ GoTo(c, "reread") /\ UNCHANGED told
     \/ plate /\ Tell(c, "not_done")
  /\ UNCHANGED <<source, disk, backend, bounds>>

Reread(c) ==
  /\ At(c, "reread")
  /\ \/ queue[op[c].print] = op[c].job /\ GoTo(c, "intent") /\ UNCHANGED told
     \/ queue[op[c].print] # op[c].job /\ Tell(c, "not_done")
  /\ UNCHANGED <<source, disk, backend, bounds>>

\* update and cancel keep no evidence.
Update(c, p, setup) ==
  /\ p \in DOMAIN queue
  /\ NewOp(c, [NoOp EXCEPT !.pc = "send", !.act = "update", !.print = p, !.setup = setup])

Cancel(c, p) ==
  /\ p \in DOMAIN queue
  /\ NewOp(c, [NoOp EXCEPT !.pc = "send", !.act = "cancel", !.print = p])

-----------------------------------------------------------------------------
(* Intent, request, answer, receipt, association.                           *)

IntentOf(c) ==
  CASE Is(c, {"import"}) -> [act |-> "import", bytes |-> op[c].bytes, evidence |-> op[c].evidence]
    [] Is(c, {"stage"})  -> [act |-> "stage", file |-> op[c].file]
    [] Is(c, {"start"})  -> [act |-> "start", job |-> op[c].job, print |-> op[c].print]

\* delivery::begin keeps an intent for a library file with an import, and nothing
\* for another one; the receipt of the import has to identify the file.
Tracked(c)    == IF Is(c, {"import"}) THEN op[c].a ELSE assoc[op[c].file]
Identified(c) == Is(c, {"import"}) \/ receipts[Tracked(c)] = op[c].file

StoreIntent(c) ==
  /\ At(c, "intent")
  /\ \/ Tracked(c) = None /\ GoTo(c, "send") /\ UNCHANGED <<intents, told, bounds>>
     \/ /\ Tracked(c) # None /\ Identified(c) /\ Store(intents, op[c].a, IntentOf(c), TRUE)
        /\ op' = [op EXCEPT ![c].pc = "send", ![c].tracked = Tracked(c)] /\ UNCHANGED told
     \/ /\ Tracked(c) # None /\ Tell(c, "not_done")
        /\ \/ Identified(c) /\ Store(intents, op[c].a, IntentOf(c), FALSE)
           \/ ~Identified(c) /\ UNCHANGED <<intents, bounds>>
  /\ UNCHANGED <<source, retained, receipts, assoc, links, observations, backend>>

\* Mutant of RequestOf: the file is read again, not the copy.
RequestOfPath(c) ==
  [act |-> op[c].act, a |-> op[c].a, bytes |-> source, file |-> op[c].file,
   print |-> op[c].print, manual |-> TRUE, setup |-> op[c].setup]

\* Mutant of RequestOf: an update leaves manual_start out.
RequestUnstaged(c) ==
  [act |-> op[c].act, a |-> op[c].a, bytes |-> op[c].bytes, file |-> op[c].file,
   print |-> op[c].print, manual |-> ~Is(c, {"update"}), setup |-> op[c].setup]

\* manual_start is set by stage_print and by update_jobs alike.
RequestOf(c) ==
  [act |-> op[c].act, a |-> op[c].a, bytes |-> op[c].bytes, file |-> op[c].file,
   print |-> op[c].print, manual |-> TRUE, setup |-> op[c].setup]

Send(c) ==
  /\ At(c, "send") /\ GoTo(c, "sent") /\ wire' = wire \cup {RequestOf(c)}
  /\ UNCHANGED <<source, disk, told, library, queue, plate, reply, taken, bounds>>

\* The answer arrives; or it does not, or cannot be read, or comes too late.
Answer(c) ==
  /\ At(c, "sent") /\ reply[op[c].a] # None
  /\ \/ reply[op[c].a] = Refused /\ Tell(c, "not_done")
     \/ reply[op[c].a] # Refused /\ op[c].tracked = None /\ Tell(c, "done")
     \/ /\ reply[op[c].a] # Refused /\ op[c].tracked # None /\ GoTo(c, "receipt")
        /\ UNCHANGED told
  /\ UNCHANGED <<source, disk, backend, bounds>>

\* Mutant of GiveUp: a mutation is tried again like a read.
GiveUpRetrying(c) ==
  /\ At(c, "sent") /\ GoTo(c, "send")
  /\ UNCHANGED <<source, disk, told, backend, bounds>>

GiveUp(c) ==
  /\ At(c, "sent") /\ Tell(c, "unknown")
  /\ UNCHANGED <<source, disk, backend, bounds>>

StoreReceipt(c) ==
  /\ At(c, "receipt")
  /\ \/ Store(receipts, op[c].a, reply[op[c].a], TRUE) /\ GoTo(c, "link") /\ UNCHANGED told
     \/ Store(receipts, op[c].a, reply[op[c].a], FALSE) /\ Tell(c, "unsaved")
  /\ UNCHANGED <<source, retained, intents, assoc, links, observations, backend>>

\* The association of a library file, or the link of a print.
Link(c) ==
  /\ At(c, "link")
  /\ LET put == IF Is(c, {"import"})
                THEN /\ assoc' = [assoc EXCEPT ![reply[op[c].a]] = op[c].a] /\ UNCHANGED links
                ELSE links' = links \cup {<<reply[op[c].a], op[c].a>>} /\ UNCHANGED assoc
     IN \/ put /\ Tell(c, "done") /\ UNCHANGED bounds
        \/ Fault /\ (put \/ UNCHANGED <<assoc, links>>) /\ Tell(c, "unsaved")
  /\ UNCHANGED <<source, retained, intents, receipts, observations, backend>>

-----------------------------------------------------------------------------
(* print.status: the job is read, and then an observation of it retained.    *)

Status(c, p) ==
  /\ p \in DOMAIN queue
  /\ NewOp(c, [NoOp EXCEPT !.pc = "observe", !.act = "status", !.print = p,
                           !.job = queue[p], !.file = queue[p].file])

\* Mutant of Execution: a job that waits for the printer counts as printing.
ExecutionAssumed(job) ==
  IF job.status = "pending" /\ ~job.manual THEN "printing"
  ELSE IF job.status \in {"printing", "completed"} THEN job.status ELSE "not_observed"

\* What the queue says of the execution; an acceptance is no execution.
Execution(job) == IF job.status \in {"printing", "completed"} THEN job.status ELSE "not_observed"

Submissions(p) == {a \in Attempts : <<p, a>> \in links}

\* observe refuses a link whose submission is of another print or import.
LinkFits(p, a, import) ==
  /\ receipts[a] = p
  /\ intents[a].act \in {"stage", "start"}
  /\ LET f == IF intents[a].act = "stage" THEN intents[a].file ELSE intents[a].job.file
     IN assoc[f] = import

Observe(c) ==
  /\ At(c, "observe")
  /\ LET p == op[c].print  import == assoc[op[c].file]
         seen == [print |-> p, execution |-> Execution(op[c].job), submissions |-> Submissions(p)]
     IN \/ import = None /\ Tell(c, "done") /\ UNCHANGED <<observations, bounds>>
        \/ /\ import # None /\ \E a \in Submissions(p) : ~LinkFits(p, a, import)
           /\ Tell(c, "broken") /\ UNCHANGED <<observations, bounds>>
        \/ /\ import # None /\ \A a \in Submissions(p) : LinkFits(p, a, import)
           /\ \/ observations' = observations \cup {seen} /\ Tell(c, "done") /\ UNCHANGED bounds
              \/ Fault /\ observations' \in {observations, observations \cup {seen}}
                 /\ Tell(c, "unsaved")
  /\ UNCHANGED <<source, retained, intents, receipts, assoc, links, backend>>

-----------------------------------------------------------------------------
(* Bambuddy.                                                               *)

Accept(m, id) ==
  /\ reply' = [reply EXCEPT ![m.a] = id]
  /\ taken' = [taken EXCEPT ![m.a] = @ + 1]

Pending(p) == queue[p].status = "pending"

Take(m) ==
  /\ m \in wire /\ wire' = wire \ {m}
  /\ \/ /\ m.act = "import" /\ library' = Append(library, [bytes |-> m.bytes, by |-> m.a])
        /\ Accept(m, Len(library) + 1) /\ UNCHANGED queue
     \/ /\ m.act = "stage" /\ Accept(m, Len(queue) + 1) /\ UNCHANGED library
        /\ queue' = Append(queue, [file |-> m.file, by |-> m.a, status |-> "pending",
                                   manual |-> m.manual, setup |-> m.setup])
     \/ /\ m.act = "start" /\ Pending(m.print) /\ Accept(m, m.print) /\ UNCHANGED library
        /\ queue' = [queue EXCEPT ![m.print].manual = FALSE]
     \/ /\ m.act = "update" /\ Pending(m.print) /\ Accept(m, m.print) /\ UNCHANGED library
        /\ queue' = [queue EXCEPT ![m.print].setup = m.setup, ![m.print].manual = m.manual]
     \/ /\ m.act = "cancel" /\ Pending(m.print) /\ Accept(m, m.print) /\ UNCHANGED library
        /\ queue' = [queue EXCEPT ![m.print].status = "cancelled"]
     \/ /\ reply' = [reply EXCEPT ![m.a] = Refused] /\ UNCHANGED <<library, queue, taken>>
  /\ UNCHANGED <<source, disk, op, told, plate, bounds>>

BeginPrinting(p) ==
  /\ p \in DOMAIN queue /\ Pending(p) /\ ~queue[p].manual /\ ~plate
  /\ \A q \in DOMAIN queue : queue[q].status # "printing"
  /\ queue' = [queue EXCEPT ![p].status = "printing"]
  /\ UNCHANGED <<source, disk, op, told, library, plate, wire, reply, taken, bounds>>

Complete(p) ==
  /\ p \in DOMAIN queue /\ queue[p].status = "printing"
  /\ queue' = [queue EXCEPT ![p].status = "completed"] /\ plate' = TRUE
  /\ UNCHANGED <<source, disk, op, told, library, wire, reply, taken, bounds>>

ClearPlate ==
  /\ plate /\ plate' = FALSE
  /\ UNCHANGED <<source, disk, op, told, library, queue, wire, reply, taken, bounds>>

-----------------------------------------------------------------------------
\* The server stops and starts again; what was sent may still arrive.
Restart ==
  /\ restarts < MaxRestarts /\ restarts' = restarts + 1
  /\ op' = [c \in Clients |-> NoOp]
  /\ UNCHANGED <<source, disk, told, backend, ops, faults>>

\* v at k, None elsewhere.
Only(S, k, v) == [x \in S |-> IF x = k THEN v ELSE None]

\* Library file 1 was put there by hand, file 2 was imported.
Init ==
  /\ source = 0
  /\ retained = Only(Attempts, 0, 0)
  /\ intents = Only(Attempts, 0, [act |-> "import", bytes |-> 0, evidence |-> 0])
  /\ receipts = Only(Attempts, 0, 2) /\ assoc = Only(Files, 2, 0)
  /\ links = {} /\ observations = {}
  /\ op = [c \in Clients |-> NoOp]
  /\ told = [a \in Attempts |-> IF a = 0 THEN "done" ELSE "nothing"]
  /\ library = <<[bytes |-> 0, by |-> None], [bytes |-> 0, by |-> 0]>>
  /\ queue = <<>> /\ plate \in BOOLEAN /\ wire = {}
  /\ reply = Only(Attempts, 0, 2) /\ taken = [a \in Attempts |-> IF a = 0 THEN 1 ELSE 0]
  /\ ops = 0 /\ faults = 0 /\ restarts = 0

Call(c) ==
  \/ \E e \in 0..source \cup {None} : Import(c, e)
  \/ \E f \in Files : Stage(c, f)
  \/ \E p \in Prints : \/ Start(c, p) \/ Cancel(c, p) \/ Status(c, p)
                       \/ Update(c, p, 1)

Step(c) == \/ Retain(c) \/ PrinterStatus(c) \/ Reread(c) \/ StoreIntent(c) \/ Send(c)
           \/ Answer(c) \/ GiveUp(c) \/ StoreReceipt(c) \/ Link(c) \/ Observe(c)

Bambuddy == \/ \E m \in wire : Take(m)
            \/ \E p \in Prints : BeginPrinting(p) \/ Complete(p)
            \/ ClearPlate

Next == Slice \/ Restart \/ Bambuddy \/ \E c \in Clients : Call(c) \/ Step(c)

Spec == Init /\ [][Next]_vars

-----------------------------------------------------------------------------
(* Properties.                                                             *)

Words == {"nothing", "done", "not_done", "unsaved", "unknown", "broken"}

TypeOK ==
  /\ source \in Slices
  /\ retained \in [Attempts -> Slices \cup {None}]
  /\ intents \in [Attempts -> Intent \cup {None}]
  /\ receipts \in [Attempts -> Files \cup Prints \cup {None}]
  /\ assoc \in [Files -> Attempts \cup {None}]
  /\ links \subseteq Prints \X Attempts
  /\ \A o \in observations : /\ o.print \in Prints /\ o.submissions \subseteq Attempts
                             /\ o.execution \in {"not_observed", "printing", "completed"}
  /\ op \in [Clients -> Op] /\ told \in [Attempts -> Words]
  /\ library \in Seq([bytes : Slices, by : Attempts \cup {None}]) /\ queue \in Seq(Job)
  /\ wire \subseteq Request /\ plate \in BOOLEAN
  /\ reply \in [Attempts -> Files \cup Prints \cup {Refused, None}]
  /\ taken \in [Attempts -> Nat] /\ {ops, faults, restarts} \subseteq Nat

(* What Bambuddy has in its library from here is retained here, byte for     *)
(* byte, with the intent that says so, and is the slice that was named with   *)
(* it; whatever became of the file since, and of the request                *)
(* (docs/delivery-evidence.md, 4 and 5).                                     *)
ImportsAreRetained ==
  \A f \in DOMAIN library : LET a == library[f].by IN a # None =>
    /\ intents[a] # None /\ intents[a].act = "import"
    /\ library[f].bytes = intents[a].bytes /\ library[f].bytes = retained[a]
    /\ intents[a].evidence \in {None, library[f].bytes}

(* What a caller is told is so and stays so: not done means that it will not *)
(* be done by a late arrival either; done and unsaved mean done, and done     *)
(* that the records are there.  Nothing is done twice: a mutation that failed *)
(* or was disconnected is never replayed (docs/delivery-evidence.md).         *)
AnswersAreTrue ==
  \A a \in Attempts :
    /\ taken[a] <= 1
    /\ told[a] = "not_done" => taken[a] = 0 /\ \A m \in wire : m.a # a
    /\ told[a] = "unsaved" /\ intents[a] # None => taken[a] = 1
    /\ told[a] = "done" /\ intents[a] # None => taken[a] = 1 /\ receipts[a] # None

(* An accepted record names what Bambuddy made of this very request, and its  *)
(* intent is there (delivery.rs, accepted).                                  *)
ReceiptsAreTrue ==
  \A a \in Attempts : receipts[a] # None =>
    /\ taken[a] = 1 /\ intents[a] # None
    /\ CASE intents[a].act = "import" -> library[receipts[a]].by = a
         [] intents[a].act = "stage"  -> queue[receipts[a]].by = a
         [] intents[a].act = "start"  -> receipts[a] = intents[a].print

(* The links of a print fit its observations: status never fails for a job    *)
(* of this server, whatever was interrupted (delivery.rs, observe).          *)
LinksFit ==
  \A p \in DOMAIN queue : assoc[queue[p].file] # None =>
    \A a \in Submissions(p) : LinkFits(p, a, assoc[queue[p].file])

(* The evidence is what happened: it neither misses what was sent nor claims  *)
(* what was not.                                                            *)
EvidenceIsTrue == ImportsAreRetained /\ ReceiptsAreTrue /\ LinksFit

(* A print whose staging is on record runs only after a start that is on      *)
(* record too: staging and updates start nothing (docs/printer-integration.md: *)
(* "Stage requests manual start; the explicit start/control actions are        *)
(* separate").                                                              *)
StartsAreOnRecord ==
  \A p \in DOMAIN queue :
    queue[p].status \in {"printing", "completed"} /\ intents[queue[p].by] # None =>
      \E a \in Attempts : intents[a] # None /\ intents[a].act = "start" /\ intents[a].print = p

(* An observation that a print ran is retained only if it did, and lists       *)
(* submissions that Bambuddy took; an acknowledgement is no observation.     *)
ObservationsAreTrue ==
  \A o \in observations :
    /\ o.execution = "printing"  => queue[o.print].status \in {"printing", "completed"}
    /\ o.execution = "completed" => queue[o.print].status = "completed"
    /\ \A a \in o.submissions : taken[a] = 1

=============================================================================
