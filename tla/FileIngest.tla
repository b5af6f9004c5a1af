------------------------------- MODULE FileIngest -------------------------------
(***************************************************************************)
(* Native raw-byte uploads (file_ingest.rs): a transfer is authorized, its   *)
(* bytes arrive in the body of one PUT, and ingest publishes them at a       *)
(* destination.  Receipts of at most MaxReceipts transfers are in memory,    *)
(* and at most MaxTransfers of them have a permit.                           *)
(*                                                                         *)
(* Three kinds of processes work on one transfer: requests of clients, which *)
(* wait for the lock of its state and may be dropped while they wait; the    *)
(* task that receives the body, with blocking jobs for the file system; and  *)
(* the blocking task of ingest, which has the lock of the state throughout.  *)
(* The two tasks go on when their client leaves.  A transfer is dropped,     *)
(* with its file and its permit, when it is not in the map and nobody has it *)
(* in hand (InHand).  A unit of size stands for any number of bytes.         *)
(***************************************************************************)
EXTENDS Naturals, Sequences, FiniteSets

CONSTANTS
  Transfers,     \* identities: each is drawn once
  Clients,       \* requests that wait for a lock at the same time
  Paths,         \* destinations
  Declarations,  \* what an authorization may declare
  MaxTransfers,  \* MAX_TRANSFERS
  MaxReceipts,   \* MAX_RECEIPTS
  MaxBytes,      \* max_bytes
  None,          \* nothing
  Other          \* what somebody else put at a destination

\* The size, and the digest of a file of that size; either may be left out.
Declaration == [size : Nat \cup {None}, digest : Nat \cup {None}]
Params      == [path : Paths, overwrite : BOOLEAN]

ASSUME IngestAssumption ==
  /\ MaxTransfers \in Nat \ {0} /\ MaxReceipts \in Nat \ {0} /\ MaxBytes \in Nat
  /\ Declarations \subseteq Declaration /\ IsFiniteSet(Transfers)
  /\ None \notin Transfers \cup Nat /\ Other \notin Transfers \cup {None}

VARIABLES
  listed,    \* IncomingFiles.transfers: the transfers in the map
  transfer,  \* [Transfers -> Transfer or None]: what was authorized
  request,   \* [Clients -> Request or None]: who waits for the lock of a state
  receiver,  \* [Transfers -> ReceiverPc]: the task that receives the body
  job,       \* [Transfers -> JobPc]: its blocking job, which may outlive it
  got,       \* [Transfers -> [size, right]]: the bytes so far, and whether they
             \* are those that the client wanted to send
  task,      \* [Transfers -> Task or None]: the task of ingest; it has the lock
  dest,      \* [Paths -> what is there]
  writes,    \* [Transfers -> Seq(Paths)]: remembers where its bytes were put
  told       \* remembers what clients were told of the outcome

vars == <<listed, transfer, request, receiver, job, got, task, dest, writes, told>>

States     == {"prepared", "receiving", "ready", "failed", "uncertain", "committed"}
ReceiverPc == {"none", "open", "frame", "write", "sync", "good", "bad"}
JobPc      == {"none", "open", "made", "write", "sync"}

Transfer == [declared : Declarations, state : States, params : Params \cup {None},
             expired : BOOLEAN, permit : BOOLEAN]
Request  == [kind : {"put", "status"}, file : Transfers, params : {None}]
              \cup [kind : {"ingest"}, file : Transfers, params : Params]
Task     == [pc : {"begin", "commit", "published", "drop"}, params : Params]
Answer   == [file : Transfers, says : {"committed", "uncertain", "failed"},
             path : Paths \cup {None}]

\* Nothing is told from the records.
ASSUME NoneAssumption == None \notin Transfer \cup Request \cup Task \cup Params

-----------------------------------------------------------------------------
(* The registry.                                                           *)

Unlocked(t) == task[t] = None
Expired     == {t \in listed : transfer[t].expired}

\* Mutant of Fresh: transfers in use outlive their time.
FreshOrUsed == {t \in listed : ~transfer[t].expired \/ transfer[t].permit}

\* prune: what is left of the map.
Fresh == listed \ Expired

\* Somebody has t in hand when map is the map.
InHand(t, map) ==
  \/ t \in map \/ receiver[t] # "none" \/ task[t] # None
  \/ \E c \in Clients : request[c] # None /\ request[c].file = t

\* The transfers with a permit, when map is the map.
Permits(map) == {t \in Transfers : transfer[t] # None /\ transfer[t].permit /\ InHand(t, map)}

\* authorize, in one step: a permit that is taken a moment before the transfer
\* enters the map makes others be refused, no more.
Authorize(t) ==
  /\ transfer[t] = None
  /\ Cardinality(Permits(Fresh)) < MaxTransfers /\ Cardinality(Fresh) < MaxReceipts
  /\ \E d \in Declarations :
       /\ d.size # None => d.size <= MaxBytes
       /\ transfer' = [transfer EXCEPT ![t] =
            [declared |-> d, state |-> "prepared", params |-> None,
             expired |-> FALSE, permit |-> TRUE]]
  /\ listed' = Fresh \cup {t}
  /\ UNCHANGED <<request, receiver, job, got, task, dest, writes, told>>

\* prune, by the reaper or by a call that is refused.
Prune ==
  /\ Expired # {}
  /\ listed' = Fresh
  /\ UNCHANGED <<transfer, request, receiver, job, got, task, dest, writes, told>>

\* RETENTION is over.
Expire(t) ==
  /\ transfer[t] # None /\ ~transfer[t].expired /\ InHand(t, listed)
  /\ transfer' = [transfer EXCEPT ![t].expired = TRUE]
  /\ UNCHANGED <<listed, request, receiver, job, got, task, dest, writes, told>>

-----------------------------------------------------------------------------
(* Requests.                                                               *)

\* upload, status and ingest until they wait for the lock of the state (get).
Ask(c) ==
  /\ request[c] = None
  /\ \E r \in Request : r.file \in Fresh /\ request' = [request EXCEPT ![c] = r]
  /\ listed' = Fresh
  /\ UNCHANGED <<transfer, receiver, job, got, task, dest, writes, told>>

\* A request of kind gets the lock of its transfer, or lets go of it.
Served(c, kind) == /\ request[c] # None /\ request[c].kind = kind
                   /\ Unlocked(request[c].file)
                   /\ request' = [request EXCEPT ![c] = None]

Leave(c) ==
  /\ request[c] # None
  /\ request' = [request EXCEPT ![c] = None]
  /\ UNCHANGED <<listed, transfer, receiver, job, got, task, dest, writes, told>>

\* upload: the first PUT receives; any other is a conflict.
Put(c) ==
  /\ Served(c, "put")
  /\ LET t == request[c].file IN
     IF transfer[t].state # "prepared"
     THEN UNCHANGED <<transfer, receiver, job>>
     ELSE /\ transfer' = [transfer EXCEPT ![t].state = "receiving"]
          /\ receiver' = [receiver EXCEPT ![t] = "open"]
          /\ job' = [job EXCEPT ![t] = "open"]
  /\ UNCHANGED <<listed, got, task, dest, writes, told>>

\* What an answer says of the outcome of t.
Outcome(t) ==
  IF transfer[t].state \notin {"committed", "uncertain", "failed"} THEN {}
  ELSE {[file |-> t, says |-> transfer[t].state,
         path |-> IF transfer[t].params = None THEN None ELSE transfer[t].params.path]}

Status(c) ==
  /\ Served(c, "status")
  /\ told' = told \cup Outcome(request[c].file)
  /\ UNCHANGED <<listed, transfer, receiver, job, got, task, dest, writes>>

\* ingest: the blocking task takes over the lock and the transfer.
Ingest(c) ==
  /\ Served(c, "ingest")
  /\ task' = [task EXCEPT ![request[c].file] = [pc |-> "begin", params |-> request[c].params]]
  /\ UNCHANGED <<listed, transfer, receiver, job, got, dest, writes, told>>

-----------------------------------------------------------------------------
(* Receiving.                                                              *)

Declared(t) == transfer[t].declared

TooLarge(t, size) ==
  size > MaxBytes \/ (Declared(t).size # None /\ size > Declared(t).size)

\* The bytes are what was declared.
Verified(t) ==
  /\ Declared(t).size # None => got[t].size = Declared(t).size
  /\ Declared(t).digest # None => got[t].right /\ got[t].size = Declared(t).digest

\* The receiver of t, and its job, go on to a step.
Receive(t, pc, j) ==
  /\ receiver' = [receiver EXCEPT ![t] = pc]
  /\ job' = [job EXCEPT ![t] = j]
  /\ UNCHANGED <<listed, transfer, request, task, dest, writes, told>>

\* The staged file appears in a scratch directory.
Make(t) ==
  /\ job[t] = "open"
  /\ job' = [job EXCEPT ![t] = "made"]
  /\ UNCHANGED <<listed, transfer, request, receiver, got, task, dest, writes, told>>

\* A frame is too much, or is written by a job.
Frame(t) ==
  /\ receiver[t] = "frame"
  /\ \E right \in BOOLEAN :
       got' = [got EXCEPT ![t].size = @ + 1, ![t].right = @ /\ right]
  /\ IF TooLarge(t, got[t].size + 1) THEN Receive(t, "bad", "none")
                                     ELSE Receive(t, "write", "write")

\* The end of the body, or no end: a broken body, or IDLE_TIMEOUT.
BodyEnds(t) ==
  /\ receiver[t] = "frame"
  /\ IF Verified(t) THEN Receive(t, "sync", "sync") ELSE Receive(t, "bad", "none")
  /\ UNCHANGED got

BodyFails(t) == receiver[t] = "frame" /\ Receive(t, "bad", "none") /\ UNCHANGED got

\* The receiver hears of its job, which may have failed.
JobEnds(t) ==
  /\ \/ receiver[t] = "open"  /\ job[t] = "made"  /\ Receive(t, "frame", "none")
     \/ receiver[t] = "write" /\ Receive(t, "frame", "none")
     \/ receiver[t] = "sync"  /\ Receive(t, "good", "none")
     \/ receiver[t] \in {"open", "write", "sync"} /\ Receive(t, "bad", "none")
  /\ UNCHANGED got

\* timeout_at: the receiver stops at the end of the retention, its job does not.
TimesOut(t) ==
  /\ receiver[t] \in {"open", "frame", "write", "sync"} /\ transfer[t].expired
  /\ Receive(t, "bad", job[t])
  /\ UNCHANGED got

\* The job of a receiver that has stopped ends, and its file goes with it.
JobForgotten(t) ==
  /\ job[t] # "none" /\ receiver[t] \in {"none", "bad"}
  /\ job' = [job EXCEPT ![t] = "none"]
  /\ UNCHANGED <<listed, transfer, request, receiver, got, task, dest, writes, told>>

\* The end of the task in upload: the result enters the state.
Settle(t) ==
  /\ receiver[t] \in {"good", "bad"} /\ Unlocked(t)
  /\ receiver' = [receiver EXCEPT ![t] = "none"]
  /\ IF receiver[t] = "good"
     THEN transfer' = [transfer EXCEPT ![t].state = "ready"]
     ELSE transfer' = [transfer EXCEPT ![t].state = "failed", ![t].permit = FALSE]
  /\ told' = told \cup Outcome(t)'
  /\ UNCHANGED <<listed, request, job, got, task, dest, writes>>

-----------------------------------------------------------------------------
(* The blocking task of ingest.                                            *)

\* Mutant of Repeats: the parameters are not compared.
RepeatsAnything(t) == transfer[t].state = "committed"

\* A successful ingest is repeated.
Repeats(t) == transfer[t].state = "committed" /\ transfer[t].params = task[t].params

\* The checks.  An attempt is on record as uncertain before it is made.
Begin(t) ==
  /\ task[t] # None /\ task[t].pc = "begin"
  /\ IF ~transfer[t].expired /\ transfer[t].state = "ready"
     THEN /\ transfer' = [transfer EXCEPT ![t].state = "uncertain", ![t].params = task[t].params]
          /\ task' = [task EXCEPT ![t].pc = "commit"]
          /\ UNCHANGED told
     ELSE /\ task' = [task EXCEPT ![t] = None]
          /\ told' = IF transfer[t].expired THEN told
                     ELSE told \cup
                       (IF Repeats(t) THEN {[file |-> t, says |-> "committed",
                                             path |-> task[t].params.path]}
                        ELSE IF transfer[t].state = "uncertain" THEN Outcome(t) ELSE {})
          /\ UNCHANGED transfer
  /\ UNCHANGED <<listed, request, receiver, job, got, dest, writes>>

\* commit_generated_artifact_bounded up to its rename or link.
Publish(t) ==
  /\ task[t] # None /\ task[t].pc = "commit"
  /\ LET p == task[t].params IN
     /\ p.overwrite \/ dest[p.path] = None
     /\ dest' = [dest EXCEPT ![p.path] = t]
     /\ writes' = [writes EXCEPT ![t] = Append(@, p.path)]
  /\ task' = [task EXCEPT ![t].pc = "published"]
  /\ UNCHANGED <<listed, transfer, request, receiver, job, got, told>>

\* The attempt ends, with an error before or after the publication or with a
\* receipt.  The permit is dropped before the staged file.
Attempted(t, state) ==
  /\ transfer' = [transfer EXCEPT ![t].state = state, ![t].permit = FALSE]
  /\ task' = [task EXCEPT ![t].pc = "drop"]
  /\ told' = told \cup Outcome(t)'
  /\ UNCHANGED <<listed, request, receiver, job, got, dest, writes>>

\* Mutant of Fail: a failed attempt can be repeated.
FailsForNow(t) == /\ task[t] # None /\ task[t].pc \in {"commit", "published"}
                  /\ Attempted(t, "ready")

Fail(t)    == task[t] # None /\ task[t].pc \in {"commit", "published"} /\ Attempted(t, "uncertain")
Succeed(t) == task[t] # None /\ task[t].pc = "published" /\ Attempted(t, "committed")

\* The staged file is removed, and the lock is free.
DropStaged(t) ==
  /\ task[t] # None /\ task[t].pc = "drop"
  /\ task' = [task EXCEPT ![t] = None]
  /\ UNCHANGED <<listed, transfer, request, receiver, job, got, dest, writes, told>>

-----------------------------------------------------------------------------
(* The environment.                                                        *)

\* Somebody else writes or removes a file.
Edit(p) ==
  /\ \E there \in {Other, None} : dest' = [dest EXCEPT ![p] = there]
  /\ UNCHANGED <<listed, transfer, request, receiver, job, got, task, writes, told>>

\* The server stops and starts: receipts are in memory.
Restart ==
  /\ listed' = {}
  /\ request' = [c \in Clients |-> None]
  /\ receiver' = [t \in Transfers |-> "none"]
  /\ job' = [t \in Transfers |-> "none"]
  /\ task' = [t \in Transfers |-> None]
  /\ UNCHANGED <<transfer, got, dest, writes, told>>

-----------------------------------------------------------------------------
Init ==
  /\ listed = {} /\ told = {}
  /\ transfer = [t \in Transfers |-> None]
  /\ request = [c \in Clients |-> None]
  /\ receiver = [t \in Transfers |-> "none"]
  /\ job = [t \in Transfers |-> "none"]
  /\ got = [t \in Transfers |-> [size |-> 0, right |-> TRUE]]
  /\ task = [t \in Transfers |-> None]
  /\ dest \in [Paths -> {None, Other}]
  /\ writes = [t \in Transfers |-> <<>>]

Answers(c)   == Put(c) \/ Status(c) \/ Ingest(c)
Receives(t)  == Frame(t) \/ BodyEnds(t) \/ BodyFails(t) \/ JobEnds(t) \/ TimesOut(t) \/ Settle(t)
Jobs(t)      == Make(t) \/ JobForgotten(t)
Ingests(t)   == Begin(t) \/ Publish(t) \/ Fail(t) \/ Succeed(t) \/ DropStaged(t)

Next ==
  \/ \E t \in Transfers : Authorize(t) \/ Expire(t) \/ Receives(t) \/ Jobs(t) \/ Ingests(t)
  \/ \E c \in Clients : Ask(c) \/ Leave(c) \/ Answers(c)
  \/ \E p \in Paths : Edit(p)
  \/ Prune \/ Restart

\* Time passes and the reaper runs; tasks and jobs come to their end; whoever
\* waits for a lock gets it, since tokio's mutexes are first come, first served.
Fairness ==
  /\ WF_vars(Prune)
  /\ \A t \in Transfers : /\ WF_vars(Expire(t)) /\ WF_vars(Receives(t))
                          /\ WF_vars(Jobs(t)) /\ WF_vars(Ingests(t))
  /\ \A c \in Clients : WF_vars(Answers(c))

Spec     == Init /\ [][Next]_vars
FairSpec == Spec /\ Fairness

-----------------------------------------------------------------------------
(* Properties.                                                             *)

(* The type invariant.                                                     *)
TypeOK ==
  /\ listed \subseteq {t \in Transfers : transfer[t] # None}
  /\ transfer \in [Transfers -> Transfer \cup {None}]
  /\ request \in [Clients -> Request \cup {None}]
  /\ receiver \in [Transfers -> ReceiverPc] /\ job \in [Transfers -> JobPc]
  /\ got \in [Transfers -> [size : Nat, right : BOOLEAN]]
  /\ task \in [Transfers -> Task \cup {None}]
  /\ dest \in [Paths -> Transfers \cup {None, Other}]
  /\ writes \in [Transfers -> Seq(Paths)] /\ told \subseteq Answer

\* The bytes of t are what the client declared, and not too many.
AsDeclared(t) ==
  /\ got[t].size <= MaxBytes /\ Declared(t).size \in {None, got[t].size}
  /\ Declared(t).digest = None \/ (got[t].right /\ Declared(t).digest = got[t].size)

(* What a client is told stays true: of a success, that the bytes were put    *)
(* there, once and nowhere else, and are what was declared; of an uncertain    *)
(* outcome, that they were put there or nowhere; of a failed transfer, that    *)
(* they were put nowhere (status, ingest, upload).                            *)
AnswersAreTrue ==
  \A a \in told :
    CASE a.says = "committed" -> writes[a.file] = <<a.path>> /\ AsDeclared(a.file)
      [] a.says = "uncertain" -> writes[a.file] \in {<<>>, <<a.path>>}
      [] OTHER                -> writes[a.file] = <<>>

(* A transfer writes to a destination once, before anybody is told of its    *)
(* outcome, and over a file only if that was asked for.  So what is changed    *)
(* there afterwards is not overwritten by a repeated or an impatient ingest    *)
(* ("This receipt cannot write again", docs/workflow-interface.md:233).       *)
LaterChangesSurvive ==
  [][\A p \in Paths, t \in Transfers : dest[p] # t /\ dest'[p] = t =>
       /\ writes[t] = <<>> /\ ~\E a \in told : a.file = t
       /\ dest[p] = None \/ task[t].params.overwrite]_vars

\* The bytes of t are in a scratch directory.
Staged(t) ==
  \/ job[t] \in {"made", "write", "sync"} \/ receiver[t] \in {"frame", "write", "sync", "good"}
  \/ transfer[t] # None /\ transfer[t].state = "ready" /\ InHand(t, listed)
  \/ task[t] # None /\ task[t].pc # "begin"

\* They are about to be removed by a job whose receiver has stopped, or by an
\* ingest that has ended.
Leaving(t) ==
  \/ job[t] # "none" /\ receiver[t] \in {"none", "bad"}
  \/ task[t] # None /\ task[t].pc = "drop"

(* Not more than MaxTransfers files are staged, but for those that are just    *)
(* being removed, whoever leaves, expires, is pruned or fails meanwhile        *)
(* (authorize, Transfer.permit).                                             *)
StagedIsBounded == Cardinality({t \in Transfers : Staged(t) /\ ~Leaving(t)}) <= MaxTransfers

(* A permit comes back, whatever the client does with its transfer (prune,   *)
(* upload, ingest).                                                          *)
PermitsComeBack ==
  \A t \in Transfers : t \in Permits(listed) ~> t \notin Permits(listed)
=============================================================================
