-------------------------------- MODULE Uploads --------------------------------
(***************************************************************************)
(* Chunked uploads (upload.rs) on the storage of ScratchStorage: begin, any *)
(* number of chunks, and a commit that puts the file at its destination.     *)
(* Requests of several clients work on one upload at a time in any order;   *)
(* the registry's mutex guards the map, each upload's own mutex its file.   *)
(* A request may be dropped by its client at every await; the blocking task *)
(* that it started goes on and keeps the mutex and the upload.              *)
(*                                                                         *)
(* An upload is known by its staging directory.  Every chunk is ChunkSize   *)
(* bytes and is called after the client that sent it.  All uploads have the  *)
(* same destination.                                                        *)
(***************************************************************************)
EXTENDS ScratchStorage, Sequences

CONSTANTS
  Clients,      \* requests that may be under way at the same time
  None,         \* no upload
  MaxUploads,   \* MAX_CONCURRENT_UPLOADS
  MaxOps,       \* MAX_CONCURRENT_WORKSPACE_OPS: blocking tasks at the same time
  ChunkSize,    \* bytes of a chunk
  Torn,         \* the part of a chunk that a failed append leaves: one byte
  MaxChunks,    \* bound: chunks of an upload
  MaxRestarts   \* bound: restarts of the server

Ids == Dirs \ {WorkDir}

ASSUME UploadAssumption ==
  /\ MaxUploads \in Nat \ {0} /\ MaxOps \in Nat \ {0} /\ ChunkSize \in Nat \ {0}
  /\ MaxChunks \in Nat /\ MaxRestarts \in Nat
  /\ Torn \notin Clients /\ {"worker", Nobody} \cap Clients = {}
  /\ IsFiniteSet(Clients) /\ None \notin Ids

VARIABLES
  open,         \* UploadRegistry.uploads: the uploads in the map
  upload,       \* [Ids -> Upload or None]: the uploads that somebody holds
  op,           \* [Clients -> [pc, kind, id]]: the requests
  published,    \* the file at the destination, or None
  promised,     \* what had been acknowledged of the upload that is published
  restarts

uploadVars == <<open, upload, op, published, promised, restarts>>
vars       == <<storageVars, uploadVars>>

\* file is the staging file in chunks, written the length that counts; mutex is
\* the owner of the state's lock; stale: idle for UPLOAD_IDLE_TIMEOUT.  acked
\* remembers the chunks that were answered with a running total.
Upload == [file : Seq(Clients \cup {Torn}), written : Nat, committed : BOOLEAN,
           overwrite : BOOLEAN, stale : BOOLEAN, mutex : Clients \cup {Nobody},
           acked : Seq(Clients)]

\* No upload and no file are told from one.
ASSUME NoneAssumption == None \notin Upload /\ None \notin Seq(Clients)

NewUpload(replace) ==
  [file |-> <<>>, written |-> 0, committed |-> FALSE, overwrite |-> replace,
   stale |-> FALSE, mutex |-> Nobody, acked |-> <<>>]

-----------------------------------------------------------------------------
(* Requests.                                                               *)

Kinds   == {"none", "begin", "chunk", "commit"}
TaskPc  == {"admit", "append", "copy", "linked"}
HeldPc  == {"insert", "lock", "permit"} \cup TaskPc
OpPc    == {"idle", "stage"} \cup HeldPc

IdleOp == [pc |-> "idle", kind |-> "none", id |-> None]

At(c, pc)   == op[c].pc = pc
GoTo(c, pc) == op' = [op EXCEPT ![c].pc = pc]
Holds(c, u) == op[c].id = u
Mine(c)     == upload[op[c].id]

\* A blocking task can start: tools::blocking takes a permit first.
Permitted == Cardinality({c \in Clients : op[c].pc \in TaskPc}) < MaxOps

\* Bytes of a staging file.
Size(f) == LET torn == Cardinality({i \in DOMAIN f : f[i] = Torn})
           IN  ChunkSize * (Len(f) - torn) + torn

\* The uploads ids lose their last owner; the others become now.
Drop(ids, now) ==
  /\ upload'   = [u \in Ids |-> IF u \in ids THEN None ELSE now[u]]
  /\ lease'    = [d \in Dirs |-> IF d \in ids THEN lease[d] \ {"server"} ELSE lease[d]]
  /\ dropping' = [d \in Dirs |-> IF d \in ids THEN dropping[d] \cup {"server"} ELSE dropping[d]]

\* A request of c ends and lets go of its upload, which is now.  The upload is
\* dropped when it is not in the map and no other request holds it.
Finish(c, now, map) ==
  /\ op' = [op EXCEPT ![c] = IdleOp]
  /\ open' = map
  /\ Drop({u \in Ids \ map : Holds(c, u) /\ ~\E b \in Clients \ {c} : Holds(b, u)}, now)

\* So does one that holds the mutex.
FinishTask(c, up, map) ==
  Finish(c, [upload EXCEPT ![op[c].id] = [up EXCEPT !.mutex = Nobody]], map)

-----------------------------------------------------------------------------
(* begin.                                                                  *)

\* Mutant of Expired: an upload that a request is about to lock may expire.
ExpiredUnlocked == {u \in open : upload[u].stale /\ upload[u].mutex = Nobody}

\* collect_expired: idle uploads that no request holds and nobody has locked.
Expired == {u \in open : /\ upload[u].stale /\ upload[u].mutex = Nobody
                         /\ ~\E c \in Clients : Holds(c, u)}

Begin(c) ==
  /\ At(c, "idle") /\ Permitted
  /\ op' = [op EXCEPT ![c] = [pc |-> "stage", kind |-> "begin", id |-> None]]
  /\ open' = open \ Expired
  /\ Drop(Expired, upload)
  /\ UNCHANGED <<controller, budget, disk, worker, allowance, twice, published, promised, restarts>>

\* The staging directory with an empty file; its identity is the upload's.
Stage(c) ==
  /\ At(c, "stage") /\ Permitted
  /\ \E u \in Ids, replace \in BOOLEAN :
       /\ upload[u] = None
       /\ CreateScratch(u, 0, "server")
       /\ op' = [op EXCEPT ![c].pc = "insert", ![c].id = u]
       /\ upload' = [upload EXCEPT ![u] = NewUpload(replace)]
  /\ UNCHANGED <<controller, budget, retained, dropping, worker, allowance, twice, open,
                 published, promised, restarts>>

StageFails(c) ==
  /\ At(c, "stage")
  /\ op' = [op EXCEPT ![c] = IdleOp]
  /\ UNCHANGED <<storageVars, open, upload, published, promised, restarts>>

\* Expired uploads leave, the limit is checked, and the upload enters the map.
Insert(c) ==
  /\ At(c, "insert")
  /\ LET u == op[c].id  left == open \ Expired IN
     IF Cardinality(left) >= MaxUploads
     THEN open' = left /\ Drop(Expired \cup {u}, upload)
     ELSE open' = left \cup {u} /\ Drop(Expired, upload)
  /\ op' = [op EXCEPT ![c] = IdleOp]
  /\ UNCHANGED <<controller, budget, disk, worker, allowance, twice, published, promised, restarts>>

-----------------------------------------------------------------------------
(* chunk and commit.                                                        *)

\* UploadRegistry::get: the request holds the upload from here on.
Get(c, u, kind) ==
  /\ At(c, "idle") /\ u \in open
  /\ op' = [op EXCEPT ![c] = [pc |-> "lock", kind |-> kind, id |-> u]]
  /\ UNCHANGED <<storageVars, open, upload, published, promised, restarts>>

Lock(c) ==
  /\ At(c, "lock") /\ Mine(c).mutex = Nobody
  /\ upload' = [upload EXCEPT ![op[c].id].mutex = c]
  /\ GoTo(c, "permit")
  /\ UNCHANGED <<storageVars, open, published, promised, restarts>>

\* Mutant of Disconnect: what the dropped request had locked stays locked.
DisconnectLocked(c) ==
  /\ op[c].pc \in {"stage", "insert", "lock", "permit"}
  /\ Finish(c, upload, open)
  /\ UNCHANGED <<controller, budget, disk, worker, allowance, twice, published, promised, restarts>>

\* The client goes away at an await: the request is dropped with what it holds.
\* (A task that has started goes on; its request is not waited for.)
Disconnect(c) ==
  /\ op[c].pc \in {"stage", "insert", "lock", "permit"}
  /\ IF At(c, "permit") THEN FinishTask(c, Mine(c), open) ELSE Finish(c, upload, open)
  /\ UNCHANGED <<controller, budget, disk, worker, allowance, twice, published, promised, restarts>>

\* Mutant of Cut: what a failed append left stays in the file.
Uncut(up) == up

\* set_len: the file without what was not acknowledged.
Cut(up) == [up EXCEPT !.file = SubSeq(@, 1, up.written)]

\* Mutant of Start: the task does not look whether the upload was committed.
StartCommitted(c) ==
  /\ At(c, "permit") /\ Permitted
  /\ upload' = [upload EXCEPT ![op[c].id] = Cut(@)]
  /\ used' = [used EXCEPT ![op[c].id] = Size(Cut(Mine(c)).file)]
  /\ GoTo(c, "admit")
  /\ UNCHANGED <<controller, budget, retained, present, reserve, lease, dropping, worker,
                 allowance, twice, open, published, promised, restarts>>

\* The task starts and cuts the file back to the chunks that count, unless the
\* upload was committed in the meantime.
Start(c) ==
  /\ At(c, "permit") /\ Permitted
  /\ IF Mine(c).committed
     THEN FinishTask(c, Mine(c), open) /\ UNCHANGED used
     ELSE /\ upload' = [upload EXCEPT ![op[c].id] = Cut(@)]
          /\ used' = [used EXCEPT ![op[c].id] = Size(Cut(Mine(c)).file)]
          /\ GoTo(c, "admit")
          /\ UNCHANGED <<lease, dropping, open>>
  /\ UNCHANGED <<controller, budget, retained, present, reserve, worker, allowance, twice,
                 published, promised, restarts>>

\* Room for the chunk, or for the copy beside the destination.
Admit(c) ==
  /\ At(c, "admit")
  /\ LET chunk == op[c].kind = "chunk" IN
     /\ AdmitWrite(IF chunk THEN ChunkSize ELSE Size(Mine(c).file), c)
     /\ GoTo(c, IF chunk THEN "append" ELSE "copy")
  /\ UNCHANGED <<budget, disk, lease, dropping, worker, allowance, twice, open, upload,
                 published, promised, restarts>>

\* No room, or the count was incomplete.
Refuse(c) ==
  /\ At(c, "admit") /\ Free
  /\ FinishTask(c, Mine(c), open)
  /\ UNCHANGED <<controller, budget, disk, worker, allowance, twice, published, promised, restarts>>

\* append and the update of UploadState, or a failure after a part of the chunk.
AppendChunk(c) ==
  /\ At(c, "append")
  /\ \E up \in { [Mine(c) EXCEPT !.file = Append(@, c), !.written = @ + 1,
                                 !.acked = Append(@, c), !.stale = FALSE],
                 [Mine(c) EXCEPT !.file = Append(@, Torn)],
                 Mine(c) } :
       /\ used' = [used EXCEPT ![op[c].id] = Size(up.file)]
       /\ FinishTask(c, up, open)
  /\ EndWrite(c)
  /\ UNCHANGED <<budget, retained, present, reserve, worker, allowance, twice,
                 published, promised, restarts>>

\* The end of a commit whose file is at its destination.  The directory may not
\* have been synchronised, which is an error, and the upload stays.
Committed(c, durable) ==
  LET up == Mine(c) IN
  /\ IF durable
     THEN FinishTask(c, [up EXCEPT !.committed = TRUE], open \ {op[c].id})
     ELSE FinishTask(c, up, open)
  /\ EndWrite(c)

\* Copied beside the destination and renamed over it, or linked where nothing
\* is; or the copy fails, or something is there, and the copy is removed.
Publish(c) ==
  /\ At(c, "copy")
  /\ LET up == Mine(c)  n == Size(up.file) IN
     \/ /\ up.overwrite
        /\ retained' = retained + n - (IF published = None THEN 0 ELSE Size(published))
        /\ published' = up.file /\ promised' = up.acked
        /\ \E durable \in BOOLEAN : Committed(c, durable)
        /\ UNCHANGED twice
     \/ /\ ~up.overwrite /\ published = None
        /\ retained' = retained + 2 * n /\ twice' = twice + n
        /\ published' = up.file /\ promised' = up.acked
        /\ GoTo(c, "linked")
        /\ UNCHANGED <<controller, lease, dropping, open, upload>>
     \/ /\ EndWrite(c) /\ FinishTask(c, up, open)
        /\ UNCHANGED <<retained, twice, published, promised>>
  /\ UNCHANGED <<budget, present, reserve, used, worker, allowance, restarts>>

\* The temporary name goes; that may fail, and its cleanup too.
Unlink(c) ==
  /\ At(c, "linked")
  /\ LET n == Size(Mine(c).file) IN
     \/ /\ retained' = retained - n /\ twice' = twice - n
        /\ \E durable \in BOOLEAN : Committed(c, durable)
     \/ /\ UNCHANGED <<retained, twice>>
        /\ Committed(c, FALSE)
  /\ UNCHANGED <<budget, present, reserve, used, worker, allowance, published, promised, restarts>>

-----------------------------------------------------------------------------
(* Drop, time, restarts.                                                    *)

DroppedCleansUp(u) ==
  /\ "server" \in dropping[u]
  /\ CleanupScratch(u)
  /\ dropping' = [dropping EXCEPT ![u] = @ \ {"server"}]
  /\ UNCHANGED <<controller, budget, retained, lease, worker, allowance, twice, uploadVars>>

Age(u) ==
  /\ u \in open /\ ~upload[u].stale
  /\ upload' = [upload EXCEPT ![u].stale = TRUE]
  /\ UNCHANGED <<storageVars, open, op, published, promised, restarts>>

\* The server stops and starts again, with a budget: files stay, and what there
\* is of a copy under way; leases and everything in memory do not.
Restart ==
  /\ restarts < MaxRestarts
  /\ restarts' = restarts + 1
  /\ controller \in {Nobody} \cup Clients
  /\ controller' = Nobody
  /\ lease'    = [d \in Dirs |-> lease[d] \ {"server"}]
  /\ dropping' = [d \in Dirs |-> dropping[d] \ {"server"}]
  /\ open' = {} /\ upload' = [u \in Ids |-> None]
  /\ op' = [c \in Clients |-> IdleOp]
  /\ \E left \in SUBSET {c \in Clients : At(c, "copy")} :
       retained' = retained + SumFunction([c \in left |-> Size(Mine(c).file)])
  /\ UNCHANGED <<present, reserve, used, worker, twice, published, promised>>
  /\ \E b \in Budgets : Configure(b)

-----------------------------------------------------------------------------
(* Specification.                                                          *)

Init ==
  /\ StorageInit
  /\ open = {} /\ upload = [u \in Ids |-> None]
  /\ op = [c \in Clients |-> IdleOp]
  /\ published = None /\ promised = None
  /\ restarts = 0

\* Clients send chunks while the bound allows.
Chunks(u) == Len(upload[u].acked)
             + Cardinality({c \in Clients : Holds(c, u) /\ op[c].kind = "chunk"})

Request(c) == \/ Begin(c)
              \/ \E u \in open : \/ Chunks(u) < MaxChunks /\ Get(c, u, "chunk")
                                 \/ Get(c, u, "commit")

Serve(c) == \/ Stage(c) \/ StageFails(c) \/ Insert(c)
            \/ Lock(c) \/ Start(c) \/ Admit(c) \/ Refuse(c)
            \/ AppendChunk(c) \/ Publish(c) \/ Unlink(c)

Next ==
  \/ \E c \in Clients : Request(c) \/ Serve(c) \/ Disconnect(c)
  \/ \E u \in Ids : DroppedCleansUp(u) \/ Age(u)
  \/ Restart
  \/ (Worker \/ WorkerKilled) /\ UNCHANGED uploadVars
  \/ \E d \in Dirs : OperatorCleansUp(d) /\ UNCHANGED uploadVars

Spec == Init /\ [][Next]_vars

-----------------------------------------------------------------------------
(* Properties.                                                             *)

TypeOK ==
  /\ controller \in {Nobody, "worker"} \cup Clients
  /\ budget \in Budgets /\ retained \in Nat /\ twice \in Nat
  /\ present \subseteq Dirs /\ open \subseteq Ids
  /\ reserve \in [Dirs -> Nat] /\ used \in [Dirs -> Nat]
  /\ \A d \in Dirs \ present : used[d] = 0 /\ reserve[d] = 0
  /\ lease \in [Dirs -> SUBSET {"server", "worker", "program"}]
  /\ dropping \in [Dirs -> SUBSET {"server", "worker"}]
  /\ worker \in [pc : WorkerPc, program : BOOLEAN, works : Nat]
  /\ upload \in [Ids -> Upload \cup {None}]
  /\ op \in [Clients -> [pc : OpPc, kind : Kinds, id : Ids \cup {None}]]
  /\ restarts \in Nat

(* Whatever is at the destination, also after a failed append, an error     *)
(* after the rename, or a stop, is what had been acknowledged of its upload  *)
(* in that order, and not a byte more (upload.rs, truncate before commit).   *)
PublishedIsAcknowledged == published = promised

(* A successful commit is final: no task works on an upload that another     *)
(* one has committed.  A chunk acknowledged by it would be lost, a second    *)
(* commit would replace what the first one published (UploadState.committed, *)
(* read under the mutex that the task keeps).                                *)
CommitIsFinal == \A c \in Clients : op[c].pc \in TaskPc => ~Mine(c).committed

(* An upload that a request works on is reachable: it has not expired under  *)
(* the request, whose chunk would otherwise be acknowledged and then thrown  *)
(* away (collect_expired).  Only a commit takes it out of the map.           *)
HeldIsOpen ==
  \A c \in Clients :
    op[c].kind \in {"chunk", "commit"} =>
      op[c].id \in open \/ (Mine(c) # None /\ Mine(c).committed)

(* The staging directory of an upload that can still be continued exists,    *)
(* with the file as the upload knows it: neither the operator's cleanup nor  *)
(* the end of another request took it away (ManagedScratch).                 *)
StagingKept ==
  \A u \in Ids :
    upload[u] # None => /\ u \in present /\ used[u] = Size(upload[u].file)
                        /\ Len(upload[u].file) >= upload[u].written

(* What a request or a native program works with is kept for it, whatever    *)
(* expires, is cleaned up or dies meanwhile: the upload in the map, its      *)
(* staging directory, and the program's directory with its reservation.      *)
HeldIsKept == HeldIsOpen /\ StagingKept /\ ProgramProtected

(* Requests never wait for each other in a circle: while one is under way    *)
(* there is a step of the server, or the end of the worker's copy, that can   *)
(* be taken (the upload's mutex, the permits of tools::blocking and the       *)
(* controller lock are taken in this order, and each is given back by every   *)
(* way out).                                                                *)
Progress == \/ \E c \in Clients : Serve(c)
            \/ WorkerCopied /\ UNCHANGED uploadVars

NoCircularWait == (\E c \in Clients : ~At(c, "idle")) => ENABLED Progress

=============================================================================
