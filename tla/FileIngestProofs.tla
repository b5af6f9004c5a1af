---------------------------- MODULE FileIngestProofs ----------------------------
(***************************************************************************)
(* Proofs about FileIngest, for any finite set of transfers and any set of   *)
(* clients, destinations and declarations.  IInv says, for each transfer and *)
(* each state of it, where its bytes were put, what clients were told, which *)
(* task may be at work, and that it has its permit as long as its bytes are   *)
(* staged.                                                                 *)
(***************************************************************************)
EXTENDS FileIngest, FiniteSetTheorems, TLAPS

State(t)  == transfer[t].state
Silent(t) == ~\E a \in told : a.file = t
Busy(t)   == task[t] # None /\ task[t].pc \in {"commit", "published"}

\* Whoever has a transfer in hand has one that was authorized.
Known(t) == InHand(t, listed) => transfer[t] # None

\* The task that receives.
ReceiverOK(t) ==
  /\ receiver[t] # "none" => State(t) = "receiving"
  /\ State(t) = "receiving" /\ InHand(t, listed) => receiver[t] # "none"
  /\ receiver[t] \in {"open", "frame", "write", "sync", "good"} => got[t].size <= MaxBytes
  /\ receiver[t] \in {"sync", "good"} => Verified(t)

\* What the state says of the bytes and of what was told.
StateOK(t) ==
  /\ State(t) \in {"prepared", "receiving", "ready"} => writes[t] = <<>> /\ Silent(t)
  /\ State(t) \in {"prepared", "receiving", "ready", "failed"} =>
       transfer[t].params = None /\ ~Busy(t) /\ writes[t] = <<>>
  /\ State(t) = "prepared" => got[t].size = 0
  /\ State(t) \in {"ready", "uncertain", "committed"} => AsDeclared(t)
  /\ State(t) \in {"uncertain", "committed"} => transfer[t].params \in Params
  /\ State(t) = "uncertain" => writes[t] \in {<<>>, <<transfer[t].params.path>>}
  /\ State(t) = "committed" => writes[t] = <<transfer[t].params.path>>

\* The task of ingest.
TaskOK(t) ==
  /\ Busy(t) => /\ State(t) = "uncertain" /\ Silent(t)
                /\ task[t].params = transfer[t].params
                /\ writes[t] = IF task[t].pc = "commit" THEN <<>> ELSE <<task[t].params.path>>
  /\ task[t] # None /\ task[t].pc = "drop" => State(t) \in {"uncertain", "committed"}

\* Who has a permit.
PermitOK(t) ==
  (State(t) \in {"prepared", "receiving", "ready"} \/ Busy(t)) => transfer[t].permit

\* An answer is still the outcome.
ToldOK(t) == \A a \in told : a.file = t => a \in Outcome(t)

TransferOK(t) ==
  IF transfer[t] = None
  THEN writes[t] = <<>> /\ Silent(t) /\ got[t].size = 0
  ELSE ReceiverOK(t) /\ StateOK(t) /\ TaskOK(t) /\ PermitOK(t) /\ ToldOK(t)

PermitsOK == Cardinality(Permits(listed)) <= MaxTransfers

IInv ==
  /\ TypeOK /\ PermitsOK
  /\ \A t \in Transfers : Known(t) /\ TransferOK(t)

-----------------------------------------------------------------------------
(* Steps and what they leave alone.                                        *)

\* A step is about t: the others are as they were, and hold no more.
StepOf(t) ==
  /\ \A b \in Transfers \ {t} :
       /\ transfer'[b] = transfer[b] /\ receiver'[b] = receiver[b] /\ got'[b] = got[b]
       /\ task'[b] = task[b] /\ writes'[b] = writes[b]
       /\ InHand(b, listed)' => InHand(b, listed)
  /\ \A a \in told' : a \in told \/ a.file = t

\* No transfer changes.
Quiet ==
  /\ UNCHANGED <<transfer, receiver, got, task, writes, told>>
  /\ \A b \in Transfers : InHand(b, listed)' => InHand(b, listed)

\* A transfer that a step leaves alone stays in order.
LEMMA Untouched ==
  ASSUME IInv, NEW b \in Transfers,
         transfer'[b] = transfer[b], receiver'[b] = receiver[b], got'[b] = got[b],
         task'[b] = task[b], writes'[b] = writes[b],
         InHand(b, listed)' => InHand(b, listed),
         \A a \in told' : a \in told \/ a.file # b
  PROVE  Known(b)' /\ TransferOK(b)'
<1>1. Known(b) /\ TransferOK(b)
  BY DEF IInv
<1>2. Known(b)'
  BY <1>1 DEF Known
<1>3. Silent(b) => Silent(b)'
  BY DEF Silent
<1>4. CASE transfer[b] = None
  BY <1>1, <1>3, <1>4, <1>2 DEF TransferOK
<1>5. CASE transfer[b] # None
  <2>1. ReceiverOK(b) /\ StateOK(b) /\ TaskOK(b) /\ PermitOK(b) /\ ToldOK(b)
    BY <1>1, <1>5 DEF TransferOK
  <2>2. ReceiverOK(b)'
    BY <2>1 DEF ReceiverOK, State, Verified, Declared
  <2>3. StateOK(b)'
    BY <2>1, <1>3 DEF StateOK, State, Busy, AsDeclared, Declared
  <2>4. TaskOK(b)'
    BY <2>1, <1>3 DEF TaskOK, State, Busy
  <2>5. PermitOK(b)'
    BY <2>1 DEF PermitOK, State, Busy
  <2>6. ToldOK(b)'
    BY <2>1 DEF ToldOK, Outcome
  <2>. QED  BY <1>2, <1>5, <2>2, <2>3, <2>4, <2>5, <2>6 DEF TransferOK
<1>. QED  BY <1>4, <1>5

LEMMA OthersKeep ==
  ASSUME IInv, NEW t \in Transfers, StepOf(t)
  PROVE  \A b \in Transfers \ {t} : Known(b)' /\ TransferOK(b)'
<1>. SUFFICES ASSUME NEW b \in Transfers \ {t}
              PROVE  Known(b)' /\ TransferOK(b)'
  OBVIOUS
<1>1. \A a \in told' : a \in told \/ a.file # b
  BY DEF StepOf
<1>. QED  BY <1>1, Untouched DEF StepOf

LEMMA QuietKeeps ==
  ASSUME IInv, Quiet
  PROVE  \A b \in Transfers : Known(b)' /\ TransferOK(b)'
BY Untouched DEF Quiet

\* Nobody gets a permit.
LEMMA PermitsShrink ==
  ASSUME IInv, \A b \in Transfers : b \in Permits(listed)' => b \in Permits(listed)
  PROVE  PermitsOK'
<1>1. Permits(listed)' \subseteq Permits(listed) /\ Permits(listed) \subseteq Transfers
  BY DEF Permits
<1>2. IsFiniteSet(Permits(listed))
  BY <1>1, FS_Subset, IngestAssumption
<1>3. /\ Cardinality(Permits(listed)') <= Cardinality(Permits(listed))
      /\ Cardinality(Permits(listed)) \in Nat /\ Cardinality(Permits(listed)') \in Nat
  BY <1>1, <1>2, FS_Subset, FS_CardinalityType
<1>. QED  BY <1>3, IngestAssumption DEF IInv, PermitsOK

\* A step about a transfer that was authorized, after which it is in order.
Orderly(t) ==
  /\ StepOf(t) /\ transfer[t] # None /\ TransferOK(t)'
  /\ transfer'[t] # None /\ (transfer'[t].permit => transfer[t].permit)
  /\ InHand(t, listed)' => InHand(t, listed)

InOrder == PermitsOK' /\ \A t \in Transfers : Known(t)' /\ TransferOK(t)'

LEMMA OrderlyKeeps ==
  ASSUME IInv, NEW t \in Transfers, Orderly(t)
  PROVE  InOrder
<1>1. Known(t)' /\ TransferOK(t)'
  BY DEF Orderly, Known
<1>2. \A b \in Transfers \ {t} : Known(b)' /\ TransferOK(b)'
  BY OthersKeep DEF Orderly
<1>3. \A b \in Transfers : b \in Permits(listed)' => b \in Permits(listed)
  BY DEF Orderly, StepOf, Permits
<1>. QED  BY <1>1, <1>2, <1>3, PermitsShrink DEF InOrder

LEMMA QuietInOrder ==
  ASSUME IInv, Quiet
  PROVE  InOrder
<1>1. \A b \in Transfers : b \in Permits(listed)' => b \in Permits(listed)
  BY DEF Quiet, Permits
<1>. QED  BY <1>1, QuietKeeps, PermitsShrink DEF InOrder

\* What is known of a transfer that is in hand.
LEMMA Own ==
  ASSUME IInv, NEW t \in Transfers, transfer[t] # None
  PROVE  /\ ReceiverOK(t) /\ StateOK(t) /\ TaskOK(t) /\ PermitOK(t) /\ ToldOK(t)
         /\ transfer[t] \in Transfer /\ got[t] \in [size : Nat, right : BOOLEAN]
         /\ task[t] \in Task \cup {None} /\ receiver[t] \in ReceiverPc
BY DEF IInv, TransferOK, TypeOK

LEMMA TaskHasTransfer ==
  ASSUME IInv, NEW t \in Transfers, receiver[t] # "none" \/ task[t] # None \/ t \in listed
  PROVE  transfer[t] # None
BY DEF IInv, Known, InHand

LEMMA RequestHasTransfer ==
  ASSUME IInv, NEW c \in Clients, request[c] # None
  PROVE  /\ request[c] \in Request /\ request[c].file \in Transfers
         /\ transfer[request[c].file] # None /\ InHand(request[c].file, listed)
<1>1. request[c] \in Request
  BY DEF IInv, TypeOK
<1>2. request[c].file \in Transfers
  BY <1>1 DEF Request
<1>. QED  BY <1>1, <1>2 DEF IInv, Known, InHand

-----------------------------------------------------------------------------
(* The steps.                                                              *)

LEMMA QuietSteps ==
  ASSUME IInv, \/ Prune \/ \E p \in Paths : Edit(p)
               \/ \E c \in Clients : Ask(c) \/ Leave(c)
               \/ \E t \in Transfers : Jobs(t)
               \/ UNCHANGED vars
  PROVE  InOrder
<1>1. Fresh \subseteq listed
  BY DEF Fresh
<1>2. CASE Prune \/ (\E p \in Paths : Edit(p)) \/ (\E t \in Transfers : Jobs(t)) \/ UNCHANGED vars
  <2>1. UNCHANGED <<transfer, request, receiver, got, task, writes, told>> /\ listed' \subseteq listed
    BY <1>1, <1>2 DEF Prune, Edit, Jobs, Make, JobForgotten, vars
  <2>. QED  BY <2>1, QuietInOrder DEF Quiet, InHand
<1>3. ASSUME NEW c \in Clients, Leave(c)
      PROVE  InOrder
  <2>1. /\ UNCHANGED <<listed, transfer, receiver, got, task, writes, told>>
        /\ \A b \in Clients : request'[b] = None \/ request'[b] = request[b]
    BY <1>3 DEF Leave, IInv, TypeOK
  <2>. QED  BY <2>1, QuietInOrder DEF Quiet, InHand
<1>4. ASSUME NEW c \in Clients, Ask(c)
      PROVE  InOrder
  <2>1. /\ UNCHANGED <<transfer, receiver, got, task, writes, told>> /\ listed' \subseteq listed
        /\ \A b \in Clients : request'[b] = request[b] \/ request'[b].file \in listed
    BY <1>1, <1>4 DEF Ask, IInv, TypeOK
  <2>. QED  BY <2>1, QuietInOrder DEF Quiet, InHand
<1>. QED  BY <1>2, <1>3, <1>4

LEMMA RestartStep ==
  ASSUME IInv, Restart
  PROVE  InOrder
<1>1. \A b \in Transfers : ~InHand(b, listed)'
  BY DEF Restart, InHand
<1>2. \A b \in Transfers : b \in Permits(listed)' => b \in Permits(listed)
  BY <1>1 DEF Permits
<1>3. ASSUME NEW b \in Transfers
      PROVE  Known(b)' /\ TransferOK(b)'
  <2>1. /\ receiver'[b] = "none" /\ task'[b] = None
        /\ UNCHANGED <<transfer, got, writes, told>>
    BY DEF Restart
  <2>2. CASE transfer[b] = None
    BY <1>1, <2>1, <2>2 DEF Known, TransferOK, IInv, Silent
  <2>3. CASE transfer[b] # None
    <3>1. ReceiverOK(b)'
      BY <1>1, <2>1 DEF ReceiverOK
    <3>2. StateOK(b)'
      BY <2>1, <2>3, Own DEF StateOK, State, Busy, AsDeclared, Declared, Silent
    <3>3. TaskOK(b)'
      BY <2>1 DEF TaskOK, Busy
    <3>4. PermitOK(b)'
      BY <2>1, <2>3, Own DEF PermitOK, State, Busy
    <3>5. ToldOK(b)'
      BY <2>1, <2>3, Own DEF ToldOK, Outcome
    <3>. QED  BY <1>1, <2>1, <2>3, <3>1, <3>2, <3>3, <3>4, <3>5 DEF Known, TransferOK
  <2>. QED  BY <2>2, <2>3
<1>. QED  BY <1>2, <1>3, PermitsShrink DEF InOrder

\* A transfer enters the map; of the permits, one more is taken.
LEMMA AuthorizeStep ==
  ASSUME IInv, NEW t \in Transfers, Authorize(t)
  PROVE  InOrder
<1>1. /\ transfer[t] = None /\ listed' = Fresh \cup {t} /\ Fresh \subseteq listed
      /\ UNCHANGED <<request, receiver, got, task, writes, told>>
      /\ \A b \in Transfers \ {t} : transfer'[b] = transfer[b]
  BY DEF Authorize, Fresh, IInv, TypeOK
<1>2. PICK d \in Declarations :
        transfer'[t] = [declared |-> d, state |-> "prepared", params |-> None,
                        expired |-> FALSE, permit |-> TRUE]
  BY DEF Authorize, IInv, TypeOK
<1>3. StepOf(t)
  BY <1>1 DEF StepOf, InHand
<1>4. ~InHand(t, listed) /\ writes[t] = <<>> /\ Silent(t) /\ got[t].size = 0
  BY <1>1 DEF IInv, Known, TransferOK
<1>5. receiver[t] = "none" /\ task[t] = None
  BY <1>4 DEF InHand
<1>6. Known(t)' /\ TransferOK(t)'
  <2>1. transfer'[t] # None
    <3>1. transfer'[t] \in Transfer
      BY <1>2 DEF Transfer, States
    <3>. QED  BY <3>1, NoneAssumption
  <2>2. ReceiverOK(t)'
    BY <1>1, <1>2, <1>5 DEF ReceiverOK, State
  <2>3. StateOK(t)'
    BY <1>1, <1>2, <1>4, <1>5 DEF StateOK, State, Busy, Silent
  <2>4. TaskOK(t)' /\ PermitOK(t)' /\ ToldOK(t)'
    BY <1>1, <1>2, <1>4, <1>5 DEF TaskOK, PermitOK, ToldOK, Busy, Silent
  <2>. QED  BY <2>1, <2>2, <2>3, <2>4 DEF Known, TransferOK
<1>7. PermitsOK'
  <2>1. Permits(listed)' \subseteq Permits(Fresh) \cup {t}
    BY <1>1 DEF Permits, InHand
  <2>2. IsFiniteSet(Permits(Fresh)) /\ IsFiniteSet(Permits(Fresh) \cup {t})
    BY IngestAssumption, FS_Subset, FS_AddElement DEF Permits
  <2>3. Cardinality(Permits(Fresh)) \in Nat /\ Cardinality(Permits(Fresh)) < MaxTransfers
    BY <2>2, FS_CardinalityType DEF Authorize
  <2>4. Cardinality(Permits(Fresh) \cup {t}) <= Cardinality(Permits(Fresh)) + 1
    BY <2>2, <2>3, FS_AddElement
  <2>5. Cardinality(Permits(listed)') <= Cardinality(Permits(Fresh) \cup {t})
    BY <2>1, <2>2, FS_Subset
  <2>6. Cardinality(Permits(Fresh) \cup {t}) \in Nat /\ Cardinality(Permits(listed)') \in Nat
    BY <2>1, <2>2, FS_Subset, FS_CardinalityType
  <2>. QED  BY <2>3, <2>4, <2>5, <2>6, IngestAssumption DEF PermitsOK
<1>. QED  BY <1>3, <1>6, <1>7, OthersKeep DEF InOrder

LEMMA ExpireStep ==
  ASSUME IInv, NEW t \in Transfers, Expire(t)
  PROVE  InOrder
<1>1. /\ transfer[t] # None /\ transfer'[t] = [transfer[t] EXCEPT !.expired = TRUE]
      /\ \A b \in Transfers \ {t} : transfer'[b] = transfer[b]
      /\ UNCHANGED <<listed, request, receiver, got, task, writes, told>>
  BY DEF Expire, IInv, TypeOK
<1>2. /\ transfer'[t].state = State(t) /\ transfer'[t].params = transfer[t].params
      /\ transfer'[t].declared = Declared(t) /\ transfer'[t].permit = transfer[t].permit
      /\ transfer'[t] \in Transfer
  BY <1>1, Own DEF Transfer, State, Declared
<1>3. transfer'[t] # None
  BY <1>2, NoneAssumption
<1>4. TransferOK(t)'
  <2>1. ReceiverOK(t)' /\ TaskOK(t)' /\ PermitOK(t)' /\ ToldOK(t)'
    BY <1>1, <1>2, Own
    DEF ReceiverOK, TaskOK, PermitOK, ToldOK, State, Busy, Silent, Outcome, InHand, Verified, Declared
  <2>2. StateOK(t)'
    BY <1>1, <1>2, Own DEF StateOK, State, Busy, Silent, AsDeclared, Declared
  <2>. QED  BY <1>3, <2>1, <2>2 DEF TransferOK
<1>. QED  BY <1>1, <1>2, <1>3, <1>4, OrderlyKeeps DEF Orderly, StepOf, InHand

LEMMA PutStep ==
  ASSUME IInv, NEW c \in Clients, Put(c)
  PROVE  InOrder
<1>0. request[c] # None
  BY DEF Put, Status, Ingest, Served
<1>a. PICK t \in Transfers : t = request[c].file
  BY <1>0, RequestHasTransfer
<1>1. /\ request[c] # None /\ task[t] = None /\ \A b \in Clients : request'[b] \in {None, request[b]}
      /\ UNCHANGED <<listed, got, task, writes, told>>
  BY <1>a DEF Put, Served, Unlocked, IInv, TypeOK
<1>2. t \in Transfers /\ transfer[t] # None /\ InHand(t, listed)
  BY <1>0, <1>a, RequestHasTransfer
<1>3. CASE State(t) # "prepared"
  <2>1. UNCHANGED <<transfer, receiver>>
    BY <1>a, <1>3 DEF Put, State
  <2>. QED  BY <1>1, <2>1, QuietInOrder DEF Quiet, InHand
<1>4. CASE State(t) = "prepared"
  <2>1. /\ transfer'[t] = [transfer[t] EXCEPT !.state = "receiving"] /\ receiver'[t] = "open"
        /\ \A b \in Transfers \ {t} : transfer'[b] = transfer[b] /\ receiver'[b] = receiver[b]
    BY <1>a, <1>4 DEF Put, State, IInv, TypeOK
  <2>2. /\ transfer'[t].state = "receiving" /\ transfer'[t].params = transfer[t].params
        /\ transfer'[t].declared = Declared(t) /\ transfer'[t].permit = transfer[t].permit
        /\ transfer'[t] \in Transfer
    BY <1>2, <2>1, Own DEF Transfer, Declared, States
  <2>3. transfer'[t] # None
    BY <2>2, NoneAssumption
  <2>4. TransferOK(t)'
    <3>1. ReceiverOK(t)'
      BY <1>1, <1>2, <1>4, <2>1, <2>2, Own, IngestAssumption DEF ReceiverOK, StateOK, State
    <3>2. TaskOK(t)' /\ ToldOK(t)'
      BY <1>1, <1>2, <1>4, Own DEF TaskOK, ToldOK, StateOK, State, Busy, Silent
    <3>3. PermitOK(t)'
      BY <1>2, <1>4, <2>2, Own DEF PermitOK, State
    <3>4. StateOK(t)'
      BY <1>1, <1>2, <1>4, <2>1, <2>2, Own DEF StateOK, State, Busy, Silent
    <3>. QED  BY <2>3, <3>1, <3>2, <3>3, <3>4 DEF TransferOK
  <2>5. StepOf(t)
    BY <1>1, <2>1 DEF StepOf, InHand
  <2>. QED  BY <1>2, <2>2, <2>3, <2>4, <2>5, OrderlyKeeps DEF Orderly
<1>. QED  BY <1>3, <1>4

LEMMA StatusStep ==
  ASSUME IInv, NEW c \in Clients, Status(c)
  PROVE  InOrder
<1>0. request[c] # None
  BY DEF Put, Status, Ingest, Served
<1>a. PICK t \in Transfers : t = request[c].file
  BY <1>0, RequestHasTransfer
<1>1. /\ request[c] # None /\ task[t] = None /\ \A b \in Clients : request'[b] \in {None, request[b]}
      /\ told' = told \cup Outcome(t)
      /\ UNCHANGED <<listed, transfer, receiver, got, task, writes>>
  BY <1>a DEF Status, Served, Unlocked, IInv, TypeOK
<1>2. t \in Transfers /\ transfer[t] # None /\ InHand(t, listed)
  BY <1>0, <1>a, RequestHasTransfer
<1>3. \A a \in Outcome(t) : a.file = t /\ State(t) \in {"committed", "uncertain", "failed"}
  BY DEF Outcome, State
<1>4. TransferOK(t)'
  <2>1. ReceiverOK(t)' /\ TaskOK(t)' /\ PermitOK(t)' /\ ToldOK(t)'
    BY <1>1, <1>2, Own
    DEF ReceiverOK, TaskOK, PermitOK, ToldOK, State, Busy, Outcome, InHand, Verified, Declared
  <2>2. StateOK(t)'
    BY <1>1, <1>2, <1>3, Own DEF StateOK, State, Busy, Silent, AsDeclared, Declared
  <2>. QED  BY <1>1, <1>2, <2>1, <2>2 DEF TransferOK
<1>5. StepOf(t)
  BY <1>1, <1>3 DEF StepOf, InHand
<1>. QED  BY <1>1, <1>2, <1>4, <1>5, OrderlyKeeps DEF Orderly

LEMMA IngestStep ==
  ASSUME IInv, NEW c \in Clients, Ingest(c)
  PROVE  InOrder
<1>0. request[c] # None
  BY DEF Put, Status, Ingest, Served
<1>a. PICK t \in Transfers : t = request[c].file
  BY <1>0, RequestHasTransfer
<1>1. /\ request[c] # None /\ task[t] = None /\ \A b \in Clients : request'[b] \in {None, request[b]}
      /\ UNCHANGED <<listed, transfer, receiver, got, writes, told>>
  BY <1>a DEF Ingest, Served, Unlocked, IInv, TypeOK
<1>2. t \in Transfers /\ transfer[t] # None /\ InHand(t, listed)
  BY <1>0, <1>a, RequestHasTransfer
<1>3. /\ task'[t] = [pc |-> "begin", params |-> request[c].params]
      /\ \A b \in Transfers \ {t} : task'[b] = task[b]
  BY <1>a DEF Ingest, IInv, TypeOK
<1>4. TransferOK(t)'
  <2>1. ReceiverOK(t)'
    BY <1>1, <1>2, Own DEF ReceiverOK, State, Verified, Declared
  <2>2. TaskOK(t)' /\ PermitOK(t)' /\ ToldOK(t)'
    <3>1. task'[t].pc = "begin" /\ ~Busy(t)'
      BY <1>3 DEF Busy
    <3>2. PermitOK(t) /\ ToldOK(t)
      BY <1>2, Own
    <3>3. ToldOK(t)'
      BY <1>1, <3>2 DEF ToldOK, Outcome
    <3>. QED  BY <1>1, <3>1, <3>2, <3>3 DEF TaskOK, PermitOK, State
  <2>3. StateOK(t)'
    BY <1>1, <1>2, <1>3, Own DEF StateOK, State, Busy, Silent, AsDeclared, Declared
  <2>. QED  BY <1>1, <1>2, <2>1, <2>2, <2>3 DEF TransferOK
<1>5. StepOf(t)
  BY <1>1, <1>3, <1>a DEF StepOf, InHand
<1>. QED  BY <1>1, <1>2, <1>4, <1>5, OrderlyKeeps DEF Orderly

-----------------------------------------------------------------------------
(* The steps of the receiver.                                              *)

\* A step in which only the bytes and the place of the receiver of t change.
Receiving(t) ==
  /\ UNCHANGED <<listed, transfer, request, task, writes, told>>
  /\ \A b \in Transfers \ {t} : receiver'[b] = receiver[b] /\ got'[b] = got[b]

LEMMA ReceivingKeeps ==
  ASSUME IInv, NEW t \in Transfers, Receiving(t), receiver[t] # "none",
         receiver'[t] # "none",
         receiver'[t] \in {"open", "frame", "write", "sync", "good"} => got'[t].size <= MaxBytes,
         receiver'[t] \in {"sync", "good"} => Verified(t)'
  PROVE  InOrder
<1>1. transfer[t] # None /\ State(t) = "receiving"
  BY TaskHasTransfer, Own DEF ReceiverOK
<1>2. ReceiverOK(t)'
  BY <1>1 DEF Receiving, ReceiverOK, State
<1>3. StateOK(t)' /\ TaskOK(t)' /\ PermitOK(t)' /\ ToldOK(t)'
  BY <1>1, Own DEF Receiving, StateOK, TaskOK, PermitOK, ToldOK, State, Busy, Silent, Outcome
<1>4. StepOf(t) /\ (InHand(t, listed)' => InHand(t, listed))
  BY DEF Receiving, StepOf, InHand
<1>5. TransferOK(t)'
  BY <1>1, <1>2, <1>3 DEF Receiving, TransferOK
<1>. QED  BY <1>1, <1>4, <1>5, OrderlyKeeps DEF Receiving, Orderly

LEMMA ReceiverSteps ==
  ASSUME IInv, NEW t \in Transfers,
         Frame(t) \/ BodyEnds(t) \/ BodyFails(t) \/ JobEnds(t) \/ TimesOut(t)
  PROVE  InOrder
<1>1. receiver[t] # "none"
  BY DEF Frame, BodyEnds, BodyFails, JobEnds, TimesOut
<1>2. /\ receiver \in [Transfers -> ReceiverPc] /\ got \in [Transfers -> [size : Nat, right : BOOLEAN]]
      /\ ReceiverOK(t)
  BY <1>1, TaskHasTransfer, Own DEF IInv, TypeOK
<1>3. CASE Frame(t)
  <2>1. /\ receiver'[t] \in {"write", "bad"} /\ Receiving(t)
        /\ got'[t].size = got[t].size + 1
        /\ receiver'[t] = "write" => ~TooLarge(t, got[t].size + 1)
    BY <1>2, <1>3 DEF Frame, Receive, Receiving
  <2>2. receiver'[t] = "write" => got'[t].size <= MaxBytes
    BY <1>2, <2>1, IngestAssumption DEF TooLarge
  <2>. QED  BY <1>1, <2>1, <2>2, ReceivingKeeps
<1>4. CASE BodyEnds(t)
  <2>1. /\ receiver'[t] \in {"sync", "bad"} /\ Receiving(t) /\ got' = got
        /\ receiver[t] = "frame" /\ receiver'[t] = "sync" => Verified(t)
    BY <1>2, <1>4 DEF BodyEnds, Receive, Receiving
  <2>2. Verified(t) => Verified(t)'
    BY <2>1 DEF Verified, Declared, Receiving
  <2>3. receiver'[t] = "sync" => got'[t].size <= MaxBytes
    BY <1>2, <1>4, <2>1 DEF ReceiverOK, BodyEnds
  <2>. QED  BY <1>1, <1>4, <2>1, <2>2, <2>3, ReceivingKeeps DEF BodyEnds
<1>5. CASE BodyFails(t) \/ TimesOut(t)
  <2>1. receiver'[t] = "bad" /\ Receiving(t)
    BY <1>2, <1>5 DEF BodyFails, TimesOut, Receive, Receiving
  <2>. QED  BY <1>1, <2>1, ReceivingKeeps
<1>6. CASE JobEnds(t)
  <2>1. /\ receiver'[t] \in {"frame", "good", "bad"} /\ Receiving(t) /\ got' = got
        /\ receiver[t] \in {"open", "write", "sync"} /\ receiver'[t] = "good" => receiver[t] = "sync"
    BY <1>2, <1>6 DEF JobEnds, Receive, Receiving
  <2>2. receiver[t] \in {"open", "write", "sync"}
    BY <1>6 DEF JobEnds
  <2>3. Verified(t) => Verified(t)'
    BY <2>1 DEF Verified, Declared, Receiving
  <2>. QED  BY <1>1, <1>2, <2>1, <2>2, <2>3, ReceivingKeeps DEF ReceiverOK
<1>. QED  BY <1>3, <1>4, <1>5, <1>6

\* What was received and verified is ready; a failure gives the permit back.
LEMMA SettleStep ==
  ASSUME IInv, NEW t \in Transfers, Settle(t)
  PROVE  InOrder
<1>1. /\ receiver[t] \in {"good", "bad"} /\ task[t] = None /\ receiver'[t] = "none"
      /\ \A b \in Transfers \ {t} : transfer'[b] = transfer[b] /\ receiver'[b] = receiver[b]
      /\ told' = told \cup Outcome(t)'
      /\ UNCHANGED <<listed, request, got, task, writes>>
  BY DEF Settle, Unlocked, IInv, TypeOK
<1>2. /\ transfer[t] # None /\ State(t) = "receiving" /\ InHand(t, listed)
      /\ transfer[t] \in Transfer /\ transfer[t].params = None /\ writes[t] = <<>> /\ Silent(t)
  BY <1>1, TaskHasTransfer, Own DEF ReceiverOK, StateOK, InHand
<1>3. /\ transfer'[t].state = IF receiver[t] = "good" THEN "ready" ELSE "failed"
      /\ transfer'[t].permit = (receiver[t] = "good" /\ transfer[t].permit)
      /\ transfer'[t].params = None /\ transfer'[t].declared = Declared(t)
      /\ transfer'[t] \in Transfer
  <2>1. transfer'[t] = IF receiver[t] = "good"
                       THEN [transfer[t] EXCEPT !.state = "ready"]
                       ELSE [transfer[t] EXCEPT !.state = "failed", !.permit = FALSE]
    BY DEF Settle, IInv, TypeOK
  <2>. QED  BY <1>2, <2>1 DEF Transfer, Declared, States
<1>4. transfer'[t] # None
  BY <1>3, NoneAssumption
<1>5. Outcome(t)' = IF receiver[t] = "good" THEN {}
                    ELSE {[file |-> t, says |-> "failed", path |-> None]}
  BY <1>1, <1>3 DEF Outcome
<1>6. TransferOK(t)'
  <2>1. ReceiverOK(t)'
    BY <1>1, <1>3 DEF ReceiverOK, State
  <2>2. TaskOK(t)'
    BY <1>1 DEF TaskOK, Busy
  <2>3. PermitOK(t)'
    BY <1>1, <1>2, <1>3, Own DEF PermitOK, State, Busy
  <2>4. ToldOK(t)'
    BY <1>1, <1>2 DEF ToldOK, Silent
  <2>5. receiver[t] = "good" => AsDeclared(t)'
    <3>1. receiver[t] = "good" => got[t].size <= MaxBytes /\ Verified(t)
      BY <1>2, Own DEF ReceiverOK
    <3>. QED  BY <1>1, <1>3, <3>1 DEF AsDeclared, Verified, Declared
  <2>6. receiver[t] = "good" => Silent(t)'
    BY <1>1, <1>2, <1>5 DEF Silent
  <2>7. StateOK(t)'
    BY <1>1, <1>2, <1>3, <2>5, <2>6 DEF StateOK, State, Busy
  <2>. QED  BY <1>4, <2>1, <2>2, <2>3, <2>4, <2>7 DEF TransferOK
<1>7. StepOf(t)
  BY <1>1, <1>5 DEF StepOf, InHand
<1>. QED  BY <1>2, <1>3, <1>4, <1>6, <1>7, OrderlyKeeps DEF Orderly

-----------------------------------------------------------------------------
(* The steps of the task of ingest.                                        *)

\* A verified transfer becomes an attempt, which nobody was told of.
LEMMA BeginAttempt ==
  ASSUME IInv, NEW t \in Transfers, Begin(t), ~transfer[t].expired, State(t) = "ready"
  PROVE  InOrder
<1>1. /\ task[t] # None /\ transfer[t] # None /\ transfer[t] \in Transfer /\ task[t] \in Task
      /\ receiver[t] = "none" /\ task[t].pc = "begin"
  <2>1. task[t] # None /\ task[t].pc = "begin"
    BY DEF Begin
  <2>. QED  BY <2>1, TaskHasTransfer, Own DEF ReceiverOK
<1>2. /\ transfer'[t] = [transfer[t] EXCEPT !.state = "uncertain", !.params = task[t].params]
      /\ task'[t] = [task[t] EXCEPT !.pc = "commit"]
      /\ \A b \in Transfers \ {t} : transfer'[b] = transfer[b] /\ task'[b] = task[b]
      /\ UNCHANGED <<listed, request, receiver, got, writes, told>>
  BY DEF Begin, State, IInv, TypeOK
<1>3. /\ task'[t] # None /\ task'[t].pc = "commit" /\ task'[t].params = task[t].params
      /\ task[t].params \in Params
  <2>1. task'[t] \in Task /\ task'[t].pc = "commit" /\ task'[t].params = task[t].params
    BY <1>1, <1>2 DEF Task
  <2>. QED  BY <1>1, <2>1, NoneAssumption DEF Task
<1>4. /\ transfer'[t].state = "uncertain" /\ transfer'[t].params = task[t].params
      /\ transfer'[t].declared = Declared(t) /\ transfer'[t].permit = transfer[t].permit
      /\ transfer'[t] \in Transfer
  BY <1>1, <1>2, <1>3 DEF Transfer, Declared, States
<1>5. transfer'[t] # None
  BY <1>4, NoneAssumption
<1>6. writes[t] = <<>> /\ Silent(t) /\ AsDeclared(t) /\ transfer[t].permit
  BY <1>1, Own DEF StateOK, PermitOK
<1>7. TransferOK(t)'
  <2>1. ReceiverOK(t)' /\ PermitOK(t)'
    BY <1>1, <1>2, <1>4, <1>6, Own DEF ReceiverOK, PermitOK, State
  <2>2. TaskOK(t)' /\ ToldOK(t)'
    BY <1>2, <1>3, <1>4, <1>6 DEF TaskOK, ToldOK, State, Busy, Silent
  <2>3. AsDeclared(t)'
    BY <1>2, <1>4, <1>6 DEF AsDeclared, Declared
  <2>4. StateOK(t)'
    BY <1>2, <1>3, <1>4, <1>6, <2>3 DEF StateOK, State
  <2>. QED  BY <1>5, <2>1, <2>2, <2>4 DEF TransferOK
<1>8. StepOf(t) /\ (InHand(t, listed)' => InHand(t, listed))
  BY <1>1, <1>2 DEF StepOf, InHand
<1>. QED  BY <1>1, <1>4, <1>5, <1>7, <1>8, OrderlyKeeps DEF Orderly

\* Whatever else is found, an answer says what the state says.
LEMMA BeginAnswers ==
  ASSUME IInv, NEW t \in Transfers, Begin(t), transfer[t].expired \/ State(t) # "ready"
  PROVE  InOrder
<1>1. /\ task[t] # None /\ task[t].pc = "begin" /\ task'[t] = None
      /\ \A b \in Transfers \ {t} : task'[b] = task[b]
      /\ UNCHANGED <<listed, transfer, request, receiver, got, writes>>
  BY DEF Begin, State, IInv, TypeOK
<1>2. transfer[t] # None
  BY <1>1, TaskHasTransfer
<1>3. task[t] \in Task /\ task[t].params \in Params /\ task[t].params # None
  BY <1>1, <1>2, Own, NoneAssumption DEF Task
<1>4. \A a \in told' : a \in told \/ a \in Outcome(t)
  BY <1>1, <1>2, <1>3 DEF Begin, State, Repeats, Outcome
<1>5. \A a \in Outcome(t) : a.file = t /\ State(t) \in {"committed", "uncertain", "failed"}
  BY DEF Outcome, State
<1>6. TransferOK(t)'
  <2>1. ReceiverOK(t)'
    <3>1. InHand(t, listed)
      BY <1>1 DEF InHand
    <3>. QED  BY <1>1, <1>2, <3>1, Own DEF ReceiverOK, State, Verified, Declared
  <2>2. ToldOK(t)'
    BY <1>1, <1>2, <1>4, <1>5, Own DEF ToldOK, Outcome
  <2>3. TaskOK(t)' /\ PermitOK(t)'
    BY <1>1, <1>2, Own DEF TaskOK, PermitOK, State, Busy
  <2>4. State(t) \in {"prepared", "receiving", "ready"} => Silent(t)'
    BY <1>2, <1>4, <1>5, Own DEF StateOK, Silent
  <2>5. StateOK(t)'
    BY <1>1, <1>2, <2>4, Own DEF StateOK, State, Busy, AsDeclared, Declared
  <2>. QED  BY <1>1, <1>2, <2>1, <2>2, <2>3, <2>5 DEF TransferOK
<1>7. StepOf(t) /\ (InHand(t, listed)' => InHand(t, listed))
  BY <1>1, <1>4, <1>5 DEF StepOf, InHand
<1>. QED  BY <1>1, <1>2, <1>6, <1>7, OrderlyKeeps DEF Orderly

LEMMA PublishStep ==
  ASSUME IInv, NEW t \in Transfers, Publish(t)
  PROVE  InOrder
<1>1. task[t] # None /\ task[t].pc = "commit" /\ Busy(t)
  BY DEF Publish, Busy
<1>2. transfer[t] # None /\ task[t] \in Task
  BY <1>1, TaskHasTransfer, Own
<1>3. /\ State(t) = "uncertain" /\ Silent(t) /\ task[t].params = transfer[t].params
      /\ writes[t] = <<>> /\ transfer[t].permit /\ AsDeclared(t) /\ transfer[t].params \in Params
  BY <1>1, <1>2, Own DEF TaskOK, PermitOK, StateOK
<1>4. /\ task'[t] = [task[t] EXCEPT !.pc = "published"]
      /\ writes'[t] = Append(writes[t], task[t].params.path)
      /\ \A b \in Transfers \ {t} : task'[b] = task[b] /\ writes'[b] = writes[b]
      /\ UNCHANGED <<listed, transfer, request, receiver, got, told>>
  BY DEF Publish, IInv, TypeOK
<1>5. task'[t] \in Task /\ task'[t].pc = "published" /\ task'[t].params = task[t].params
  BY <1>2, <1>4 DEF Task
<1>6. task'[t] # None /\ writes'[t] = <<transfer[t].params.path>>
  BY <1>3, <1>4, <1>5, NoneAssumption
<1>7. TransferOK(t)'
  <2>1. ReceiverOK(t)' /\ PermitOK(t)'
    BY <1>2, <1>3, <1>4, Own DEF ReceiverOK, PermitOK, State
  <2>2. TaskOK(t)' /\ ToldOK(t)'
    BY <1>3, <1>4, <1>5, <1>6 DEF TaskOK, ToldOK, State, Busy, Silent
  <2>3. StateOK(t)'
    BY <1>3, <1>4, <1>6 DEF StateOK, State, AsDeclared, Declared
  <2>. QED  BY <1>2, <1>4, <2>1, <2>2, <2>3 DEF TransferOK
<1>8. StepOf(t) /\ (InHand(t, listed)' => InHand(t, listed))
  BY <1>1, <1>4 DEF StepOf, InHand
<1>. QED  BY <1>2, <1>4, <1>7, <1>8, OrderlyKeeps DEF Orderly

\* An attempt ends, and from then on everybody is told the same.
LEMMA AttemptedStep ==
  ASSUME IInv, NEW t \in Transfers, Fail(t) \/ Succeed(t)
  PROVE  InOrder
<1>1. PICK s \in {"uncertain", "committed"} :
        Attempted(t, s) /\ (s = "committed" => task[t].pc = "published")
  BY DEF Fail, Succeed
<1>2. task[t] # None /\ Busy(t)
  BY DEF Fail, Succeed, Busy
<1>3. transfer[t] # None /\ task[t] \in Task /\ transfer[t] \in Transfer
  BY <1>2, TaskHasTransfer, Own
<1>4. /\ State(t) = "uncertain" /\ Silent(t) /\ task[t].params = transfer[t].params
      /\ writes[t] = (IF task[t].pc = "commit" THEN <<>> ELSE <<task[t].params.path>>)
      /\ AsDeclared(t) /\ transfer[t].params \in Params /\ receiver[t] = "none"
  BY <1>2, <1>3, Own DEF TaskOK, StateOK, ReceiverOK
<1>5. /\ transfer'[t] = [transfer[t] EXCEPT !.state = s, !.permit = FALSE]
      /\ task'[t] = [task[t] EXCEPT !.pc = "drop"]
      /\ \A b \in Transfers \ {t} : transfer'[b] = transfer[b] /\ task'[b] = task[b]
      /\ told' = told \cup Outcome(t)'
      /\ UNCHANGED <<listed, request, receiver, got, writes>>
  BY <1>1 DEF Attempted, IInv, TypeOK
<1>6. /\ transfer'[t].state = s /\ transfer'[t].params = transfer[t].params
      /\ transfer'[t].declared = Declared(t) /\ transfer'[t].permit = FALSE
      /\ transfer'[t] \in Transfer
  BY <1>3, <1>5 DEF Transfer, Declared, States
<1>7. transfer'[t] # None /\ task'[t].pc = "drop"
  BY <1>3, <1>5, <1>6, NoneAssumption DEF Task
<1>8. \A a \in Outcome(t)' : a.file = t
  BY DEF Outcome
<1>9. TransferOK(t)'
  <2>1. ReceiverOK(t)'
    BY <1>4, <1>5, <1>6 DEF ReceiverOK, State
  <2>2. TaskOK(t)' /\ PermitOK(t)'
    BY <1>6, <1>7 DEF TaskOK, PermitOK, State, Busy
  <2>3. ToldOK(t)'
    BY <1>4, <1>5 DEF ToldOK, Silent
  <2>4. AsDeclared(t)'
    BY <1>4, <1>5, <1>6 DEF AsDeclared, Declared
  <2>5. StateOK(t)'
    BY <1>1, <1>4, <1>5, <1>6, <2>4 DEF StateOK, State
  <2>. QED  BY <1>7, <2>1, <2>2, <2>3, <2>5 DEF TransferOK
<1>10. StepOf(t) /\ (InHand(t, listed)' => InHand(t, listed))
  BY <1>2, <1>5, <1>8 DEF StepOf, InHand
<1>. QED  BY <1>3, <1>6, <1>7, <1>9, <1>10, OrderlyKeeps DEF Orderly

LEMMA DropStep ==
  ASSUME IInv, NEW t \in Transfers, DropStaged(t)
  PROVE  InOrder
<1>1. /\ task[t] # None /\ task[t].pc = "drop" /\ task'[t] = None
      /\ \A b \in Transfers \ {t} : task'[b] = task[b]
      /\ UNCHANGED <<listed, transfer, request, receiver, got, writes, told>>
  BY DEF DropStaged, IInv, TypeOK
<1>2. transfer[t] # None
  BY <1>1, TaskHasTransfer
<1>3. TransferOK(t)'
  <2>1. ReceiverOK(t)' /\ TaskOK(t)' /\ PermitOK(t)'
    BY <1>1, <1>2, Own DEF ReceiverOK, TaskOK, PermitOK, State, Busy
  <2>2. ToldOK(t)'
    BY <1>1, <1>2, Own DEF ToldOK, Outcome
  <2>3. StateOK(t)'
    BY <1>1, <1>2, Own DEF StateOK, State, Busy, Silent, AsDeclared, Declared
  <2>. QED  BY <1>1, <1>2, <2>1, <2>2, <2>3 DEF TransferOK
<1>4. StepOf(t) /\ (InHand(t, listed)' => InHand(t, listed))
  BY <1>1 DEF StepOf, InHand
<1>. QED  BY <1>1, <1>2, <1>3, <1>4, OrderlyKeeps DEF Orderly

-----------------------------------------------------------------------------
(* Types.                                                                  *)

\* What is told of a transfer is an answer.
LEMMA OutcomeType ==
  ASSUME NEW t \in Transfers, transfer[t] \in Transfer
  PROVE  Outcome(t) \subseteq Answer
BY DEF Transfer, Outcome, Answer, Params

LEMMA NextOutcomeType ==
  ASSUME NEW t \in Transfers, transfer'[t] \in Transfer
  PROVE  Outcome(t)' \subseteq Answer
BY DEF Transfer, Outcome, Answer, Params

LEMMA RegistryTypes ==
  ASSUME IInv, \/ \E t \in Transfers : Authorize(t) \/ Expire(t)
               \/ Prune \/ Restart \/ (\E p \in Paths : Edit(p)) \/ UNCHANGED vars
  PROVE  TypeOK'
<1>. USE DEF TypeOK
<1>1. TypeOK /\ Fresh \subseteq listed
  BY DEF IInv, Fresh
<1>2. ASSUME NEW t \in Transfers, Authorize(t)
      PROVE  TypeOK'
  <2>1. PICK d \in Declarations :
          transfer' = [transfer EXCEPT ![t] =
            [declared |-> d, state |-> "prepared", params |-> None,
             expired |-> FALSE, permit |-> TRUE]]
    BY <1>2 DEF Authorize
  <2>2. [declared |-> d, state |-> "prepared", params |-> None,
         expired |-> FALSE, permit |-> TRUE] \in Transfer
    BY DEF Transfer, States
  <2>3. transfer' \in [Transfers -> Transfer \cup {None}] /\ transfer'[t] # None
    BY <1>1, <2>1, <2>2, NoneAssumption
  <2>4. \A b \in Transfers \ {t} : transfer'[b] = transfer[b]
    BY <1>1, <2>1
  <2>5. listed' \subseteq {b \in Transfers : transfer'[b] # None}
    BY <1>1, <1>2, <2>3, <2>4 DEF Authorize
  <2>. QED  BY <1>1, <1>2, <2>3, <2>5 DEF Authorize
<1>3. ASSUME NEW t \in Transfers, Expire(t)
      PROVE  TypeOK'
  <2>1. [transfer[t] EXCEPT !.expired = TRUE] \in Transfer
    BY <1>1, <1>3 DEF Expire, Transfer
  <2>2. transfer' = [transfer EXCEPT ![t] = [transfer[t] EXCEPT !.expired = TRUE]]
    BY <1>1, <1>3 DEF Expire
  <2>. QED  BY <1>1, <1>3, <2>1, <2>2, NoneAssumption DEF Expire
<1>4. CASE Prune \/ UNCHANGED vars
  BY <1>1, <1>4 DEF Prune, vars
<1>5. CASE \E p \in Paths : Edit(p)
  BY <1>1, <1>5 DEF Edit
<1>6. CASE Restart
  BY <1>1, <1>6 DEF Restart, ReceiverPc, JobPc
<1>. QED  BY <1>2, <1>3, <1>4, <1>5, <1>6

LEMMA RequestTypes ==
  ASSUME IInv, NEW c \in Clients, Ask(c) \/ Leave(c) \/ Answers(c)
  PROVE  TypeOK'
<1>. USE DEF TypeOK
<1>1. TypeOK /\ Fresh \subseteq listed
  BY DEF IInv, Fresh
<1>2. CASE Ask(c)
  BY <1>1, <1>2 DEF Ask
<1>3. CASE Leave(c)
  BY <1>1, <1>3 DEF Leave
<1>4. CASE Answers(c)
  <2>1. request[c] # None /\ request' = [request EXCEPT ![c] = None]
    BY <1>4 DEF Answers, Put, Status, Ingest, Served
  <2>2. PICK t \in Transfers : t = request[c].file /\ transfer[t] # None
    BY <2>1, RequestHasTransfer
  <2>3. transfer[t] \in Transfer /\ request[c] \in Request
    BY <1>1, <2>1, <2>2
  <2>4. CASE Put(c)
    <3>1. CASE UNCHANGED <<transfer, receiver, job>>
      BY <1>1, <2>1, <2>4, <3>1 DEF Put
    <3>2. CASE ~UNCHANGED <<transfer, receiver, job>>
      <4>1. /\ transfer' = [transfer EXCEPT ![t] = [transfer[t] EXCEPT !.state = "receiving"]]
            /\ receiver' = [receiver EXCEPT ![t] = "open"] /\ job' = [job EXCEPT ![t] = "open"]
        BY <1>1, <2>2, <2>4, <3>2 DEF Put
      <4>2. [transfer[t] EXCEPT !.state = "receiving"] \in Transfer
        BY <2>3 DEF Transfer, States
      <4>. QED  BY <1>1, <2>1, <2>4, <4>1, <4>2, NoneAssumption DEF Put, ReceiverPc, JobPc
    <3>. QED  BY <3>1, <3>2
  <2>5. CASE Status(c)
    BY <1>1, <2>1, <2>2, <2>3, <2>5, OutcomeType DEF Status
  <2>6. CASE Ingest(c)
    <3>1. request[c].params \in Params
      BY <2>3, <2>6 DEF Ingest, Served, Request
    <3>2. [pc |-> "begin", params |-> request[c].params] \in Task
      BY <3>1 DEF Task
    <3>. QED  BY <1>1, <2>1, <2>2, <2>6, <3>2 DEF Ingest
  <2>. QED  BY <1>4, <2>4, <2>5, <2>6 DEF Answers
<1>. QED  BY <1>2, <1>3, <1>4

LEMMA ReceiverTypes ==
  ASSUME IInv, NEW t \in Transfers, Receives(t) \/ Jobs(t)
  PROVE  TypeOK'
<1>. USE DEF TypeOK
<1>1. TypeOK
  BY DEF IInv
<1>2. CASE Jobs(t)
  BY <1>1, <1>2 DEF Jobs, Make, JobForgotten, JobPc
<1>3. CASE Frame(t)
  <2>1. got' \in [Transfers -> [size : Nat, right : BOOLEAN]]
    <3>1. PICK right \in BOOLEAN : got' = [got EXCEPT ![t].size = @ + 1, ![t].right = @ /\ right]
      BY <1>3 DEF Frame
    <3>2. /\ got[t].size + 1 \in Nat /\ (got[t].right /\ right) \in BOOLEAN
          /\ got[t] \in [size : Nat, right : BOOLEAN]
      BY <1>1
    <3>3. [got[t] EXCEPT !.size = got[t].size + 1, !.right = got[t].right /\ right]
            \in [size : Nat, right : BOOLEAN]
      BY <3>2
    <3>. QED  BY <1>1, <3>1, <3>3
  <2>. QED  BY <1>1, <1>3, <2>1 DEF Frame, Receive, ReceiverPc, JobPc
<1>4. CASE BodyEnds(t) \/ BodyFails(t) \/ JobEnds(t) \/ TimesOut(t)
  BY <1>1, <1>4 DEF BodyEnds, BodyFails, JobEnds, TimesOut, Receive, ReceiverPc, JobPc
<1>5. CASE Settle(t)
  <2>1. transfer[t] # None /\ transfer[t] \in Transfer
    BY <1>5, TaskHasTransfer, Own DEF Settle
  <2>2. PICK new \in Transfer : transfer' = [transfer EXCEPT ![t] = new]
    <3>1. /\ [transfer[t] EXCEPT !.state = "ready"] \in Transfer
          /\ [transfer[t] EXCEPT !.state = "failed", !.permit = FALSE] \in Transfer
      BY <2>1 DEF Transfer, States
    <3>. QED  BY <1>1, <1>5, <3>1 DEF Settle
  <2>3. Outcome(t)' \subseteq Answer
    BY <1>1, <2>2, NextOutcomeType
  <2>. QED  BY <1>1, <1>5, <2>2, <2>3, NoneAssumption DEF Settle, ReceiverPc
<1>. QED  BY <1>2, <1>3, <1>4, <1>5 DEF Receives

LEMMA IngestTypes ==
  ASSUME IInv, NEW t \in Transfers, Ingests(t)
  PROVE  TypeOK'
<1>. USE DEF TypeOK
<1>1. TypeOK
  BY DEF IInv
<1>2. task[t] # None /\ task[t] \in Task /\ transfer[t] # None /\ transfer[t] \in Transfer
  <2>1. task[t] # None
    BY DEF Ingests, Begin, Publish, Fail, Succeed, DropStaged
  <2>. QED  BY <2>1, TaskHasTransfer, Own
<1>3. task[t].params \in Params /\ task[t].params.path \in Paths
  BY <1>2 DEF Task, Params
<1>4. \A pc \in {"begin", "commit", "published", "drop"} : [task[t] EXCEPT !.pc = pc] \in Task
  BY <1>2 DEF Task
<1>5. CASE Begin(t) /\ UNCHANGED transfer
  <2>1. task' \in [Transfers -> Task \cup {None}]
    BY <1>1, <1>4, <1>5 DEF Begin
  <2>2. told' \subseteq Answer
    <3>1. [file |-> t, says |-> "committed", path |-> task[t].params.path] \in Answer
      BY <1>3 DEF Answer
    <3>. QED  BY <1>1, <1>2, <1>5, <3>1, OutcomeType DEF Begin
  <2>. QED  BY <1>1, <1>5, <2>1, <2>2 DEF Begin
<1>6. CASE Begin(t) /\ ~UNCHANGED transfer
  <2>1. [transfer[t] EXCEPT !.state = "uncertain", !.params = task[t].params] \in Transfer
    BY <1>2, <1>3 DEF Transfer, States
  <2>2. /\ transfer' = [transfer EXCEPT ![t] =
              [transfer[t] EXCEPT !.state = "uncertain", !.params = task[t].params]]
        /\ task' = [task EXCEPT ![t] = [task[t] EXCEPT !.pc = "commit"]] /\ told' = told
    BY <1>1, <1>6 DEF Begin
  <2>. QED  BY <1>1, <1>4, <1>6, <2>1, <2>2, NoneAssumption DEF Begin
<1>7. CASE Publish(t)
  <2>1. Append(writes[t], task[t].params.path) \in Seq(Paths)
    BY <1>1, <1>3
  <2>2. task' = [task EXCEPT ![t] = [task[t] EXCEPT !.pc = "published"]]
    BY <1>1, <1>7 DEF Publish
  <2>. QED  BY <1>1, <1>4, <1>7, <2>1, <2>2 DEF Publish
<1>8. ASSUME NEW s \in {"uncertain", "committed"}, Attempted(t, s)
      PROVE  TypeOK'
  <2>1. [transfer[t] EXCEPT !.state = s, !.permit = FALSE] \in Transfer
    BY <1>2 DEF Transfer, States
  <2>2. /\ transfer' = [transfer EXCEPT ![t] = [transfer[t] EXCEPT !.state = s, !.permit = FALSE]]
        /\ task' = [task EXCEPT ![t] = [task[t] EXCEPT !.pc = "drop"]]
    BY <1>1, <1>8 DEF Attempted
  <2>3. Outcome(t)' \subseteq Answer
    BY <1>1, <2>1, <2>2, NextOutcomeType
  <2>4. transfer' \in [Transfers -> Transfer \cup {None}] /\ transfer'[t] # None
    BY <1>1, <2>1, <2>2, NoneAssumption
  <2>5. listed' \subseteq {b \in Transfers : transfer'[b] # None}
    BY <1>1, <1>8, <2>2, <2>4 DEF Attempted
  <2>6. task' \in [Transfers -> Task \cup {None}]
    BY <1>1, <1>4, <2>2
  <2>. QED  BY <1>1, <1>8, <2>3, <2>4, <2>5, <2>6 DEF Attempted
<1>9. CASE DropStaged(t)
  BY <1>1, <1>9 DEF DropStaged
<1>. QED  BY <1>5, <1>6, <1>7, <1>8, <1>9 DEF Ingests, Fail, Succeed

-----------------------------------------------------------------------------
(* The invariant, and what follows.                                        *)

LEMMA InitInv == Init => IInv
<1>. SUFFICES ASSUME Init PROVE IInv
  OBVIOUS
<1>1. TypeOK
  BY DEF Init, TypeOK, ReceiverPc, JobPc
<1>2. PermitsOK
  <2>1. Permits(listed) = {}
    BY DEF Init, Permits
  <2>. QED  BY <2>1, FS_EmptySet, IngestAssumption DEF PermitsOK
<1>3. ASSUME NEW t \in Transfers
      PROVE  Known(t) /\ TransferOK(t)
  BY DEF Init, Known, InHand, TransferOK, Silent
<1>. QED  BY <1>1, <1>2, <1>3 DEF IInv

LEMMA NextInv == IInv /\ [Next]_vars => IInv'
<1>. SUFFICES ASSUME IInv, [Next]_vars PROVE IInv'
  OBVIOUS
<1>1. TypeOK'
  BY RegistryTypes, RequestTypes, ReceiverTypes, IngestTypes DEF Next
<1>2. ASSUME NEW t \in Transfers, Ingests(t)
      PROVE  InOrder
  BY <1>2, BeginAttempt, BeginAnswers, PublishStep, AttemptedStep, DropStep DEF Ingests
<1>3. ASSUME NEW t \in Transfers, Receives(t)
      PROVE  InOrder
  BY <1>3, ReceiverSteps, SettleStep DEF Receives
<1>4. ASSUME NEW c \in Clients, Answers(c)
      PROVE  InOrder
  BY <1>4, PutStep, StatusStep, IngestStep DEF Answers
<1>5. InOrder
  BY <1>2, <1>3, <1>4, AuthorizeStep, ExpireStep, QuietSteps, RestartStep DEF Next
<1>. QED  BY <1>1, <1>5 DEF InOrder, IInv

\* The invariant of the transfers holds always.
THEOREM Invariance == Spec => []IInv
BY InitInv, NextInv, PTL DEF Spec

\* Every variable has its type; whoever is in the map, or in hand, was authorized
\* (IncomingFiles, TransferState).
THEOREM TypeCorrect == Spec => []TypeOK
<1>1. IInv => TypeOK
  BY DEF IInv
<1>. QED  BY <1>1, Invariance, PTL

\* What clients are told of a transfer stays true, and a success is a publication
\* of the declared bytes, made once (status, ingest, upload).
THEOREM AnswersTrue == Spec => []AnswersAreTrue
<1>1. IInv => AnswersAreTrue
  <2>. SUFFICES ASSUME IInv, NEW a \in told
                PROVE  CASE a.says = "committed" -> writes[a.file] = <<a.path>> /\ AsDeclared(a.file)
                         [] a.says = "uncertain" -> writes[a.file] \in {<<>>, <<a.path>>}
                         [] OTHER                -> writes[a.file] = <<>>
    BY DEF AnswersAreTrue
  <2>1. PICK t \in Transfers : t = a.file
    BY DEF IInv, TypeOK, Answer
  <2>2. transfer[t] # None
    BY <2>1 DEF IInv, TransferOK, Silent
  <2>3. a \in Outcome(t) /\ StateOK(t)
    BY <2>1, <2>2, Own DEF ToldOK
  <2>4. /\ a.says = State(t) /\ State(t) \in {"committed", "uncertain", "failed"}
        /\ a.path = IF transfer[t].params = None THEN None ELSE transfer[t].params.path
    BY <2>3 DEF Outcome, State
  <2>5. State(t) \in {"committed", "uncertain"} => a.path = transfer[t].params.path
    BY <2>3, <2>4, NoneAssumption DEF StateOK
  <2>. QED  BY <2>1, <2>3, <2>4, <2>5 DEF StateOK
<1>. QED  BY <1>1, Invariance, PTL

\* A transfer writes once, before anybody knows of its outcome, and replaces a
\* file only if it was told to: later changes survive every repetition (ingest).
THEOREM LaterChangesStay == Spec => LaterChangesSurvive
<1>. DEFINE Kept == \A p \in Paths, t \in Transfers : dest[p] # t /\ dest'[p] = t =>
       /\ writes[t] = <<>> /\ ~\E a \in told : a.file = t
       /\ dest[p] = None \/ task[t].params.overwrite
<1>1. IInv /\ [Next]_vars => [Kept]_vars
  <2>. SUFFICES ASSUME IInv, [Next]_vars, NEW p \in Paths, NEW t \in Transfers,
                       dest[p] # t, dest'[p] = t
                PROVE  /\ writes[t] = <<>> /\ Silent(t)
                       /\ dest[p] = None \/ task[t].params.overwrite
    BY DEF Silent
  <2>1. dest' # dest
    OBVIOUS
  <2>2. (\E u \in Transfers : Publish(u)) \/ (\E q \in Paths : Edit(q))
    BY <2>1 DEF Next, Authorize, Expire, Receives, Jobs, Ingests, Frame, BodyEnds, BodyFails,
       JobEnds, TimesOut, Settle, Receive, Make, JobForgotten, Begin, Fail, Succeed, Attempted,
       DropStaged, Ask, Leave, Answers, Put, Status, Ingest, Prune, Restart, vars
  <2>3. dest \in [Paths -> Transfers \cup {None, Other}]
    BY DEF IInv, TypeOK
  <2>4. ~\E q \in Paths : Edit(q)
    BY <2>3, IngestAssumption DEF Edit
  <2>5. Publish(t)
    BY <2>2, <2>3, <2>4 DEF Publish
  <2>6. task[t] # None /\ task[t].pc = "commit" /\ Busy(t)
    BY <2>5 DEF Publish, Busy
  <2>7. Silent(t) /\ writes[t] = <<>>
    BY <2>6, TaskHasTransfer, Own DEF TaskOK
  <2>8. dest[p] = None \/ task[t].params.overwrite
    BY <2>3, <2>5 DEF Publish
  <2>. QED  BY <2>7, <2>8
<1>. QED  BY <1>1, Invariance, PTL DEF Spec, LaterChangesSurvive

\* Not more files are staged than there are permits, but for those that are being
\* removed (Transfer.permit, upload, ingest, prune).
THEOREM StagedBounded == Spec => []StagedIsBounded
<1>1. IInv => StagedIsBounded
  <2>. SUFFICES ASSUME IInv PROVE StagedIsBounded
    OBVIOUS
  <2>. DEFINE S == {t \in Transfers : Staged(t) /\ ~Leaving(t)}
  <2>1. ASSUME NEW t \in S
        PROVE  t \in Permits(listed)
    <3>1. t \in Transfers /\ Staged(t) /\ ~Leaving(t)
      OBVIOUS
    <3>2. receiver[t] \in ReceiverPc /\ job[t] \in JobPc
      BY <3>1 DEF IInv, TypeOK
    <3>3. CASE receiver[t] \notin {"none", "bad"}
      <4>1. transfer[t] # None /\ State(t) = "receiving"
        BY <3>1, <3>3, TaskHasTransfer, Own DEF ReceiverOK
      <4>2. transfer[t].permit
        BY <3>1, <4>1, Own DEF PermitOK
      <4>. QED  BY <3>1, <3>3, <4>1, <4>2 DEF Permits, InHand
    <3>4. CASE receiver[t] \in {"none", "bad"}
      <4>1. job[t] = "none"
        BY <3>1, <3>4 DEF Leaving
      <4>2. CASE task[t] # None /\ task[t].pc # "begin"
        <5>1. transfer[t] # None /\ task[t] \in Task
          BY <3>1, <4>2, TaskHasTransfer, Own
        <5>2. Busy(t)
          BY <3>1, <4>2, <5>1 DEF Leaving, Busy, Task
        <5>. QED  BY <3>1, <4>2, <5>1, <5>2, Own DEF PermitOK, Permits, InHand
      <4>3. CASE transfer[t] # None /\ transfer[t].state = "ready" /\ InHand(t, listed)
        BY <3>1, <4>3, Own DEF PermitOK, State, Permits
      <4>. QED  BY <3>1, <3>4, <4>1, <4>2, <4>3 DEF Staged
    <3>. QED  BY <3>3, <3>4
  <2>2. S \subseteq Permits(listed) /\ IsFiniteSet(Permits(listed))
    BY <2>1, FS_Subset, IngestAssumption DEF Permits
  <2>3. /\ Cardinality(S) <= Cardinality(Permits(listed))
        /\ Cardinality(S) \in Nat /\ Cardinality(Permits(listed)) \in Nat
    BY <2>2, FS_Subset, FS_CardinalityType
  <2>. QED  BY <2>3, IngestAssumption DEF IInv, PermitsOK, StagedIsBounded
<1>. QED  BY <1>1, Invariance, PTL
=============================================================================
