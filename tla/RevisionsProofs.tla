---------------------------- MODULE RevisionsProofs ----------------------------
(***************************************************************************)
(* What holds of Revisions for every number of clients, files, calls, edits, *)
(* failures and killed processes: types, that every retained revision is   *)
(* complete and is a state the project was in, that the head only goes from *)
(* a revision to its successor, and that the answers to the calls stay true. *)
(*                                                                         *)
(* None of these is inductive.  IInv adds what a call has made sure of at     *)
(* each of its steps: whose the lock is, that the head is still the parent,  *)
(* and where the copies stand between the files when the head was compared   *)
(* (seen) and the files now.  Copies are never newer than seen, seen is never *)
(* newer than the files; a file that still is as it was copied was so in      *)
(* between, and that is why the verified copies are the project of one       *)
(* moment.  AInv, further down, adds what the answers need.                  *)
(***************************************************************************)
EXTENDS Revisions, WellFoundedInduction, TLAPS

Held     == {"head", "verify", "inputs", "record", "advance"}
Compared == {"verify", "inputs", "record", "advance"}
Verified == {"inputs", "record", "advance"}

\* Calls have ids of their own, which nothing is retained under before.
IdsOK ==
  /\ \A c \in Clients : pc[c] # "idle" => id[c] \in Ids /\ id[c] <= ops
  /\ \A c, d \in Clients :
       pc[c] # "idle" /\ pc[d] # "idle" /\ c # d => id[c] # id[d]
  /\ \A i \in Ids : i > ops => record[i] = None
  /\ \A c \in Clients : pc[c] \notin {"idle", "advance"} => record[id[c]] = None

\* The lock is with the call that has compared the head, and the head stays.
LockOK ==
  \A c \in Clients : /\ pc[c] \in Held => lock = c
                     /\ pc[c] \in Compared => head = parent[c]

\* Copies are older than what was seen at the comparison, and what was seen is
\* older than the files; verified copies are what was seen.
CopiesOK ==
  /\ file \in moments
  /\ \A c \in Clients : \A n \in Names :
       /\ snap[c][n] <= file[n]
       /\ pc[c] \in Compared => snap[c][n] <= seen[c][n] /\ seen[c][n] <= file[n]
       /\ pc[c] = "verify" /\ n \in done[c] => snap[c][n] = seen[c][n]
       /\ pc[c] \in Verified => snap[c][n] = seen[c][n]
  /\ \A c \in Clients : /\ pc[c] \in Compared => seen[c] \in moments
                        /\ pc[c] \in {"lock", "head"} => done[c] = {}

\* What was retained so far is what was copied.
RetainedOK ==
  \A c \in Clients :
    /\ \A n \in Names :
         /\ pc[c] = "inputs" /\ n \in done[c] => input[id[c]][n] = snap[c][n]
         /\ pc[c] \in {"record", "advance"} => input[id[c]][n] = snap[c][n]
    /\ pc[c] = "advance" =>
         record[id[c]] = [parent |-> parent[c], files |-> snap[c]]

IInv == TypeOK /\ IdsOK /\ LockOK /\ CopiesOK /\ RetainedOK /\ RevisionsAreSound

-----------------------------------------------------------------------------
(* What the steps leave of the calls.                                       *)

\* None is told apart from whatever it stands in the place of.
LEMMA NoneApart ==
  /\ None \notin Ids /\ None \notin Clients /\ None \notin Nat /\ None \notin Record
  /\ MaxOps \in Nat /\ MaxEdits \in Nat /\ MaxFaults \in Nat /\ MaxKills \in Nat
  /\ Main \in Names /\ Ids \subseteq Nat /\ Zero \in Contents
BY RevisionsAssumption DEF Ids, Record, Contents, Zero

\* The types of what a call consists of.
CallTypes ==
  /\ pc \in [Clients -> Steps] /\ id \in [Clients -> Ids \cup {None}]
  /\ parent \in [Clients -> Ids \cup {None}] /\ expect \in [Clients -> Nat]
  /\ snap \in [Clients -> Contents] /\ seen \in [Clients -> Contents]
  /\ done \in [Clients -> SUBSET Names] /\ lock \in Clients \cup {None}

\* The calls of the others stay, and so does the lock when one of them has it.
OthersStay(c) ==
  \A d \in Clients : d # c =>
    /\ pc'[d] = pc[d] /\ id'[d] = id[d] /\ parent'[d] = parent[d]
    /\ snap'[d] = snap[d] /\ seen'[d] = seen[d] /\ done'[d] = done[d]
    /\ (lock = d => lock' = d)

\* A call that ends leaves well-typed calls, and the others as they are.
LEMMA LeaveEffect ==
  ASSUME TypeOK, NEW c \in Clients, Leave(c)
  PROVE  CallTypes' /\ OthersStay(c) /\ pc'[c] = "idle"
BY NoneApart DEF TypeOK, Leave, CallTypes, OthersStay, Steps

\* An answer ends the call and is one of the answers.
LEMMA TellEffect ==
  ASSUME TypeOK, IdsOK, NEW c \in Clients, pc[c] # "idle", NEW a \in Answers, Tell(c, a)
  PROVE  Leave(c) /\ told' \in [Ids -> Answers]
BY DEF Tell, TypeOK, IdsOK

\* The ways on: done[c] grows, or starts anew in the next step.
LEMMA DealEffect ==
  ASSUME TypeOK, NEW c \in Clients, NEW n \in Names, NEW s \in Steps, Deal(c, n, s)
  PROVE  /\ pc' \in [Clients -> Steps] /\ done' \in [Clients -> SUBSET Names]
         /\ lock' = lock /\ told' = told
         /\ \A d \in Clients : d # c => pc'[d] = pc[d] /\ done'[d] = done[d]
         /\ \/ pc'[c] = s /\ done'[c] = {} /\ \A m \in Names : m \in done[c] \/ m = n
            \/ pc'[c] = pc[c] /\ done'[c] = done[c] \cup {n}
<1>1. CASE done[c] \cup {n} = Names
  BY <1>1 DEF TypeOK, Deal, GoTo
<1>2. CASE done[c] \cup {n} # Names
  BY <1>2 DEF TypeOK, Deal
<1> QED BY <1>1, <1>2

-----------------------------------------------------------------------------
(* Types.                                                                  *)

\* Every step leaves the state well-typed.
LEMMA TypeStep ==
  ASSUME TypeOK, IdsOK, Next
  PROVE  TypeOK'
<1> USE NoneApart
<1>1. ASSUME NEW c \in Clients, NEW p \in Ids \cup {None}, Revise(c, p)
      PROVE  TypeOK'
  <2>1. ops + 1 \in Ids /\ file[Main] \in Nat
    BY <1>1 DEF TypeOK, Revise, Ids, Contents
  <2> QED BY <1>1, <2>1 DEF TypeOK, Revise, GoTo, disk, Steps, Ids
<1>2. ASSUME NEW c \in Clients, NEW n \in Names, Copy(c, n)
      PROVE  TypeOK'
  <2>1. CASE Tell(c, "changed")
    BY <1>2, <2>1, TellEffect, LeaveEffect DEF TypeOK, CallTypes, Copy, disk, bounds, Answers
  <2>2. CASE Deal(c, n, "lock") /\ snap' = [snap EXCEPT ![c] = [@ EXCEPT ![n] = file[n]]]
             /\ UNCHANGED <<fixed, seen>>
    <3>1. [snap[c] EXCEPT ![n] = file[n]] \in Contents
      BY DEF TypeOK, Contents
    <3> QED BY <1>2, <2>2, <3>1, DealEffect DEF TypeOK, Copy, disk, bounds, fixed, Steps
  <2> QED BY <1>2, <2>1, <2>2 DEF Copy
<1>3. ASSUME NEW c \in Clients, Lock(c)
      PROVE  TypeOK'
  <2>1. CASE Tell(c, "busy")
    BY <1>3, <2>1, TellEffect, LeaveEffect DEF TypeOK, CallTypes, Lock, disk, bounds, Answers
  <2>2. CASE ~Tell(c, "busy")
    BY <1>3, <2>2 DEF TypeOK, Lock, disk, bounds, fixed, Steps
  <2> QED BY <2>1, <2>2
<1>4. ASSUME NEW c \in Clients, CompareHead(c)
      PROVE  TypeOK'
  <2>1. CASE Tell(c, "stale")
    BY <1>4, <2>1, TellEffect, LeaveEffect
       DEF TypeOK, CallTypes, CompareHead, disk, bounds, Answers
  <2>2. CASE ~Tell(c, "stale")
    BY <1>4, <2>2 DEF TypeOK, CompareHead, GoTo, disk, bounds, fixed, Steps
  <2> QED BY <2>1, <2>2
<1>5. ASSUME NEW c \in Clients, NEW n \in Names, Verify(c, n)
      PROVE  TypeOK'
  <2>1. CASE Tell(c, "changed")
    BY <1>5, <2>1, TellEffect, LeaveEffect DEF TypeOK, CallTypes, Verify, disk, bounds, Answers
  <2>2. CASE Deal(c, n, "inputs") /\ UNCHANGED <<fixed, snap, seen>>
    BY <1>5, <2>2, DealEffect DEF TypeOK, Verify, disk, bounds, fixed, Steps
  <2> QED BY <1>5, <2>1, <2>2 DEF Verify
<1>6. ASSUME NEW c \in Clients, NEW n \in Names, RetainInput(c, n)
      PROVE  TypeOK'
  <2> DEFINE put == [input EXCEPT ![id[c]] = [@ EXCEPT ![n] = snap[c][n]]]
  <2>0. put \in [Ids -> [Names -> Nat \cup {None}]]
    <3>1. id[c] \in Ids /\ snap[c][n] \in Nat
      BY <1>6 DEF TypeOK, IdsOK, RetainInput, Contents
    <3>2. [input[id[c]] EXCEPT ![n] = snap[c][n]] \in [Names -> Nat \cup {None}]
      BY <3>1 DEF TypeOK
    <3> QED BY <3>1, <3>2 DEF TypeOK
  <2> HIDE DEF put
  <2>1. CASE Fault /\ input' \in {input, put} /\ Tell(c, "failed")
    BY <1>6, <2>0, <2>1, TellEffect, LeaveEffect
       DEF TypeOK, CallTypes, RetainInput, Fault, Answers
  <2>2. CASE input' = put /\ Deal(c, n, "record") /\ UNCHANGED <<fixed, snap, seen, bounds>>
    BY <1>6, <2>0, <2>2, DealEffect DEF TypeOK, RetainInput, bounds, fixed, Steps
  <2> QED BY <1>6, <2>1, <2>2 DEF RetainInput, put
<1>7. ASSUME NEW c \in Clients, WriteRecord(c)
      PROVE  TypeOK'
  <2> DEFINE put == [record EXCEPT ![id[c]] = [parent |-> parent[c], files |-> snap[c]]]
  <2>0. put \in [Ids -> Record \cup {None}]
    BY <1>7 DEF TypeOK, Record
  <2>3. pc[c] # "idle"
    BY <1>7 DEF WriteRecord
  <2> HIDE DEF put
  <2>1. CASE Fault /\ record' \in {record, put} /\ Tell(c, "failed")
    BY <1>7, <2>0, <2>1, <2>3, TellEffect, LeaveEffect
       DEF TypeOK, CallTypes, WriteRecord, Fault, Answers
  <2>2. CASE record' = put /\ GoTo(c, "advance") /\ UNCHANGED <<fixed, snap, done, seen, bounds>>
    BY <1>7, <2>0, <2>2 DEF TypeOK, WriteRecord, GoTo, bounds, fixed, Steps
  <2> QED BY <1>7, <2>1, <2>2 DEF WriteRecord, put
<1>8. ASSUME NEW c \in Clients, AdvanceHead(c)
      PROVE  TypeOK'
  <2>1. id[c] \in Ids /\ pc[c] # "idle"
    BY <1>8 DEF IdsOK, AdvanceHead
  <2>2. Leave(c) /\ told' \in [Ids -> Answers]
    BY <1>8, <2>1, TellEffect DEF AdvanceHead, Answers
  <2> QED BY <1>8, <2>1, <2>2, LeaveEffect DEF TypeOK, CallTypes, AdvanceHead, Fault, bounds
<1>9. ASSUME NEW c \in Clients, Kill(c)
      PROVE  TypeOK'
  BY <1>9, LeaveEffect DEF TypeOK, CallTypes, Kill, disk
<1>10. ASSUME NEW n \in Names, Edit(n)
       PROVE  TypeOK'
  <2>1. file' \in Contents /\ edits' \in Nat
    BY <1>10 DEF TypeOK, Edit, Contents
  <2>2. moments' \subseteq Contents
    BY <1>10, <2>1 DEF TypeOK, Edit
  <2>3. UNCHANGED <<disk, lock, call, told, ops, faults, kills>>
    BY <1>10 DEF Edit
  <2> QED BY <2>1, <2>2, <2>3 DEF TypeOK, disk, call, fixed
<1> QED BY <1>1, <1>2, <1>3, <1>4, <1>5, <1>6, <1>7, <1>8, <1>9, <1>10 DEF Next

-----------------------------------------------------------------------------
(* What a step of a call does to the rest: to the other calls nothing, and to *)
(* what is retained only what is under its own id.                           *)

CallSteps(c) == \/ \E n \in Names : Copy(c, n) \/ Verify(c, n) \/ RetainInput(c, n)
                \/ Lock(c) \/ CompareHead(c) \/ WriteRecord(c) \/ AdvanceHead(c) \/ Kill(c)

Own(c) ==
  /\ OthersStay(c) /\ pc[c] # "idle" /\ ops' = ops /\ file' = file /\ moments' = moments
  /\ \/ pc'[c] = "idle" /\ snap'[c] = Zero
     \/ pc'[c] # "idle" /\ id'[c] = id[c] /\ parent'[c] = parent[c]
  /\ \A i \in Ids : i # id[c] => record'[i] = record[i] /\ input'[i] = input[i]

\* A call that has ended has no copies.
LEMMA LeaveOwn ==
  ASSUME TypeOK, NEW c \in Clients, Leave(c)
  PROVE  pc'[c] = "idle" /\ snap'[c] = Zero
BY DEF TypeOK, Leave

\* Every step of a call but the first is its own business.
LEMMA OwnStep ==
  ASSUME TypeOK, IdsOK, NEW c \in Clients, CallSteps(c)
  PROVE  Own(c)
<1> USE NoneApart
<1>1. ASSUME NEW n \in Names, Copy(c, n)
      PROVE  Own(c)
  <2>1. CASE Tell(c, "changed")
    BY <1>1, <2>1, LeaveEffect, LeaveOwn DEF Copy, Tell, Own, disk, bounds
  <2>2. CASE Deal(c, n, "lock") /\ snap' = [snap EXCEPT ![c] = [@ EXCEPT ![n] = file[n]]]
             /\ UNCHANGED <<fixed, seen>>
    BY <1>1, <2>2, DealEffect DEF Copy, Own, OthersStay, disk, bounds, fixed, Steps, TypeOK
  <2> QED BY <1>1, <2>1, <2>2 DEF Copy
<1>2. ASSUME Lock(c)
      PROVE  Own(c)
  <2>1. CASE Tell(c, "busy")
    BY <1>2, <2>1, LeaveEffect, LeaveOwn DEF Lock, Tell, Own, disk, bounds
  <2>2. CASE ~Tell(c, "busy")
    BY <1>2, <2>2 DEF Lock, Own, OthersStay, disk, bounds, fixed, TypeOK
  <2> QED BY <2>1, <2>2
<1>3. ASSUME CompareHead(c)
      PROVE  Own(c)
  <2>1. CASE Tell(c, "stale")
    BY <1>3, <2>1, LeaveEffect, LeaveOwn DEF CompareHead, Tell, Own, disk, bounds
  <2>2. CASE ~Tell(c, "stale")
    BY <1>3, <2>2 DEF CompareHead, GoTo, Own, OthersStay, disk, bounds, fixed, TypeOK
  <2> QED BY <2>1, <2>2
<1>4. ASSUME NEW n \in Names, Verify(c, n)
      PROVE  Own(c)
  <2>1. CASE Tell(c, "changed")
    BY <1>4, <2>1, LeaveEffect, LeaveOwn DEF Verify, Tell, Own, disk, bounds
  <2>2. CASE Deal(c, n, "inputs") /\ UNCHANGED <<fixed, snap, seen>>
    BY <1>4, <2>2, DealEffect DEF Verify, Own, OthersStay, disk, bounds, fixed, Steps, TypeOK
  <2> QED BY <1>4, <2>1, <2>2 DEF Verify
<1>5. ASSUME NEW n \in Names, RetainInput(c, n)
      PROVE  Own(c)
  <2> DEFINE put == [input EXCEPT ![id[c]] = [@ EXCEPT ![n] = snap[c][n]]]
  <2>1. \A i \in Ids : i # id[c] => put[i] = input[i]
    BY DEF TypeOK
  <2>2. UNCHANGED <<file, moments, record, head>> /\ pc[c] # "idle" /\ ops' = ops
    BY <1>5 DEF RetainInput, Fault, bounds
  <2> HIDE DEF put
  <2>3. CASE Fault /\ input' \in {input, put} /\ Tell(c, "failed")
    BY <2>1, <2>2, <2>3, LeaveEffect, LeaveOwn DEF Tell, Own
  <2>4. CASE input' = put /\ Deal(c, n, "record") /\ UNCHANGED <<fixed, snap, seen, bounds>>
    BY <1>5, <2>1, <2>2, <2>4, DealEffect DEF RetainInput, Own, OthersStay, fixed, Steps
  <2> QED BY <1>5, <2>3, <2>4 DEF RetainInput, put
<1>6. ASSUME WriteRecord(c)
      PROVE  Own(c)
  <2> DEFINE put == [record EXCEPT ![id[c]] = [parent |-> parent[c], files |-> snap[c]]]
  <2>1. \A i \in Ids : i # id[c] => put[i] = record[i]
    BY DEF TypeOK
  <2>2. UNCHANGED <<file, moments, input, head>> /\ pc[c] # "idle" /\ ops' = ops
    BY <1>6 DEF WriteRecord, Fault, bounds
  <2> HIDE DEF put
  <2>3. CASE Fault /\ record' \in {record, put} /\ Tell(c, "failed")
    BY <2>1, <2>2, <2>3, LeaveEffect, LeaveOwn DEF Tell, Own
  <2>4. CASE record' = put /\ GoTo(c, "advance") /\ UNCHANGED <<fixed, snap, done, seen, bounds>>
    BY <2>1, <2>2, <2>4 DEF GoTo, Own, OthersStay, fixed, TypeOK
  <2> QED BY <1>6, <2>3, <2>4 DEF WriteRecord, put
<1>7. ASSUME AdvanceHead(c)
      PROVE  Own(c)
  <2>1. Leave(c) /\ UNCHANGED <<file, moments, input, record>> /\ ops' = ops /\ pc[c] # "idle"
    BY <1>7 DEF AdvanceHead, Tell, Fault, bounds
  <2> QED BY <2>1, LeaveEffect, LeaveOwn DEF Own
<1>8. ASSUME Kill(c)
      PROVE  Own(c)
  BY <1>8, LeaveEffect, LeaveOwn DEF Kill, Own, disk
<1> QED BY <1>1, <1>2, <1>3, <1>4, <1>5, <1>6, <1>7, <1>8 DEF CallSteps

\* What a record is written with.
LEMMA RecordEffect ==
  ASSUME TypeOK, IdsOK, NEW c \in Clients, WriteRecord(c)
  PROVE  /\ pc[c] = "record" /\ id[c] \in Ids
         /\ pc'[c] \in {"idle", "advance"} /\ UNCHANGED <<input, head>>
         /\ \/ record' = record /\ pc'[c] = "idle"
            \/ record'[id[c]] = [parent |-> parent[c], files |-> snap[c]]
         /\ pc'[c] = "advance" => UNCHANGED <<snap, seen, done, lock>>
<1> DEFINE put == [record EXCEPT ![id[c]] = [parent |-> parent[c], files |-> snap[c]]]
<1>1. pc[c] = "record" /\ id[c] \in Ids /\ UNCHANGED <<input, head>>
  BY DEF WriteRecord, IdsOK
<1>2. put[id[c]] = [parent |-> parent[c], files |-> snap[c]]
  BY <1>1 DEF TypeOK
<1> HIDE DEF put
<1>3. CASE record' \in {record, put} /\ Leave(c)
  BY <1>1, <1>2, <1>3, LeaveEffect
<1>4. CASE record' = put /\ GoTo(c, "advance") /\ UNCHANGED <<fixed, snap, done, seen>>
  BY <1>1, <1>2, <1>4 DEF GoTo, TypeOK
<1> QED BY <1>3, <1>4 DEF WriteRecord, Tell, put

-----------------------------------------------------------------------------
(* The calls' ids are their own.                                            *)

\* No step gives two calls one id, or records anything under an id not yet given.
LEMMA IdsStep ==
  ASSUME TypeOK, IdsOK, Next
  PROVE  IdsOK'
<1> USE NoneApart
<1>1. ASSUME NEW c \in Clients, NEW p \in Ids \cup {None}, Revise(c, p)
      PROVE  IdsOK'
  <2>1. /\ ops \in Nat /\ ops' = ops + 1 /\ ops + 1 \in Ids /\ record' = record
        /\ pc'[c] = "copy" /\ id'[c] = ops + 1
    BY <1>1 DEF TypeOK, Revise, GoTo, disk, Ids
  <2>2. \A d \in Clients : d # c => pc'[d] = pc[d] /\ id'[d] = id[d]
    BY <1>1 DEF TypeOK, Revise, GoTo
  <2> QED BY <2>1, <2>2 DEF IdsOK, Ids
<1>2. ASSUME NEW c \in Clients, CallSteps(c)
      PROVE  IdsOK'
  <2>1. Own(c)
    BY <1>2, OwnStep
  <2>2. pc'[c] \in {"idle", "advance"} \/ (record' = record /\ pc[c] # "advance")
    <3>1. CASE WriteRecord(c)
      BY <3>1, RecordEffect
    <3>2. CASE AdvanceHead(c)
      BY <3>2, LeaveEffect DEF AdvanceHead, Tell
    <3>3. CASE Kill(c)
      BY <3>3, LeaveEffect DEF Kill
    <3> QED
      BY <1>2, <3>1, <3>2, <3>3
      DEF CallSteps, Copy, Lock, CompareHead, Verify, RetainInput, disk
  <2>3. id[c] \in Ids /\ id[c] <= ops
    BY <2>1 DEF IdsOK, Own
  <2>4. \A d \in Clients : pc'[d] # "idle" => pc[d] # "idle" /\ id'[d] = id[d]
    BY <2>1 DEF Own, OthersStay
  <2>5. \A d \in Clients : pc'[d] # "idle" => id'[d] \in Ids /\ id'[d] <= ops'
    BY <2>1, <2>4 DEF IdsOK, Own
  <2>6. \A d, e \in Clients :
          pc'[d] # "idle" /\ pc'[e] # "idle" /\ d # e => id'[d] # id'[e]
    BY <2>4 DEF IdsOK
  <2>7. \A i \in Ids : i > ops' => record'[i] = None
    BY <2>1, <2>3 DEF IdsOK, Own, Ids, TypeOK
  <2>8. \A d \in Clients : pc'[d] \notin {"idle", "advance"} => record'[id'[d]] = None
    <3>1. pc'[c] \notin {"idle", "advance"} => record'[id'[c]] = None
      BY <2>1, <2>2, <2>4 DEF IdsOK, Own
    <3>2. ASSUME NEW d \in Clients, d # c, pc'[d] \notin {"idle", "advance"}
          PROVE  record'[id'[d]] = None
      <4>1. pc[d] = pc'[d] /\ id'[d] = id[d] /\ id[d] \in Ids /\ id[d] # id[c]
        BY <2>1, <3>2 DEF IdsOK, Own, OthersStay
      <4> QED BY <2>1, <3>2, <4>1 DEF IdsOK, Own
    <3> QED BY <3>1, <3>2
  <2> QED BY <2>5, <2>6, <2>7, <2>8 DEF IdsOK
<1>3. ASSUME NEW n \in Names, Edit(n)
      PROVE  IdsOK'
  BY <1>3 DEF Edit, IdsOK, disk, call, fixed
<1> QED BY <1>1, <1>2, <1>3 DEF Next, CallSteps

-----------------------------------------------------------------------------
(* The lock and the head.                                                   *)

\* Only the call that has the lock moves the head.
LEMMA HeadEffect ==
  ASSUME TypeOK, NEW c \in Clients, CallSteps(c)
  PROVE  head' = head \/ (pc[c] = "advance" /\ head' = id[c] /\ pc'[c] = "idle"
                          /\ record' = record)
<1>1. CASE AdvanceHead(c)
  BY <1>1, LeaveEffect DEF AdvanceHead, Tell
<1>2. CASE WriteRecord(c)
  BY <1>2 DEF WriteRecord
<1> QED
  BY <1>1, <1>2 DEF CallSteps, Copy, Lock, CompareHead, Verify, RetainInput, Kill, disk

\* No step moves the head under a call that has compared it.
LEMMA LockStep ==
  ASSUME TypeOK, IdsOK, LockOK, Next
  PROVE  LockOK'
<1> USE NoneApart
<1>1. ASSUME NEW c \in Clients, NEW p \in Ids \cup {None}, Revise(c, p)
      PROVE  LockOK'
  <2>1. /\ pc'[c] = "copy" /\ head' = head /\ lock' = lock
        /\ \A d \in Clients : d # c => pc'[d] = pc[d] /\ parent'[d] = parent[d]
    BY <1>1 DEF TypeOK, Revise, GoTo, disk
  <2> QED BY <2>1 DEF LockOK, Held, Compared
<1>2. ASSUME NEW c \in Clients, CallSteps(c)
      PROVE  LockOK'
  <2>1. Own(c)
    BY <1>2, OwnStep
  <2>2. \A d \in Clients : d # c /\ pc[d] \in Held => lock' = d
    BY <2>1 DEF LockOK, Own, OthersStay
  <2>3. \A d \in Clients : d # c /\ pc[d] \in Compared => head' = parent'[d]
    BY <1>2, <2>1, HeadEffect DEF LockOK, Own, OthersStay, Held, Compared
  <2>4. pc'[c] \in Held => lock' = c
    <3>1. CASE Lock(c)
      BY <3>1, LeaveEffect DEF Lock, Tell, TypeOK, Held
    <3>2. CASE CompareHead(c)
      BY <3>2, LeaveEffect DEF CompareHead, Tell, GoTo, TypeOK, LockOK, Held
    <3>3. CASE WriteRecord(c)
      BY <3>3, RecordEffect DEF LockOK, Held
    <3>4. CASE AdvanceHead(c) \/ Kill(c)
      BY <3>4, LeaveEffect DEF AdvanceHead, Kill, Tell, Held
    <3>5. ASSUME NEW n \in Names, Copy(c, n) \/ Verify(c, n) \/ RetainInput(c, n)
          PROVE  pc'[c] \in Held => lock' = c
      <4>1. CASE Leave(c)
        BY <4>1, LeaveEffect DEF Held
      <4>2. CASE ~Leave(c)
        BY <3>5, <4>2, DealEffect
        DEF Copy, Verify, RetainInput, Tell, LockOK, Held, Steps
      <4> QED BY <4>1, <4>2
    <3> QED BY <1>2, <3>1, <3>2, <3>3, <3>4, <3>5 DEF CallSteps
  <2>5. pc'[c] \in Compared => head' = parent'[c]
    <3>1. CASE CompareHead(c)
      BY <3>1, LeaveEffect DEF CompareHead, Tell, GoTo, TypeOK, Compared, fixed, disk
    <3>2. CASE WriteRecord(c)
      BY <2>1, <3>2, RecordEffect DEF Own, LockOK, Compared
    <3>3. CASE AdvanceHead(c) \/ Kill(c)
      BY <3>3, LeaveEffect DEF AdvanceHead, Kill, Tell, Compared
    <3>4. CASE Lock(c)
      BY <3>4, LeaveEffect DEF Lock, Tell, TypeOK, Compared
    <3>5. ASSUME NEW n \in Names, Copy(c, n) \/ Verify(c, n) \/ RetainInput(c, n)
          PROVE  pc'[c] \in Compared => head' = parent'[c]
      <4>1. CASE Leave(c)
        BY <4>1, LeaveEffect DEF Compared
      <4>2. CASE ~Leave(c)
        BY <2>1, <3>5, <4>2, DealEffect
        DEF Copy, Verify, RetainInput, Tell, Own, LockOK, Compared, Steps, disk
      <4> QED BY <4>1, <4>2
    <3> QED BY <1>2, <3>1, <3>2, <3>3, <3>4, <3>5 DEF CallSteps
  <2> QED BY <2>1, <2>2, <2>3, <2>4, <2>5 DEF LockOK, Own, OthersStay
<1>3. ASSUME NEW n \in Names, Edit(n)
      PROVE  LockOK'
  BY <1>3 DEF Edit, LockOK, Held, Compared, disk, call, fixed
<1> QED BY <1>1, <1>2, <1>3 DEF Next, CallSteps

-----------------------------------------------------------------------------
(* The copies and the files.                                                *)

\* No step makes a copy newer than the files, or a verified copy differ from them.
LEMMA CopiesStep ==
  ASSUME TypeOK, TypeOK', IdsOK, CopiesOK, Next
  PROVE  CopiesOK'
<1> USE NoneApart
<1>1. ASSUME NEW c \in Clients, NEW p \in Ids \cup {None}, Revise(c, p)
      PROVE  CopiesOK'
  <2>1. /\ pc'[c] = "copy" /\ UNCHANGED <<file, moments, snap, seen, done>>
        /\ \A d \in Clients : d # c => pc'[d] = pc[d]
    BY <1>1 DEF TypeOK, Revise, GoTo
  <2> QED BY <2>1 DEF CopiesOK, Compared, Verified
<1>2. ASSUME NEW c \in Clients, CallSteps(c)
      PROVE  CopiesOK'
  <2> DEFINE Good(d) ==
        /\ \A n \in Names :
             /\ snap[d][n] <= file[n]
             /\ pc[d] \in Compared => snap[d][n] <= seen[d][n] /\ seen[d][n] <= file[n]
             /\ pc[d] = "verify" /\ n \in done[d] => snap[d][n] = seen[d][n]
             /\ pc[d] \in Verified => snap[d][n] = seen[d][n]
        /\ pc[d] \in Compared => seen[d] \in moments
        /\ pc[d] \in {"lock", "head"} => done[d] = {}
  <2>1. Own(c) /\ Good(c)
    BY <1>2, OwnStep DEF CopiesOK
  <2>2. UNCHANGED <<file, moments>> /\ file \in Contents /\ snap[c] \in Contents
        /\ seen[c] \in Contents
    BY <2>1 DEF Own, TypeOK
  <2>3. ASSUME pc'[c] = "idle"
        PROVE  Good(c)'
    BY <2>1, <2>2, <2>3 DEF Own, Compared, Verified, Zero, Contents
  <2>4. ASSUME NEW n \in Names, Copy(c, n), pc'[c] # "idle"
        PROVE  Good(c)'
    <3>1. Deal(c, n, "lock") /\ snap' = [snap EXCEPT ![c] = [@ EXCEPT ![n] = file[n]]]
      BY <2>4, LeaveEffect DEF Copy, Tell
    <3>2. snap'[c] = [snap[c] EXCEPT ![n] = file[n]]
      BY <3>1 DEF TypeOK
    <3>3. \A m \in Names : snap'[c][m] <= file[m]
      BY <2>1, <2>2, <3>2 DEF Contents
    <3>4. (pc'[c] = "lock" /\ done'[c] = {}) \/ pc'[c] = "copy"
      BY <2>4, <3>1, DealEffect DEF Copy, Steps
    <3> QED BY <2>2, <3>3, <3>4 DEF Compared, Verified
  <2>5. ASSUME NEW n \in Names, Verify(c, n), pc'[c] # "idle"
        PROVE  Good(c)'
    <3>1. Deal(c, n, "inputs") /\ UNCHANGED <<snap, seen>> /\ file[n] = snap[c][n]
          /\ pc[c] = "verify"
      BY <2>5, LeaveEffect DEF Verify, Tell
    <3>2. snap[c][n] = seen[c][n]
      BY <2>1, <2>2, <3>1 DEF Compared, Contents
    <3>3. \/ pc'[c] = "verify" /\ done'[c] = done[c] \cup {n}
          \/ pc'[c] = "inputs" /\ \A m \in Names : m \in done[c] \/ m = n
      BY <3>1, DealEffect DEF Steps
    <3> QED BY <2>1, <2>2, <3>1, <3>2, <3>3 DEF Compared, Verified
  <2>6. ASSUME NEW n \in Names, RetainInput(c, n), pc'[c] # "idle"
        PROVE  Good(c)'
    <3>1. Deal(c, n, "record") /\ UNCHANGED <<snap, seen>> /\ pc[c] = "inputs"
      BY <2>6, LeaveEffect DEF RetainInput, Tell
    <3>2. pc'[c] \in {"inputs", "record"}
      BY <3>1, DealEffect DEF Steps
    <3> QED BY <2>1, <2>2, <3>1, <3>2 DEF Compared, Verified
  <2>7. ASSUME Lock(c) /\ pc'[c] # "idle"
        PROVE  Good(c)'
    <3>1. pc[c] = "lock" /\ pc'[c] = "head" /\ UNCHANGED <<snap, seen, done>>
      BY <2>7, LeaveEffect DEF Lock, Tell, TypeOK
    <3> QED BY <2>1, <2>2, <3>1 DEF Compared, Verified
  <2>8. ASSUME CompareHead(c) /\ pc'[c] # "idle"
        PROVE  Good(c)'
    <3>1. pc[c] = "head" /\ pc'[c] = "verify" /\ UNCHANGED <<snap, done>> /\ seen'[c] = file
      BY <2>8, LeaveEffect DEF CompareHead, Tell, GoTo, TypeOK
    <3>2. file \in moments
      BY DEF CopiesOK
    <3> QED BY <2>1, <2>2, <3>1, <3>2 DEF Compared, Verified, Contents
  <2>9. ASSUME WriteRecord(c) /\ pc'[c] # "idle"
        PROVE  Good(c)'
    <3>1. pc[c] = "record" /\ pc'[c] = "advance" /\ UNCHANGED <<snap, seen, done>>
      BY <2>9, RecordEffect
    <3> QED BY <2>1, <2>2, <3>1 DEF Compared, Verified
  <2>10. ASSUME (AdvanceHead(c) \/ Kill(c)) /\ pc'[c] # "idle"
        PROVE  Good(c)'
    BY <2>10, LeaveEffect DEF AdvanceHead, Kill, Tell
  <2>11. Good(c)'
    BY <1>2, <2>3, <2>4, <2>5, <2>6, <2>7, <2>8, <2>9, <2>10 DEF CallSteps
  <2>12. ASSUME NEW d \in Clients, d # c
         PROVE  Good(d)'
    <3>1. Good(d)
      BY DEF CopiesOK
    <3>2. pc'[d] = pc[d] /\ snap'[d] = snap[d] /\ seen'[d] = seen[d] /\ done'[d] = done[d]
      BY <2>1, <2>12 DEF Own, OthersStay
    <3> QED BY <2>2, <3>1, <3>2
  <2>13. \A d \in Clients : Good(d)'
    BY <2>11, <2>12
  <2> QED BY <2>2, <2>13 DEF CopiesOK
<1>3. ASSUME NEW n \in Names, Edit(n)
      PROVE  CopiesOK'
  <2>1. file' \in moments' /\ moments \subseteq moments' /\ UNCHANGED <<pc, snap, seen, done>>
    BY <1>3 DEF Edit, call
  <2>2. \A m \in Names : file[m] \in Nat /\ file'[m] \in Nat /\ file[m] <= file'[m]
    BY <1>3 DEF Edit, TypeOK, Contents
  <2>3. \A d \in Clients : \A m \in Names : snap[d][m] \in Nat /\ seen[d][m] \in Nat
    BY DEF TypeOK, Contents
  <2> QED BY <2>1, <2>2, <2>3 DEF CopiesOK
<1> QED BY <1>1, <1>2, <1>3 DEF Next, CallSteps

-----------------------------------------------------------------------------
(* What is retained.                                                        *)

\* A retained input is the copy of it, the other inputs stay.
LEMMA InputEffect ==
  ASSUME TypeOK, IdsOK, NEW c \in Clients, NEW n \in Names, RetainInput(c, n),
         pc'[c] # "idle"
  PROVE  /\ UNCHANGED <<snap, record>> /\ id'[c] = id[c] /\ pc[c] = "inputs"
         /\ input'[id[c]][n] = snap[c][n]
         /\ \A m \in Names : m # n => input'[id[c]][m] = input[id[c]][m]
         /\ \/ pc'[c] = "record" /\ \A m \in Names : m \in done[c] \/ m = n
            \/ pc'[c] = "inputs" /\ done'[c] = done[c] \cup {n}
<1> DEFINE put == [input EXCEPT ![id[c]] = [@ EXCEPT ![n] = snap[c][n]]]
<1>1. pc[c] = "inputs" /\ id[c] \in Ids /\ record' = record
  BY DEF RetainInput, IdsOK
<1>2. put[id[c]] = [input[id[c]] EXCEPT ![n] = snap[c][n]]
  BY <1>1 DEF TypeOK
<1>3. put[id[c]][n] = snap[c][n]
      /\ \A m \in Names : m # n => put[id[c]][m] = input[id[c]][m]
  BY <1>1, <1>2 DEF TypeOK
<1> HIDE DEF put
<1>4. input' = put /\ Deal(c, n, "record") /\ UNCHANGED <<fixed, snap, seen, bounds>>
  BY LeaveEffect DEF RetainInput, Tell, put
<1> QED BY <1>1, <1>3, <1>4, DealEffect DEF fixed, Steps

\* No step takes back what a call has retained.
LEMMA RetainedStep ==
  ASSUME TypeOK, IdsOK, RetainedOK, Next
  PROVE  RetainedOK'
<1> USE NoneApart
<1> DEFINE Good(d) ==
      /\ \A n \in Names :
           /\ pc[d] = "inputs" /\ n \in done[d] => input[id[d]][n] = snap[d][n]
           /\ pc[d] \in {"record", "advance"} => input[id[d]][n] = snap[d][n]
      /\ pc[d] = "advance" => record[id[d]] = [parent |-> parent[d], files |-> snap[d]]
<1>1. ASSUME NEW c \in Clients, NEW p \in Ids \cup {None}, Revise(c, p)
      PROVE  RetainedOK'
  <2>1. pc'[c] = "copy" /\ UNCHANGED <<snap, done, input, record>>
    BY <1>1 DEF TypeOK, Revise, GoTo, disk
  <2>2. \A d \in Clients : d # c =>
          pc'[d] = pc[d] /\ id'[d] = id[d] /\ parent'[d] = parent[d]
    BY <1>1 DEF TypeOK, Revise, GoTo
  <2>3. ASSUME NEW d \in Clients, d # c
        PROVE  Good(d)'
    BY <2>1, <2>2, <2>3 DEF RetainedOK
  <2>4. Good(c)'
    BY <2>1
  <2>5. \A d \in Clients : Good(d)'
    BY <2>3, <2>4
  <2> QED BY <2>5 DEF RetainedOK
<1>2. ASSUME NEW c \in Clients, CallSteps(c)
      PROVE  RetainedOK'
  <2>1. Own(c) /\ Good(c)
    BY <1>2, OwnStep DEF RetainedOK
  <2>2. ASSUME NEW d \in Clients, d # c
        PROVE  Good(d)'
    <3>1. Good(d)
      BY DEF RetainedOK
    <3>2. /\ pc'[d] = pc[d] /\ id'[d] = id[d] /\ parent'[d] = parent[d]
          /\ snap'[d] = snap[d] /\ done'[d] = done[d]
      BY <2>1, <2>2 DEF Own, OthersStay
    <3>3. pc[d] # "idle" => id[d] \in Ids /\ id[d] # id[c]
      BY <2>1, <2>2 DEF Own, IdsOK
    <3>4. pc[d] # "idle" => input'[id[d]] = input[id[d]] /\ record'[id[d]] = record[id[d]]
      BY <2>1, <3>3 DEF Own
    <3> QED BY <3>1, <3>2, <3>4
  <2>3. ASSUME pc'[c] = "idle"
        PROVE  Good(c)'
    BY <2>3
  <2>4. ASSUME NEW n \in Names, Copy(c, n), pc'[c] # "idle"
        PROVE  Good(c)'
    <3>1. pc'[c] \in {"copy", "lock"}
      BY <2>4, LeaveEffect, DealEffect DEF Copy, Tell, Steps
    <3> QED BY <3>1
  <2>5. ASSUME NEW n \in Names, Verify(c, n), pc'[c] # "idle"
        PROVE  Good(c)'
    <3>1. pc'[c] = "verify" \/ (pc'[c] = "inputs" /\ done'[c] = {})
      <4>1. Deal(c, n, "inputs") /\ pc[c] = "verify"
        BY <2>5, LeaveEffect DEF Verify, Tell
      <4>2. "inputs" \in Steps
        BY DEF Steps
      <4>3. \/ pc'[c] = "inputs" /\ done'[c] = {}
            \/ pc'[c] = pc[c]
        BY <4>1, <4>2, DealEffect
      <4> QED BY <4>1, <4>3
    <3> QED BY <3>1
  <2>6. ASSUME NEW n \in Names, RetainInput(c, n), pc'[c] # "idle"
        PROVE  Good(c)'
    BY <2>1, <2>6, InputEffect
  <2>7. ASSUME Lock(c) \/ CompareHead(c), pc'[c] # "idle"
        PROVE  Good(c)'
    <3>1. pc'[c] \in {"head", "verify"}
      BY <2>7, LeaveEffect DEF Lock, CompareHead, Tell, GoTo, TypeOK
    <3> QED BY <3>1
  <2>8. ASSUME WriteRecord(c), pc'[c] # "idle"
        PROVE  Good(c)'
    <3>1. /\ pc[c] = "record" /\ pc'[c] = "advance" /\ UNCHANGED <<input, snap>>
          /\ record'[id[c]] = [parent |-> parent[c], files |-> snap[c]]
      BY <2>8, RecordEffect
    <3>2. id'[c] = id[c] /\ parent'[c] = parent[c]
      BY <2>1, <2>8 DEF Own
    <3> QED BY <2>1, <3>1, <3>2
  <2>9. ASSUME AdvanceHead(c) \/ Kill(c)
        PROVE  Good(c)'
    BY <2>9, LeaveEffect DEF AdvanceHead, Kill, Tell
  <2>10. Good(c)'
    BY <1>2, <2>3, <2>4, <2>5, <2>6, <2>7, <2>8, <2>9 DEF CallSteps
  <2>11. \A d \in Clients : Good(d)'
    BY <2>2, <2>10
  <2> QED BY <2>11 DEF RetainedOK
<1>3. ASSUME NEW n \in Names, Edit(n)
      PROVE  RetainedOK'
  BY <1>3 DEF Edit, RetainedOK, disk, call, fixed
<1> QED BY <1>1, <1>2, <1>3 DEF Next, CallSteps

-----------------------------------------------------------------------------
(* Revisions are sound.                                                     *)

\* A record is only written for what is retained and verified.
LEMMA SoundStep ==
  ASSUME IInv, TypeOK', Next
  PROVE  RevisionsAreSound'
<1> USE NoneApart
<1> USE DEF IInv
<1>1. CASE UNCHANGED disk /\ moments \subseteq moments'
  BY <1>1 DEF RevisionsAreSound, RecordsAreComplete, RecordsAreMoments, disk
<1>2. ASSUME NEW c \in Clients, CallSteps(c)
      PROVE  RevisionsAreSound'
  <2>1. Own(c) /\ id[c] \in Ids
    BY <1>2, OwnStep DEF Own, IdsOK
  <2> DEFINE Good(i) == record[i] # None =>
        (\A n \in Names : input[i][n] = record[i].files[n]) /\ record[i].files \in moments
  <2>2. ASSUME NEW i \in Ids, i # id[c]
        PROVE  Good(i)'
    BY <2>1, <2>2 DEF Own, RevisionsAreSound, RecordsAreComplete, RecordsAreMoments
  <2>3. Good(id[c])
    BY <2>1 DEF RevisionsAreSound, RecordsAreComplete, RecordsAreMoments
  <2>4. CASE WriteRecord(c)
    <3>1. /\ pc[c] = "record" /\ UNCHANGED <<input, head>>
          /\ \/ record' = record
             \/ record'[id[c]] = [parent |-> parent[c], files |-> snap[c]]
      BY <2>4, RecordEffect
    <3>2. \A n \in Names : input[id[c]][n] = snap[c][n]
      BY <3>1 DEF RetainedOK
    <3>3. snap[c] = seen[c]
      <4>1. \A n \in Names : snap[c][n] = seen[c][n]
        BY <3>1 DEF CopiesOK, Verified
      <4> QED BY <4>1 DEF TypeOK, Contents
    <3>4. snap[c] \in moments /\ moments' = moments
      BY <2>1, <3>1, <3>3 DEF CopiesOK, Compared, Own
    <3>5. CASE record' = record
      BY <1>1, <3>1, <3>4, <3>5 DEF disk
    <3>6. CASE record'[id[c]] = [parent |-> parent[c], files |-> snap[c]]
      <4>1. record'[id[c]] # None /\ record'[id[c]].files = snap[c]
        BY <2>1, <3>6 DEF TypeOK, IdsOK, Record
      <4>2. ASSUME NEW i \in Ids, i = id[c]
            PROVE  Good(i)'
        BY <3>1, <3>2, <3>4, <4>1, <4>2
      <4>3. \A i \in Ids : Good(i)'
        BY <2>2, <4>2
      <4>4. head' # None => record'[head'] # None
        BY <2>1, <3>1, <4>1 DEF RevisionsAreSound, TypeOK, Own
      <4> QED BY <4>3, <4>4 DEF RevisionsAreSound, RecordsAreComplete, RecordsAreMoments
    <3> QED BY <3>1, <3>5, <3>6
  <2>5. ASSUME NEW n \in Names, RetainInput(c, n)
        PROVE  RevisionsAreSound'
    <3>1. record[id[c]] = None /\ UNCHANGED <<record, head>>
      BY <2>5 DEF RetainInput, IdsOK
    <3>2. \A i \in Ids : Good(i)'
      BY <2>2, <3>1
    <3> QED BY <3>1, <3>2 DEF RevisionsAreSound, RecordsAreComplete, RecordsAreMoments
  <2>6. CASE AdvanceHead(c)
    <3>1. UNCHANGED <<moments, input, record>> /\ head' \in {head, id[c]} /\ pc[c] = "advance"
      BY <2>6 DEF AdvanceHead
    <3>2. record[id[c]] = [parent |-> parent[c], files |-> snap[c]]
      BY <3>1 DEF RetainedOK
    <3>3. [parent |-> parent[c], files |-> snap[c]] \in Record
      BY DEF TypeOK, Record
    <3> QED
      BY <3>1, <3>2, <3>3 DEF RevisionsAreSound, RecordsAreComplete, RecordsAreMoments
  <2>7. CASE Lock(c) \/ CompareHead(c) \/ Kill(c)
             \/ \E n \in Names : Copy(c, n) \/ Verify(c, n)
    BY <1>1, <2>1, <2>7 DEF Lock, CompareHead, Kill, Copy, Verify, Own
  <2> QED BY <1>2, <2>4, <2>5, <2>6, <2>7 DEF CallSteps
<1>3. CASE \E c \in Clients, p \in Ids \cup {None} : Revise(c, p)
  BY <1>1, <1>3 DEF Revise
<1>4. CASE \E n \in Names : Edit(n)
  BY <1>1, <1>4 DEF Edit
<1> QED BY <1>2, <1>3, <1>4 DEF Next, CallSteps

-----------------------------------------------------------------------------
(* The theorems.                                                           *)

\* The invariant holds at the start ...
LEMMA InitInv == Init => IInv
<1> SUFFICES ASSUME Init
             PROVE  IInv
  OBVIOUS
<1> USE NoneApart
<1>1. TypeOK
  BY DEF Init, TypeOK, Zero, Contents, Steps, Answers
<1>2. IdsOK /\ LockOK
  BY DEF Init, IdsOK, LockOK, Held, Compared
<1>3. CopiesOK
  BY DEF Init, CopiesOK, Compared, Verified, Zero
<1>4. RetainedOK /\ RevisionsAreSound
  BY DEF Init, RetainedOK, RevisionsAreSound, RecordsAreComplete, RecordsAreMoments
<1> QED BY <1>1, <1>2, <1>3, <1>4 DEF IInv

\* ... and every step keeps it,
LEMMA NextInv == IInv /\ [Next]_vars => IInv'
<1> SUFFICES ASSUME IInv, [Next]_vars
             PROVE  IInv'
  OBVIOUS
<1>1. CASE Next
  <2>1. TypeOK'
    BY <1>1, TypeStep DEF IInv
  <2>2. IdsOK' /\ LockOK'
    BY <1>1, IdsStep, LockStep DEF IInv
  <2>3. CopiesOK'
    BY <1>1, <2>1, CopiesStep DEF IInv
  <2>4. RetainedOK' /\ RevisionsAreSound'
    BY <1>1, <2>1, RetainedStep, SoundStep DEF IInv
  <2> QED BY <2>1, <2>2, <2>3, <2>4 DEF IInv
<1>2. CASE UNCHANGED vars
  BY <1>2 DEF IInv, TypeOK, IdsOK, LockOK, CopiesOK, RetainedOK, RevisionsAreSound,
              RecordsAreComplete, RecordsAreMoments, vars, disk, bounds, call, fixed
<1> QED BY <1>1, <1>2

\* so it always holds.
THEOREM Invariance == Spec => []IInv
BY InitInv, NextInv, PTL DEF Spec

\* Every variable has its type: every call is at a step of revise, with parameters
\* and copies of the files, and at most one has the lock.
THEOREM TypeCorrect == Spec => []TypeOK
<1>1. IInv => TypeOK
  BY DEF IInv
<1> QED BY Invariance, <1>1, PTL

\* Every retained revision is complete and is a state the project was in, and the
\* head can always be opened (revise, get).
THEOREM Sound == Spec => []RevisionsAreSound
<1>1. IInv => RevisionsAreSound
  BY DEF IInv
<1> QED BY Invariance, <1>1, PTL

\* Two edits of one parent never both become the head (revise).
THEOREM HeadOnlyAdvances == Spec => HeadAdvances
<1>1. IInv /\ [Next]_vars =>
        [head' # head => head' # None /\ record[head'] # None
                         /\ record[head'].parent = head]_vars
  <2> SUFFICES ASSUME IInv, Next, head' # head
               PROVE  head' # None /\ record[head'] # None /\ record[head'].parent = head
    BY DEF vars, disk
  <2> USE NoneApart
  <2>1. PICK c \in Clients : CallSteps(c)
    BY DEF Next, CallSteps, Revise, Edit, disk
  <2>2. pc[c] = "advance" /\ head' = id[c]
    BY <2>1, HeadEffect DEF IInv
  <2>3. head = parent[c] /\ id[c] \in Ids
    BY <2>2 DEF IInv, LockOK, IdsOK, Compared
  <2>4. record[id[c]] = [parent |-> parent[c], files |-> snap[c]]
    BY <2>2 DEF IInv, RetainedOK
  <2>5. [parent |-> parent[c], files |-> snap[c]] \in Record
    BY DEF IInv, TypeOK, Record
  <2> QED BY <2>2, <2>3, <2>4, <2>5
<1> QED BY Invariance, <1>1, PTL DEF Spec, HeadAdvances

-----------------------------------------------------------------------------
(* Lineages.  Nothing of a call is needed here, only records whose parents    *)
(* are older records.                                                       *)

\* Every set of numbers has a least element.
LEMMA Smallest ==
  ASSUME NEW S \in SUBSET Nat, S # {}
  PROVE  \E n \in S : \A m \in S : n <= m
<1> DEFINE R == OpToRel(<, Nat)
<1>1. IsWellFoundedOn(R, Nat)
  BY NatLessThanWellFounded
<1>2. \A m, n \in Nat : <<m, n>> \in R <=> m < n
  BY DEF OpToRel
<1> HIDE DEF R
<1>3. PICK n \in S : \A m \in S : ~(<<m, n>> \in R)
  BY <1>1, WFMin
<1>4. ASSUME NEW m \in S
      PROVE  n <= m
  <2>1. m \in Nat /\ n \in Nat /\ ~(m < n)
    BY <1>2, <1>3
  <2> QED BY <2>1
<1> QED BY <1>4

\* The step of the recursion of Lineage, and what satisfies it.
Before(r, L, i)  == IF r[i] = None \/ r[i].parent = None THEN {} ELSE L[r[i].parent]
Descent(r, L)    == L = [i \in Ids |-> {i} \cup Before(r, L, i)]

\* Sets of revisions that have with each one what it came from.
Closed(r, S) == \A i \in S : r[i] # None /\ r[i].parent # None => r[i].parent \in S

(* The recursion has a solution: what is in every closed set that has i.      *)
LEMMA DescentExists ==
  ASSUME NEW r \in [Ids -> Record \cup {None}]
  PROVE  \E L : Descent(r, L)
<1> DEFINE A == [i \in Ids |-> {j \in Ids : \A S \in SUBSET Ids :
                                              i \in S /\ Closed(r, S) => j \in S}]
<1>1. ASSUME NEW i \in Ids
      PROVE  A[i] = {i} \cup Before(r, A, i)
  <2>1. CASE r[i] = None \/ r[i].parent = None
    <3>1. Closed(r, {i})
      BY <2>1 DEF Closed
    <3>2. A[i] = {i}
      BY <3>1
    <3> QED BY <2>1, <3>2 DEF Before
  <2>2. CASE r[i] # None /\ r[i].parent # None
    <3> DEFINE p == r[i].parent
               T == {i} \cup A[p]
    <3>1. p \in Ids
      BY <2>2 DEF Record
    <3>2. ASSUME NEW j \in A[p], r[j] # None, r[j].parent # None
          PROVE  r[j].parent \in A[p]
      <4>1. j \in Ids /\ r[j].parent \in Ids
        BY <3>1, <3>2 DEF Record
      <4>2. \A S \in SUBSET Ids : p \in S /\ Closed(r, S) => r[j].parent \in S
        BY <3>1, <3>2 DEF Closed
      <4> QED BY <3>1, <4>1, <4>2
    <3>3. p \in A[p] /\ A[p] \subseteq Ids
      BY <3>1
    <3>4. Closed(r, T) /\ i \in T /\ T \in SUBSET Ids
      BY <3>2, <3>3 DEF Closed
    <3>5. A[i] \subseteq T
      BY <3>4
    <3>6. ASSUME NEW j \in T, NEW S \in SUBSET Ids, i \in S, Closed(r, S)
          PROVE  j \in S
      <4>1. p \in S
        BY <2>2, <3>6 DEF Closed
      <4> QED BY <3>1, <3>6, <4>1
    <3>7. T \subseteq A[i]
      BY <3>4, <3>6
    <3>8. A[i] = T
      BY <3>5, <3>7
    <3>9. Before(r, A, i) = A[p]
      BY <2>2 DEF Before
    <3> QED BY <3>8, <3>9
  <2> QED BY <2>1, <2>2
<1>2. A = [i \in Ids |-> A[i]]
  OBVIOUS
<1>3. Descent(r, A)
  <2> HIDE DEF A
  <2> QED BY <1>1, <1>2 DEF Descent
<1> QED BY <1>3

\* What the definition of Lineage says when the records are r.
LineageOf(r) == CHOOSE L : L = [i \in Ids |->
  {i} \cup (IF r[i] = None \/ r[i].parent = None THEN {} ELSE L[r[i].parent])]

LEMMA LineageIs == Lineage = LineageOf(record)
BY DEF Lineage, LineageOf

LEMMA LineageStep ==
  ASSUME NEW r \in [Ids -> Record \cup {None}]
  PROVE  \A i \in Ids : LineageOf(r)[i] = {i} \cup Before(r, LineageOf(r), i)
<1>1. LineageOf(r) = CHOOSE L : Descent(r, L)
  BY DEF LineageOf, Descent, Before
<1>2. Descent(r, LineageOf(r))
  BY <1>1, DescentExists
<1> HIDE DEF LineageOf
<1> QED BY <1>2 DEF Descent

\* Parents are older than what is made of them, and their records are there.
Older(r) == \A i \in Ids : r[i] # None /\ r[i].parent # None =>
                             r[i].parent < i /\ r[r[i].parent] # None

\* Whatever a retained revision came from is retained.
LEMMA LineageRetained ==
  ASSUME NEW r \in [Ids -> Record \cup {None}], Older(r), NEW k \in Ids, r[k] # None
  PROVE  \A j \in LineageOf(r)[k] : j \in Ids /\ r[j] # None
<1> DEFINE L      == LineageOf(r)
           Bad(i) == r[i] # None /\ \E j \in L[i] : ~(j \in Ids /\ r[j] # None)
<1>1. \A i \in Ids : L[i] = {i} \cup Before(r, L, i)
  BY LineageStep
<1> HIDE DEF L
<1> SUFFICES ASSUME Bad(k)  PROVE FALSE
  BY DEF L
<1>2. PICK m \in {i \in Ids : Bad(i)} : \A i \in {x \in Ids : Bad(x)} : m <= i
  BY Smallest, NoneApart
<1>3. PICK j \in L[m] : ~(j \in Ids /\ r[j] # None)
  BY <1>2
<1>4. j # m /\ j \in Before(r, L, m)
  BY <1>1, <1>2, <1>3
<1>5. r[m].parent # None /\ j \in L[r[m].parent]
  BY <1>4 DEF Before
<1>6. r[m].parent \in Ids /\ r[m].parent < m /\ r[r[m].parent] # None
  BY <1>2, <1>5 DEF Older, Record
<1>7. Bad(r[m].parent)
  BY <1>3, <1>5, <1>6
<1>8. m <= r[m].parent /\ m \in Nat /\ r[m].parent \in Nat
  BY <1>2, <1>6, <1>7, NoneApart
<1> HIDE DEF Bad
<1> QED BY <1>6, <1>8

\* A record more changes the lineage of none that was there.
LEMMA LineageKept ==
  ASSUME NEW r \in [Ids -> Record \cup {None}], NEW s \in [Ids -> Record \cup {None}],
         Older(r), \A i \in Ids : r[i] # None => s[i] = r[i],
         NEW k \in Ids, r[k] # None
  PROVE  LineageOf(s)[k] = LineageOf(r)[k]
<1> DEFINE L      == LineageOf(r)
           M      == LineageOf(s)
           Bad(i) == r[i] # None /\ M[i] # L[i]
<1>1. /\ \A i \in Ids : L[i] = {i} \cup Before(r, L, i)
      /\ \A i \in Ids : M[i] = {i} \cup Before(s, M, i)
  BY LineageStep
<1> HIDE DEF L, M
<1> SUFFICES ASSUME Bad(k)  PROVE FALSE
  BY DEF L, M
<1>2. PICK m \in {i \in Ids : Bad(i)} : \A i \in {x \in Ids : Bad(x)} : m <= i
  BY Smallest, NoneApart
<1>3. Before(s, M, m) # Before(r, L, m) /\ s[m] = r[m] /\ r[m] # None
  BY <1>1, <1>2
<1>4. r[m].parent # None /\ M[r[m].parent] # L[r[m].parent]
  BY <1>3 DEF Before
<1>5. r[m].parent \in Ids /\ r[m].parent < m /\ r[r[m].parent] # None
  BY <1>2, <1>4 DEF Older, Record
<1>6. m <= r[m].parent /\ m \in Nat /\ r[m].parent \in Nat
  BY <1>2, <1>4, <1>5, NoneApart
<1> HIDE DEF Bad
<1> QED BY <1>5, <1>6

-----------------------------------------------------------------------------
(* Answers.                                                                 *)

(* AInv adds to IInv that a call's parent is retained and older, and that a   *)
(* call has no answer before it ends: what was refused then never has a       *)
(* record, and what was reported came into the lineage of the head.          *)
ParentsOK ==
  /\ Older(record)
  /\ \A c \in Clients : pc[c] # "idle" /\ parent[c] # None =>
       parent[c] < id[c] /\ record[parent[c]] # None

Refused == {"changed", "busy", "stale"}

ToldOK ==
  /\ \A c \in Clients : pc[c] # "idle" => told[id[c]] = "nothing"
  /\ \A i \in Ids : /\ i > ops => told[i] = "nothing"
                    /\ told[i] \in Refused => record[i] = None
                    /\ told[i] = "done" => head # None /\ i \in Lineage[head]

AInv == IInv /\ ParentsOK /\ ToldOK

\* Records stay as they are.
LEMMA RecordsKept ==
  ASSUME TypeOK, IdsOK, Next
  PROVE  \A i \in Ids : record[i] # None => record'[i] = record[i]
<1>1. ASSUME NEW c \in Clients, CallSteps(c)
      PROVE  \A i \in Ids : record[i] # None => record'[i] = record[i]
  <2>1. Own(c)
    BY <1>1, OwnStep
  <2>2. CASE WriteRecord(c)
    BY <2>1, <2>2, RecordEffect DEF Own, IdsOK
  <2>3. CASE ~WriteRecord(c)
    BY <1>1, <2>3
    DEF CallSteps, Copy, Lock, CompareHead, Verify, RetainInput, AdvanceHead, Kill, disk
  <2> QED BY <2>2, <2>3
<1> QED BY <1>1 DEF Next, CallSteps, Revise, Edit, disk

\* What a step of a call tells, and when.
LEMMA ToldEffect ==
  ASSUME TypeOK, IdsOK, NEW c \in Clients, CallSteps(c)
  PROVE  \/ told' = told
         \/ /\ pc'[c] = "idle"
            /\ \E a \in Answers :
                 /\ told' = [told EXCEPT ![id[c]] = a]
                 /\ a \in Refused => record' = record /\ record[id[c]] = None
                 /\ a = "done" => pc[c] = "advance" /\ head' = id[c] /\ record' = record
<1> DEFINE Says(a) == told' = [told EXCEPT ![id[c]] = a] /\ pc'[c] = "idle"
<1>1. ASSUME NEW a \in Answers, Tell(c, a)
      PROVE  Says(a)
  BY <1>1, LeaveEffect DEF Tell
<1>2. ASSUME NEW n \in Names, Copy(c, n) \/ Verify(c, n)
      PROVE  told' = told \/ (Says("changed") /\ record' = record /\ record[id[c]] = None)
  <2>1. record' = record /\ record[id[c]] = None
    BY <1>2 DEF Copy, Verify, IdsOK, disk
  <2>2. Tell(c, "changed") \/ told' = told
    BY <1>2, DealEffect DEF Copy, Verify, Steps
  <2> QED BY <2>1, <2>2, <1>1 DEF Answers
<1>3. ASSUME Lock(c)
      PROVE  told' = told \/ (Says("busy") /\ record' = record /\ record[id[c]] = None)
  <2>1. record' = record /\ record[id[c]] = None
    BY <1>3 DEF Lock, IdsOK, disk
  <2>2. Tell(c, "busy") \/ told' = told
    BY <1>3 DEF Lock
  <2> QED BY <2>1, <2>2, <1>1 DEF Answers
<1>4. ASSUME CompareHead(c)
      PROVE  told' = told \/ (Says("stale") /\ record' = record /\ record[id[c]] = None)
  <2>1. record' = record /\ record[id[c]] = None
    BY <1>4 DEF CompareHead, IdsOK, disk
  <2>2. Tell(c, "stale") \/ told' = told
    BY <1>4 DEF CompareHead, GoTo
  <2> QED BY <2>1, <2>2, <1>1 DEF Answers
<1>5. ASSUME NEW n \in Names, RetainInput(c, n)
      PROVE  told' = told \/ Says("failed")
  <2>1. Tell(c, "failed") \/ told' = told
    BY <1>5, DealEffect DEF RetainInput, Steps
  <2> QED BY <2>1, <1>1 DEF Answers
<1>6. ASSUME WriteRecord(c)
      PROVE  told' = told \/ Says("failed")
  <2>1. Tell(c, "failed") \/ told' = told
    BY <1>6 DEF WriteRecord, GoTo
  <2> QED BY <2>1, <1>1 DEF Answers
<1>7. ASSUME AdvanceHead(c)
      PROVE  \/ Says("failed")
             \/ Says("done") /\ pc[c] = "advance" /\ head' = id[c] /\ record' = record
  BY <1>7, <1>1 DEF AdvanceHead, Answers
<1>8. ASSUME Kill(c)
      PROVE  told' = told
  BY <1>8 DEF Kill
<1> HIDE DEF Says
<1>9. \/ told' = told
      \/ \E a \in Answers :
           /\ Says(a)
           /\ a \in Refused => record' = record /\ record[id[c]] = None
           /\ a = "done" => pc[c] = "advance" /\ head' = id[c] /\ record' = record
  BY <1>2, <1>3, <1>4, <1>5, <1>6, <1>7, <1>8 DEF CallSteps, Answers, Refused
<1> QED BY <1>9 DEF Says

\* Parents stay older than what is made of them.
LEMMA ParentsStep ==
  ASSUME TypeOK, TypeOK', IdsOK, ParentsOK, Next
  PROVE  ParentsOK'
<1> USE NoneApart
<1>0. \A i \in Ids : record[i] # None => record'[i] = record[i]
  BY RecordsKept
<1> DEFINE Good(d) == pc[d] # "idle" /\ parent[d] # None =>
                        parent[d] < id[d] /\ record[parent[d]] # None
<1>1. ASSUME NEW c \in Clients, NEW p \in Ids \cup {None}, Revise(c, p)
      PROVE  ParentsOK'
  <2>1. /\ record' = record /\ ops \in Nat
        /\ pc'[c] = "copy" /\ id'[c] = ops + 1 /\ parent'[c] = p
        /\ \A d \in Clients : d # c =>
             pc'[d] = pc[d] /\ id'[d] = id[d] /\ parent'[d] = parent[d]
    BY <1>1 DEF TypeOK, Revise, GoTo, disk
  <2>2. p # None => p \in Nat /\ record[p] # None /\ ~(p > ops)
    BY <1>1 DEF Revise, IdsOK
  <2>3. p # None => p < ops + 1
    BY <2>1, <2>2
  <2>4. Good(c)'
    BY <2>1, <2>2, <2>3
  <2>5. ASSUME NEW d \in Clients, d # c
        PROVE  Good(d)'
    BY <2>1, <2>5 DEF ParentsOK
  <2>6. \A d \in Clients : Good(d)'
    BY <2>4, <2>5
  <2> QED BY <2>1, <2>6 DEF ParentsOK
<1>2. ASSUME NEW c \in Clients, CallSteps(c)
      PROVE  ParentsOK'
  <2>1. Own(c) /\ id[c] \in Ids
    BY <1>2, OwnStep DEF Own, IdsOK
  <2>2. ASSUME NEW d \in Clients
        PROVE  Good(d)'
    <3>1. Good(d)
      BY DEF ParentsOK
    <3>2. pc'[d] # "idle" => pc[d] # "idle" /\ id'[d] = id[d] /\ parent'[d] = parent[d]
      BY <2>1 DEF Own, OthersStay
    <3>3. parent[d] # None /\ record[parent[d]] # None => record'[parent[d]] # None
      BY <1>0 DEF TypeOK
    <3> QED BY <3>1, <3>2, <3>3
  <2>3. ASSUME NEW i \in Ids, record'[i] # None, record'[i].parent # None
        PROVE  record'[i].parent < i /\ record'[record'[i].parent] # None
    <3>1. CASE record'[i] = record[i]
      <4>1. record[i].parent \in Ids
        BY <2>3, <3>1 DEF TypeOK, Record
      <4>2. record[i].parent < i /\ record[record[i].parent] # None
        BY <2>3, <3>1 DEF ParentsOK, Older
      <4> QED BY <1>0, <3>1, <4>1, <4>2
    <3>2. CASE record'[i] # record[i]
      <4>1. i = id[c]
        BY <2>1, <3>2 DEF Own
      <4>2. WriteRecord(c)
        BY <1>2, <3>2
        DEF CallSteps, Copy, Lock, CompareHead, Verify, RetainInput, AdvanceHead, Kill, disk
      <4>3. pc[c] = "record" /\ record'[id[c]] = [parent |-> parent[c], files |-> snap[c]]
        <5>1. \/ record' = record
              \/ record'[id[c]] = [parent |-> parent[c], files |-> snap[c]]
          BY <4>2, RecordEffect
        <5> QED BY <3>2, <4>2, <5>1, RecordEffect
      <4>4. record'[i].parent = parent[c]
        BY <4>1, <4>3
      <4>5. parent[c] \in Ids /\ parent[c] < id[c] /\ record[parent[c]] # None
        BY <2>3, <4>3, <4>4 DEF ParentsOK, TypeOK
      <4> QED BY <1>0, <4>1, <4>4, <4>5
    <3> QED BY <3>1, <3>2
  <2>4. Older(record)'
    BY <2>3 DEF Older
  <2>5. \A d \in Clients : Good(d)'
    BY <2>2
  <2> QED BY <2>4, <2>5 DEF ParentsOK
<1>3. ASSUME NEW n \in Names, Edit(n)
      PROVE  ParentsOK'
  BY <1>3 DEF Edit, ParentsOK, Older, disk, call, fixed
<1> QED BY <1>1, <1>2, <1>3 DEF Next, CallSteps

\* The lineage of the head only grows.
LEMMA HeadLineage ==
  ASSUME IInv, TypeOK', ParentsOK, Next, head # None
  PROVE  head' # None /\ Lineage[head] \subseteq Lineage'[head']
<1> USE NoneApart
<1> DEFINE L == LineageOf(record)
           M == LineageOf(record')
<1>1. /\ record \in [Ids -> Record \cup {None}] /\ record' \in [Ids -> Record \cup {None}]
      /\ Older(record) /\ head \in Ids /\ record[head] # None
      /\ \A i \in Ids : record[i] # None => record'[i] = record[i]
  BY RecordsKept DEF IInv, TypeOK, ParentsOK, RevisionsAreSound
<1>2. M[head] = L[head]
  BY <1>1, LineageKept
<1>3. Lineage = L /\ Lineage' = M
  BY LineageIs DEF Lineage, LineageOf
<1>4. \A i \in Ids : M[i] = {i} \cup Before(record', M, i)
  BY <1>1, LineageStep
<1> HIDE DEF L, M
<1>5. CASE head' = head
  BY <1>1, <1>2, <1>3, <1>5
<1>6. CASE head' # head
  <2>1. PICK c \in Clients : CallSteps(c)
    BY <1>6 DEF Next, CallSteps, Revise, Edit, disk
  <2>2. pc[c] = "advance" /\ head' = id[c] /\ record' = record
    BY <1>6, <2>1, HeadEffect DEF IInv
  <2>3. head = parent[c] /\ id[c] \in Ids
    BY <2>2 DEF IInv, LockOK, IdsOK, Compared
  <2>4. record[id[c]] = [parent |-> parent[c], files |-> snap[c]]
    BY <2>2 DEF IInv, RetainedOK
  <2>5. [parent |-> parent[c], files |-> snap[c]] \in Record
    BY DEF IInv, TypeOK, Record
  <2>6. record'[head'] # None /\ record'[head'].parent = head
    BY <2>2, <2>3, <2>4, <2>5
  <2>7. Before(record', M, head') = M[head]
    BY <1>1, <2>6 DEF Before
  <2>8. head' \in Ids /\ M[head'] = {head'} \cup M[head]
    BY <1>4, <2>2, <2>3, <2>7
  <2>9. L[head] \subseteq M[head']
    BY <1>2, <2>8
  <2> QED BY <1>3, <2>8, <2>9
<1> QED BY <1>5, <1>6

\* What was told stays true.
LEMMA ToldStep ==
  ASSUME IInv, TypeOK', IdsOK', ParentsOK, ToldOK, Next
  PROVE  ToldOK'
<1> USE NoneApart
<1> DEFINE Good(i) == /\ i > ops => told[i] = "nothing"
                      /\ told[i] \in Refused => record[i] = None
                      /\ told[i] = "done" => head # None /\ i \in Lineage[head]
<1>1. ASSUME NEW i \in Ids, told[i] = "done"
      PROVE  head' # None /\ i \in Lineage'[head']
  BY <1>1, HeadLineage DEF ToldOK
<1>2. ASSUME NEW c \in Clients, NEW p \in Ids \cup {None}, Revise(c, p)
      PROVE  ToldOK'
  <2>1. /\ told' = told /\ record' = record /\ ops \in Nat /\ ops' = ops + 1
        /\ pc'[c] = "copy" /\ id'[c] = ops + 1 /\ ops + 1 \in Ids
        /\ \A d \in Clients : d # c => pc'[d] = pc[d] /\ id'[d] = id[d]
    BY <1>2 DEF IInv, TypeOK, Revise, GoTo, disk, Ids
  <2>2. told[ops + 1] = "nothing"
    BY <2>1 DEF ToldOK
  <2>3. \A d \in Clients : pc'[d] # "idle" => told'[id'[d]] = "nothing"
    BY <2>1, <2>2 DEF ToldOK
  <2>4. ASSUME NEW i \in Ids
        PROVE  Good(i)'
    <3>1. i > ops' => i > ops
      BY <2>1
    <3> QED BY <1>1, <2>1, <3>1 DEF ToldOK
  <2>5. \A i \in Ids : Good(i)'
    BY <2>4
  <2> QED BY <2>3, <2>5 DEF ToldOK
<1>3. ASSUME NEW c \in Clients, CallSteps(c)
      PROVE  ToldOK'
  <2>1. Own(c) /\ id[c] \in Ids /\ id[c] <= ops /\ ops' = ops /\ pc[c] # "idle"
    BY <1>3, OwnStep DEF IInv, Own, IdsOK
  <2>2. \A d \in Clients : pc'[d] # "idle" => pc[d] # "idle" /\ id'[d] = id[d]
    BY <2>1 DEF Own, OthersStay
  <2>3. ASSUME NEW i \in Ids, told'[i] = told[i]
        PROVE  Good(i)'
    <3>1. told[i] \in Refused => record'[i] = None
      <4>1. CASE told[i] \in Refused
        <5>1. i # id[c] /\ record[i] = None
          BY <2>1, <4>1 DEF ToldOK, Refused
        <5> QED BY <2>1, <5>1 DEF Own
      <4> QED BY <4>1
    <3> QED BY <1>1, <2>1, <2>3, <3>1 DEF ToldOK
  <2>4. CASE told' = told
    <3>1. \A i \in Ids : Good(i)'
      BY <2>3, <2>4
    <3> QED BY <2>2, <2>4, <3>1 DEF ToldOK
  <2>5. CASE told' # told
    <3>1. PICK a \in Answers :
            /\ pc'[c] = "idle" /\ told' = [told EXCEPT ![id[c]] = a]
            /\ a \in Refused => record' = record /\ record[id[c]] = None
            /\ a = "done" => pc[c] = "advance" /\ head' = id[c] /\ record' = record
      BY <1>3, <2>5, ToldEffect DEF IInv
    <3>2. told'[id[c]] = a /\ \A i \in Ids : i # id[c] => told'[i] = told[i]
      BY <2>1, <3>1 DEF IInv, TypeOK
    <3>3. ASSUME NEW i \in Ids, i = id[c]
          PROVE  Good(i)'
      <4>1. a = "done" => head' # None /\ i \in Lineage'[head']
        <5>1. Lineage' = LineageOf(record')
          BY DEF Lineage, LineageOf
        <5>2. \A j \in Ids : j \in LineageOf(record')[j]
          BY LineageStep DEF TypeOK
        <5> QED BY <3>1, <3>3, <5>1, <5>2
      <4>2. ~(i > ops')
        BY <2>1, <3>3 DEF IInv, TypeOK
      <4> QED BY <3>1, <3>2, <3>3, <4>1, <4>2
    <3>4. \A i \in Ids : Good(i)'
      BY <2>3, <3>2, <3>3
    <3>5. \A d \in Clients : pc'[d] # "idle" => told'[id'[d]] = "nothing"
      <4>1. ASSUME NEW d \in Clients, pc'[d] # "idle"
            PROVE  told'[id'[d]] = "nothing"
        <5>1. d # c /\ pc[d] # "idle" /\ id'[d] = id[d] /\ id[d] \in Ids /\ id[d] # id[c]
          BY <2>1, <2>2, <3>1, <4>1 DEF IInv, IdsOK
        <5> QED BY <3>2, <5>1 DEF ToldOK
      <4> QED BY <4>1
    <3> QED BY <3>4, <3>5 DEF ToldOK
  <2> QED BY <2>4, <2>5
<1>4. ASSUME NEW n \in Names, Edit(n)
      PROVE  ToldOK'
  BY <1>4 DEF Edit, ToldOK, Lineage, disk, call, fixed
<1> QED BY <1>2, <1>3, <1>4 DEF Next, CallSteps

\* A revision that was reported stays in the lineage of the head, and one that was
\* refused never gets there (revise: the answer and head.json).
THEOREM AnswersKept == Spec => []AnswersAreKept
<1>1. Init => AInv
  <2> SUFFICES ASSUME Init
               PROVE  ParentsOK /\ ToldOK
    BY InitInv DEF AInv
  <2> QED BY NoneApart DEF Init, ParentsOK, Older, ToldOK, Refused
<1>2. AInv /\ [Next]_vars => AInv'
  <2> SUFFICES ASSUME AInv, [Next]_vars
               PROVE  AInv'
    OBVIOUS
  <2>1. IInv'
    BY NextInv DEF AInv
  <2>2. CASE Next
    <3>1. ParentsOK'
      BY <2>1, <2>2, ParentsStep DEF AInv, IInv
    <3>2. ToldOK'
      BY <2>1, <2>2, ToldStep DEF AInv, IInv
    <3> QED BY <2>1, <3>1, <3>2 DEF AInv
  <2>3. CASE UNCHANGED vars
    BY <2>1, <2>3
    DEF AInv, ParentsOK, Older, ToldOK, Lineage, vars, disk, bounds, call, fixed
  <2> QED BY <2>2, <2>3
<1>3. AInv => AnswersAreKept
  <2> SUFFICES ASSUME AInv, NEW i \in Ids, told[i] \in Refused, head # None
               PROVE  i \notin Lineage[head]
    BY DEF AInv, ToldOK, AnswersAreKept, Refused
  <2>1. head \in Ids /\ record[head] # None /\ record[i] = None
    BY DEF AInv, IInv, TypeOK, RevisionsAreSound, ToldOK
  <2>2. \A j \in LineageOf(record)[head] : record[j] # None
    BY <2>1, LineageRetained DEF AInv, IInv, TypeOK, ParentsOK
  <2> QED BY <2>1, <2>2, LineageIs
<1> QED BY <1>1, <1>2, <1>3, PTL DEF Spec

=============================================================================
