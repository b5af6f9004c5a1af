-------------------------- MODULE PrintDeliveryProofs --------------------------
(***************************************************************************)
(* What holds of PrintDelivery for every number of clients, requests,       *)
(* slices, failures and restarts: types, that the evidence, the answers and   *)
(* the observations are true, and that no staged print runs without a start   *)
(* on record.                                                              *)
(*                                                                         *)
(* None of these is inductive.  IInv adds where a request stands: in a       *)
(* client's hands (OpOK), on the wire (WireOK), or done (LibraryOK, QueueOK, *)
(* RepliesOK), and what was stored of it by then (IntentsOK, ReceiptsOK).    *)
(* A request has a number of its own (IdsOK), so that whatever one request    *)
(* does leaves the others as they are; a restart takes the request out of the *)
(* client's hands and leaves the rest, which is why the rest is stated of the *)
(* numbers and not of the clients.                                          *)
(***************************************************************************)
EXTENDS PrintDelivery, FiniteSetTheorems, SequenceTheorems, TLAPS

Live(c)   == op[c].pc # "idle"
Done(a)   == reply[a] \notin {None, Refused}
Early     == {"retain", "printer", "reread", "intent"}
Unsent    == Early \cup {"send", "observe"}
Late      == {"send", "sent", "receipt", "link"}
Acts(pc)  == CASE pc = "retain" -> {"import"}
               [] pc \in {"printer", "reread"} -> {"start"}
               [] pc = "observe" -> {"status"}
               [] pc \in {"intent", "receipt", "link"} -> {"import", "stage", "start"}
               [] pc \in {"send", "sent"} -> {"import", "stage", "start", "update", "cancel"}
               [] OTHER -> {"none"}

\* Every request has its own number, and the numbers to come are unused.
IdsOK ==
  /\ ops <= MaxOps
  /\ \A c \in Clients : Live(c) => op[c].a \in 1..ops /\ told[op[c].a] = "nothing"
  /\ \A c, d \in Clients : Live(c) /\ Live(d) /\ c # d => op[c].a # op[d].a
  /\ \A a \in Attempts : a > ops => /\ intents[a] = None /\ reply[a] = None
                                    /\ receipts[a] = None /\ told[a] = "nothing"

\* Bambuddy does what it answers with an id, once.
TakenOK == \A a \in Attempts : taken[a] = IF Done(a) THEN 1 ELSE 0

\* A request on the wire, and what is known of it here.
WireOK ==
  /\ \A m, n \in wire : m.a = n.a => m = n
  /\ \A m \in wire :
       /\ m.a \in 1..ops /\ reply[m.a] = None /\ m.manual /\ told[m.a] # "not_done"
       /\ intents[m.a] # None => intents[m.a].act = m.act
       /\ m.act = "import" => /\ intents[m.a] # None /\ intents[m.a].bytes = m.bytes
                              /\ retained[m.a] = m.bytes
                              /\ intents[m.a].evidence \in {None, m.bytes}
       /\ m.act = "stage" => /\ m.file \in DOMAIN library
                             /\ intents[m.a] # None => intents[m.a].file = m.file
       /\ m.act = "start" => /\ m.print \in DOMAIN queue
                             /\ intents[m.a] # None => intents[m.a].print = m.print
                             /\ intents[m.a] = None => intents[queue[m.print].by] = None
       /\ m.act = "update" => m.print \in DOMAIN queue
       /\ m.act = "cancel" => m.print \in DOMAIN queue

\* A request in a client's hands: before it is sent, nobody else knows it;
\* when it is tracked, its intent is there.
OpOK(c) ==
  LET o == op[c] IN
  /\ o.act \in Acts(o.pc)
  /\ o.pc \in Unsent => reply[o.a] = None /\ \A m \in wire : m.a # o.a
  /\ o.pc \in Early \cup {"observe"} => intents[o.a] = None /\ o.tracked = None
  /\ o.pc \in Late => IF o.tracked = None THEN intents[o.a] = None
                      ELSE intents[o.a] = IntentOf(c) /\ o.act \in {"import", "stage", "start"}
  /\ o.act = "import" => /\ o.pc # "retain" => retained[o.a] = o.bytes /\ VerifyImport(c)
                         /\ o.pc \in Late => o.tracked # None
  /\ o.act = "stage" => o.file \in DOMAIN library
  /\ o.act \in {"start", "status", "update", "cancel"} => o.print \in DOMAIN queue
  /\ o.act \in {"start", "status"} =>
       o.job \in Job /\ o.job.file = o.file /\ queue[o.print].file = o.file
  /\ o.act = "start" /\ o.pc \in Late /\ o.tracked = None => intents[queue[o.print].by] = None
  /\ o.act = "status" /\ o.job.status \in {"printing", "completed"} =>
       queue[o.print].status \in {o.job.status, "completed"}
  /\ o.pc \in {"receipt", "link"} => Done(o.a) /\ o.tracked # None
  /\ o.pc = "link" => receipts[o.a] = reply[o.a]

\* The library and the queue: whose request an entry is, and what it left here.
LibraryOK ==
  /\ Len(library) >= 2 /\ library[1].by = None
  /\ \A f \in DOMAIN library : f # 1 =>
       /\ library[f].by \in 0..ops /\ reply[library[f].by] = f
       /\ f > 2 => library[f].by # 0

QueueOK ==
  \A p \in DOMAIN queue : LET a == queue[p].by IN
    /\ a \in 1..ops /\ reply[a] = p
    /\ intents[a] # None => intents[a].act = "stage" /\ intents[a].file = queue[p].file
    /\ queue[p].status \in {"printing", "completed"} => ~queue[p].manual
    /\ ~queue[p].manual /\ intents[a] # None =>
         \E b \in Attempts : /\ intents[b] # None /\ intents[b].act = "start"
                             /\ intents[b].print = p

\* What an answer says of a request with an intent.
RepliesOK ==
  \A a \in Attempts : Done(a) /\ intents[a] # None =>
    /\ intents[a].act = "import" => reply[a] \in DOMAIN library /\ library[reply[a]].by = a
    /\ intents[a].act = "stage"  => reply[a] \in DOMAIN queue /\ queue[reply[a]].by = a
    /\ intents[a].act = "start"  => reply[a] = intents[a].print

\* The evidence: a tracked staging has an association, a start names its print,
\* a receipt is the answer, a link is of a tracked staging or start.
IntentsOK ==
  \A a \in Attempts : intents[a] # None =>
    /\ intents[a].act = "stage" => assoc[intents[a].file] # None
    /\ intents[a].act = "start" =>
         intents[a].print \in DOMAIN queue /\ intents[a].job.file = queue[intents[a].print].file

ReceiptsOK ==
  \A a \in Attempts : receipts[a] # None => receipts[a] = reply[a] /\ Done(a) /\ intents[a] # None

LinksOK ==
  \A l \in links : receipts[l[2]] = l[1] /\ intents[l[2]].act \in {"stage", "start"}

\* What was observed is in the queue.
ObservedOK ==
  \A o \in observations :
    /\ o.print \in DOMAIN queue
    /\ o.execution \in {"printing", "completed"} =>
         queue[o.print].status \in {o.execution, "completed"}
    /\ \A a \in o.submissions : Done(a)

AnsweredOK ==
  \A a \in Attempts :
    /\ told[a] = "not_done" => ~Done(a)
    /\ told[a] \in {"unsaved", "done"} /\ intents[a] # None => Done(a)
    /\ told[a] = "done" /\ intents[a] # None => receipts[a] # None

Evidence == IntentsOK /\ ReceiptsOK /\ LinksOK /\ ImportsAreRetained
Printer  == TakenOK /\ WireOK /\ LibraryOK /\ QueueOK /\ RepliesOK

IInv == /\ TypeOK /\ IdsOK /\ Printer /\ Evidence /\ ObservedOK /\ AnsweredOK
        /\ \A c \in Clients : OpOK(c)

-----------------------------------------------------------------------------
(* What the steps rest on.                                                 *)

\* None is told apart from whatever it stands in the place of.
LEMMA NoneApart ==
  /\ None \notin Int /\ None # Refused /\ None \notin Intent /\ None \notin Job
  /\ MaxOps \in Nat /\ MaxSlices \in Nat /\ MaxFaults \in Nat /\ MaxRestarts \in Nat
  /\ \A a \in Attempts : a # None /\ a \in Nat
  /\ \A f \in Files : f # None /\ f # Refused /\ f \in Nat
  /\ \A p \in Prints : p # None /\ p # Refused /\ p \in Nat
BY PrintAssumption, NoneAssumption DEF Attempts, Files, Prints, Refused

\* The two are about the same thing.
Like(o, n) ==
  /\ n.act = o.act /\ n.bytes = o.bytes /\ n.evidence = o.evidence /\ n.file = o.file
  /\ n.print = o.print /\ n.setup = o.setup /\ n.job = o.job

\* What a request consists of, with another number or at another place.
LEMMA Requests ==
  /\ NoOp \in Op /\ NoOp.pc = "idle" /\ NoOp.act = "none"
  /\ \A o \in Op, a \in Attempts : LET n == [o EXCEPT !.a = a] IN
       n \in Op /\ n.a = a /\ n.pc = o.pc /\ n.tracked = o.tracked /\ Like(o, n)
<1>1. NoOp \in Op
  BY PrintAssumption DEF NoOp, Op, Attempts, Slices, Setups
<1>2. NoOp.pc = "idle" /\ NoOp.act = "none"
  BY DEF NoOp
<1> QED BY <1>1, <1>2 DEF Op, Like

\* A request that has gone leaves nothing to know.
LEMMA GoneOK ==
  ASSUME NEW c \in Clients, op'[c] = NoOp
  PROVE  OpOK(c)'
BY Requests DEF OpOK, Acts, Early, Unsent, Late

\* The end of a request takes it out of its client's hands and no other one.
LEMMA TellEffect ==
  ASSUME TypeOK, IdsOK, NEW c \in Clients, Live(c), NEW word \in Words, Tell(c, word)
  PROVE  /\ op' \in [Clients -> Op] /\ told' \in [Attempts -> Words]
         /\ op'[c] = NoOp /\ ~Live(c)' /\ OpOK(c)'
         /\ \A d \in Clients : d # c => op'[d] = op[d]
         /\ told'[op[c].a] = word
         /\ \A a \in Attempts : a # op[c].a => told'[a] = told[a]
<1>1. op'[c] = NoOp
  BY DEF TypeOK, Tell
<1>2. op[c].a \in Attempts
  BY DEF TypeOK, Op
<1> QED BY <1>1, <1>2, Requests, GoneOK DEF TypeOK, Tell, Live

\* Going on changes where the request stands.
LEMMA GoToEffect ==
  ASSUME TypeOK, NEW c \in Clients, NEW pc, pc \in {"reread", "intent", "send", "sent", "receipt", "link"},
         GoTo(c, pc)
  PROVE  /\ op' \in [Clients -> Op]
         /\ op'[c].pc = pc /\ op'[c].a = op[c].a /\ op'[c].tracked = op[c].tracked
         /\ Like(op[c], op'[c])
         /\ \A d \in Clients : d # c => op'[d] = op[d]
<1>1. op[c] \in Op /\ op'[c] = [op[c] EXCEPT !.pc = pc]
  BY DEF TypeOK, GoTo
<1>2. [op[c] EXCEPT !.pc = pc] \in Op
  BY <1>1 DEF Op
<1> QED BY <1>1, <1>2 DEF TypeOK, GoTo, Op, Like

\* A new request has the next number, of which nothing is known.
LEMMA NewOpEffect ==
  ASSUME TypeOK, IdsOK, WireOK, NEW c \in Clients, NEW new \in Op, new.pc # "idle", NewOp(c, new)
  PROVE  /\ op' \in [Clients -> Op] /\ ops' = ops + 1 /\ ops + 1 \in Attempts /\ ops + 1 > 0
         /\ op'[c].a = ops + 1 /\ Live(c)'
         /\ op'[c].pc = new.pc /\ op'[c].tracked = new.tracked /\ Like(new, op'[c])
         /\ \A d \in Clients : d # c => op'[d] = op[d]
         /\ intents[ops + 1] = None /\ reply[ops + 1] = None /\ told[ops + 1] = "nothing"
         /\ \A m \in wire : m.a # ops + 1
         /\ UNCHANGED <<source, disk, told, backend>>
<1>1. ops \in Nat /\ ops + 1 \in Attempts /\ ops + 1 > 0 /\ ops + 1 > ops
  BY NoneApart DEF TypeOK, NewOp, Attempts
<1>2. op'[c] = [new EXCEPT !.a = ops + 1]
  BY DEF TypeOK, NewOp
<1>3. op'[c] \in Op /\ op'[c].a = ops + 1
  BY <1>1, <1>2, Requests
<1>4. op'[c].pc = new.pc /\ op'[c].tracked = new.tracked /\ Like(new, op'[c])
  BY <1>1, <1>2, Requests
<1>5. op' \in [Clients -> Op] /\ \A d \in Clients : d # c => op'[d] = op[d]
  BY <1>2, <1>3 DEF TypeOK, NewOp
<1>6. \A m \in wire : m.a # ops + 1
  BY <1>1 DEF WireOK
<1>7. Live(c)'
  BY <1>4 DEF Live
<1> QED BY <1>1, <1>3, <1>4, <1>5, <1>6, <1>7 DEF IdsOK, NewOp, disk, backend

\* What a step of somebody else leaves of the request in d's hands.
Leaves(d) ==
  /\ op'[d] = op[d]
  /\ Live(d) => LET a == op[d].a IN
       /\ intents'[a] = intents[a] /\ retained'[a] = retained[a] /\ receipts'[a] = receipts[a]
       /\ reply'[a] = reply[a] \/ At(d, "sent")
       /\ \A m \in wire' : m.a = a => m \in wire
  /\ DOMAIN library \subseteq DOMAIN library'
  /\ \A p \in DOMAIN queue :
       /\ p \in DOMAIN queue' /\ queue'[p].file = queue[p].file /\ queue'[p].by = queue[p].by
       /\ intents[queue[p].by] = None => intents'[queue[p].by] = None
       /\ queue[p].status \in {"printing", "completed"} =>
            queue'[p].status \in {queue[p].status, "completed"}

LEMMA OthersKeep ==
  ASSUME TypeOK, NEW d \in Clients, OpOK(d), Leaves(d)
  PROVE  OpOK(d)'
<1>1. CASE ~Live(d)
  <2>1. op'[d] = op[d] /\ op[d].pc = "idle" /\ op[d].act = "none"
    BY <1>1 DEF Leaves, OpOK, Live, Acts
  <2> QED BY <2>1 DEF OpOK, Acts, Early, Unsent, Late
<1>2. CASE Live(d)
  <2> DEFINE a == op[d].a
  <2>1. op'[d] = op[d] /\ op[d] \in Op
    BY DEF TypeOK, Leaves
  <2>2. /\ intents'[a] = intents[a] /\ retained'[a] = retained[a] /\ receipts'[a] = receipts[a]
        /\ reply'[a] = reply[a] \/ op[d].pc = "sent"
        /\ \A m \in wire' : m.a = a => m \in wire
    BY <1>2 DEF Leaves, At
  <2>3. IntentOf(d)' = IntentOf(d) /\ VerifyImport(d)' = VerifyImport(d)
    BY <2>1 DEF IntentOf, Is, VerifyImport
  <2>4. op[d].act = "status" /\ op[d].job.status \in {"printing", "completed"} =>
          queue'[op[d].print].status \in {op[d].job.status, "completed"}
    BY DEF OpOK, Leaves
  <2>5. /\ op[d].act = "stage" => op[d].file \in DOMAIN library'
        /\ op[d].act \in {"start", "status", "update", "cancel"} => op[d].print \in DOMAIN queue'
        /\ op[d].act \in {"start", "status"} =>
             op[d].job \in Job /\ op[d].job.file = op[d].file /\ queue'[op[d].print].file = op[d].file
        /\ op[d].act = "start" /\ op[d].pc \in Late /\ op[d].tracked = None =>
             intents'[queue'[op[d].print].by] = None
    BY DEF OpOK, Leaves
  <2>6. /\ op[d].pc \in Unsent => reply'[a] = None /\ \A m \in wire' : m.a # a
        /\ op[d].pc \in {"receipt", "link"} => reply'[a] \notin {None, Refused} /\ op[d].tracked # None
        /\ op[d].pc = "link" => receipts'[a] = reply'[a]
    BY <2>2 DEF OpOK, Unsent, Early, Done
  <2>7. /\ op[d].act \in Acts(op[d].pc)
        /\ op[d].pc \in Early \cup {"observe"} => intents'[a] = None /\ op[d].tracked = None
        /\ op[d].pc \in Late => IF op[d].tracked = None THEN intents'[a] = None
             ELSE intents'[a] = IntentOf(d) /\ op[d].act \in {"import", "stage", "start"}
        /\ op[d].act = "import" => /\ op[d].pc # "retain" => retained'[a] = op[d].bytes /\ VerifyImport(d)
                                   /\ op[d].pc \in Late => op[d].tracked # None
    BY <2>2 DEF OpOK
  <2> QED BY <2>1, <2>3, <2>4, <2>5, <2>6, <2>7 DEF OpOK, Done
<1> QED BY <1>1, <1>2

\* Nothing changed but what clients have in hand.
LEMMA QuietKeeps ==
  ASSUME TypeOK, IdsOK, Printer, Evidence, ObservedOK, UNCHANGED <<disk, backend>>,
         ops' \in {ops, ops + 1}
  PROVE  /\ TakenOK' /\ LibraryOK' /\ QueueOK' /\ RepliesOK' /\ Evidence' /\ ObservedOK'
<1> USE DEF disk, backend
<1>1. TakenOK' /\ RepliesOK' /\ ObservedOK'
  BY DEF Printer, TakenOK, RepliesOK, ObservedOK, Done
<1>2. ops \in Nat /\ ops' \in Nat /\ ops <= ops'
  BY DEF TypeOK
<1>3. LibraryOK'
  BY <1>2 DEF Printer, LibraryOK
<1>4. QueueOK'
  BY <1>2 DEF Printer, QueueOK
<1>5. Evidence'
  BY DEF Evidence, IntentsOK, ReceiptsOK, LinksOK, ImportsAreRetained, Done
<1> QED BY <1>1, <1>3, <1>4, <1>5

\* A new request: everything but OpOK of it holds as before.
LEMMA NewOpKeeps ==
  ASSUME IInv, NEW c \in Clients, NEW new \in Op, new.pc # "idle", NewOp(c, new),
         OpOK(c)'
  PROVE  IInv'
<1> USE NoneApart
<1>1. TypeOK /\ IdsOK /\ Printer /\ WireOK /\ Evidence /\ ObservedOK /\ AnsweredOK
  BY DEF IInv, Printer
<1>2. /\ op' \in [Clients -> Op] /\ ops' = ops + 1 /\ ops + 1 \in Attempts /\ ops + 1 > 0
      /\ op'[c].a = ops + 1 /\ Live(c)'
      /\ \A d \in Clients : d # c => op'[d] = op[d]
      /\ told[ops + 1] = "nothing"
      /\ UNCHANGED <<source, disk, told, backend>>
  BY <1>1, NewOpEffect
<1>3. ops \in Nat /\ ops + 1 \in Nat /\ ~Live(c) /\ UNCHANGED <<faults, restarts>>
  BY <1>1 DEF TypeOK, NewOp, At, Live
<1>4. TypeOK'
  BY <1>1, <1>2, <1>3 DEF TypeOK, disk, backend
<1>5. IdsOK'
  <2>1. \A d \in Clients : Live(d)' => op'[d].a \in 1..ops' /\ told'[op'[d].a] = "nothing"
    BY <1>1, <1>2, <1>3 DEF IdsOK, Live
  <2>2. \A d, e \in Clients : Live(d)' /\ Live(e)' /\ d # e => op'[d].a # op'[e].a
    BY <1>1, <1>2, <1>3 DEF IdsOK, Live
  <2>3. ops' <= MaxOps
    BY <1>2 DEF Attempts
  <2> QED BY <1>1, <1>2, <1>3, <2>1, <2>2, <2>3 DEF IdsOK, disk, backend, Attempts
<1>6. WireOK'
  BY <1>1, <1>2, <1>3 DEF WireOK, disk, backend
<1>7. TakenOK' /\ LibraryOK' /\ QueueOK' /\ RepliesOK' /\ Evidence' /\ ObservedOK'
  BY <1>1, <1>2, QuietKeeps
<1>8. AnsweredOK'
  BY <1>1, <1>2 DEF AnsweredOK, disk, backend, Done
<1>9. ASSUME NEW d \in Clients PROVE OpOK(d)'
  <2>1. CASE d # c
    <3>1. Leaves(d)
      BY <1>2, <2>1 DEF Leaves, disk, backend
    <3> QED BY <3>1, <1>1, OthersKeep DEF IInv
  <2> QED BY <2>1
<1> QED BY <1>4, <1>5, <1>6, <1>7, <1>8, <1>9 DEF IInv, Printer

-----------------------------------------------------------------------------
(* Calls.                                                                  *)

\* Each kind of call begins as OpOK says.
LEMMA CallStep ==
  ASSUME IInv, NEW c \in Clients, Call(c)
  PROVE  IInv'
<1> USE NoneApart
<1>1. TypeOK /\ IdsOK /\ WireOK /\ LibraryOK /\ QueueOK
  BY DEF IInv, Printer
<1>2. ASSUME NEW e \in 0..source \cup {None}, Import(c, e)
      PROVE  IInv'
  <2> DEFINE new == [NoOp EXCEPT !.pc = "retain", !.act = "import", !.bytes = source,
                                 !.evidence = e]
  <2>0. e \in Slices \cup {None} /\ source \in Slices
    BY <1>1 DEF TypeOK, Slices
  <2>1. new \in Op /\ new.pc = "retain" /\ new.act = "import" /\ new.tracked = None
    BY <2>0, Requests DEF Op, NoOp
  <2>2. NewOp(c, new)
    BY <1>2 DEF Import
  <2> HIDE DEF new
  <2>3. OpOK(c)'
    BY <1>1, <2>1, <2>2, NewOpEffect DEF OpOK, Acts, Early, Unsent, Late, Like, backend, disk
  <2> QED BY <2>1, <2>2, <2>3, NewOpKeeps
<1>3. ASSUME NEW f \in Files, Stage(c, f)
      PROVE  IInv'
  <2> DEFINE new == [NoOp EXCEPT !.pc = "intent", !.act = "stage", !.file = f]
  <2>1. new \in Op /\ new.pc = "intent" /\ new.act = "stage" /\ new.file = f /\ new.tracked = None
    BY <1>1, <1>3, Requests DEF Op, NoOp
  <2>2. NewOp(c, new) /\ f \in DOMAIN library
    BY <1>3 DEF Stage
  <2> HIDE DEF new
  <2>3. OpOK(c)'
    BY <1>1, <2>1, <2>2, NewOpEffect DEF OpOK, Acts, Early, Unsent, Late, Like, backend, disk
  <2> QED BY <2>1, <2>2, <2>3, NewOpKeeps
<1>4. ASSUME NEW p \in Prints, p \in DOMAIN queue
      PROVE  queue[p] \in Job
  BY <1>1, <1>4, ElementOfSeq DEF TypeOK
<1>5. ASSUME NEW p \in Prints, Start(c, p)
      PROVE  IInv'
  <2> DEFINE new == [NoOp EXCEPT !.pc = "printer", !.act = "start", !.print = p,
                                 !.job = queue[p], !.file = queue[p].file]
  <2>0. p \in DOMAIN queue /\ queue[p] \in Job /\ NewOp(c, new)
    BY <1>4, <1>5 DEF Start
  <2>1. /\ new \in Op /\ new.pc = "printer" /\ new.act = "start" /\ new.print = p
        /\ new.job = queue[p] /\ new.file = queue[p].file /\ new.tracked = None
    BY <2>0, Requests DEF Op, Job, NoOp
  <2> HIDE DEF new
  <2>3. OpOK(c)'
    BY <1>1, <2>0, <2>1, NewOpEffect DEF OpOK, Acts, Early, Unsent, Late, Like, backend, disk
  <2> QED BY <2>0, <2>1, <2>3, NewOpKeeps
<1>6. ASSUME NEW p \in Prints, Status(c, p)
      PROVE  IInv'
  <2> DEFINE new == [NoOp EXCEPT !.pc = "observe", !.act = "status", !.print = p,
                                 !.job = queue[p], !.file = queue[p].file]
  <2>0. p \in DOMAIN queue /\ queue[p] \in Job /\ NewOp(c, new)
    BY <1>4, <1>6 DEF Status
  <2>1. /\ new \in Op /\ new.pc = "observe" /\ new.act = "status" /\ new.print = p
        /\ new.job = queue[p] /\ new.file = queue[p].file /\ new.tracked = None
    BY <2>0, Requests DEF Op, Job, NoOp
  <2> HIDE DEF new
  <2>3. OpOK(c)'
    BY <1>1, <2>0, <2>1, NewOpEffect DEF OpOK, Acts, Early, Unsent, Late, Like, backend, disk
  <2> QED BY <2>0, <2>1, <2>3, NewOpKeeps
<1>7. ASSUME NEW new \in Op, new.pc = "send", new.act \in {"update", "cancel"},
             new.print \in DOMAIN queue, new.tracked = None, NewOp(c, new)
      PROVE  IInv'
  <2>1. /\ op'[c].pc = "send" /\ op'[c].act \in {"update", "cancel"} /\ op'[c].tracked = None
        /\ op'[c].print \in DOMAIN queue' /\ reply'[op'[c].a] = None /\ intents'[op'[c].a] = None
        /\ \A m \in wire' : m.a # op'[c].a
    BY <1>1, <1>7, NewOpEffect DEF Like, backend, disk
  <2>2. OpOK(c)'
    BY <2>1 DEF OpOK, Acts, Early, Unsent, Late
  <2> QED BY <1>7, <2>2, NewOpKeeps
<1>8. ASSUME NEW p \in Prints, Update(c, p, 1)
      PROVE  IInv'
  <2> DEFINE new == [NoOp EXCEPT !.pc = "send", !.act = "update", !.print = p, !.setup = 1]
  <2>1. /\ new \in Op /\ new.pc = "send" /\ new.act = "update" /\ new.print = p
        /\ new.tracked = None
    BY Requests DEF Op, NoOp, Setups
  <2>2. NewOp(c, new) /\ p \in DOMAIN queue
    BY <1>8 DEF Update
  <2> HIDE DEF new
  <2> QED BY <1>7, <2>1, <2>2
<1>9. ASSUME NEW p \in Prints, Cancel(c, p)
      PROVE  IInv'
  <2> DEFINE new == [NoOp EXCEPT !.pc = "send", !.act = "cancel", !.print = p]
  <2>1. /\ new \in Op /\ new.pc = "send" /\ new.act = "cancel" /\ new.print = p
        /\ new.tracked = None
    BY Requests DEF Op, NoOp
  <2>2. NewOp(c, new) /\ p \in DOMAIN queue
    BY <1>9 DEF Cancel
  <2> HIDE DEF new
  <2> QED BY <1>7, <2>1, <2>2
<1> QED BY <1>2, <1>3, <1>5, <1>6, <1>8, <1>9 DEF Call

-----------------------------------------------------------------------------
(* Steps that store nothing.                                                *)

\* The other clients' requests stay as they were when what is stored is of c's.
LEMMA StoredForOne ==
  ASSUME IInv, NEW c \in Clients, Live(c), UNCHANGED backend,
         \A d \in Clients : d # c => op'[d] = op[d],
         \A x \in Attempts : x # op[c].a =>
           intents'[x] = intents[x] /\ retained'[x] = retained[x] /\ receipts'[x] = receipts[x],
         \A p \in DOMAIN queue : intents'[queue[p].by] = intents[queue[p].by]
  PROVE  \A d \in Clients : d # c => OpOK(d)'
<1> TAKE d \in Clients
<1> HAVE d # c
<1>1. Live(d) => op[d].a # op[c].a /\ op[d].a \in Attempts
  BY DEF IInv, IdsOK, TypeOK, Op
<1>2. Leaves(d)
  BY <1>1 DEF Leaves, backend
<1> QED BY <1>2, OthersKeep DEF IInv

\* The numbers stay the requests' own.
LEMMA SameIds ==
  ASSUME TypeOK, IdsOK, NEW c \in Clients, Live(c), ops' = ops,
         \A d \in Clients : d # c => op'[d] = op[d],
         Live(c)' => op'[c].a = op[c].a /\ told'[op[c].a] = told[op[c].a],
         \A x \in Attempts : x # op[c].a =>
           /\ intents'[x] = intents[x] /\ reply'[x] = reply[x]
           /\ receipts'[x] = receipts[x] /\ told'[x] = told[x]
  PROVE  IdsOK'
<1>1. ops \in Nat /\ op[c].a \in 1..ops
  BY DEF TypeOK, IdsOK
<1>2. \A d \in Clients : Live(d)' => Live(d) /\ op'[d].a = op[d].a
  BY DEF Live
<1>3. \A d \in Clients : Live(d)' => op'[d].a \in 1..ops' /\ told'[op'[d].a] = "nothing"
  <2> TAKE d \in Clients
  <2> HAVE Live(d)'
  <2>1. op'[d].a = op[d].a /\ op[d].a \in 1..ops /\ told[op[d].a] = "nothing" /\ op[d].a \in Attempts
    BY <1>2 DEF IdsOK, TypeOK, Op
  <2>2. d # c => op[d].a # op[c].a
    BY <1>2 DEF IdsOK
  <2> QED BY <2>1, <2>2
<1>4. \A d, e \in Clients : Live(d)' /\ Live(e)' /\ d # e => op'[d].a # op'[e].a
  BY <1>2 DEF IdsOK
<1>5. \A x \in Attempts : x > ops' => /\ intents'[x] = None /\ reply'[x] = None
                                      /\ receipts'[x] = None /\ told'[x] = "nothing"
  BY <1>1 DEF IdsOK, Attempts
<1> QED BY <1>3, <1>4, <1>5 DEF IdsOK

\* A request goes on, and nothing else changes.
LEMMA MoveKeeps ==
  ASSUME IInv, NEW c \in Clients, Live(c),
         NEW pc, pc \in {"reread", "intent", "send", "sent", "receipt", "link"}, GoTo(c, pc),
         UNCHANGED <<source, disk, told, backend, bounds>>, OpOK(c)'
  PROVE  IInv'
<1>1. TypeOK /\ IdsOK /\ Printer /\ WireOK /\ Evidence /\ ObservedOK /\ AnsweredOK
  BY DEF IInv, Printer
<1>2. /\ op' \in [Clients -> Op] /\ op'[c].a = op[c].a
      /\ \A d \in Clients : d # c => op'[d] = op[d]
  BY <1>1, GoToEffect
<1>3. TypeOK'
  BY <1>1, <1>2 DEF TypeOK, disk, backend, bounds
<1>4. IdsOK'
  BY <1>1, <1>2, SameIds DEF disk, backend, bounds
<1>5. WireOK'
  BY <1>1 DEF WireOK, disk, backend, bounds
<1>6. TakenOK' /\ LibraryOK' /\ QueueOK' /\ RepliesOK' /\ Evidence' /\ ObservedOK'
  BY <1>1, QuietKeeps DEF bounds
<1>7. AnsweredOK'
  BY <1>1 DEF AnsweredOK, disk, backend, Done
<1>8. \A d \in Clients : d # c => OpOK(d)'
  BY <1>2, StoredForOne DEF disk, backend
<1> QED BY <1>3, <1>4, <1>5, <1>6, <1>7, <1>8 DEF IInv, Printer

\* What may be answered, given what was stored and taken.
Tellable(a, word) ==
  /\ word = "not_done" => ~Done(a) /\ \A m \in wire : m.a # a
  /\ word \in {"unsaved", "done"} /\ intents[a] # None => Done(a)
  /\ word = "done" /\ intents[a] # None => receipts[a] # None

\* A request ends, and nothing else changes.
LEMMA TellKeeps ==
  ASSUME IInv, NEW c \in Clients, Live(c), NEW word \in Words, Tell(c, word),
         Tellable(op[c].a, word), UNCHANGED <<source, disk, backend, bounds>>
  PROVE  IInv'
<1>1. TypeOK /\ IdsOK /\ Printer /\ WireOK /\ Evidence /\ ObservedOK /\ AnsweredOK
  BY DEF IInv, Printer
<1>2. /\ op' \in [Clients -> Op] /\ told' \in [Attempts -> Words]
      /\ ~Live(c)' /\ OpOK(c)'
      /\ \A d \in Clients : d # c => op'[d] = op[d]
      /\ told'[op[c].a] = word
      /\ \A a \in Attempts : a # op[c].a => told'[a] = told[a]
  BY <1>1, TellEffect
<1>3. TypeOK'
  BY <1>1, <1>2 DEF TypeOK, disk, backend, bounds
<1>4. IdsOK'
  BY <1>1, <1>2, SameIds DEF disk, backend, bounds
<1>5. WireOK'
  <2>1. \A m \in wire : m.a \in Attempts
    BY <1>1 DEF TypeOK, Request
  <2>2. \A m \in wire : told'[m.a] # "not_done"
    BY <1>1, <1>2, <2>1 DEF WireOK, Tellable
  <2> QED BY <1>1, <2>2 DEF WireOK, disk, backend, bounds
<1>6. TakenOK' /\ LibraryOK' /\ QueueOK' /\ RepliesOK' /\ Evidence' /\ ObservedOK'
  BY <1>1, QuietKeeps DEF bounds
<1>7. AnsweredOK'
  BY <1>1, <1>2 DEF AnsweredOK, disk, backend, Done, Tellable
<1>8. \A d \in Clients : d # c => OpOK(d)'
  BY <1>2, StoredForOne DEF disk, backend
<1> QED BY <1>2, <1>3, <1>4, <1>5, <1>6, <1>7, <1>8 DEF IInv, Printer

\* What the printer and the queue are asked before a start.
LEMMA CheckSteps ==
  ASSUME IInv, NEW c \in Clients, PrinterStatus(c) \/ Reread(c)
  PROVE  IInv'
<1>1. Live(c) /\ op[c].pc \in {"printer", "reread"} /\ op[c].act = "start"
  BY DEF PrinterStatus, Reread, At, Live, IInv, OpOK, Acts
<1>2. Tellable(op[c].a, "not_done")
  BY <1>1 DEF Tellable, IInv, OpOK, Unsent, Early, Done
<1>3. ASSUME NEW pc \in {"reread", "intent"}, GoTo(c, pc), UNCHANGED <<source, disk, told, backend, bounds>>
      PROVE  IInv'
  <2>1. op'[c].pc = pc /\ op'[c].a = op[c].a /\ op'[c].tracked = op[c].tracked /\ Like(op[c], op'[c])
    BY <1>3, GoToEffect DEF IInv
  <2>2. OpOK(c)'
    BY <1>1, <1>3, <2>1 DEF IInv, OpOK, Like, Acts, Unsent, Early, Late, disk, backend
  <2> QED BY <1>1, <1>3, <2>2, MoveKeeps
<1>4. CASE Tell(c, "not_done") /\ UNCHANGED <<source, disk, backend, bounds>>
  BY <1>1, <1>2, <1>4, TellKeeps DEF Words
<1> QED BY <1>3, <1>4 DEF PrinterStatus, Reread

\* The answer, or none.
LEMMA AnswerSteps ==
  ASSUME IInv, NEW c \in Clients, Answer(c) \/ GiveUp(c)
  PROVE  IInv'
<1> DEFINE a == op[c].a
<1>1. Live(c) /\ op[c].pc = "sent" /\ OpOK(c) /\ WireOK /\ TypeOK
  BY DEF Answer, GiveUp, At, Live, IInv, Printer
<1>2. CASE GiveUp(c)
  BY <1>1, <1>2, TellKeeps DEF GiveUp, Tellable, Words
<1>3. CASE Answer(c) /\ reply[a] = Refused /\ Tell(c, "not_done")
  <2>1. Tellable(a, "not_done")
    BY <1>1, <1>3, NoneApart DEF Tellable, WireOK, Done
  <2> QED BY <1>1, <1>3, <2>1, TellKeeps DEF Answer, Words
<1>4. CASE Answer(c) /\ op[c].tracked = None /\ Tell(c, "done")
  <2>1. intents[a] = None
    BY <1>1, <1>4 DEF OpOK, Late
  <2> QED BY <1>1, <1>4, <2>1, TellKeeps DEF Answer, Words, Tellable
<1>5. CASE Answer(c) /\ reply[a] # Refused /\ op[c].tracked # None /\ GoTo(c, "receipt") /\ UNCHANGED told
  <2>1. /\ op'[c].pc = "receipt" /\ op'[c].a = a /\ op'[c].tracked = op[c].tracked
        /\ Like(op[c], op'[c]) /\ UNCHANGED <<source, disk, told, backend, bounds>>
    BY <1>1, <1>5, GoToEffect DEF Answer
  <2>2. IntentOf(c)' = IntentOf(c) /\ VerifyImport(c)' = VerifyImport(c)
    BY <2>1 DEF Like, IntentOf, Is, VerifyImport
  <2>3. Done(a) /\ op[c].act \in {"import", "stage", "start"}
    BY <1>1, <1>5 DEF Done, Answer, OpOK, Late
  <2>4. OpOK(c)'
    BY <1>1, <1>5, <2>1, <2>2, <2>3 DEF OpOK, Like, Acts, Unsent, Early, Late, disk, backend, Done
  <2> QED BY <1>1, <1>5, <2>1, <2>4, MoveKeeps
<1> QED BY <1>2, <1>3, <1>4, <1>5 DEF Answer

\* The intent of a request that may keep one.
LEMMA IntentKnown ==
  ASSUME TypeOK, NEW c \in Clients, OpOK(c), op[c].act \in {"import", "stage", "start"}
  PROVE  /\ IntentOf(c) \in Intent /\ IntentOf(c) # None /\ IntentOf(c).act = op[c].act
         /\ op[c].act = "import" => IntentOf(c).bytes = op[c].bytes /\ IntentOf(c).evidence = op[c].evidence
         /\ op[c].act = "stage" => IntentOf(c).file = op[c].file /\ op[c].file \in Files
         /\ op[c].act = "start" => /\ IntentOf(c).print = op[c].print /\ IntentOf(c).job = op[c].job
                                   /\ op[c].job.file = op[c].file /\ op[c].file \in Files
<1>1. op[c] \in Op /\ DOMAIN queue \subseteq Nat \ {0} /\ DOMAIN library \subseteq Nat \ {0}
  BY LenProperties DEF TypeOK
<1>2. CASE op[c].act = "import"
  BY <1>1, <1>2, NoneApart DEF IntentOf, Is, Intent, Op
<1>3. CASE op[c].act = "stage"
  <2>1. op[c].file \in Files
    BY <1>1, <1>3 DEF OpOK, Op
  <2> QED BY <1>3, <2>1, NoneApart DEF IntentOf, Is, Intent
<1>4. CASE op[c].act = "start"
  <2>1. op[c].print \in Prints /\ op[c].job \in Job /\ op[c].job.file = op[c].file
    BY <1>1, <1>4 DEF OpOK, Op
  <2>2. op[c].file \in Files
    BY <2>1 DEF Job
  <2> QED BY <1>4, <2>1, <2>2, NoneApart DEF IntentOf, Is, Intent
<1> QED BY <1>2, <1>3, <1>4

\* A request is on the wire with what is known of it.
LEMMA SendStep ==
  ASSUME IInv, NEW c \in Clients, Send(c)
  PROVE  IInv'
<1> DEFINE a == op[c].a
           r == RequestOf(c)
<1>1. TypeOK /\ IdsOK /\ Printer /\ WireOK /\ Evidence /\ ObservedOK /\ AnsweredOK
      /\ Live(c) /\ op[c].pc = "send" /\ OpOK(c)
  BY DEF IInv, Printer, Send, At, Live
<1>2. /\ op' \in [Clients -> Op] /\ op'[c].pc = "sent" /\ op'[c].a = a
      /\ op'[c].tracked = op[c].tracked /\ Like(op[c], op'[c])
      /\ \A d \in Clients : d # c => op'[d] = op[d]
  BY <1>1, GoToEffect DEF Send
<1>3. wire' = wire \cup {r}
      /\ UNCHANGED <<source, retained, intents, receipts, assoc, links, observations, told,
                     library, queue, plate, reply, taken, ops, faults, restarts>>
  BY DEF Send, disk, bounds
<1>4. /\ r \in Request /\ r.a = a /\ r.act = op[c].act /\ r.bytes = op[c].bytes /\ r.file = op[c].file
      /\ r.print = op[c].print /\ r.manual
      /\ op[c].act \in {"import", "stage", "start", "update", "cancel"} /\ op[c] \in Op
  BY <1>1 DEF RequestOf, Request, TypeOK, Op, OpOK, Acts
<1> HIDE DEF r
<1>5. TypeOK'
  BY <1>1, <1>2, <1>3, <1>4 DEF TypeOK
<1>6. IdsOK'
  BY <1>1, <1>2, <1>3, SameIds
<1>7. WireOK'
  <2>1. \A m \in wire : m.a # a
    BY <1>1 DEF OpOK, Unsent
  <2>2. \A m, n \in wire' : m.a = n.a => m = n
    BY <1>1, <1>3, <1>4, <2>1 DEF WireOK
  <2>3. a \in 1..ops /\ told[a] = "nothing" /\ reply[a] = None
    BY <1>1 DEF IdsOK, OpOK, Unsent
  <2>4. intents[a] # None => /\ op[c].tracked # None /\ intents[a] = IntentOf(c)
                             /\ op[c].act \in {"import", "stage", "start"}
    BY <1>1 DEF OpOK, Late
  <2>5. op[c].act = "import" => /\ intents[a] # None /\ intents[a].bytes = r.bytes
                                /\ retained[a] = r.bytes /\ intents[a].evidence \in {None, r.bytes}
    <3>1. op[c].act = "import" => op[c].tracked # None /\ intents[a] = IntentOf(c)
                                  /\ retained[a] = op[c].bytes /\ VerifyImport(c)
      BY <1>1 DEF OpOK, Late
    <3> QED BY <1>1, <1>4, <3>1, IntentKnown DEF VerifyImport
  <2>6. intents[a] # None => intents[a].act = r.act
    BY <1>4, <2>4 DEF IntentOf, Is
  <2>7. r.act = "stage" => /\ r.file \in DOMAIN library
                           /\ intents[a] # None => intents[a].file = r.file
    BY <1>1, <1>4, <2>4 DEF IntentOf, Is, OpOK
  <2>8. r.act = "start" => /\ r.print \in DOMAIN queue
                           /\ intents[a] # None => intents[a].print = r.print
                           /\ intents[a] = None => intents[queue[r.print].by] = None
    <3>1. r.act = "start" => r.print \in DOMAIN queue
      BY <1>1, <1>4 DEF OpOK
    <3>2. r.act = "start" /\ intents[a] # None => intents[a].print = r.print
      BY <1>4, <2>4 DEF IntentOf, Is
    <3>3. r.act = "start" /\ intents[a] = None => op[c].tracked = None
      BY <1>1, <1>4, IntentKnown DEF OpOK, Late
    <3> QED BY <1>1, <1>4, <3>1, <3>2, <3>3 DEF OpOK, Late
  <2>9. r.act \in {"update", "cancel"} => r.print \in DOMAIN queue
    BY <1>1, <1>4 DEF OpOK
  <2> QED BY <1>1, <1>3, <1>4, <2>2, <2>3, <2>5, <2>6, <2>7, <2>8, <2>9 DEF WireOK
<1>8. TakenOK' /\ LibraryOK' /\ QueueOK' /\ RepliesOK'
  BY <1>1, <1>3 DEF Printer, TakenOK, LibraryOK, QueueOK, RepliesOK, Done
<1>9. Evidence' /\ ObservedOK' /\ AnsweredOK'
  BY <1>1, <1>3 DEF Evidence, IntentsOK, ReceiptsOK, LinksOK, ImportsAreRetained, ObservedOK, AnsweredOK, Done
<1>10. ASSUME NEW d \in Clients PROVE OpOK(d)'
  <2>1. CASE d = c
    <3>1. IntentOf(c)' = IntentOf(c) /\ VerifyImport(c)' = VerifyImport(c)
      BY <1>2 DEF Like, IntentOf, Is, VerifyImport
    <3> QED BY <1>1, <1>2, <1>3, <1>4, <2>1, <3>1 DEF OpOK, Like, Acts, Unsent, Early, Late
  <2>2. CASE d # c
    <3>1. Live(d) => op[d].a # a
      BY <1>1, <2>2 DEF IdsOK
    <3>2. Leaves(d)
      BY <1>2, <1>3, <1>4, <2>2, <3>1 DEF Leaves
    <3> QED BY <1>1, <3>2, OthersKeep DEF IInv
  <2> QED BY <2>1, <2>2
<1> QED BY <1>5, <1>6, <1>7, <1>8, <1>9, <1>10 DEF IInv, Printer

-----------------------------------------------------------------------------
(* Steps that store.                                                       *)

\* What the lists and sets consist of.
LEMMA Elements ==
  ASSUME TypeOK
  PROVE  /\ \A m \in wire : m \in Request /\ m.a \in Attempts
         /\ \A p \in DOMAIN queue : p \in Nat \ {0} /\ queue[p] \in Job /\ queue[p].by \in Attempts
         /\ \A f \in DOMAIN library : /\ f \in Nat \ {0} /\ library[f].bytes \in Slices
                                      /\ library[f].by \in Attempts \cup {None}
         /\ \A l \in links : l[1] \in Prints /\ l[2] \in Attempts
<1>1. \A m \in wire : m \in Request /\ m.a \in Attempts
  BY DEF TypeOK, Request
<1>2. \A p \in DOMAIN queue : p \in Nat \ {0} /\ queue[p] \in Job
  BY LenProperties, ElementOfSeq DEF TypeOK
<1> DEFINE Entry == [bytes : Slices, by : Attempts \cup {None}]
<1>3. \A f \in DOMAIN library : f \in Nat \ {0} /\ library[f] \in Entry
  <2>1. library \in Seq(Entry)
    BY DEF TypeOK
  <2> HIDE DEF Entry
  <2> QED BY <2>1, LenProperties, ElementOfSeq
<1>4. \A l \in links : l[1] \in Prints /\ l[2] \in Attempts
  BY DEF TypeOK
<1> QED BY <1>1, <1>2, <1>3, <1>4 DEF Job

\* What a storing step of c changes, when it changes only what is c's.
Footprint(c) ==
  /\ \A x \in Attempts : x # op[c].a =>
       /\ intents'[x] = intents[x] /\ retained'[x] = retained[x] /\ receipts'[x] = receipts[x]
       /\ told'[x] = told[x]
  /\ \A d \in Clients : d # c => op'[d] = op[d]
  /\ Live(c)' => op'[c].a = op[c].a /\ told'[op[c].a] = told[op[c].a]
  /\ UNCHANGED <<source, backend, ops, restarts>> /\ faults' \in Nat

\* Of a request that has not been sent, or has not been answered, Bambuddy's
\* lists, the receipts and the links know nothing.
LEMMA Unanswered ==
  ASSUME IInv, NEW a \in Attempts, reply[a] = None
  PROVE  /\ receipts[a] = None
         /\ \A p \in DOMAIN queue : queue[p].by # a
         /\ \A f \in DOMAIN library : library[f].by # a
         /\ \A l \in links : l[2] # a
<1> USE NoneApart DEF IInv, Printer, Evidence
<1>1. receipts[a] = None
  BY DEF ReceiptsOK, Done
<1>2. DOMAIN queue \subseteq Nat /\ DOMAIN library \subseteq Nat
  BY LenProperties DEF TypeOK
<1>3. \A p \in DOMAIN queue : queue[p].by # a
  BY <1>2 DEF QueueOK
<1>4. \A f \in DOMAIN library : library[f].by # a
  BY <1>2 DEF LibraryOK
<1>5. \A l \in links : l[2] # a
  <2> TAKE l \in links
  <2>1. l[1] # None
    BY DEF TypeOK
  <2> QED BY <1>1, <2>1 DEF LinksOK
<1> QED BY <1>1, <1>3, <1>4, <1>5

\* Before it is sent, a request's copy and its intent are nobody else's affair.
LEMMA StoredUnsent ==
  ASSUME IInv, NEW c \in Clients, Live(c), op[c].pc \in Early, Footprint(c), OpOK(c)', TypeOK',
         UNCHANGED <<receipts, assoc, links, observations>>,
         intents'[op[c].a] # None =>
           /\ intents'[op[c].a].act = "stage" => assoc[intents'[op[c].a].file] # None
           /\ intents'[op[c].a].act = "start" =>
                /\ intents'[op[c].a].print \in DOMAIN queue
                /\ intents'[op[c].a].job.file = queue[intents'[op[c].a].print].file,
         told'[op[c].a] \in {"nothing", "not_done"}
  PROVE  IInv'
<1> DEFINE a == op[c].a
<1>1. TypeOK /\ IdsOK /\ Printer /\ WireOK /\ Evidence /\ ObservedOK /\ AnsweredOK /\ OpOK(c)
  BY DEF IInv, Printer
<1>2. a \in Attempts /\ reply[a] = None /\ intents[a] = None /\ ~Done(a) /\ \A m \in wire : m.a # a
  BY <1>1 DEF OpOK, Unsent, TypeOK, Op, Done
<1>3. /\ receipts[a] = None
      /\ \A p \in DOMAIN queue : queue[p].by # a
      /\ \A f \in DOMAIN library : library[f].by # a
      /\ \A l \in links : l[2] # a
  BY <1>2, Unanswered
<1>4. /\ \A x \in Attempts : x # a =>
           intents'[x] = intents[x] /\ retained'[x] = retained[x] /\ told'[x] = told[x]
      /\ UNCHANGED <<source, library, queue, plate, wire, reply, taken, ops>>
  BY DEF Footprint, backend
<1>5. /\ \A m \in wire : m.a \in Attempts
      /\ \A p \in DOMAIN queue : queue[p].by \in Attempts
      /\ \A f \in DOMAIN library : library[f].by \in Attempts \cup {None}
      /\ \A l \in links : l[2] \in Attempts
  BY <1>1, Elements
<1>6. IdsOK'
  BY <1>1, <1>4, SameIds DEF Footprint
<1>7. WireOK'
  <2>1. \A m \in wire : /\ intents'[m.a] = intents[m.a] /\ retained'[m.a] = retained[m.a]
                        /\ told'[m.a] = told[m.a]
    BY <1>2, <1>4, <1>5
  <2>2. \A p \in DOMAIN queue : intents'[queue[p].by] = intents[queue[p].by]
    BY <1>3, <1>4, <1>5
  <2> QED BY <1>1, <1>4, <2>1, <2>2 DEF WireOK
<1>8. TakenOK' /\ LibraryOK'
  BY <1>1, <1>4 DEF Printer, TakenOK, LibraryOK, Done
<1>9. QueueOK'
  <2>1. \A p \in DOMAIN queue : intents'[queue[p].by] = intents[queue[p].by]
    BY <1>3, <1>4, <1>5
  <2>2. \A b \in Attempts : intents[b] # None => intents'[b] = intents[b]
    BY <1>2, <1>4
  <2> QED BY <1>1, <1>4, <2>1, <2>2 DEF Printer, QueueOK
<1>10. RepliesOK'
  BY <1>1, <1>2, <1>4 DEF Printer, RepliesOK, Done
<1>11. Evidence'
  <2>1. IntentsOK'
    BY <1>1, <1>4 DEF Evidence, IntentsOK
  <2>2. ReceiptsOK'
    BY <1>1, <1>2, <1>3, <1>4 DEF Evidence, ReceiptsOK, Done
  <2>3. LinksOK'
    BY <1>1, <1>3, <1>4, <1>5 DEF Evidence, LinksOK
  <2>4. ImportsAreRetained'
    BY <1>1, <1>3, <1>4, <1>5 DEF Evidence, ImportsAreRetained
  <2> QED BY <2>1, <2>2, <2>3, <2>4 DEF Evidence
<1>12. ObservedOK'
  BY <1>1, <1>4 DEF ObservedOK, Done
<1>13. AnsweredOK'
  BY <1>1, <1>2, <1>4 DEF AnsweredOK, Done
<1>14. \A d \in Clients : d # c => OpOK(d)'
  <2>1. \A p \in DOMAIN queue : intents'[queue[p].by] = intents[queue[p].by]
    BY <1>3, <1>4, <1>5
  <2> QED BY <2>1, StoredForOne DEF Footprint
<1> QED BY <1>6, <1>7, <1>8, <1>9, <1>10, <1>11, <1>12, <1>13, <1>14 DEF IInv, Printer

-----------------------------------------------------------------------------
(* Bambuddy's lists are no longer than the requests are many.                *)

\* What is numbered without repetition from 1 to m are at most m.
LEMMA FewEntries ==
  ASSUME NEW n \in Nat, NEW m \in Nat, NEW f \in [1..n -> 1..m],
         \A i, j \in 1..n : f[i] = f[j] => i = j
  PROVE  n <= m
<1>1. /\ IsFiniteSet(1..n) /\ IsFiniteSet(1..m)
      /\ Cardinality(1..n) = n /\ Cardinality(1..m) = m
  BY FS_Interval
<1> QED BY <1>1, FS_PigeonHole

\* Every entry of the queue has a request of its own; so has one to come.
LEMMA QueueRoom ==
  ASSUME TypeOK, IdsOK, QueueOK
  PROVE  /\ DOMAIN queue \subseteq Prints
         /\ \A a \in 1..ops : reply[a] = None => Len(queue) + 1 \in Prints
<1> DEFINE n == Len(queue)
<1>1. n \in Nat /\ DOMAIN queue = 1..n /\ MaxOps \in Nat /\ ops \in Nat /\ ops <= MaxOps
  BY NoneApart, LenProperties DEF TypeOK, IdsOK
<1>2. \A p \in 1..n : queue[p].by \in 1..MaxOps /\ reply[queue[p].by] = p
  BY <1>1 DEF QueueOK
<1> HIDE DEF n
<1>3. n <= MaxOps
  <2> DEFINE f == [p \in 1..n |-> queue[p].by]
  <2>1. f \in [1..n -> 1..MaxOps] /\ \A i, j \in 1..n : f[i] = f[j] => i = j
    BY <1>2
  <2> HIDE DEF f
  <2> QED BY <1>1, <2>1, FewEntries
<1>4. ASSUME NEW a \in 1..ops, reply[a] = None
      PROVE  n + 1 <= MaxOps
  <2> DEFINE f == [p \in 1..(n + 1) |-> IF p = n + 1 THEN a ELSE queue[p].by]
  <2>1. /\ \A p \in 1..(n + 1) : p = n + 1 \/ p \in 1..n
        /\ \A p \in 1..n : queue[p].by # a
    BY <1>1, <1>2, <1>4, NoneApart
  <2>2. f \in [1..(n + 1) -> 1..MaxOps]
    BY <1>1, <1>2, <2>1
  <2>3. \A i, j \in 1..(n + 1) : f[i] = f[j] => i = j
    BY <1>1, <1>2, <2>1
  <2> HIDE DEF f
  <2>4. n + 1 \in Nat
    BY <1>1
  <2> QED BY <1>1, <2>2, <2>3, <2>4, FewEntries
<1> QED BY <1>1, <1>3, <1>4 DEF Prints, n

\* The library has two entries of its own.
LEMMA LibraryRoom ==
  ASSUME TypeOK, IdsOK, LibraryOK, NEW a \in 1..ops, reply[a] = None
  PROVE  Len(library) + 1 \in Files
<1> DEFINE n == Len(library) - 2
<1>1. /\ n \in Nat /\ DOMAIN library = 1..(n + 2) /\ MaxOps \in Nat /\ ops \in Nat /\ ops <= MaxOps
      /\ Len(library) = n + 2
  BY NoneApart, LenProperties DEF TypeOK, IdsOK, LibraryOK
<1> HIDE DEF n
<1>2. \A i \in 1..n : library[i + 2].by \in 1..MaxOps /\ reply[library[i + 2].by] = i + 2
  <2> TAKE i \in 1..n
  <2>1. i + 2 \in DOMAIN library /\ i + 2 # 1 /\ i + 2 > 2
    BY <1>1
  <2> QED BY <1>1, <2>1 DEF LibraryOK
<1> DEFINE f == [i \in 1..(n + 1) |-> IF i = n + 1 THEN a ELSE library[i + 2].by]
<1>3. /\ \A i \in 1..(n + 1) : i = n + 1 \/ i \in 1..n
      /\ \A i \in 1..n : library[i + 2].by # a
  BY <1>1, <1>2, NoneApart
<1>4. f \in [1..(n + 1) -> 1..MaxOps]
  BY <1>1, <1>2, <1>3
<1>5. \A i, j \in 1..(n + 1) : f[i] = f[j] => i = j
  BY <1>1, <1>2, <1>3
<1> HIDE DEF f
<1>6. n + 1 <= MaxOps
  BY <1>1, <1>4, <1>5, FewEntries
<1> QED BY <1>1, <1>6 DEF Files

\* The copy that is sent is retained before.
LEMMA RetainStep ==
  ASSUME IInv, NEW c \in Clients, Retain(c)
  PROVE  IInv'
<1> DEFINE a == op[c].a
<1>1. /\ TypeOK /\ IdsOK /\ OpOK(c) /\ Live(c) /\ op[c].pc = "retain" /\ op[c].act = "import"
      /\ a \in Attempts /\ op[c].bytes \in Slices /\ op[c].pc \in Early
  BY DEF IInv, Retain, At, Live, OpOK, Acts, TypeOK, Op, Early
<1>2. Tellable(a, "not_done") /\ intents[a] = None
  BY <1>1 DEF Tellable, OpOK, Unsent, Early, Done
<1>3. CASE Tell(c, "not_done") /\ UNCHANGED <<retained, bounds>>
  BY <1>1, <1>2, <1>3, TellKeeps DEF Retain, Words, disk
<1>4. ASSUME retained' \in {retained, [retained EXCEPT ![a] = op[c].bytes]},
             faults' \in {faults, faults + 1}, UNCHANGED <<ops, restarts>>, Retain(c)
      PROVE  /\ UNCHANGED <<source, intents, receipts, assoc, links, observations, backend>>
             /\ faults' \in Nat /\ retained' \in [Attempts -> Slices \cup {None}]
             /\ \A x \in Attempts : x # a => retained'[x] = retained[x]
  <2>1. UNCHANGED <<source, intents, receipts, assoc, links, observations, backend>>
    BY <1>4 DEF Retain
  <2>2. faults \in Nat /\ retained \in [Attempts -> Slices \cup {None}]
    BY <1>1 DEF TypeOK
  <2> QED BY <2>1, <2>2, <1>1, <1>4
<1>5. CASE VerifyImport(c) /\ Store(retained, a, op[c].bytes, TRUE) /\ GoTo(c, "intent") /\ UNCHANGED told
  <2>1. /\ op' \in [Clients -> Op] /\ op'[c].pc = "intent" /\ op'[c].a = a /\ Like(op[c], op'[c])
        /\ op'[c].tracked = op[c].tracked
        /\ \A d \in Clients : d # c => op'[d] = op[d]
    BY <1>1, <1>5, GoToEffect
  <2>2. retained' = [retained EXCEPT ![a] = op[c].bytes] /\ UNCHANGED bounds
    BY <1>5 DEF Store
  <2>3. /\ UNCHANGED <<source, intents, receipts, assoc, links, observations, backend>>
        /\ faults' \in Nat /\ retained' \in [Attempts -> Slices \cup {None}]
        /\ \A x \in Attempts : x # a => retained'[x] = retained[x]
    BY <2>2, <1>4 DEF bounds
  <2>4. retained'[a] = op[c].bytes
    BY <1>1, <2>2 DEF TypeOK
  <2>5. VerifyImport(c)'
    BY <1>5, <2>1 DEF VerifyImport, Like
  <2>6. OpOK(c)'
    BY <1>1, <2>1, <2>3, <2>4, <2>5 DEF OpOK, Like, Acts, Early, Unsent, Late, backend
  <2>7. TypeOK'
    BY <1>1, <1>5, <2>1, <2>2, <2>3 DEF TypeOK, backend, bounds
  <2>8. Footprint(c)
    BY <1>5, <2>1, <2>2, <2>3 DEF Footprint, bounds
  <2>9. told[a] = "nothing"
    BY <1>1 DEF IdsOK
  <2> QED BY <1>1, <1>2, <1>5, <2>3, <2>6, <2>7, <2>8, <2>9, StoredUnsent
<1>6. CASE Store(retained, a, op[c].bytes, FALSE) /\ Tell(c, "not_done")
  <2>1. /\ op' \in [Clients -> Op] /\ told' \in [Attempts -> Words] /\ ~Live(c)' /\ OpOK(c)'
        /\ \A d \in Clients : d # c => op'[d] = op[d]
        /\ told'[a] = "not_done" /\ \A x \in Attempts : x # a => told'[x] = told[x]
    BY <1>1, <1>6, TellEffect DEF Words
  <2>2. /\ retained' \in {retained, [retained EXCEPT ![a] = op[c].bytes]}
        /\ faults' = faults + 1 /\ UNCHANGED <<ops, restarts>>
    BY <1>6 DEF Store, Fault
  <2>3. /\ UNCHANGED <<source, intents, receipts, assoc, links, observations, backend>>
        /\ faults' \in Nat /\ retained' \in [Attempts -> Slices \cup {None}]
        /\ \A x \in Attempts : x # a => retained'[x] = retained[x]
    BY <2>2, <1>4
  <2>7. TypeOK'
    BY <1>1, <2>1, <2>2, <2>3 DEF TypeOK, backend
  <2>8. Footprint(c)
    BY <2>1, <2>2, <2>3 DEF Footprint
  <2> QED BY <1>1, <1>2, <2>1, <2>3, <2>7, <2>8, StoredUnsent
<1> QED BY <1>3, <1>5, <1>6 DEF Retain

\* The intent is there before the request is sent.
LEMMA IntentStep ==
  ASSUME IInv, NEW c \in Clients, StoreIntent(c)
  PROVE  IInv'
<1> DEFINE a == op[c].a
           new == IntentOf(c)
<1>1. /\ TypeOK /\ IdsOK /\ OpOK(c) /\ Live(c) /\ op[c].pc = "intent"
      /\ op[c].act \in {"import", "stage", "start"}
      /\ a \in Attempts /\ op[c] \in Op /\ op[c].pc \in Early
  BY DEF IInv, StoreIntent, At, Live, OpOK, Acts, TypeOK, Op, Early
<1>2. Tellable(a, "not_done") /\ intents[a] = None /\ reply[a] = None
  BY <1>1 DEF Tellable, OpOK, Unsent, Early, Done
<1>3. /\ new \in Intent /\ new # None /\ new.act = op[c].act
      /\ op[c].act = "stage" => new.file = op[c].file /\ op[c].file \in Files
      /\ op[c].act = "start" => /\ new.print = op[c].print /\ new.job = op[c].job
                                /\ op[c].job.file = op[c].file /\ op[c].file \in Files
  BY <1>1, IntentKnown
<1> HIDE DEF new
<1>4. Tracked(c) # None /\ op[c].act \in {"stage", "start"} => assoc[op[c].file] # None
  BY DEF Tracked, Is
<1>5. Tracked(c) \in Attempts \cup {None}
  BY <1>1, <1>3 DEF Tracked, Is, TypeOK
<1>6. ASSUME Tracked(c) # None, intents' \in {intents, [intents EXCEPT ![a] = new]}
      PROVE  /\ UNCHANGED <<source, retained, receipts, assoc, links, observations, backend>>
             /\ intents' \in [Attempts -> Intent \cup {None}]
             /\ \A x \in Attempts : x # a => intents'[x] = intents[x]
             /\ intents'[a] # None =>
                  /\ intents'[a].act = "stage" => assoc[intents'[a].file] # None
                  /\ intents'[a].act = "start" =>
                       intents'[a].print \in DOMAIN queue
                       /\ intents'[a].job.file = queue[intents'[a].print].file
  <2>1. UNCHANGED <<source, retained, receipts, assoc, links, observations, backend>>
    BY <1>6 DEF StoreIntent
  <2>2. /\ intents' \in [Attempts -> Intent \cup {None}]
        /\ \A x \in Attempts : x # a => intents'[x] = intents[x]
        /\ intents'[a] # None => intents'[a] = new
    BY <1>1, <1>2, <1>3, <1>6 DEF TypeOK
  <2>3. op[c].act = "start" => op[c].print \in DOMAIN queue /\ queue[op[c].print].file = op[c].file
    BY <1>1 DEF OpOK
  <2> QED BY <2>1, <2>2, <2>3, <1>3, <1>4, <1>6
<1>7. CASE Tracked(c) = None /\ GoTo(c, "send") /\ UNCHANGED <<intents, told, bounds>>
  <2>1. /\ op'[c].pc = "send" /\ op'[c].a = a /\ op'[c].tracked = op[c].tracked
        /\ Like(op[c], op'[c])
    BY <1>1, <1>7, GoToEffect
  <2>2. UNCHANGED <<source, disk, told, backend, bounds>>
    BY <1>7 DEF StoreIntent, disk
  <2>3. op[c].act \in {"stage", "start"} /\ assoc[op[c].file] = None
    BY <1>1, <1>7, NoneApart DEF Tracked, Is
  <2>4. op[c].act = "start" => intents[queue[op[c].print].by] = None
    <3>1. op[c].act = "start" => op[c].print \in DOMAIN queue /\ queue[op[c].print].file = op[c].file
      BY <1>1 DEF OpOK
    <3>2. \A p \in DOMAIN queue : queue[p].by \in Attempts
      BY <1>1, Elements
    <3> QED BY <2>3, <3>1, <3>2 DEF IInv, Printer, Evidence, QueueOK, IntentsOK
  <2>5. op[c].tracked = None
    BY <1>1, <1>7 DEF IInv, OpOK
  <2>6. OpOK(c)'
    BY <1>1, <1>2, <2>1, <2>2, <2>3, <2>4, <2>5 DEF OpOK, Like, Acts, Early, Unsent, Late, disk, backend
  <2> QED BY <1>1, <1>7, <2>2, <2>6, MoveKeeps
<1>8. CASE /\ Tracked(c) # None /\ Store(intents, a, new, TRUE) /\ UNCHANGED told
           /\ op' = [op EXCEPT ![c].pc = "send", ![c].tracked = Tracked(c)]
  <2>1. /\ op' \in [Clients -> Op] /\ op'[c].pc = "send" /\ op'[c].a = a
        /\ op'[c].tracked = Tracked(c) /\ Like(op[c], op'[c])
        /\ \A d \in Clients : d # c => op'[d] = op[d]
    <3> DEFINE o == [op[c] EXCEPT !.pc = "send", !.tracked = Tracked(c)]
    <3>1. o \in Op /\ o.pc = "send" /\ o.a = a /\ o.tracked = Tracked(c) /\ Like(op[c], o)
      BY <1>1, <1>5 DEF Op, Like
    <3>2. op' = [op EXCEPT ![c] = o]
      BY <1>1, <1>8 DEF TypeOK
    <3> HIDE DEF o
    <3> QED BY <3>1, <3>2 DEF TypeOK, IInv
  <2>2. intents' = [intents EXCEPT ![a] = new] /\ UNCHANGED bounds
    BY <1>8 DEF Store
  <2>3. /\ UNCHANGED <<source, retained, receipts, assoc, links, observations, backend>>
        /\ intents' \in [Attempts -> Intent \cup {None}]
        /\ \A x \in Attempts : x # a => intents'[x] = intents[x]
        /\ intents'[a] # None =>
                  /\ intents'[a].act = "stage" => assoc[intents'[a].file] # None
                  /\ intents'[a].act = "start" =>
                       intents'[a].print \in DOMAIN queue
                       /\ intents'[a].job.file = queue[intents'[a].print].file
    BY <1>6, <1>8, <2>2
  <2>4. intents'[a] = new
    BY <1>1, <2>2 DEF TypeOK
  <2>5. VerifyImport(c)' = VerifyImport(c) /\ IntentOf(c)' = new
    BY <2>1 DEF VerifyImport, Like, IntentOf, Is, new
  <2>6. OpOK(c)'
    BY <1>1, <1>2, <1>8, <2>1, <2>3, <2>4, <2>5 DEF OpOK, Like, Acts, Early, Unsent, Late, backend
  <2>7. TypeOK'
    BY <1>1, <1>8, <2>1, <2>2, <2>3 DEF TypeOK, backend, bounds
  <2>8. Footprint(c)
    BY <1>1, <1>8, <2>1, <2>2, <2>3 DEF Footprint, bounds, TypeOK
  <2>9. told[a] = "nothing"
    BY <1>1 DEF IdsOK
  <2> QED BY <1>1, <1>2, <1>8, <2>3, <2>6, <2>7, <2>8, <2>9, StoredUnsent
<1>9. CASE Tracked(c) # None /\ Tell(c, "not_done") /\ UNCHANGED <<intents, bounds>>
  BY <1>1, <1>2, <1>9, TellKeeps DEF StoreIntent, Words, disk
<1>10. CASE Tracked(c) # None /\ Tell(c, "not_done") /\ Store(intents, a, new, FALSE)
  <2>1. /\ op' \in [Clients -> Op] /\ told' \in [Attempts -> Words] /\ ~Live(c)' /\ OpOK(c)'
        /\ \A d \in Clients : d # c => op'[d] = op[d]
        /\ told'[a] = "not_done" /\ \A x \in Attempts : x # a => told'[x] = told[x]
    BY <1>1, <1>10, TellEffect DEF Words
  <2>2. /\ intents' \in {intents, [intents EXCEPT ![a] = new]}
        /\ faults' = faults + 1 /\ UNCHANGED <<ops, restarts>>
    BY <1>10 DEF Store, Fault
  <2>3. /\ UNCHANGED <<source, retained, receipts, assoc, links, observations, backend>>
        /\ intents' \in [Attempts -> Intent \cup {None}]
        /\ \A x \in Attempts : x # a => intents'[x] = intents[x]
        /\ intents'[a] # None =>
                  /\ intents'[a].act = "stage" => assoc[intents'[a].file] # None
                  /\ intents'[a].act = "start" =>
                       intents'[a].print \in DOMAIN queue
                       /\ intents'[a].job.file = queue[intents'[a].print].file
    BY <1>6, <1>10, <2>2
  <2>7. TypeOK'
    BY <1>1, <2>1, <2>2, <2>3 DEF TypeOK, backend
  <2>8. Footprint(c)
    BY <1>1, <2>1, <2>2, <2>3 DEF Footprint, TypeOK
  <2> QED BY <1>1, <2>1, <2>3, <2>7, <2>8, StoredUnsent
<1> QED BY <1>7, <1>8, <1>9, <1>10 DEF StoreIntent, new

\* After the answer, the receipt is the answer and what is associated is the
\* receipt's.
LEMMA StoredAnswered ==
  ASSUME IInv, NEW c \in Clients, Live(c), op[c].pc \in {"receipt", "link"}, Footprint(c),
         OpOK(c)', TypeOK', UNCHANGED <<retained, intents, observations>>,
         receipts'[op[c].a] \in {receipts[op[c].a], reply[op[c].a]},
         \A f \in Files : assoc[f] # None => assoc'[f] # None,
         \A l \in links' : \/ l \in links
                           \/ /\ l = <<reply[op[c].a], op[c].a>> /\ op[c].act # "import"
                              /\ receipts'[op[c].a] = reply[op[c].a],
         \/ told'[op[c].a] \in {"nothing", "unsaved"}
         \/ told'[op[c].a] = "done" /\ receipts'[op[c].a] = reply[op[c].a]
  PROVE  IInv'
<1> DEFINE a == op[c].a
<1>1. TypeOK /\ IdsOK /\ Printer /\ WireOK /\ Evidence /\ ObservedOK /\ AnsweredOK /\ OpOK(c)
  BY DEF IInv, Printer
<1>2. /\ a \in Attempts /\ Done(a) /\ op[c].act \in {"import", "stage", "start"}
      /\ intents[a] = IntentOf(c) /\ intents[a] # None /\ intents[a].act = op[c].act
  <2>1. a \in Attempts
    BY <1>1 DEF TypeOK, Op
  <2>2. /\ Done(a) /\ op[c].act \in {"import", "stage", "start"} /\ op[c].tracked # None
        /\ intents[a] = IntentOf(c)
    BY <1>1 DEF OpOK, Late, Acts
  <2> QED BY <1>1, <2>1, <2>2, IntentKnown
<1>3. /\ \A x \in Attempts : x # a => receipts'[x] = receipts[x] /\ told'[x] = told[x]
      /\ UNCHANGED <<source, library, queue, plate, wire, reply, taken, ops>>
  BY DEF Footprint, backend
<1>4. reply[a] # None /\ reply[a] # Refused
  BY <1>2 DEF Done
<1>5. IdsOK'
  BY <1>1, <1>3, SameIds DEF Footprint
<1>6. WireOK'
  <2>1. \A m \in wire : m.a \in Attempts /\ m.a # a
    BY <1>1, <1>4, Elements DEF WireOK
  <2> QED BY <1>1, <1>3, <2>1 DEF WireOK
<1>7. TakenOK' /\ LibraryOK' /\ QueueOK' /\ RepliesOK'
  BY <1>1, <1>3 DEF Printer, TakenOK, LibraryOK, QueueOK, RepliesOK, Done
<1>8. Evidence'
  <2>1. IntentsOK'
    <3>1. \A x \in Attempts : intents[x] # None /\ intents[x].act = "stage" => intents[x].file \in Files
      BY <1>1 DEF TypeOK, Intent
    <3> QED BY <1>1, <1>3, <3>1 DEF Evidence, IntentsOK
  <2>2. ReceiptsOK'
    BY <1>1, <1>2, <1>3 DEF Evidence, ReceiptsOK, Done
  <2>3. LinksOK'
    <3> SUFFICES ASSUME NEW l \in links'
                 PROVE  receipts'[l[2]] = l[1] /\ intents[l[2]].act \in {"stage", "start"}
      BY DEF LinksOK
    <3>1. CASE l \in links
      <4>1. receipts[l[2]] = l[1] /\ l[2] \in Attempts /\ intents[l[2]].act \in {"stage", "start"}
            /\ l[1] # None
        BY <1>1, <3>1, Elements, NoneApart DEF Evidence, LinksOK
      <4>2. receipts[l[2]] = reply[l[2]]
        BY <1>1, <4>1 DEF Evidence, ReceiptsOK
      <4> QED BY <1>3, <4>1, <4>2
    <3>2. CASE l \notin links
      BY <1>2, <3>2
    <3> QED BY <3>1, <3>2
  <2>4. ImportsAreRetained'
    BY <1>1, <1>3 DEF Evidence, ImportsAreRetained
  <2> QED BY <2>1, <2>2, <2>3, <2>4 DEF Evidence
<1>9. ObservedOK'
  BY <1>1, <1>3 DEF ObservedOK, Done
<1>10. AnsweredOK'
  BY <1>1, <1>2, <1>3, <1>4 DEF AnsweredOK, Done
<1>11. \A d \in Clients : d # c => OpOK(d)'
  BY StoredForOne DEF Footprint
<1> QED BY <1>5, <1>6, <1>7, <1>8, <1>9, <1>10, <1>11 DEF IInv, Printer

\* The receipt is the answer.
LEMMA ReceiptStep ==
  ASSUME IInv, NEW c \in Clients, StoreReceipt(c)
  PROVE  IInv'
<1> DEFINE a == op[c].a
<1>1. /\ TypeOK /\ IdsOK /\ OpOK(c) /\ Live(c) /\ op[c].pc = "receipt" /\ a \in Attempts
      /\ Done(a) /\ told[a] = "nothing"
      /\ UNCHANGED <<source, retained, intents, assoc, links, observations, backend>>
  BY DEF IInv, StoreReceipt, At, Live, OpOK, TypeOK, Op, IdsOK
<1>2. ASSUME receipts' \in {receipts, [receipts EXCEPT ![a] = reply[a]]}
      PROVE  /\ receipts' \in [Attempts -> Files \cup Prints \cup {None}]
             /\ \A x \in Attempts : x # a => receipts'[x] = receipts[x]
             /\ receipts'[a] \in {receipts[a], reply[a]}
  <2>1. reply[a] \in Files \cup Prints
    BY <1>1 DEF TypeOK, Done
  <2>2. receipts \in [Attempts -> Files \cup Prints \cup {None}]
    BY <1>1 DEF TypeOK
  <2> QED BY <1>1, <1>2, <2>1, <2>2
<1>3. CASE Store(receipts, a, reply[a], TRUE) /\ GoTo(c, "link") /\ UNCHANGED told
  <2>1. /\ op' \in [Clients -> Op] /\ op'[c].pc = "link" /\ op'[c].a = a /\ Like(op[c], op'[c])
        /\ op'[c].tracked = op[c].tracked
        /\ \A d \in Clients : d # c => op'[d] = op[d]
    BY <1>1, <1>3, GoToEffect
  <2>2. receipts' = [receipts EXCEPT ![a] = reply[a]] /\ UNCHANGED bounds
    BY <1>3 DEF Store
  <2>3. receipts'[a] = reply[a]
    BY <1>1, <2>2 DEF TypeOK
  <2>4. IntentOf(c)' = IntentOf(c) /\ VerifyImport(c)' = VerifyImport(c)
    BY <2>1 DEF Like, IntentOf, Is, VerifyImport
  <2>5. OpOK(c)'
    BY <1>1, <2>1, <2>3, <2>4 DEF OpOK, Like, Acts, Early, Unsent, Late, backend, Done
  <2>6. TypeOK'
    BY <1>1, <1>2, <1>3, <2>1, <2>2 DEF TypeOK, backend, bounds
  <2>7. Footprint(c)
    BY <1>1, <1>2, <1>3, <2>1, <2>2 DEF Footprint, bounds, TypeOK
  <2> QED BY <1>1, <1>2, <1>3, <2>2, <2>5, <2>6, <2>7, StoredAnswered
<1>4. CASE Store(receipts, a, reply[a], FALSE) /\ Tell(c, "unsaved")
  <2>1. /\ op' \in [Clients -> Op] /\ told' \in [Attempts -> Words] /\ ~Live(c)' /\ OpOK(c)'
        /\ \A d \in Clients : d # c => op'[d] = op[d]
        /\ told'[a] = "unsaved" /\ \A x \in Attempts : x # a => told'[x] = told[x]
    BY <1>1, <1>4, TellEffect DEF Words
  <2>2. /\ receipts' \in {receipts, [receipts EXCEPT ![a] = reply[a]]}
        /\ faults' = faults + 1 /\ UNCHANGED <<ops, restarts>>
    BY <1>4 DEF Store, Fault
  <2>6. TypeOK'
    BY <1>1, <1>2, <2>1, <2>2 DEF TypeOK, backend
  <2>7. Footprint(c)
    BY <1>1, <1>2, <2>1, <2>2 DEF Footprint, TypeOK
  <2> QED BY <1>1, <1>2, <2>1, <2>2, <2>6, <2>7, StoredAnswered
<1> QED BY <1>3, <1>4 DEF StoreReceipt

\* What is associated is what the receipt says.
LEMMA LinkStep ==
  ASSUME IInv, NEW c \in Clients, Link(c)
  PROVE  IInv'
<1> DEFINE a   == op[c].a
           put == IF Is(c, {"import"})
                  THEN /\ assoc' = [assoc EXCEPT ![reply[a]] = a] /\ UNCHANGED links
                  ELSE links' = links \cup {<<reply[a], a>>} /\ UNCHANGED assoc
<1>1. /\ TypeOK /\ IdsOK /\ OpOK(c) /\ Live(c) /\ op[c].pc = "link" /\ a \in Attempts
      /\ op[c].act \in {"import", "stage", "start"} /\ intents[a] = IntentOf(c)
      /\ Done(a) /\ receipts[a] = reply[a] /\ told[a] = "nothing"
      /\ UNCHANGED <<source, retained, intents, receipts, observations, backend>>
  BY DEF IInv, Link, At, Live, OpOK, TypeOK, Op, IdsOK, Late, Acts
<1>2. op[c].act \in {"stage", "start"} => reply[a] \in Prints
  <2>1. /\ intents[a] # None /\ intents[a].act = op[c].act
        /\ op[c].act = "start" => IntentOf(c).print = op[c].print
    BY <1>1, IntentKnown
  <2>2. CASE op[c].act = "stage"
    <3>1. reply[a] \in DOMAIN queue
      BY <1>1, <2>1, <2>2 DEF IInv, Printer, RepliesOK
    <3> QED BY <1>1, <3>1, QueueRoom DEF IInv, Printer
  <2>3. CASE op[c].act = "start"
    <3>1. reply[a] = op[c].print /\ op[c].print \in DOMAIN queue
      <4>1. reply[a] = op[c].print
        BY <1>1, <2>1, <2>3 DEF IInv, Printer, RepliesOK
      <4> QED BY <1>1, <2>3, <4>1 DEF OpOK
    <3> QED BY <1>1, <3>1, QueueRoom DEF IInv, Printer
  <2> QED BY <2>2, <2>3
<1>3. ASSUME put \/ UNCHANGED <<assoc, links>>
      PROVE  /\ assoc' \in [Files -> Attempts \cup {None}] /\ links' \subseteq Prints \X Attempts
             /\ \A f \in Files : assoc[f] # None => assoc'[f] # None
             /\ \A l \in links' : l \in links \/ (l = <<reply[a], a>> /\ op[c].act # "import")
  <2>1. assoc \in [Files -> Attempts \cup {None}] /\ links \subseteq Prints \X Attempts /\ a # None
    BY <1>1, NoneApart DEF TypeOK
  <2>2. CASE op[c].act = "import" /\ assoc' = [assoc EXCEPT ![reply[a]] = a] /\ UNCHANGED links
    BY <1>1, <2>1, <2>2
  <2>3. CASE links' = links \cup {<<reply[a], a>>} /\ op[c].act # "import" /\ UNCHANGED assoc
    <3>1. reply[a] \in Prints
      BY <1>1, <1>2, <2>3
    <3> QED BY <1>1, <2>1, <2>3, <3>1
  <2>4. CASE UNCHANGED <<assoc, links>>
    BY <2>1, <2>4
  <2> QED BY <1>3, <2>2, <2>3, <2>4 DEF Is
<1>4. ASSUME NEW word \in {"done", "unsaved"}, Tell(c, word), put \/ UNCHANGED <<assoc, links>>,
             faults' \in {faults, faults + 1}, UNCHANGED <<ops, restarts>>
      PROVE  IInv'
  <2>1. /\ op' \in [Clients -> Op] /\ told' \in [Attempts -> Words] /\ ~Live(c)' /\ OpOK(c)'
        /\ \A d \in Clients : d # c => op'[d] = op[d]
        /\ told'[a] = word /\ \A x \in Attempts : x # a => told'[x] = told[x]
    BY <1>1, <1>4, TellEffect DEF Words
  <2> HIDE DEF put
  <2>2. /\ assoc' \in [Files -> Attempts \cup {None}] /\ links' \subseteq Prints \X Attempts
        /\ \A f \in Files : assoc[f] # None => assoc'[f] # None
        /\ \A l \in links' : l \in links \/ (l = <<reply[a], a>> /\ op[c].act # "import")
    BY <1>3, <1>4
  <2>6. TypeOK'
    BY <1>1, <1>4, <2>1, <2>2 DEF TypeOK, backend
  <2>7. Footprint(c)
    BY <1>1, <1>4, <2>1 DEF Footprint, TypeOK
  <2> QED BY <1>1, <1>4, <2>1, <2>2, <2>6, <2>7, StoredAnswered
<1> QED BY <1>4 DEF Link, bounds, Fault

\* What is observed is in the queue, with submissions that were answered.
LEMMA ObserveStep ==
  ASSUME IInv, NEW c \in Clients, Observe(c)
  PROVE  IInv'
<1> DEFINE a    == op[c].a
           p    == op[c].print
           seen == [print |-> p, execution |-> Execution(op[c].job), submissions |-> Submissions(p)]
<1>1. /\ TypeOK /\ IdsOK /\ Printer /\ WireOK /\ Evidence /\ ObservedOK /\ AnsweredOK
      /\ OpOK(c) /\ Live(c) /\ op[c].pc = "observe" /\ a \in Attempts
      /\ op[c].act = "status" /\ intents[a] = None /\ p \in DOMAIN queue
      /\ UNCHANGED <<source, retained, intents, receipts, assoc, links, backend>>
  BY DEF IInv, Printer, Observe, At, Live, OpOK, Acts, TypeOK, Op
<1>2. ASSUME NEW word \in {"done", "broken"}, Tell(c, word), UNCHANGED <<observations, bounds>>
      PROVE  IInv'
  BY <1>1, <1>2, TellKeeps DEF Tellable, Words, disk
<1>3. ASSUME NEW word \in {"done", "unsaved"}, Tell(c, word),
             observations' \in {observations, observations \cup {seen}},
             faults' \in {faults, faults + 1}, UNCHANGED <<ops, restarts>>
      PROVE  IInv'
  <2>1. /\ op' \in [Clients -> Op] /\ told' \in [Attempts -> Words] /\ ~Live(c)' /\ OpOK(c)'
        /\ \A d \in Clients : d # c => op'[d] = op[d]
        /\ told'[a] = word /\ \A x \in Attempts : x # a => told'[x] = told[x]
    BY <1>1, <1>3, TellEffect DEF Words
  <2>2. /\ seen.print = p /\ p \in Prints /\ seen.execution = Execution(op[c].job)
        /\ seen.submissions = Submissions(p) /\ Submissions(p) \subseteq Attempts
        /\ Execution(op[c].job) \in {"not_observed", "printing", "completed"}
    BY <1>1, QueueRoom DEF Printer, Submissions, Execution
  <2>3. \A x \in Submissions(p) : Done(x)
    <3> TAKE x \in Submissions(p)
    <3>1. <<p, x>> \in links /\ x \in Attempts
      BY DEF Submissions
    <3>2. receipts[x] = p
      BY <1>1, <3>1 DEF Evidence, LinksOK
    <3> QED BY <1>1, <2>2, <3>1, <3>2, NoneApart DEF Evidence, ReceiptsOK
  <2>4. Execution(op[c].job) \in {"printing", "completed"} =>
          queue[p].status \in {Execution(op[c].job), "completed"}
    BY <1>1 DEF Execution, OpOK
  <2> HIDE DEF seen
  <2>5. TypeOK'
    BY <1>1, <1>3, <2>1, <2>2 DEF TypeOK, backend
  <2>6. ObservedOK'
    BY <1>1, <1>3, <2>2, <2>3, <2>4 DEF ObservedOK, Done, backend
  <2>7. IdsOK'
    BY <1>1, <1>3, <2>1, SameIds DEF backend
  <2>8. WireOK'
    <3>1. \A m \in wire : m.a \in Attempts /\ m.a # a
      BY <1>1, Elements DEF OpOK, Unsent
    <3> QED BY <1>1, <1>3, <2>1, <3>1 DEF WireOK, backend
  <2>9. TakenOK' /\ LibraryOK' /\ QueueOK' /\ RepliesOK'
    BY <1>1, <1>3 DEF Printer, TakenOK, LibraryOK, QueueOK, RepliesOK, Done, backend
  <2>10. Evidence'
    BY <1>1 DEF Evidence, IntentsOK, ReceiptsOK, LinksOK, ImportsAreRetained, Done, backend
  <2>11. AnsweredOK'
    BY <1>1, <1>3, <2>1 DEF AnsweredOK, Done, backend
  <2>12. \A d \in Clients : d # c => OpOK(d)'
    BY <1>1, <2>1, StoredForOne
  <2> QED BY <2>1, <2>5, <2>6, <2>7, <2>8, <2>9, <2>10, <2>11, <2>12 DEF IInv, Printer
<1>4. \/ \E word \in {"done", "broken"} : Tell(c, word) /\ UNCHANGED <<observations, bounds>>
      \/ \E word \in {"done", "unsaved"} :
           /\ Tell(c, word) /\ observations' \in {observations, observations \cup {seen}}
           /\ faults' \in {faults, faults + 1} /\ UNCHANGED <<ops, restarts>>
  BY DEF Observe, Fault, bounds
<1> QED BY <1>2, <1>3, <1>4

-----------------------------------------------------------------------------
(* Bambuddy.                                                               *)

\* What is in the library and in the queue stays there, as far as anybody here
\* relies on it.
Grown ==
  /\ \A f \in DOMAIN library : f \in DOMAIN library' /\ library'[f] = library[f]
  /\ \A p \in DOMAIN queue :
       /\ p \in DOMAIN queue' /\ queue'[p].file = queue[p].file /\ queue'[p].by = queue[p].by
       /\ queue[p].status \in {"printing", "completed"} =>
            queue'[p].status \in {queue[p].status, "completed"}

\* Here nothing changes but what is on the wire and answered.
LEMMA BackendKeeps ==
  ASSUME IInv, UNCHANGED <<source, disk, op, told, bounds>>, Grown, TypeOK',
         LibraryOK', QueueOK', RepliesOK', TakenOK', ImportsAreRetained',
         wire' \subseteq wire,
         \A x \in Attempts : \/ reply'[x] = reply[x]
                             \/ reply[x] = None /\ \E m \in wire \ wire' : m.a = x
  PROVE  IInv'
<1>1. TypeOK /\ IdsOK /\ Printer /\ WireOK /\ Evidence /\ ObservedOK /\ AnsweredOK
  BY DEF IInv, Printer
<1>2. \A m \in wire : m.a \in Attempts /\ m.a <= ops /\ reply[m.a] = None
  BY <1>1, Elements DEF WireOK
<1>3. \A x \in Attempts : Done(x) => reply'[x] = reply[x] /\ Done(x)'
  BY DEF Done
<1>4. IdsOK'
  <2>1. \A x \in Attempts : x > ops => reply'[x] = None
    <3> TAKE x \in Attempts
    <3> HAVE x > ops
    <3>1. x \in Nat /\ ops \in Nat /\ reply[x] = None
      BY <1>1, NoneApart DEF IdsOK, TypeOK
    <3>2. \A m \in wire : m.a # x
      BY <1>2, <3>1, NoneApart
    <3> QED BY <3>1, <3>2
  <2> QED BY <1>1, <2>1 DEF IdsOK, Live, disk, bounds
<1>5. WireOK'
  <2>1. \A m \in wire' : m \in wire /\ reply'[m.a] = None
    BY <1>1, <1>2 DEF WireOK
  <2> QED BY <1>1, <2>1 DEF WireOK, Grown, disk, bounds
<1>6. Evidence'
  <2>1. IntentsOK'
    BY <1>1 DEF Evidence, IntentsOK, Grown, disk
  <2>2. ReceiptsOK'
    BY <1>1, <1>3 DEF Evidence, ReceiptsOK, disk
  <2>3. LinksOK'
    BY <1>1 DEF Evidence, LinksOK, disk
  <2> QED BY <2>1, <2>2, <2>3 DEF Evidence
<1>7. ObservedOK'
  <2>1. observations' = observations /\ \A o \in observations : o.submissions \subseteq Attempts
    BY <1>1 DEF TypeOK, disk
  <2> QED BY <1>1, <1>3, <2>1 DEF ObservedOK, Grown
<1>8. AnsweredOK'
  <2>1. \A x \in Attempts : told[x] = "not_done" => ~Done(x)'
    <3> TAKE x \in Attempts
    <3> HAVE told[x] = "not_done"
    <3>1. \A m \in wire : m.a # x
      BY <1>1 DEF WireOK
    <3> QED BY <1>1, <3>1 DEF AnsweredOK, Done
  <2> QED BY <1>1, <1>3, <2>1 DEF AnsweredOK, disk
<1>9. ASSUME NEW d \in Clients PROVE OpOK(d)'
  <2>1. OpOK(d) /\ op[d] \in Op /\ op[d].a \in Attempts
    BY DEF IInv, TypeOK, Op
  <2>2. Live(d) => reply'[op[d].a] = reply[op[d].a] \/ At(d, "sent")
    <3>1. reply[op[d].a] = None => op[d].pc \notin {"receipt", "link"}
      BY <2>1 DEF OpOK, Done
    <3>2. (\E m \in wire : m.a = op[d].a) => op[d].pc \notin Unsent
      BY <2>1 DEF OpOK
    <3> QED BY <2>1, <3>1, <3>2 DEF Live, At, Op, Unsent, Early
  <2>3. Leaves(d)
    BY <2>2 DEF Leaves, Grown, disk
  <2> QED BY <1>1, <2>1, <2>3, OthersKeep
<1> QED BY <1>4, <1>5, <1>6, <1>7, <1>8, <1>9 DEF IInv, Printer

\* What an answer changes, to which nothing in the library or the queue is due.
LEMMA ReplyEffect ==
  ASSUME IInv, NEW m \in wire, NEW id, reply' = [reply EXCEPT ![m.a] = id]
  PROVE  /\ reply'[m.a] = id /\ \A x \in Attempts : x # m.a => reply'[x] = reply[x]
         /\ \A p \in DOMAIN queue : reply'[queue[p].by] = reply[queue[p].by]
         /\ \A f \in DOMAIN library : f # 1 => reply'[library[f].by] = reply[library[f].by]
<1>1. TypeOK /\ LibraryOK /\ QueueOK /\ m.a \in Attempts /\ reply[m.a] = None
  BY Elements DEF IInv, Printer, WireOK
<1>2. reply'[m.a] = id /\ \A x \in Attempts : x # m.a => reply'[x] = reply[x]
  BY <1>1 DEF TypeOK
<1>3. /\ \A p \in DOMAIN queue : queue[p].by # m.a /\ queue[p].by \in Attempts
      /\ \A f \in DOMAIN library : /\ library[f].by # m.a
                                   /\ library[f].by \in Attempts \cup {None}
  BY <1>1, Unanswered, Elements
<1>4. \A f \in DOMAIN library : f # 1 => library[f].by \in Attempts
  <2> TAKE f \in DOMAIN library
  <2> HAVE f # 1
  <2>1. library[f].by \in 0..ops
    BY <1>1 DEF LibraryOK
  <2>2. library[f].by # None
    BY <2>1, NoneApart
  <2> QED BY <1>3, <2>2
<1> QED BY <1>2, <1>3, <1>4

\* The lists and what is answered of them, where an answer leaves them alone.
LEMMA LibraryKeeps ==
  ASSUME IInv, NEW m \in wire, NEW id, reply' = [reply EXCEPT ![m.a] = id],
         UNCHANGED <<library, retained, intents, ops>>
  PROVE  LibraryOK' /\ ImportsAreRetained'
<1>1. LibraryOK /\ ImportsAreRetained
  BY DEF IInv, Printer, Evidence
<1>2. \A f \in DOMAIN library : f # 1 => reply'[library[f].by] = reply[library[f].by]
  BY ReplyEffect
<1>3. LibraryOK'
  BY <1>1, <1>2 DEF LibraryOK
<1>4. ImportsAreRetained'
  BY <1>1 DEF ImportsAreRetained
<1> QED BY <1>3, <1>4

LEMMA QueueKeeps ==
  ASSUME IInv, NEW m \in wire, NEW id, reply' = [reply EXCEPT ![m.a] = id],
         UNCHANGED <<queue, intents, ops>>
  PROVE  QueueOK'
<1>1. QueueOK
  BY DEF IInv, Printer
<1>2. \A p \in DOMAIN queue : reply'[queue[p].by] = reply[queue[p].by]
  BY ReplyEffect
<1> QED BY <1>1, <1>2 DEF QueueOK

\* What is answered fits the lists, if it fits where it is new.
LEMMA RepliesKeep ==
  ASSUME IInv, NEW m \in wire, NEW id, reply' = [reply EXCEPT ![m.a] = id], UNCHANGED intents,
         Grown, id # Refused /\ intents[m.a] # None =>
           /\ intents[m.a].act = "import" => id \in DOMAIN library' /\ library'[id].by = m.a
           /\ intents[m.a].act = "stage"  => id \in DOMAIN queue' /\ queue'[id].by = m.a
           /\ intents[m.a].act = "start"  => id = intents[m.a].print
  PROVE  RepliesOK'
<1>1. RepliesOK
  BY DEF IInv, Printer
<1>2. reply'[m.a] = id /\ \A x \in Attempts : x # m.a => reply'[x] = reply[x]
  BY ReplyEffect
<1> SUFFICES ASSUME NEW x \in Attempts, Done(x)', intents[x] # None
             PROVE  /\ intents[x].act = "import" => reply'[x] \in DOMAIN library' /\ library'[reply'[x]].by = x
                    /\ intents[x].act = "stage"  => reply'[x] \in DOMAIN queue' /\ queue'[reply'[x]].by = x
                    /\ intents[x].act = "start"  => reply'[x] = intents[x].print
  BY DEF RepliesOK
<1>3. CASE x = m.a
  BY <1>2, <1>3 DEF Done
<1>4. CASE x # m.a
  <2>1. reply'[x] = reply[x] /\ Done(x)
    BY <1>2, <1>4 DEF Done
  <2>2. /\ intents[x].act = "import" => reply[x] \in DOMAIN library /\ library[reply[x]].by = x
        /\ intents[x].act = "stage"  => reply[x] \in DOMAIN queue /\ queue[reply[x]].by = x
        /\ intents[x].act = "start"  => reply[x] = intents[x].print
    BY <1>1, <2>1 DEF RepliesOK
  <2> QED BY <2>1, <2>2 DEF Grown
<1> QED BY <1>3, <1>4

\* A request is answered, with the lists as they are from now on.
LEMMA Answered ==
  ASSUME IInv, NEW m \in wire, Take(m), NEW id \in Files \cup Prints \cup {Refused},
         reply' = [reply EXCEPT ![m.a] = id],
         taken' = [taken EXCEPT ![m.a] = IF id = Refused THEN @ ELSE @ + 1],
         Grown, LibraryOK', QueueOK', RepliesOK', ImportsAreRetained',
         library' \in Seq([bytes : Slices, by : Attempts \cup {None}]), queue' \in Seq(Job)
  PROVE  IInv'
<1>1. /\ TypeOK /\ TakenOK /\ m \in Request /\ m.a \in Attempts /\ reply[m.a] = None
      /\ wire' = wire \ {m} /\ UNCHANGED <<source, disk, op, told, plate, bounds>>
  BY Elements DEF IInv, Printer, WireOK, Take
<1>2. /\ reply' \in [Attempts -> Files \cup Prints \cup {Refused, None}] /\ taken' \in [Attempts -> Nat]
      /\ reply'[m.a] = id /\ taken'[m.a] = IF id = Refused THEN taken[m.a] ELSE taken[m.a] + 1
      /\ \A x \in Attempts : x # m.a => reply'[x] = reply[x] /\ taken'[x] = taken[x]
  BY <1>1 DEF TypeOK
<1>3. TypeOK'
  BY <1>1, <1>2 DEF TypeOK, disk, bounds
<1>4. TakenOK'
  <2>1. taken[m.a] = 0 /\ id # None
    BY <1>1, NoneApart DEF TakenOK, Done
  <2> QED BY <1>1, <1>2, <2>1 DEF TakenOK, Done
<1>5. wire' \subseteq wire /\ m \in wire \ wire'
  BY <1>1
<1>6. \A x \in Attempts : \/ reply'[x] = reply[x]
                          \/ reply[x] = None /\ \E n \in wire \ wire' : n.a = x
  BY <1>1, <1>2, <1>5
<1> QED BY <1>1, <1>3, <1>4, <1>5, <1>6, BackendKeeps

\* An import or a stage adds to the library or the queue.
LEMMA ImportTaken ==
  ASSUME IInv, NEW m \in wire, Take(m), m.act = "import",
         library' = Append(library, [bytes |-> m.bytes, by |-> m.a]),
         Accept(m, Len(library) + 1), UNCHANGED queue
  PROVE  IInv'
<1> DEFINE id  == Len(library) + 1
           new == [bytes |-> m.bytes, by |-> m.a]
<1>1. /\ TypeOK /\ IdsOK /\ LibraryOK /\ WireOK /\ ImportsAreRetained
      /\ m \in Request /\ m.a \in Attempts /\ m.a \in 1..ops /\ reply[m.a] = None
      /\ UNCHANGED <<retained, intents, ops>>
  BY Elements DEF IInv, Printer, Evidence, WireOK, Take, disk, bounds
<1>2. /\ library \in Seq([bytes : Slices, by : Attempts \cup {None}]) /\ queue' \in Seq(Job)
      /\ Len(library) \in Nat /\ DOMAIN library = 1..Len(library) /\ Len(library) >= 2
  BY <1>1, LenProperties DEF TypeOK, LibraryOK
<1>3. id \in Files /\ id # Refused /\ id > 2 /\ id \in Nat
  BY <1>1, <1>2, LibraryRoom, NoneApart
<1>4. new \in [bytes : Slices, by : Attempts \cup {None}]
  BY <1>1 DEF Request
<1>5. /\ library' \in Seq([bytes : Slices, by : Attempts \cup {None}])
      /\ Len(library') = id /\ library'[id] = new
      /\ \A f \in DOMAIN library : library'[f] = library[f]
      /\ DOMAIN library' = 1..id
  BY <1>2, <1>4, AppendProperties, LenProperties
<1>6. Grown /\ \A f \in DOMAIN library' : f = id \/ f \in DOMAIN library
  BY <1>2, <1>5 DEF Grown
<1>7. reply' = [reply EXCEPT ![m.a] = id] /\ taken' = [taken EXCEPT ![m.a] = @ + 1]
  BY DEF Accept
<1>8. /\ intents[m.a] # None /\ intents[m.a].bytes = m.bytes /\ retained[m.a] = m.bytes
      /\ intents[m.a].evidence \in {None, m.bytes} /\ intents[m.a].act = "import"
  BY <1>1 DEF WireOK
<1>9. /\ reply'[m.a] = id
      /\ \A f \in DOMAIN library : f # 1 => reply'[library[f].by] = reply[library[f].by]
  BY <1>7, ReplyEffect
<1>10. new.by = m.a /\ new.bytes = m.bytes
  OBVIOUS
<1> HIDE DEF id, new
<1>11. LibraryOK'
  <2> SUFFICES ASSUME NEW f \in DOMAIN library', f # 1
               PROVE  library'[f].by \in 0..ops /\ reply'[library'[f].by] = f /\ (f > 2 => library'[f].by # 0)
    <3>1. 1 \in DOMAIN library /\ library[1].by = None
      BY <1>1, <1>2 DEF LibraryOK
    <3> QED BY <1>1, <1>2, <1>3, <1>5, <3>1 DEF LibraryOK
  <2>1. CASE f = id
    BY <1>1, <1>5, <1>9, <1>10, <2>1
  <2>2. CASE f \in DOMAIN library
    BY <1>1, <1>5, <1>9, <2>2 DEF LibraryOK
  <2> QED BY <1>6, <2>1, <2>2
<1>12. ImportsAreRetained'
  <2> SUFFICES ASSUME NEW f \in DOMAIN library', library'[f].by # None
               PROVE  LET x == library'[f].by IN
                        /\ intents[x] # None /\ intents[x].act = "import"
                        /\ library'[f].bytes = intents[x].bytes /\ library'[f].bytes = retained[x]
                        /\ intents[x].evidence \in {None, library'[f].bytes}
    BY <1>1 DEF ImportsAreRetained
  <2>1. CASE f = id
    BY <1>5, <1>8, <1>10, <2>1
  <2>2. CASE f \in DOMAIN library
    BY <1>1, <1>5, <2>2 DEF ImportsAreRetained
  <2> QED BY <1>6, <2>1, <2>2
<1>13. RepliesOK'
  <2>1. id \in DOMAIN library' /\ library'[id].by = m.a
    BY <1>3, <1>5, <1>10
  <2> QED BY <1>1, <1>6, <1>7, <1>8, <2>1, RepliesKeep
<1>14. QueueOK'
  BY <1>1, <1>7, QueueKeeps
<1>15. taken' = [taken EXCEPT ![m.a] = IF id = Refused THEN @ ELSE @ + 1]
  BY <1>3, <1>7
<1> QED BY <1>2, <1>3, <1>5, <1>6, <1>7, <1>11, <1>12, <1>13, <1>14, <1>15, Answered

LEMMA StageTaken ==
  ASSUME IInv, NEW m \in wire, Take(m), m.act = "stage", Accept(m, Len(queue) + 1),
         UNCHANGED library,
         queue' = Append(queue, [file |-> m.file, by |-> m.a, status |-> "pending",
                                 manual |-> m.manual, setup |-> m.setup])
  PROVE  IInv'
<1> DEFINE id  == Len(queue) + 1
           new == [file |-> m.file, by |-> m.a, status |-> "pending",
                   manual |-> m.manual, setup |-> m.setup]
<1>1. /\ TypeOK /\ IdsOK /\ LibraryOK /\ QueueOK /\ WireOK
      /\ m \in Request /\ m.a \in Attempts /\ m.a \in 1..ops /\ reply[m.a] = None
      /\ UNCHANGED <<retained, intents, ops>>
  BY Elements DEF IInv, Printer, WireOK, Take, disk, bounds
<1>2. /\ queue \in Seq(Job) /\ library' \in Seq([bytes : Slices, by : Attempts \cup {None}])
      /\ Len(queue) \in Nat /\ DOMAIN queue = 1..Len(queue)
  BY <1>1, LenProperties DEF TypeOK
<1>3. id \in Prints /\ id # Refused /\ id \in Nat
  BY <1>1, <1>2, QueueRoom, NoneApart
<1>4. /\ m.file \in DOMAIN library /\ m.manual
      /\ intents[m.a] # None => intents[m.a].act = "stage" /\ intents[m.a].file = m.file
  BY <1>1 DEF WireOK
<1>5. new \in Job
  <2>1. m.file \in Files
    BY <1>1, <1>4, Elements DEF Request, Files
  <2> QED BY <1>1, <2>1 DEF Request, Job
<1>6. /\ queue' \in Seq(Job) /\ Len(queue') = id /\ queue'[id] = new
      /\ \A p \in DOMAIN queue : queue'[p] = queue[p]
      /\ DOMAIN queue' = 1..id
  BY <1>2, <1>5, AppendProperties, LenProperties
<1>7. Grown /\ \A p \in DOMAIN queue' : p = id \/ p \in DOMAIN queue
  BY <1>2, <1>6 DEF Grown
<1>8. reply' = [reply EXCEPT ![m.a] = id] /\ taken' = [taken EXCEPT ![m.a] = @ + 1]
  BY DEF Accept
<1>9. /\ reply'[m.a] = id
      /\ \A p \in DOMAIN queue : reply'[queue[p].by] = reply[queue[p].by]
  BY <1>8, ReplyEffect
<1>10. new.by = m.a /\ new.file = m.file /\ new.status = "pending" /\ new.manual
  BY <1>4
<1> HIDE DEF id, new
<1>11. QueueOK'
  <2> SUFFICES ASSUME NEW p \in DOMAIN queue'
               PROVE  LET a == queue'[p].by IN
                        /\ a \in 1..ops /\ reply'[a] = p
                        /\ intents[a] # None => intents[a].act = "stage" /\ intents[a].file = queue'[p].file
                        /\ queue'[p].status \in {"printing", "completed"} => ~queue'[p].manual
                        /\ ~queue'[p].manual /\ intents[a] # None =>
                             \E b \in Attempts : /\ intents[b] # None /\ intents[b].act = "start"
                                                 /\ intents[b].print = p
    BY <1>1 DEF QueueOK
  <2>1. CASE p = id
    BY <1>1, <1>4, <1>6, <1>9, <1>10, <2>1
  <2>2. CASE p \in DOMAIN queue
    BY <1>1, <1>6, <1>9, <2>2 DEF QueueOK
  <2> QED BY <1>7, <2>1, <2>2
<1>12. LibraryOK' /\ ImportsAreRetained'
  BY <1>1, <1>8, LibraryKeeps
<1>13. RepliesOK'
  <2>1. id \in DOMAIN queue' /\ queue'[id].by = m.a
    BY <1>3, <1>6, <1>10 DEF Prints
  <2> QED BY <1>1, <1>4, <1>7, <1>8, <2>1, RepliesKeep
<1>14. taken' = [taken EXCEPT ![m.a] = IF id = Refused THEN @ ELSE @ + 1]
  BY <1>3, <1>8
<1> QED BY <1>2, <1>3, <1>6, <1>7, <1>8, <1>11, <1>12, <1>13, <1>14, Answered

\* A start, an update and a cancellation change an entry that waits; a start
\* lets it run, and is on record where its staging is.
LEMMA JobChanged ==
  ASSUME IInv, NEW m \in wire, Take(m), m.act \in {"start", "update", "cancel"},
         Pending(m.print), Accept(m, m.print), UNCHANGED library, NEW new \in Job,
         queue' = [queue EXCEPT ![m.print] = new],
         new.file = queue[m.print].file, new.by = queue[m.print].by,
         new.status \in {"pending", "cancelled"}, m.act # "start" =>
           new.manual \/ new.manual = queue[m.print].manual
  PROVE  IInv'
<1> DEFINE id == m.print
<1>1. /\ TypeOK /\ IdsOK /\ LibraryOK /\ QueueOK /\ WireOK
      /\ m \in Request /\ m.a \in Attempts /\ m.a \in 1..ops /\ reply[m.a] = None
      /\ UNCHANGED <<retained, intents, ops>>
  BY Elements DEF IInv, Printer, WireOK, Take, disk, bounds
<1>2. /\ queue \in Seq(Job) /\ library' \in Seq([bytes : Slices, by : Attempts \cup {None}])
      /\ id \in DOMAIN queue
      /\ intents[m.a] # None => intents[m.a].act = m.act
      /\ m.act = "start" => /\ intents[m.a] # None => intents[m.a].print = id
                            /\ intents[m.a] = None => intents[queue[id].by] = None
  BY <1>1 DEF TypeOK, WireOK
<1>3. id \in Prints /\ id # Refused
  BY <1>1, <1>2, QueueRoom, NoneApart
<1>4. /\ queue' \in Seq(Job) /\ DOMAIN queue' = DOMAIN queue /\ queue'[id] = new
      /\ \A p \in DOMAIN queue : p # id => queue'[p] = queue[p]
  BY <1>2, ExceptSeq
<1>5. Grown
  BY <1>4 DEF Grown, Pending
<1>6. reply' = [reply EXCEPT ![m.a] = id] /\ taken' = [taken EXCEPT ![m.a] = @ + 1]
  BY DEF Accept
<1>7. \A p \in DOMAIN queue : reply'[queue[p].by] = reply[queue[p].by]
  BY <1>6, ReplyEffect
<1>8. QueueOK'
  <2> SUFFICES ASSUME NEW p \in DOMAIN queue
               PROVE  LET a == queue'[p].by IN
                        /\ a \in 1..ops /\ reply'[a] = p
                        /\ intents[a] # None => intents[a].act = "stage" /\ intents[a].file = queue'[p].file
                        /\ queue'[p].status \in {"printing", "completed"} => ~queue'[p].manual
                        /\ ~queue'[p].manual /\ intents[a] # None =>
                             \E b \in Attempts : /\ intents[b] # None /\ intents[b].act = "start"
                                                 /\ intents[b].print = p
    BY <1>1, <1>4 DEF QueueOK
  <2>1. CASE p # id
    BY <1>1, <1>4, <1>7, <2>1 DEF QueueOK
  <2>2. CASE p = id
    <3> DEFINE a == queue[id].by
    <3>1. /\ queue'[p].by = a /\ queue'[p].file = queue[id].file
          /\ queue'[p].status \in {"pending", "cancelled"} /\ queue'[p].manual = new.manual
      BY <1>4, <2>2
    <3>2. /\ a \in 1..ops /\ reply'[a] = id
          /\ intents[a] # None => intents[a].act = "stage" /\ intents[a].file = queue[id].file
          /\ ~queue[id].manual /\ intents[a] # None =>
               \E b \in Attempts : /\ intents[b] # None /\ intents[b].act = "start"
                                   /\ intents[b].print = id
      BY <1>1, <1>2, <1>7 DEF QueueOK
    <3>3. ~new.manual /\ intents[a] # None =>
             \E b \in Attempts : /\ intents[b] # None /\ intents[b].act = "start"
                                 /\ intents[b].print = id
      <4>1. CASE m.act = "start"
        BY <1>1, <1>2, <4>1
      <4>2. CASE m.act # "start"
        BY <3>2, <4>2
      <4> QED BY <4>1, <4>2
    <3> HIDE DEF a
    <3> QED BY <2>2, <3>1, <3>2, <3>3
  <2> QED BY <2>1, <2>2
<1>9. LibraryOK' /\ ImportsAreRetained'
  BY <1>1, <1>6, LibraryKeeps
<1>10. RepliesOK'
  BY <1>1, <1>2, <1>5, <1>6, RepliesKeep
<1>11. taken' = [taken EXCEPT ![m.a] = IF id = Refused THEN @ ELSE @ + 1]
  BY <1>3, <1>6
<1> QED BY <1>2, <1>3, <1>4, <1>5, <1>6, <1>8, <1>9, <1>10, <1>11, Answered

LEMMA TakeStep ==
  ASSUME IInv, NEW m \in wire, Take(m)
  PROVE  IInv'
<1>1. /\ TypeOK /\ WireOK /\ m \in Request /\ m.manual
      /\ UNCHANGED <<retained, intents, ops>>
      /\ queue \in Seq(Job) /\ library \in Seq([bytes : Slices, by : Attempts \cup {None}])
  BY Elements DEF IInv, Printer, WireOK, Take, disk, bounds, TypeOK
<1>2. ASSUME m.act \in {"start", "update", "cancel"}
      PROVE  queue[m.print] \in Job /\ m.print \in DOMAIN queue
  BY <1>1, <1>2, Elements DEF WireOK
<1>3. CASE reply' = [reply EXCEPT ![m.a] = Refused] /\ UNCHANGED <<library, queue, taken>>
  <2>1. taken' = [taken EXCEPT ![m.a] = IF Refused = Refused THEN @ ELSE @ + 1]
    BY <1>1, <1>3 DEF TypeOK
  <2>2. Grown
    BY <1>3 DEF Grown
  <2>3. LibraryOK' /\ ImportsAreRetained' /\ QueueOK' /\ RepliesOK'
    BY <1>1, <1>3, <2>2, LibraryKeeps, QueueKeeps, RepliesKeep
  <2> QED BY <1>1, <1>3, <2>1, <2>2, <2>3, Answered
<1>4. CASE m.act = "import" /\ library' = Append(library, [bytes |-> m.bytes, by |-> m.a])
           /\ Accept(m, Len(library) + 1) /\ UNCHANGED queue
  BY <1>4, ImportTaken
<1>5. CASE /\ m.act = "stage" /\ Accept(m, Len(queue) + 1) /\ UNCHANGED library
           /\ queue' = Append(queue, [file |-> m.file, by |-> m.a, status |-> "pending",
                                      manual |-> m.manual, setup |-> m.setup])
  BY <1>5, StageTaken
<1>6. CASE m.act = "start" /\ Pending(m.print) /\ Accept(m, m.print) /\ UNCHANGED library
           /\ queue' = [queue EXCEPT ![m.print].manual = FALSE]
  <2> DEFINE new == [queue[m.print] EXCEPT !.manual = FALSE]
  <2>1. new \in Job /\ new.file = queue[m.print].file /\ new.by = queue[m.print].by
        /\ new.status = "pending"
    BY <1>2, <1>6 DEF Job, Pending
  <2>2. queue' = [queue EXCEPT ![m.print] = new]
    BY <1>6
  <2> HIDE DEF new
  <2> QED BY <1>6, <2>1, <2>2, JobChanged
<1>7. CASE m.act = "update" /\ Pending(m.print) /\ Accept(m, m.print) /\ UNCHANGED library
           /\ queue' = [queue EXCEPT ![m.print].setup = m.setup, ![m.print].manual = m.manual]
  <2> DEFINE new == [queue[m.print] EXCEPT !.setup = m.setup, !.manual = m.manual]
  <2>1. new \in Job /\ new.file = queue[m.print].file /\ new.by = queue[m.print].by
        /\ new.status = "pending" /\ new.manual
    BY <1>1, <1>2, <1>7 DEF Job, Pending, Request
  <2>2. queue' = [queue EXCEPT ![m.print] = new]
    BY <1>7
  <2> HIDE DEF new
  <2> QED BY <1>7, <2>1, <2>2, JobChanged
<1>8. CASE m.act = "cancel" /\ Pending(m.print) /\ Accept(m, m.print) /\ UNCHANGED library
           /\ queue' = [queue EXCEPT ![m.print].status = "cancelled"]
  <2> DEFINE new == [queue[m.print] EXCEPT !.status = "cancelled"]
  <2>1. new \in Job /\ new.file = queue[m.print].file /\ new.by = queue[m.print].by
        /\ new.status = "cancelled" /\ new.manual = queue[m.print].manual
    BY <1>2, <1>8 DEF Job
  <2>2. queue' = [queue EXCEPT ![m.print] = new]
    BY <1>8
  <2> HIDE DEF new
  <2> QED BY <1>8, <2>1, <2>2, JobChanged
<1> QED BY <1>3, <1>4, <1>5, <1>6, <1>7, <1>8 DEF Take

\* The printer takes a job and ends it; whoever clears the plate changes no job.
LEMMA PrinterSteps ==
  ASSUME IInv, NEW p \in DOMAIN queue, NEW s \in {"printing", "completed"},
         queue[p].status \in {"pending", "printing"}, ~queue[p].manual,
         queue[p].status = "printing" => s = "completed",
         queue' = [queue EXCEPT ![p].status = s], plate' \in BOOLEAN,
         UNCHANGED <<source, disk, op, told, library, wire, reply, taken, bounds>>
  PROVE  IInv'
<1> DEFINE new == [queue[p] EXCEPT !.status = s]
<1>1. TypeOK /\ TakenOK /\ LibraryOK /\ QueueOK /\ RepliesOK /\ ImportsAreRetained
      /\ queue \in Seq(Job) /\ queue[p] \in Job
      /\ UNCHANGED <<retained, intents, ops>>
  BY Elements DEF IInv, Printer, Evidence, TypeOK, disk, bounds
<1>2. new \in Job /\ new.file = queue[p].file /\ new.by = queue[p].by /\ new.status = s
      /\ ~new.manual
  BY <1>1 DEF Job
<1>3. queue' = [queue EXCEPT ![p] = new]
  OBVIOUS
<1> HIDE DEF new
<1>4. /\ queue' \in Seq(Job) /\ DOMAIN queue' = DOMAIN queue /\ queue'[p] = new
      /\ \A q \in DOMAIN queue : q # p => queue'[q] = queue[q]
  BY <1>1, <1>2, <1>3, ExceptSeq
<1>5. Grown
  BY <1>2, <1>4 DEF Grown
<1>6. TypeOK'
  BY <1>1, <1>4 DEF TypeOK, disk, bounds
<1>7. QueueOK'
  <2> SUFFICES ASSUME NEW q \in DOMAIN queue
               PROVE  LET a == queue'[q].by IN
                        /\ a \in 1..ops /\ reply[a] = q
                        /\ intents[a] # None => intents[a].act = "stage" /\ intents[a].file = queue'[q].file
                        /\ queue'[q].status \in {"printing", "completed"} => ~queue'[q].manual
                        /\ ~queue'[q].manual /\ intents[a] # None =>
                             \E b \in Attempts : /\ intents[b] # None /\ intents[b].act = "start"
                                                 /\ intents[b].print = q
    BY <1>1, <1>4 DEF QueueOK
  <2>1. CASE q # p
    BY <1>1, <1>4, <2>1 DEF QueueOK
  <2>2. CASE q = p
    BY <1>1, <1>2, <1>4, <2>2 DEF QueueOK
  <2> QED BY <2>1, <2>2
<1>8. RepliesOK'
  BY <1>1, <1>5 DEF RepliesOK, Done, Grown
<1>9. LibraryOK' /\ TakenOK' /\ ImportsAreRetained'
  BY <1>1 DEF LibraryOK, TakenOK, ImportsAreRetained, Done
<1> QED BY <1>5, <1>6, <1>7, <1>8, <1>9, BackendKeeps

LEMMA BambuddyStep ==
  ASSUME IInv, Bambuddy
  PROVE  IInv'
<1>1. TypeOK /\ QueueOK
  BY DEF IInv, Printer
<1>2. ASSUME NEW m \in wire, Take(m)
      PROVE  IInv'
  BY <1>2, TakeStep
<1>3. ASSUME NEW p \in Prints, BeginPrinting(p)
      PROVE  IInv'
  <2>1. plate' \in BOOLEAN
    BY <1>1, <1>3 DEF BeginPrinting, TypeOK
  <2> QED BY <1>3, <2>1, PrinterSteps DEF BeginPrinting, Pending
<1>4. ASSUME NEW p \in Prints, Complete(p)
      PROVE  IInv'
  <2>1. ~queue[p].manual
    BY <1>1, <1>4 DEF Complete, QueueOK
  <2> QED BY <1>4, <2>1, PrinterSteps DEF Complete
<1>5. ASSUME ClearPlate
      PROVE  IInv'
  <2>1. /\ TakenOK /\ LibraryOK /\ QueueOK /\ RepliesOK /\ ImportsAreRetained
        /\ UNCHANGED <<source, disk, op, told, library, queue, wire, reply, taken, bounds>>
        /\ UNCHANGED <<retained, intents, ops>>
    BY <1>5 DEF IInv, Printer, Evidence, ClearPlate, disk, bounds
  <2>2. Grown
    BY <2>1 DEF Grown
  <2>3. TypeOK'
    BY <1>1, <1>5, <2>1 DEF TypeOK, disk, bounds, ClearPlate
  <2>4. LibraryOK' /\ TakenOK' /\ ImportsAreRetained'
    BY <2>1 DEF LibraryOK, TakenOK, ImportsAreRetained, Done
  <2>5. QueueOK' /\ RepliesOK'
    BY <2>1 DEF QueueOK, RepliesOK, Done
  <2> QED BY <2>1, <2>2, <2>3, <2>4, <2>5, BackendKeeps
<1> QED BY <1>2, <1>3, <1>4, <1>5 DEF Bambuddy

-----------------------------------------------------------------------------
(* The whole of it.                                                        *)

\* The file is sliced anew; nothing that is known of a request depends on it.
LEMMA SliceStep ==
  ASSUME IInv, Slice
  PROVE  IInv'
<1>1. TypeOK /\ IdsOK /\ Printer /\ WireOK /\ Evidence /\ ObservedOK /\ AnsweredOK
  BY DEF IInv, Printer
<1>2. UNCHANGED <<disk, op, told, backend, bounds>> /\ source' = source + 1 /\ source < MaxSlices
  BY DEF Slice
<1>3. TypeOK'
  BY <1>1, <1>2, NoneApart DEF TypeOK, Slices, disk, backend, bounds
<1>4. TakenOK' /\ LibraryOK' /\ QueueOK' /\ RepliesOK' /\ Evidence' /\ ObservedOK'
  BY <1>1, <1>2, QuietKeeps DEF bounds
<1>5. WireOK' /\ IdsOK' /\ AnsweredOK'
  BY <1>1, <1>2 DEF WireOK, IdsOK, AnsweredOK, Live, Done, disk, backend, bounds
<1>6. ASSUME NEW d \in Clients PROVE OpOK(d)'
  <2>1. OpOK(d) /\ Leaves(d)
    BY <1>2 DEF IInv, Leaves, disk, backend
  <2> QED BY <1>1, <2>1, OthersKeep
<1> QED BY <1>3, <1>4, <1>5, <1>6 DEF IInv, Printer

\* A restart takes the requests out of the clients' hands.
LEMMA RestartStep ==
  ASSUME IInv, Restart
  PROVE  IInv'
<1>1. TypeOK /\ IdsOK /\ Printer /\ WireOK /\ Evidence /\ ObservedOK /\ AnsweredOK
  BY DEF IInv, Printer
<1>2. /\ \A d \in Clients : op'[d] = NoOp /\ ~Live(d)'
      /\ UNCHANGED <<source, disk, told, backend, ops, faults>> /\ restarts' = restarts + 1
      /\ op' \in [Clients -> Op]
  BY Requests DEF Restart, Live
<1>3. TypeOK'
  BY <1>1, <1>2 DEF TypeOK, disk, backend
<1>4. TakenOK' /\ LibraryOK' /\ QueueOK' /\ RepliesOK' /\ Evidence' /\ ObservedOK'
  BY <1>1, <1>2, QuietKeeps
<1>5. WireOK' /\ AnsweredOK'
  BY <1>1, <1>2 DEF WireOK, AnsweredOK, Done, disk, backend
<1>6. IdsOK'
  BY <1>1, <1>2 DEF IdsOK, disk, backend
<1>7. \A d \in Clients : OpOK(d)'
  BY <1>2, GoneOK
<1> QED BY <1>3, <1>4, <1>5, <1>6, <1>7 DEF IInv, Printer

LEMMA InvariantStep ==
  ASSUME IInv, [Next]_vars
  PROVE  IInv'
<1>1. ASSUME NEW c \in Clients, Step(c)
      PROVE  IInv'
  BY <1>1, RetainStep, CheckSteps, IntentStep, SendStep, AnswerSteps, ReceiptStep, LinkStep,
     ObserveStep DEF Step
<1>2. CASE UNCHANGED vars
  <2>1. TypeOK /\ IdsOK /\ Printer /\ WireOK /\ Evidence /\ ObservedOK /\ AnsweredOK
    BY DEF IInv, Printer
  <2>2. UNCHANGED <<source, disk, op, told, backend, bounds>>
    BY <1>2 DEF vars
  <2>3. TypeOK'
    BY <2>1, <2>2 DEF TypeOK, disk, backend, bounds
  <2>4. TakenOK' /\ LibraryOK' /\ QueueOK' /\ RepliesOK' /\ Evidence' /\ ObservedOK'
    BY <2>1, <2>2, QuietKeeps DEF bounds
  <2>5. WireOK' /\ IdsOK' /\ AnsweredOK'
    BY <2>1, <2>2 DEF WireOK, IdsOK, AnsweredOK, Live, Done, disk, backend, bounds
  <2>6. ASSUME NEW d \in Clients PROVE OpOK(d)'
    <3>1. OpOK(d) /\ Leaves(d)
      BY <2>2 DEF IInv, Leaves, disk, backend
    <3> QED BY <2>1, <3>1, OthersKeep
  <2> QED BY <2>3, <2>4, <2>5, <2>6 DEF IInv, Printer
<1> QED BY <1>1, <1>2, CallStep, SliceStep, RestartStep, BambuddyStep DEF Next

\* What was there before the clients' requests: one file by hand, one imported.
LEMMA InitInvariant ==
  ASSUME Init
  PROVE  IInv
<1> USE NoneApart
<1> DEFINE Entry == [bytes : Slices, by : Attempts \cup {None}]
           hand  == [bytes |-> 0, by |-> None]
           mine  == [bytes |-> 0, by |-> 0]
           first == [act |-> "import", bytes |-> 0, evidence |-> 0]
<1>1. 0 \in Attempts /\ 0 \in Slices /\ 2 \in Files /\ 1 \in Files
  BY DEF Attempts, Slices, Files
<1>2. first \in Intent /\ first # None /\ first.act = "import" /\ first.bytes = 0 /\ first.evidence = 0
  BY <1>1 DEF Intent
<1>3. hand \in Entry /\ mine \in Entry /\ hand.by = None /\ mine.by = 0 /\ mine.bytes = 0
  BY <1>1
<1> HIDE DEF first, hand, mine
<1>4. /\ \A x \in Attempts : /\ retained[x] = IF x = 0 THEN 0 ELSE None
                             /\ intents[x] = IF x = 0 THEN first ELSE None
                             /\ receipts[x] = IF x = 0 THEN 2 ELSE None
                             /\ reply[x] = IF x = 0 THEN 2 ELSE None
                             /\ told[x] = IF x = 0 THEN "done" ELSE "nothing"
                             /\ taken[x] = IF x = 0 THEN 1 ELSE 0
      /\ \A f \in Files : assoc[f] = IF f = 2 THEN 0 ELSE None
      /\ links = {} /\ observations = {} /\ wire = {} /\ queue = <<>> /\ ops = 0
      /\ \A c \in Clients : op[c] = NoOp
  BY DEF Init, Only, first
<1>5. /\ library \in Seq(Entry) /\ Len(library) = 2 /\ DOMAIN library = {1, 2}
      /\ library[1] = hand /\ library[2] = mine
  <2>1. library = <<hand, mine>>
    BY DEF Init, hand, mine
  <2> HIDE DEF Entry
  <2> QED BY <1>3, <2>1
<1>6. queue \in Seq(Job) /\ DOMAIN queue = {} /\ Len(queue) = 0
  BY <1>4
<1>7. TypeOK
  <2>1. /\ retained \in [Attempts -> Slices \cup {None}]
        /\ intents \in [Attempts -> Intent \cup {None}]
        /\ receipts \in [Attempts -> Files \cup Prints \cup {None}]
        /\ assoc \in [Files -> Attempts \cup {None}]
    BY <1>1, <1>2 DEF Init, Only, first
  <2>2. /\ op \in [Clients -> Op] /\ told \in [Attempts -> Words]
        /\ reply \in [Attempts -> Files \cup Prints \cup {Refused, None}]
        /\ taken \in [Attempts -> Nat]
    BY <1>1, Requests DEF Init, Only, Words
  <2>3. source \in Slices /\ plate \in BOOLEAN /\ {ops, faults, restarts} \subseteq Nat
    BY <1>1 DEF Init
  <2> QED BY <1>4, <1>5, <1>6, <2>1, <2>2, <2>3 DEF TypeOK
<1>8. IdsOK
  BY <1>4, Requests DEF IdsOK, Live
<1>9. TakenOK /\ WireOK /\ QueueOK
  BY <1>4, <1>6 DEF TakenOK, Done, WireOK, QueueOK, Refused
<1>10. LibraryOK
  BY <1>1, <1>3, <1>4, <1>5 DEF LibraryOK
<1>11. RepliesOK /\ IntentsOK /\ ReceiptsOK
  BY <1>1, <1>2, <1>3, <1>4, <1>5 DEF RepliesOK, IntentsOK, ReceiptsOK, Done
<1>12. LinksOK /\ ObservedOK
  BY <1>4 DEF LinksOK, ObservedOK
<1>13. ImportsAreRetained
  BY <1>1, <1>2, <1>3, <1>4, <1>5 DEF ImportsAreRetained
<1>14. AnsweredOK
  BY <1>1, <1>4 DEF AnsweredOK, Done, Refused
<1>15. \A c \in Clients : OpOK(c)
  BY <1>4, Requests DEF OpOK, Acts, Early, Unsent, Late
<1> QED BY <1>7, <1>8, <1>9, <1>10, <1>11, <1>12, <1>13, <1>14, <1>15 DEF IInv, Printer, Evidence

THEOREM Invariance == Spec => []IInv
<1>1. Init => IInv
  BY InitInvariant
<1>2. IInv /\ [Next]_vars => IInv'
  BY InvariantStep
<1> QED BY <1>1, <1>2, PTL DEF Spec

-----------------------------------------------------------------------------
(* What the runs check, for every value of the constants.                   *)

\* Whatever clients, storage, Bambuddy and restarts do, the records are records,
\* numbers stay in their ranges, and the two lists of Bambuddy stay lists.
THEOREM TypeCorrect == Spec => []TypeOK
<1>1. IInv => TypeOK
  BY DEF IInv
<1> QED BY <1>1, Invariance, PTL

\* A receipt is the answer to a request with an intent (delivery.rs, accepted),
\* and what Bambuddy made of it is there.
LEMMA ReceiptsHold == ASSUME IInv PROVE ReceiptsAreTrue
<1> SUFFICES ASSUME NEW a \in Attempts, receipts[a] # None
             PROVE  /\ taken[a] = 1 /\ intents[a] # None
                    /\ CASE intents[a].act = "import" -> library[receipts[a]].by = a
                         [] intents[a].act = "stage"  -> queue[receipts[a]].by = a
                         [] intents[a].act = "start"  -> receipts[a] = intents[a].print
  BY DEF ReceiptsAreTrue
<1>1. receipts[a] = reply[a] /\ Done(a) /\ intents[a] # None /\ taken[a] = 1
  BY DEF IInv, Evidence, Printer, ReceiptsOK, TakenOK
<1>2. /\ intents[a].act = "import" => library[reply[a]].by = a
      /\ intents[a].act = "stage"  => queue[reply[a]].by = a
      /\ intents[a].act = "start"  => reply[a] = intents[a].print
  BY <1>1 DEF IInv, Printer, RepliesOK
<1>3. intents[a] \in Intent
  BY <1>1 DEF IInv, TypeOK
<1>4. intents[a].act \in {"import", "stage", "start"}
  BY <1>3 DEF Intent
<1> QED BY <1>1, <1>2, <1>4

\* The links of a print lead to submissions of this print and of its file.
LEMMA LinksHold == ASSUME IInv PROVE LinksFit
<1> USE NoneApart
<1>1. TypeOK /\ LinksOK /\ ReceiptsOK /\ RepliesOK /\ QueueOK /\ IntentsOK
  BY DEF IInv, Evidence, Printer
<1> SUFFICES ASSUME NEW p \in DOMAIN queue, NEW a \in Attempts, <<p, a>> \in links
             PROVE  LinkFits(p, a, assoc[queue[p].file])
  BY DEF LinksFit, Submissions
<1>2. receipts[a] = p /\ intents[a].act \in {"stage", "start"}
  BY <1>1 DEF LinksOK
<1>3. p # None
  BY <1>1, Elements
<1>4. reply[a] = p /\ Done(a) /\ intents[a] # None
  BY <1>1, <1>2, <1>3 DEF ReceiptsOK
<1>5. CASE intents[a].act = "stage"
  <2>1. queue[p].by = a
    BY <1>1, <1>4, <1>5 DEF RepliesOK
  <2>2. intents[a].file = queue[p].file
    BY <1>1, <1>4, <2>1 DEF QueueOK
  <2> QED BY <1>2, <1>5, <2>2 DEF LinkFits
<1>6. CASE intents[a].act = "start"
  <2>1. intents[a].print = p
    BY <1>1, <1>4, <1>6 DEF RepliesOK
  <2>2. intents[a].job.file = queue[p].file
    BY <1>1, <1>4, <1>6, <2>1 DEF IntentsOK
  <2> QED BY <1>2, <1>6, <2>2 DEF LinkFits
<1> QED BY <1>2, <1>5, <1>6

\* The evidence is what happened: every import that Bambuddy has from here is
\* retained with its bytes and intent, every receipt is of a request that was
\* taken, and no link refuses a later observation; whatever failed or restarted.
THEOREM EvidenceTrue == Spec => []EvidenceIsTrue
<1>1. IInv => EvidenceIsTrue
  BY ReceiptsHold, LinksHold DEF EvidenceIsTrue, IInv, Evidence
<1> QED BY <1>1, Invariance, PTL

\* What a caller is told is so and stays so, and no request is done twice, for
\* any delay of a request on its way: delivery.rs gives up waiting, never resends.
THEOREM AnswersTrue == Spec => []AnswersAreTrue
<1>1. IInv => AnswersAreTrue
  <2> SUFFICES ASSUME IInv, NEW a \in Attempts
               PROVE  /\ taken[a] <= 1
                      /\ told[a] = "not_done" => taken[a] = 0 /\ \A m \in wire : m.a # a
                      /\ told[a] = "unsaved" /\ intents[a] # None => taken[a] = 1
                      /\ told[a] = "done" /\ intents[a] # None => taken[a] = 1 /\ receipts[a] # None
    BY DEF AnswersAreTrue
  <2>1. taken[a] = IF Done(a) THEN 1 ELSE 0
    BY DEF IInv, Printer, TakenOK
  <2>2. told[a] = "not_done" => ~Done(a) /\ \A m \in wire : m.a # a
    BY DEF IInv, Printer, AnsweredOK, WireOK
  <2>3. /\ told[a] \in {"unsaved", "done"} /\ intents[a] # None => Done(a)
        /\ told[a] = "done" /\ intents[a] # None => receipts[a] # None
    BY DEF IInv, AnsweredOK
  <2> QED BY <2>1, <2>2, <2>3
<1> QED BY <1>1, Invariance, PTL

\* A staged print runs only after a start that is on record: stage and update
\* both ask for a manual start (print_jobs.rs), and the intent of a start is
\* stored before it is sent wherever the staging's was.
THEOREM StartsRecorded == Spec => []StartsAreOnRecord
<1>1. IInv => StartsAreOnRecord
  BY DEF IInv, Printer, QueueOK, StartsAreOnRecord
<1> QED BY <1>1, Invariance, PTL

\* A retained observation never says more than what the queue went through, and
\* lists only submissions that Bambuddy took (delivery.rs, observe).
THEOREM ObservationsTrue == Spec => []ObservationsAreTrue
<1>1. IInv => ObservationsAreTrue
  <2> SUFFICES ASSUME IInv, NEW o \in observations
               PROVE  /\ o.execution = "printing"  => queue[o.print].status \in {"printing", "completed"}
                      /\ o.execution = "completed" => queue[o.print].status = "completed"
                      /\ \A a \in o.submissions : taken[a] = 1
    BY DEF ObservationsAreTrue
  <2>1. /\ o.execution \in {"printing", "completed"} =>
             queue[o.print].status \in {o.execution, "completed"}
        /\ \A a \in o.submissions : Done(a)
    BY DEF IInv, ObservedOK
  <2>2. o.submissions \subseteq Attempts
    BY DEF IInv, TypeOK
  <2> QED BY <2>1, <2>2 DEF IInv, Printer, TakenOK
<1> QED BY <1>1, Invariance, PTL

=============================================================================
