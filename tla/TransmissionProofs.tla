------------------------- MODULE TransmissionProofs -------------------------
(***************************************************************************)
(* Proofs about DocumentTransmission, for any documents, rows, workers and *)
(* requests.  Three things are carried along: what the outbox guarantees   *)
(* of its rows (one handler per open row, one open check per document),    *)
(* what a handler knows of the document and of the SRI between its         *)
(* statements, and which row or step of a handler takes each document on.  *)
(***************************************************************************)
EXTENDS DocumentTransmission, TLAPS

USE TransmissionAssumption

-----------------------------------------------------------------------------
(* The outbox.                                                             *)

Holds(t, e) == t.phase \in {"running", "succeeded"} /\ t.effect = e

\* A handler holds an open row, alone; a document has one open check; a row that was
\* never created has no run.
RowsInv ==
    /\ RunsTypeOK
    /\ \A w \in Workers, e \in Effects : Holds(task[w], e) => effect[e] = "open"
    /\ \A v, w \in Workers, e \in Effects : Holds(task[v], e) /\ Holds(task[w], e) => v = w
    /\ \A e, f \in Polling : effect[e] = "open" /\ effect[f] = "open" /\ KeyOf[e] = KeyOf[f] => e = f
    /\ \A w \in Workers : task[w] # Idle => effect[task[w].effect] # "absent"

-----------------------------------------------------------------------------
(* Handlers.  t and h are the task and the hand of a worker; dc, sr and ov *)
(* are doc, sri and Astray, before or after a step.                    *)

SendPlaces  == {"start", "sending", "sent", "received", "end"}
CheckPlaces == {"start", "asking", "asked", "authorized", "notified", "end"}

Sending(t, h) == t.phase = "running" /\ t.effect \in Sends /\ h.at \in {"sending", "sent"}
Asking(t, h)  == t.phase = "running" /\ t.effect \in Polling /\ h.at \in {"asking", "asked"}

HandOK(t, h) ==
    /\ t.phase # "running" => h = NoHand
    /\ t.phase = "running" => h.at \in IF t.effect \in Sends THEN SendPlaces ELSE CheckPlaces

\* What the SRI told the handler that submitted d, and still holds.
Told(answer, d, dc, sr) ==
    \/ answer \in {"RECIBIDA", "70"} /\ sr[d].xml = dc[d].xml /\ sr[d].verdict # "none"
    \/ answer \in {"DEVUELTA", "other"} /\ sr[d].verdict \in {"none", "rejected"}
    \/ answer = "43" /\ sr[d].verdict = "authorized"

\* Nobody else moves a document that one handler is sending.
SendOK(t, h, dc, sr, ov) ==
    Sending(t, h) /\ DocOf[t.effect] \notin ov =>
        /\ dc[DocOf[t.effect]].status = "PENDING_SEND"
        /\ h.xml = dc[DocOf[t.effect]].xml
        /\ h.at = "sent" => Told(h.answer, DocOf[t.effect], dc, sr)

\* Nobody else moves a document that a handler asks about.
AskOK(t, h, dc, sr, ov) ==
    Asking(t, h) =>
        /\ dc[DocOf[t.effect]].status = "RECEIVED"
        /\ h.at = "asked" =>
              \/ h.answer = "AUTORIZADO" /\ sr[DocOf[t.effect]].verdict = "authorized"
              \/ /\ h.answer \in {"NO AUTORIZADO", "other"}
                 /\ DocOf[t.effect] \in ov \/ sr[DocOf[t.effect]].verdict = "rejected"

\* The status of a document and what the SRI holds of it.
DocOK(d, dc, sr) ==
    /\ sr[d].verdict = "processing" => /\ dc[d].status \in {"PENDING_SEND", "RECEIVED"}
                                       /\ sr[d].xml = dc[d].xml
    /\ dc[d].status \in {"RECEIVED", "AUTHORIZED", "VOIDED"} => sr[d].xml = dc[d].xml
    /\ dc[d].status = "RECEIVED" => sr[d].verdict # "none"
    /\ dc[d].status \in {"AUTHORIZED", "VOIDED"} => sr[d].verdict = "authorized"
    /\ dc[d].status = "NOT_AUTHORIZED" => sr[d].verdict = "rejected"

\* The documents whose status may say anything but AUTHORIZED.
Astray == overlapped \cup misread

SriInv ==
    /\ \A w \in Workers : /\ HandOK(task[w], hand[w])
                          /\ SendOK(task[w], hand[w], doc, sri, Astray)
                          /\ AskOK(task[w], hand[w], doc, sri, Astray)
    /\ \A v, w \in Workers :
          /\ Sending(task[v], hand[v]) /\ Sending(task[w], hand[w])
          /\ DocOf[task[v].effect] = DocOf[task[w].effect]
          /\ DocOf[task[v].effect] \notin Astray
          => v = w
    /\ \A d \in Docs \ Astray : DocOK(d, doc, sri)

\* AUTHORIZED is the SRI's verdict in any case.  A document that is nowhere astray, and
\* whose submissions were all heard, is at the SRI only once its status says so, or its
\* handler is about to write it.
HeardOK(d) ==
    /\ doc[d].status \in {"AUTHORIZED", "VOIDED"} => sri[d].verdict = "authorized"
    /\ d \notin Astray \cup unheard /\ SriHolds(d) =>
          /\ doc[d].status \notin {"SIGNED", "RETURNED", "NOT_AUTHORIZED"}
          /\ doc[d].status = "PENDING_SEND" => \E w \in Workers : Heard(w) /\ DocAt(w) = d

HeardInv == \A d \in Docs : HeardOK(d)

-----------------------------------------------------------------------------
(* Who takes a document on.                                                *)

\* A run that will settle its row, having written the status or found it moved on.
Spent(t, h) == \/ t.phase \in {"succeeded", "refused"}
               \/ t.phase = "running" /\ h.at \in {"received", "authorized", "notified", "end"}

Live(e) == Unsettled(e) /\ \A w \in Workers : task[w] # Idle /\ task[w].effect = e => ~Spent(task[w], hand[w])

\* A row or a request that will, or can, take a PENDING_SEND document on.
SendComes(d) == \/ \E e \in RowsOf(d, Sends) : Live(e)
                \/ \E r \in Requests : At(r, "send", "enqueue") /\ req[r].doc = d

\* A row, or a handler about to create it, that will, or can, take a RECEIVED document on.
CheckComes(d) == \/ \E e \in RowsOf(d, Polling) : Live(e)
                 \/ \E w \in Workers : Running(w, Sends, "received") /\ DocAt(w) = d

Announcing(t, h, d) == /\ t.phase = "running" /\ DocOf[t.effect] = d
                       /\ h.at = "authorized" \/ (h.at = "notified" /\ d \in fanout)

PendingOK(d)   == d \notin interrupted /\ doc[d].status = "PENDING_SEND" => SendComes(d)
ReceivedOK(d)  == d \notin interrupted \cup adopted /\ doc[d].status = "RECEIVED" => CheckComes(d)
AnnouncedOK(d) == d \notin interrupted /\ doc[d].status \in {"AUTHORIZED", "VOIDED"} =>
                     d \in fanout \cap mail \/ \E w \in Workers : Announcing(task[w], hand[w], d)

QueuesInv == \A d \in Docs : PendingOK(d) /\ ReceivedOK(d) /\ AnnouncedOK(d)

IInv == TypeOK /\ RowsInv /\ SriInv /\ HeardInv /\ QueuesInv

-----------------------------------------------------------------------------
(* The rows: DocumentTransmission moves them only as EffectRuns allows.    *)

Tasks == [phase : Phases, effect : Effects] \cup {Idle}

\* No run begins, and at most one row changes, which nobody holds and which is opened
\* only if its key is free.
LEMMA RowsKept ==
    ASSUME RowsInv, RunsTypeOK', NEW e0 \in Effects,
           \A v \in Workers, e \in Effects : Holds(task'[v], e) => Holds(task[v], e),
           \A v \in Workers : task'[v] # Idle => task[v] # Idle /\ task'[v].effect = task[v].effect,
           \A e \in Effects \ {e0} : effect'[e] = effect[e],
           \/ effect'[e0] = effect[e0]
           \/ /\ \A v \in Workers : ~Holds(task'[v], e0)
              /\ effect'[e0] # "absent"
              /\ effect'[e0] = "open" => KeyIsFree(e0)
    PROVE  RowsInv'
  <1>1. \A w \in Workers, e \in Effects : Holds(task'[w], e) => effect'[e] = "open"
    BY DEF RowsInv
  <1>2. \A v, w \in Workers, e \in Effects : Holds(task'[v], e) /\ Holds(task'[w], e) => v = w
    BY DEF RowsInv
  <1>3. ASSUME NEW e \in Polling, NEW f \in Polling,
               effect'[e] = "open", effect'[f] = "open", KeyOf[e] = KeyOf[f]
        PROVE  e = f
    <2>1. e \in Effects /\ f \in Effects
      OBVIOUS
    <2>2. ASSUME NEW g \in Polling, g # e0, effect'[g] = "open", KeyOf[g] = KeyOf[e0],
                 effect'[e0] = "open", e0 \in Polling
          PROVE  FALSE
      <3>1. effect[g] = "open" /\ g \in Polling \ {e0} /\ g \in Effects
        BY <2>2
      <3>2. effect'[e0] # effect[e0]
        BY <2>2, <3>1 DEF RowsInv
      <3>3. KeyIsFree(e0)
        BY <2>2, <3>2
      <3> QED BY <2>2, <3>1, <3>3 DEF KeyIsFree
    <2>3. CASE e # e0 /\ f # e0
      <3>1. effect[e] = "open" /\ effect[f] = "open"
        BY <1>3, <2>1, <2>3
      <3> QED BY <1>3, <3>1 DEF RowsInv
    <2>4. CASE e = e0 /\ f # e0
      BY <1>3, <2>2, <2>4
    <2>5. CASE e # e0 /\ f = e0
      BY <1>3, <2>2, <2>5
    <2> QED BY <2>3, <2>4, <2>5
  <1>4. ASSUME NEW w \in Workers, task'[w] # Idle PROVE effect'[task'[w].effect] # "absent"
    <2>1. task[w] # Idle /\ task'[w].effect = task[w].effect /\ task[w].effect \in Effects
      BY <1>4 DEF RowsInv, RunsTypeOK
    <2> QED BY <2>1 DEF RowsInv
  <1> QED BY <1>1, <1>2, <1>3, <1>4 DEF RowsInv

\* A task that changes to t.
LEMMA TaskMoves ==
    ASSUME RunsTypeOK, NEW w \in Workers, NEW t \in Tasks, task' = [task EXCEPT ![w] = t]
    PROVE  /\ task' \in [Workers -> Tasks] /\ task'[w] = t
           /\ \A v \in Workers \ {w} : task'[v] = task[v]
  BY DEF RunsTypeOK, Tasks

\* A row that changes to st.
LEMMA RowMoves ==
    ASSUME RunsTypeOK, NEW e \in Effects, NEW st \in {"absent", "open", "done", "failed"},
           effect' = [effect EXCEPT ![e] = st]
    PROVE  /\ effect' \in [Effects -> {"absent", "open", "done", "failed"}] /\ effect'[e] = st
           /\ \A f \in Effects \ {e} : effect'[f] = effect[f]
  BY DEF RunsTypeOK

\* A run that ends keeps its row.
LEMMA EndsMoves ==
    ASSUME RunsTypeOK, NEW w \in Workers, NEW p \in Phases, Ends(w, p)
    PROVE  \E t \in Tasks : /\ task' = [task EXCEPT ![w] = t] /\ t.effect = task[w].effect
                           /\ t.phase = p /\ t # Idle
  <1>1. /\ task[w] \in [phase : Phases, effect : Effects]
        /\ task' = [task EXCEPT ![w] = [task[w] EXCEPT !.phase = p]]
    BY DEF Ends, RunsTypeOK, Idle
  <1>2. [task[w] EXCEPT !.phase = p] \in Tasks /\ [task[w] EXCEPT !.phase = p] # Idle
    BY <1>1 DEF Tasks, Idle, Phases
  <1> QED BY <1>1, <1>2

\* A run that ends is no trouble to the others.
LEMMA EndsKeeps ==
    ASSUME RowsInv, NEW w \in Workers, NEW p \in Phases \ {"running"}, Ends(w, p)
    PROVE  RowsInv'
  <1>1. RunsTypeOK /\ effect' = effect /\ task[w].phase = "running"
    BY DEF Ends, RowsInv
  <1>2. task[w].effect \in Effects /\ task[w] # Idle
    BY <1>1 DEF RunsTypeOK, Idle
  <1>3. PICK t \in Tasks : /\ task' = [task EXCEPT ![w] = t] /\ t.effect = task[w].effect
                          /\ t.phase = p /\ t # Idle
    BY <1>1, EndsMoves
  <1>4. RunsTypeOK' /\ task'[w] = t /\ \A v \in Workers \ {w} : task'[v] = task[v]
    BY <1>1, <1>3, TaskMoves DEF RunsTypeOK, Tasks
  <1>5. \A v \in Workers, e \in Effects : Holds(task'[v], e) => Holds(task[v], e)
    BY <1>1, <1>3, <1>4 DEF Holds
  <1>6. \A v \in Workers : task'[v] # Idle => task[v] # Idle /\ task'[v].effect = task[v].effect
    BY <1>2, <1>3, <1>4
  <1> QED BY <1>1, <1>2, <1>4, <1>5, <1>6, RowsKept

\* A run that is over.
LEMMA IdleKeeps ==
    ASSUME RowsInv, NEW w \in Workers, task' = [task EXCEPT ![w] = Idle], UNCHANGED effect
    PROVE  RowsInv'
  <1>1. RunsTypeOK' /\ task'[w] = Idle /\ \A v \in Workers \ {w} : task'[v] = task[v]
    BY TaskMoves DEF RunsTypeOK, Tasks, RowsInv
  <1>2. \A v \in Workers, e \in Effects : Holds(task'[v], e) => Holds(task[v], e)
    BY <1>1 DEF Holds, Idle
  <1>3. \A v \in Workers : task'[v] # Idle => task[v] # Idle /\ task'[v].effect = task[v].effect
    BY <1>1
  <1>4. CASE Effects = {}
    BY <1>1, <1>2, <1>3, <1>4 DEF RowsInv
  <1>5. CASE Effects # {}
    BY <1>1, <1>2, <1>3, <1>5, RowsKept
  <1> QED BY <1>4, <1>5

\* A run that ends with its row in another status.
LEMMA SettlesKeeps ==
    ASSUME RowsInv, NEW w \in Workers, task' = [task EXCEPT ![w] = Idle],
           task[w].phase \in Phases, NEW st \in {"open", "done", "failed"},
           effect' = [effect EXCEPT ![task[w].effect] = st],
           Holds(task[w], task[w].effect) \/ ~Held(task[w].effect),
           st = "open" => KeyIsFree(task[w].effect)
    PROVE  RowsInv'
  <1> DEFINE e0 == task[w].effect
  <1>1. e0 \in Effects /\ RunsTypeOK
    BY DEF RowsInv, RunsTypeOK, Idle, Phases
  <1>2. task' \in [Workers -> Tasks] /\ task'[w] = Idle
        /\ \A v \in Workers \ {w} : task'[v] = task[v]
    BY <1>1, TaskMoves DEF Tasks
  <1>3. /\ effect' \in [Effects -> {"absent", "open", "done", "failed"}] /\ effect'[e0] = st
        /\ \A f \in Effects \ {e0} : effect'[f] = effect[f]
    BY <1>1, RowMoves
  <1>4. \A v \in Workers, e \in Effects : Holds(task'[v], e) => Holds(task[v], e)
    BY <1>2 DEF Holds, Idle
  <1>5. \A v \in Workers : task'[v] # Idle => task[v] # Idle /\ task'[v].effect = task[v].effect
    BY <1>2
  <1>6. \A v \in Workers : ~Holds(task'[v], e0)
    BY <1>1, <1>2, <1>4 DEF Held, Holds, Idle, RowsInv
  <1>7. RunsTypeOK'
    BY <1>2, <1>3 DEF RunsTypeOK, Tasks
  <1> HIDE DEF e0
  <1>8. st = "open" => KeyIsFree(e0)
    BY DEF e0
  <1> QED BY <1>1, <1>3, <1>4, <1>5, <1>6, <1>7, <1>8, RowsKept

\* A row that nobody holds is opened.
LEMMA OpensKeeps ==
    ASSUME RowsInv, NEW e \in Effects, effect' = [effect EXCEPT ![e] = "open"], UNCHANGED task,
           KeyIsFree(e), ~Held(e)
    PROVE  RowsInv'
  <1>1. /\ effect' \in [Effects -> {"absent", "open", "done", "failed"}] /\ effect'[e] = "open"
        /\ \A f \in Effects \ {e} : effect'[f] = effect[f]
    BY RowMoves DEF RowsInv
  <1>2. \A v \in Workers : ~Holds(task'[v], e)
    BY DEF Held, Holds
  <1>3. RunsTypeOK'
    BY <1>1 DEF RunsTypeOK, RowsInv
  <1> QED BY <1>1, <1>2, <1>3, RowsKept

\* A row that was never created has no run.
LEMMA AbsentFree ==
    ASSUME RowsInv, NEW e \in Effects, effect[e] = "absent"
    PROVE  ~Held(e) /\ \A w \in Workers : task[w] # Idle => task[w].effect # e
  BY DEF RowsInv, Held, Holds

\* A run that begins takes a row that is open and free.
LEMMA BeginKeeps ==
    ASSUME RowsInv, NEW w \in Workers, NEW e \in Effects, Begin(w, e)
    PROVE  RowsInv'
  <1> DEFINE t == [phase |-> "running", effect |-> e]
  <1>1. t \in Tasks /\ RunsTypeOK /\ effect' = effect /\ task' = [task EXCEPT ![w] = t]
    BY DEF Begin, RowsInv, Tasks, Phases
  <1>2. task' \in [Workers -> Tasks] /\ task'[w] = t
        /\ \A v \in Workers \ {w} : task'[v] = task[v]
    BY <1>1, TaskMoves
  <1>3. RunsTypeOK'
    BY <1>1, <1>2 DEF RunsTypeOK, Tasks
  <1>4. \A v \in Workers, f \in Effects :
            Holds(task'[v], f) => \/ v = w /\ f = e
                                  \/ v # w /\ f # e /\ Holds(task[v], f)
    <2>1. ASSUME NEW v \in Workers \ {w}, NEW f \in Effects, Holds(task'[v], f)
          PROVE  f # e /\ Holds(task[v], f)
      BY <1>2, <2>1 DEF Holds, Begin, Held
    <2>2. \A f \in Effects : Holds(task'[w], f) => f = e
      BY <1>2 DEF Holds
    <2> QED BY <2>1, <2>2
  <1>5. \A v \in Workers : task'[v] # Idle => effect'[task'[v].effect] # "absent"
    BY <1>1, <1>2 DEF RowsInv, Begin
  <1> QED BY <1>1, <1>3, <1>4, <1>5 DEF RowsInv, Begin

\* The outbox keeps its promise to the handlers, step by step.
LEMMA RowsStep == RowsInv /\ [RunsNext]_runVars => RowsInv'
<1> SUFFICES ASSUME RowsInv, [RunsNext]_runVars PROVE RowsInv'
  OBVIOUS
<1>1. CASE UNCHANGED runVars
  BY <1>1 DEF runVars, RowsInv, RunsTypeOK, Holds
<1>2. ASSUME NEW e \in Effects, Request(e) \/ Reopen(e) PROVE RowsInv'
  BY <1>2, AbsentFree, OpensKeeps DEF Request, Reopen
<1>3. ASSUME NEW w \in Workers, NEW e \in Effects, Begin(w, e) PROVE RowsInv'
  BY <1>3, BeginKeeps
<1>4. ASSUME NEW w \in Workers, Succeed(w) \/ Refuse(w) \/ Fail(w) PROVE RowsInv'
  BY <1>4, EndsKeeps DEF Succeed, Refuse, Fail, Phases
<1>5. ASSUME NEW w \in Workers, Requeue(w) \/ CommitFails(w) PROVE RowsInv'
  BY <1>5, IdleKeeps DEF Requeue, CommitFails
<1>6. ASSUME NEW w \in Workers, Commit(w) PROVE RowsInv'
  BY <1>6, SettlesKeeps DEF Commit, Holds, Phases
<1>7. ASSUME NEW w \in Workers, Record(w) PROVE RowsInv'
  BY <1>7, SettlesKeeps, IdleKeeps DEF Record, Phases
<1>8. CASE Forget
  <2>1. RunsTypeOK' /\ effect' = effect /\ \A w \in Workers : task'[w] = Idle
    BY <1>8 DEF Forget, RowsInv, RunsTypeOK
  <2>2. \A w \in Workers, e \in Effects : ~Holds(task'[w], e)
    BY <2>1 DEF Holds, Idle
  <2> QED BY <2>1, <2>2 DEF RowsInv
<1> QED BY <1>1, <1>2, <1>3, <1>4, <1>5, <1>6, <1>7, <1>8 DEF RunsNext

\* Every step of DocumentTransmission is one of the outbox, or leaves it alone.
LEMMA RunsSimulated == [Next]_vars => [RunsNext]_runVars
<1> SUFFICES ASSUME [Next]_vars PROVE [RunsNext]_runVars
  OBVIOUS
<1>1. CASE UNCHANGED vars
  BY <1>1 DEF vars
<1>2. ASSUME NEW r \in Requests, RequestStep(r) PROVE [RunsNext]_runVars
  BY <1>2 DEF RequestStep, ReadToSend, ReadToCheck, ReadToRebuild, ReadToVoid, Starts,
     SetPendingSend, EnqueueSend, EnqueueRequestedCheck, ReusesCheck, CreatesCheck,
     CommitRebuild, SetVoided, RequestDies, RunsNext, runVars, Request
<1>3. ASSUME NEW w \in Workers, WorkerStep(w) PROVE [RunsNext]_runVars
  <2>1. CASE RefuseStale(w) \/ \E e \in Effects : Claim(w, e)
    BY <2>1 DEF RefuseStale, Claim, RunsNext
  <2>2. CASE SendStep(w)
    BY <2>2 DEF SendStep, ReadForSend, Submit, SubmitLost, SetReceived, Writes, EnqueueCheck,
       ReusesCheck, CreatesCheck, RunsNext, runVars, Request
  <2>3. CASE CheckStep(w)
    BY <2>3 DEF CheckStep, ReadForCheck, Ask, AskAgainLater, SetVerdict, Writes, Notify,
       QueueEmail, RunsNext
  <2>4. CASE HandlerReturns(w) \/ CommitDone(w) \/ CommitLost(w) \/ RecordOutcome(w) \/ HandlerFails(w)
    BY <2>4 DEF HandlerReturns, CommitDone, CommitLost, RecordOutcome, HandlerFails, RunsNext
  <2> QED BY <1>3, <2>1, <2>2, <2>3, <2>4 DEF WorkerStep
<1>4. ASSUME NEW e \in Effects, ReopenRow(e) PROVE [RunsNext]_runVars
  BY <1>4 DEF ReopenRow, RunsNext
<1>5. ASSUME NEW d \in Docs, SriDecides(d) PROVE [RunsNext]_runVars
  BY <1>5 DEF SriDecides
<1>6. CASE WorkerCrash
  BY <1>6 DEF WorkerCrash, RunsNext
<1> QED BY <1>1, <1>2, <1>3, <1>4, <1>5, <1>6 DEF Next

-----------------------------------------------------------------------------
(* What the statements of a handler leave behind.                          *)

DocRow  == [status : Status, xml : Nat]
SriRow  == [verdict : {"none", "processing", "authorized", "rejected"}, xml : Nat]
HandRow == [at : Places, xml : Nat, answer : Answers]

HandAt(at, xml, answer) == [at |-> at, xml |-> xml, answer |-> answer]

\* The parts of the type invariant.
LEMMA TypeParts ==
    ASSUME TypeOK
    PROVE  /\ RunsTypeOK /\ doc \in [Docs -> DocRow] /\ sri \in [Docs -> SriRow]
           /\ hand \in [Workers -> HandRow]
           /\ \A w \in Workers : hand[w] = HandAt(hand[w].at, hand[w].xml, hand[w].answer)
  BY DEF TypeOK, DocRow, SriRow, HandRow, HandAt

\* A worker's hand changes to h.
LEMMA HandMoves ==
    ASSUME TypeOK, NEW w \in Workers, NEW h \in HandRow, hand' = [hand EXCEPT ![w] = h]
    PROVE  /\ hand' \in [Workers -> HandRow] /\ hand'[w] = h
           /\ \A v \in Workers \ {w} : hand'[v] = hand[v]
  BY DEF TypeOK, HandRow

\* A handler goes to its next statement, ...
LEMMA MovesTo ==
    ASSUME TypeOK, NEW w \in Workers, NEW at \in Places, Moves(w, at)
    PROVE  /\ hand' \in [Workers -> HandRow] /\ hand'[w] = HandAt(at, hand[w].xml, hand[w].answer)
           /\ \A v \in Workers \ {w} : hand'[v] = hand[v]
  <1>1. hand[w] \in HandRow
    BY TypeParts
  <1>2. [hand[w] EXCEPT !.at = at] = HandAt(at, hand[w].xml, hand[w].answer)
    BY <1>1 DEF HandRow, HandAt
  <1>3. HandAt(at, hand[w].xml, hand[w].answer) \in HandRow
    BY <1>1 DEF HandRow, HandAt
  <1>4. hand' = [hand EXCEPT ![w] = [hand[w] EXCEPT !.at = at]]
    BY DEF Moves
  <1> QED BY <1>2, <1>3, <1>4, HandMoves

\* ... having heard the SRI's answer, ...
LEMMA HearsTo ==
    ASSUME TypeOK, NEW w \in Workers, NEW at \in Places, NEW answer \in Answers,
           Hears(w, at, answer)
    PROVE  /\ hand' \in [Workers -> HandRow] /\ hand'[w] = HandAt(at, hand[w].xml, answer)
           /\ \A v \in Workers \ {w} : hand'[v] = hand[v]
  <1>1. hand[w] \in HandRow
    BY TypeParts
  <1>2. [[hand[w] EXCEPT !.at = at] EXCEPT !.answer = answer] = HandAt(at, hand[w].xml, answer)
    <2>1. [hand[w] EXCEPT !.at = at] = HandAt(at, hand[w].xml, hand[w].answer)
      BY <1>1 DEF HandRow, HandAt
    <2>2. [HandAt(at, hand[w].xml, hand[w].answer) EXCEPT !.answer = answer]
            = HandAt(at, hand[w].xml, answer)
      BY DEF HandAt
    <2> QED BY <2>1, <2>2
  <1>3. HandAt(at, hand[w].xml, answer) \in HandRow
    BY <1>1 DEF HandRow, HandAt
  <1>4. hand' = [hand EXCEPT ![w] = [[hand[w] EXCEPT !.at = at] EXCEPT !.answer = answer]]
    BY DEF Hears
  <1> QED BY <1>2, <1>3, <1>4, HandMoves

\* ... or is done with.
LEMMA LetsGoTo ==
    ASSUME TypeOK, NEW w \in Workers, LetsGo(w)
    PROVE  /\ hand' \in [Workers -> HandRow] /\ hand'[w] = NoHand
           /\ \A v \in Workers \ {w} : hand'[v] = hand[v]
  <1>1. NoHand \in HandRow
    BY DEF NoHand, HandRow, Places, Answers
  <1> QED BY <1>1, HandMoves DEF LetsGo

\* A document's status changes to st.
LEMMA StatusMoves ==
    ASSUME TypeOK, NEW d \in Docs, NEW st \in Status, SetStatus(d, st)
    PROVE  /\ doc' \in [Docs -> DocRow] /\ doc'[d].status = st /\ doc'[d].xml = doc[d].xml
           /\ \A x \in Docs \ {d} : doc'[x] = doc[x]
  BY TypeParts DEF SetStatus, DocRow

\* The UPDATE of a status by a handler, or its refusal.
LEMMA WritesTo ==
    ASSUME TypeOK, NEW w \in Workers, DocAt(w) \in Docs, NEW st \in Status, NEW next \in Places,
           Writes(w, st, next)
    PROVE  /\ hand' \in [Workers -> HandRow] /\ doc' \in [Docs -> DocRow]
           /\ \A v \in Workers \ {w} : hand'[v] = hand[v]
           /\ \A x \in Docs \ {DocAt(w)} : doc'[x] = doc[x]
           /\ \/ /\ TriggerAllows(DocAt(w), st) /\ UNCHANGED runVars
                 /\ hand'[w] = HandAt(next, 0, "none")
                 /\ doc'[DocAt(w)].status = st /\ doc'[DocAt(w)].xml = doc[DocAt(w)].xml
              \/ ~TriggerAllows(DocAt(w), st) /\ Fail(w) /\ hand'[w] = NoHand /\ doc' = doc
  <1>1. CASE /\ TriggerAllows(DocAt(w), st) /\ SetStatus(DocAt(w), st)
             /\ hand' = [hand EXCEPT ![w] = [NoHand EXCEPT !.at = next]]
             /\ UNCHANGED runVars
    <2>1. [NoHand EXCEPT !.at = next] = HandAt(next, 0, "none") /\ HandAt(next, 0, "none") \in HandRow
      BY DEF NoHand, HandAt, HandRow, Answers
    <2> QED BY <1>1, <2>1, HandMoves, StatusMoves
  <1>2. CASE ~TriggerAllows(DocAt(w), st) /\ Fail(w) /\ LetsGo(w) /\ UNCHANGED doc
    BY <1>2, LetsGoTo, TypeParts
  <1> QED BY <1>1, <1>2 DEF Writes

\* A running handler has a row and its document.
LEMMA RunningHas ==
    ASSUME TypeOK, NEW w \in Workers, task[w].phase = "running"
    PROVE  task[w].effect \in Effects /\ DocAt(w) \in Docs /\ task[w] # Idle
  BY TypeParts DEF RunsTypeOK, Idle, DocAt

-----------------------------------------------------------------------------
(* The types.                                                              *)

\* The conjuncts of the type invariant, one by one, after a step.
LEMMA TypesHold ==
    ASSUME RunsTypeOK', doc' \in [Docs -> DocRow], sri' \in [Docs -> SriRow],
           hand' \in [Workers -> HandRow],
           req' \in [Requests -> [at : {"write", "enqueue"}, op : Operations, doc : Docs] \cup {NoRequest}],
           fanout' \in SUBSET Docs, mail' \in SUBSET Docs,
           interrupted' \in SUBSET Docs, adopted' \in SUBSET Docs, overlapped' \in SUBSET Docs,
           misread' \in SUBSET Docs, unheard' \in SUBSET Docs,
           disturbances' \in Nat
    PROVE  TypeOK'
  BY DEF TypeOK, DocRow, SriRow, HandRow

\* A request's step keeps the types.
LEMMA RequestTypes ==
    ASSUME TypeOK, RunsTypeOK', NEW r \in Requests, RequestStep(r)
    PROVE  TypeOK'
  <1> DEFINE ReqRow == [at : {"write", "enqueue"}, op : Operations, doc : Docs]
  <1>1. /\ req \in [Requests -> ReqRow \cup {NoRequest}]
        /\ req[r] # NoRequest => req[r] \in ReqRow /\ req[r].doc \in Docs
    BY DEF TypeOK
  <1>2. Returns(r) => req' \in [Requests -> ReqRow \cup {NoRequest}]
    BY <1>1 DEF Returns
  <1>3. ASSUME NEW d \in Docs, ReadToSend(r, d) \/ ReadToCheck(r, d) \/ ReadToRebuild(r, d) \/ ReadToVoid(r, d)
        PROVE  TypeOK'
    <2>1. PICK op \in Operations, at \in {"write", "enqueue"} : Starts(r, op, d, at)
      BY <1>3 DEF ReadToSend, ReadToCheck, ReadToRebuild, ReadToVoid, Operations
    <2>2. req' \in [Requests -> ReqRow \cup {NoRequest}]
      BY <1>1, <2>1 DEF Starts
    <2> QED BY <2>1, <2>2, TypeParts, TypesHold DEF Starts, TypeOK, emitted, history, told
  <1>4. CASE SetPendingSend(r)
    <2>1. req[r].doc \in Docs /\ req[r] \in ReqRow
      BY <1>1, <1>4 DEF SetPendingSend, At
    <2>2. [req[r] EXCEPT !.at = "enqueue"] \in ReqRow
      BY <2>1
    <2>3. req' \in [Requests -> ReqRow \cup {NoRequest}]
      BY <1>1, <1>2, <1>4, <2>2 DEF SetPendingSend
    <2>4. doc' \in [Docs -> DocRow]
      BY <1>4, <2>1, StatusMoves, TypeParts DEF SetPendingSend, Status
    <2> QED BY <1>4, <2>3, <2>4, TypeParts, TypesHold DEF SetPendingSend, TypeOK, emitted, history, told
  <1>5. CASE EnqueueSend(r)
    BY <1>2, <1>5, TypeParts, TypesHold DEF EnqueueSend, TypeOK, emitted, history, told
  <1>6. CASE EnqueueRequestedCheck(r)
    BY <1>2, <1>6, TypeParts, TypesHold DEF EnqueueRequestedCheck, TypeOK, emitted, history, told
  <1>7. CASE CommitRebuild(r)
    <2>1. req[r].doc \in Docs /\ doc[req[r].doc] \in DocRow
      BY <1>1, <1>7, TypeParts DEF CommitRebuild, At
    <2>2. [status |-> "SIGNED", xml |-> doc[req[r].doc].xml + 1] \in DocRow
      BY <2>1 DEF DocRow, Status
    <2>3. doc' \in [Docs -> DocRow]
      BY <1>7, <2>2, TypeParts DEF CommitRebuild
    <2> QED BY <1>2, <1>7, <2>3, TypeParts, TypesHold DEF CommitRebuild, TypeOK, emitted, history, told
  <1>8. CASE SetVoided(r)
    <2>1. req[r].doc \in Docs
      BY <1>1, <1>8 DEF SetVoided, At
    <2>2. doc' \in [Docs -> DocRow]
      BY <1>8, <2>1, StatusMoves DEF SetVoided, Status
    <2> QED BY <1>2, <1>8, <2>2, TypeParts, TypesHold DEF SetVoided, TypeOK, emitted, history, told
  <1>9. CASE RequestDies(r)
    <2>1. interrupted' \in SUBSET Docs /\ disturbances' \in Nat
      BY <1>1, <1>9 DEF RequestDies, Disturbed, TypeOK
    <2> QED BY <1>2, <1>9, <2>1, TypeParts, TypesHold DEF RequestDies, TypeOK, emitted, told
  <1> QED BY <1>3, <1>4, <1>5, <1>6, <1>7, <1>8, <1>9 DEF RequestStep

\* A handler's step keeps the types.
LEMMA WorkerTypes ==
    ASSUME TypeOK, RunsTypeOK', NEW w \in Workers, WorkerStep(w)
    PROVE  TypeOK'
  <1> USE TypeParts DEF emitted, history, told
  <1> DEFINE d == DocAt(w)
  <1>1. task[w].phase = "running" => d \in Docs
    BY RunningHas
  <1>2. /\ doc \in [Docs -> DocRow] /\ sri \in [Docs -> SriRow] /\ hand \in [Workers -> HandRow]
        /\ req \in [Requests -> [at : {"write", "enqueue"}, op : Operations, doc : Docs] \cup {NoRequest}]
        /\ fanout \in SUBSET Docs /\ mail \in SUBSET Docs
        /\ interrupted \in SUBSET Docs /\ adopted \in SUBSET Docs /\ overlapped \in SUBSET Docs
        /\ misread \in SUBSET Docs /\ unheard \in SUBSET Docs
        /\ disturbances \in Nat
    BY DEF TypeOK
  <1> HIDE DEF d
  <1>3. ASSUME NEW e \in Effects, Claim(w, e) PROVE TypeOK'
    BY <1>2, <1>3, TypesHold DEF Claim
  <1>4. CASE RefuseStale(w)
    BY <1>2, <1>4, LetsGoTo, TypesHold DEF RefuseStale
  <1>5. CASE ReadForSend(w)
    <2>1. d \in Docs /\ doc[d].xml \in Nat
      BY <1>1, <1>2, <1>5 DEF ReadForSend, Running, DocRow
    <2>2. [[hand[w] EXCEPT !.at = "sending"] EXCEPT !.xml = doc[d].xml] \in HandRow
      BY <1>2, <2>1 DEF HandRow, Places
    <2>3. hand' \in [Workers -> HandRow]
      BY <1>2, <1>5, <2>2 DEF ReadForSend, d
    <2>4. overlapped' \in SUBSET Docs
      BY <1>2, <1>5, <2>1 DEF ReadForSend, d
    <2> QED BY <1>2, <1>5, <2>3, <2>4, TypesHold DEF ReadForSend
  <1>6. ASSUME NEW answer \in Answers, Reception(w, answer) PROVE sri' \in [Docs -> SriRow]
    <2>1. d \in Docs /\ hand[w].xml \in Nat
      BY <1>1, <1>2, <1>6 DEF Reception, Running, HandRow
    <2>2. [verdict |-> "processing", xml |-> hand[w].xml] \in SriRow
      BY <2>1 DEF SriRow
    <2> QED BY <1>2, <1>6, <2>2 DEF Reception, Accepts
  <1>7. CASE Submit(w)
    <2>1. PICK answer \in Answers : Reception(w, answer) /\ Hears(w, "sent", answer)
      BY <1>7 DEF Submit
    <2>2. hand' \in [Workers -> HandRow]
      BY <2>1, HearsTo DEF Places
    <2>3. misread' \in SUBSET Docs /\ disturbances' \in Nat
      BY <1>1, <1>2, <1>7 DEF Submit, Reception, Running, Reads, Disturbed, d
    <2> QED BY <1>2, <1>6, <1>7, <2>1, <2>2, <2>3, TypesHold DEF Submit
  <1>8. CASE SubmitLost(w)
    <2>1. unheard' \in SUBSET Docs
      BY <1>1, <1>2, <1>8 DEF SubmitLost, Reception, Running, d
    <2> QED BY <1>2, <1>6, <1>8, <2>1, TypesHold DEF SubmitLost
  <1>9. ASSUME NEW st \in Status, NEW next \in Places, Writes(w, st, next), task[w].phase = "running"
        PROVE  doc' \in [Docs -> DocRow] /\ hand' \in [Workers -> HandRow]
    BY <1>1, <1>9, WritesTo DEF d
  <1>10. CASE SetReceived(w)
    <2>1. doc' \in [Docs -> DocRow] /\ hand' \in [Workers -> HandRow]
      BY <1>9, <1>10 DEF SetReceived, Running, Status, Places
    <2> QED BY <1>2, <1>10, <2>1, TypesHold DEF SetReceived
  <1>11. CASE EnqueueCheck(w)
    <2>1. hand' \in [Workers -> HandRow]
      BY <1>11, MovesTo DEF EnqueueCheck, Places
    <2>2. adopted' \in SUBSET Docs
      BY <1>1, <1>2, <1>11 DEF EnqueueCheck, Running, d
    <2> QED BY <1>2, <1>11, <2>1, <2>2, TypesHold DEF EnqueueCheck
  <1>12. CASE ReadForCheck(w)
    BY <1>2, <1>12, MovesTo, TypesHold DEF ReadForCheck, Places
  <1>13. CASE Ask(w)
    <2>1. hand' \in [Workers -> HandRow]
      BY <1>13, HearsTo DEF Ask, Places, Answers
    <2>2. misread' \in SUBSET Docs /\ disturbances' \in Nat
      <3>1. PICK answer, no : Reads(d, answer, no)
        BY <1>13 DEF Ask, d
      <3>2. d \in Docs
        BY <1>1, <1>13 DEF Ask, Running
      <3> QED BY <1>2, <3>1, <3>2 DEF Reads, Disturbed
    <2> QED BY <1>2, <1>13, <2>1, <2>2, TypesHold DEF Ask
  <1>14. CASE AskAgainLater(w)
    BY <1>2, <1>14, LetsGoTo, TypesHold DEF AskAgainLater
  <1>15. CASE SetVerdict(w)
    <2>1. doc' \in [Docs -> DocRow] /\ hand' \in [Workers -> HandRow]
      BY <1>9, <1>15 DEF SetVerdict, Running, Status, Places
    <2> QED BY <1>2, <1>15, <2>1, TypesHold DEF SetVerdict
  <1>16. CASE Notify(w)
    <2>1. hand' \in [Workers -> HandRow] /\ fanout' \in SUBSET Docs
      BY <1>1, <1>2, <1>16, MovesTo DEF Notify, Places, Running, d
    <2> QED BY <1>2, <1>16, <2>1, TypesHold DEF Notify
  <1>17. CASE QueueEmail(w)
    <2>1. hand' \in [Workers -> HandRow] /\ mail' \in SUBSET Docs
      BY <1>1, <1>2, <1>17, MovesTo DEF QueueEmail, Places, Running, d
    <2> QED BY <1>2, <1>17, <2>1, TypesHold DEF QueueEmail
  <1>18. CASE HandlerReturns(w)
    BY <1>2, <1>18, LetsGoTo, TypesHold DEF HandlerReturns
  <1>19. CASE CommitDone(w) \/ RecordOutcome(w)
    BY <1>2, <1>19, TypesHold DEF CommitDone, RecordOutcome
  <1>20. CASE CommitLost(w)
    <2>1. disturbances' \in Nat
      BY <1>2, <1>20 DEF CommitLost, Disturbed
    <2> QED BY <1>2, <1>20, <2>1, TypesHold DEF CommitLost
  <1>21. CASE HandlerFails(w)
    <2>1. disturbances' \in Nat /\ interrupted' \in SUBSET Docs /\ unheard' \in SUBSET Docs
      BY <1>1, <1>2, <1>21 DEF HandlerFails, Disturbed, Interrupts, Fail, Ends, d
    <2> QED BY <1>2, <1>21, <2>1, LetsGoTo, TypesHold DEF HandlerFails
  <1> QED BY <1>3, <1>4, <1>5, <1>7, <1>8, <1>10, <1>11, <1>12, <1>13, <1>14, <1>15, <1>16,
             <1>17, <1>18, <1>19, <1>20, <1>21 DEF WorkerStep, SendStep, CheckStep

\* Every step keeps the types.
LEMMA TypeStep == TypeOK /\ RunsTypeOK' /\ [Next]_vars => TypeOK'
<1> SUFFICES ASSUME TypeOK, RunsTypeOK', [Next]_vars PROVE TypeOK'
  OBVIOUS
<1>1. CASE UNCHANGED vars
  BY <1>1, TypeParts, TypesHold DEF vars, TypeOK, emitted, history, told
<1>2. ASSUME NEW e \in Effects, ReopenRow(e) PROVE TypeOK'
  BY <1>2, TypeParts, TypesHold DEF ReopenRow, Disturbed, TypeOK, emitted, history, told
<1>3. ASSUME NEW d \in Docs, SriDecides(d) PROVE TypeOK'
  <2>1. \A v \in {"authorized", "rejected"} : [sri[d] EXCEPT !.verdict = v] \in SriRow
    BY TypeParts DEF SriRow
  <2>2. sri' \in [Docs -> SriRow]
    BY <1>3, <2>1, TypeParts DEF SriDecides
  <2> QED BY <1>3, <2>2, TypeParts, TypesHold DEF SriDecides, TypeOK, emitted, history, told
<1>4. CASE WorkerCrash
  <2>1. hand' \in [Workers -> HandRow]
    BY <1>4 DEF WorkerCrash, NoHand, HandRow, Places, Answers
  <2>2. interrupted' \in SUBSET Docs /\ unheard' \in SUBSET Docs /\ disturbances' \in Nat
    BY <1>4, RunningHas DEF WorkerCrash, Interrupts, HalfWay, Heard, Running, Disturbed, TypeOK
  <2> QED BY <1>4, <2>1, <2>2, TypeParts, TypesHold DEF WorkerCrash, TypeOK, emitted, told
<1> QED BY <1>1, <1>2, <1>3, <1>4, RequestTypes, WorkerTypes DEF Next

-----------------------------------------------------------------------------
(* What the handlers know of the SRI.                                      *)

\* Only the handlers M and the documents D are concerned by the step: it is enough to
\* look at the handlers M, at what the others know of D, and at D.
LEMMA SriKept ==
    ASSUME TypeOK, SriInv, NEW M \in SUBSET Workers, NEW D \in SUBSET Docs,
           \A v \in Workers \ M : task'[v] = task[v] /\ hand'[v] = hand[v],
           \A d \in Docs \ D : doc'[d] = doc[d] /\ sri'[d] = sri[d],
           Astray \subseteq Astray',
           \A v \in Workers \ M : task[v].phase = "running" /\ DocAt(v) \in D =>
               /\ SendOK(task[v], hand[v], doc', sri', Astray')
               /\ AskOK(task[v], hand[v], doc', sri', Astray'),
           \A v \in M : /\ HandOK(task'[v], hand'[v])
                        /\ SendOK(task'[v], hand'[v], doc', sri', Astray')
                        /\ AskOK(task'[v], hand'[v], doc', sri', Astray'),
           \A v \in M, u \in Workers :
               /\ Sending(task'[v], hand'[v]) /\ Sending(task'[u], hand'[u])
               /\ DocOf[task'[v].effect] = DocOf[task'[u].effect]
               => u = v \/ DocOf[task'[v].effect] \in Astray',
           \A d \in D : d \notin Astray' => DocOK(d, doc', sri')
    PROVE  SriInv'
  <1>1. ASSUME NEW v \in Workers
        PROVE  /\ HandOK(task'[v], hand'[v])
               /\ SendOK(task'[v], hand'[v], doc', sri', Astray')
               /\ AskOK(task'[v], hand'[v], doc', sri', Astray')
    <2>1. CASE v \in M
      BY <2>1
    <2>2. CASE v \notin M
      <3>1. task'[v] = task[v] /\ hand'[v] = hand[v] /\ HandOK(task[v], hand[v])
        BY <2>2 DEF SriInv
      <3>2. CASE task[v].phase # "running"
        BY <3>1, <3>2 DEF SendOK, AskOK, Sending, Asking
      <3>3. CASE task[v].phase = "running" /\ DocAt(v) \in D
        BY <2>2, <3>1, <3>3
      <3>4. CASE task[v].phase = "running" /\ DocAt(v) \notin D
        <4>1. DocAt(v) \in Docs \ D
          BY <3>4, RunningHas
        <4>2. doc'[DocAt(v)] = doc[DocAt(v)] /\ sri'[DocAt(v)] = sri[DocAt(v)]
          BY <4>1
        <4>3. /\ SendOK(task[v], hand[v], doc, sri, Astray)
              /\ AskOK(task[v], hand[v], doc, sri, Astray)
          BY DEF SriInv
        <4>4. SendOK(task[v], hand[v], doc', sri', Astray')
          BY <4>2, <4>3 DEF SendOK, Told, DocAt
        <4>5. AskOK(task[v], hand[v], doc', sri', Astray')
          BY <4>2, <4>3 DEF AskOK, DocAt
        <4> QED BY <3>1, <4>4, <4>5
      <3> QED BY <3>2, <3>3, <3>4
    <2> QED BY <2>1, <2>2
  <1>2. ASSUME NEW v \in Workers, NEW u \in Workers,
               Sending(task'[v], hand'[v]), Sending(task'[u], hand'[u]),
               DocOf[task'[v].effect] = DocOf[task'[u].effect],
               DocOf[task'[v].effect] \notin Astray'
        PROVE  v = u
    <2>1. CASE v \in M \/ u \in M
      BY <1>2, <2>1
    <2>2. CASE v \notin M /\ u \notin M
      <3>1. task'[v] = task[v] /\ hand'[v] = hand[v] /\ task'[u] = task[u] /\ hand'[u] = hand[u]
        BY <2>2
      <3> QED BY <1>2, <3>1 DEF SriInv
    <2> QED BY <2>1, <2>2
  <1>3. ASSUME NEW d \in Docs \ Astray' PROVE DocOK(d, doc', sri')
    <2>1. CASE d \in D
      BY <2>1
    <2>2. CASE d \notin D
      <3>1. doc'[d] = doc[d] /\ sri'[d] = sri[d] /\ DocOK(d, doc, sri)
        BY <2>2 DEF SriInv
      <3> QED BY <3>1 DEF DocOK
    <2> QED BY <2>1, <2>2
  <1> QED BY <1>1, <1>2, <1>3 DEF SriInv

\* A handler between the statements in which it deals with the SRI.
Apart(t, h) == HandOK(t, h) /\ ~Sending(t, h) /\ ~Asking(t, h)

\* The documents stay, and a handler that moves no longer deals with the SRI.
LEMMA ApartKeeps ==
    ASSUME TypeOK, SriInv, NEW M \in SUBSET Workers,
           \A v \in Workers \ M : task'[v] = task[v] /\ hand'[v] = hand[v],
           \A v \in M : Apart(task'[v], hand'[v]),
           UNCHANGED <<doc, sri, Astray>>
    PROVE  SriInv'
  <1>1. \A v \in M : /\ HandOK(task'[v], hand'[v]) /\ ~Sending(task'[v], hand'[v])
                     /\ SendOK(task'[v], hand'[v], doc', sri', Astray')
                     /\ AskOK(task'[v], hand'[v], doc', sri', Astray')
    BY DEF Apart, SendOK, AskOK
  <1>2. {} \in SUBSET Docs /\ \A d \in Docs : doc'[d] = doc[d] /\ sri'[d] = sri[d]
    OBVIOUS
  <1> QED BY <1>1, <1>2, SriKept

\* A handler with an empty hand, or back in the hands of the outbox.
LEMMA EmptyApart ==
    ASSUME NEW t, NEW h, h = NoHand
    PROVE  Apart(t, h)
  BY DEF Apart, HandOK, Sending, Asking, NoHand, SendPlaces, CheckPlaces

\* One document changes under the handlers, which do not move.
LEMMA DocumentKeeps ==
    ASSUME TypeOK, SriInv, NEW d \in Docs, UNCHANGED <<task, hand, Astray>>,
           \A x \in Docs \ {d} : doc'[x] = doc[x] /\ sri'[x] = sri[x],
           \A v \in Workers : task[v].phase = "running" /\ DocAt(v) = d =>
               /\ SendOK(task[v], hand[v], doc', sri', Astray)
               /\ AskOK(task[v], hand[v], doc', sri', Astray),
           d \notin Astray => DocOK(d, doc', sri')
    PROVE  SriInv'
  <1> DEFINE M == {}
             D == {d}
  <1>1. M \in SUBSET Workers /\ D \in SUBSET Docs /\ Astray \subseteq Astray'
    OBVIOUS
  <1>2. /\ \A v \in Workers \ M : task'[v] = task[v] /\ hand'[v] = hand[v]
        /\ \A x \in Docs \ D : doc'[x] = doc[x] /\ sri'[x] = sri[x]
        /\ \A v \in Workers \ M : task[v].phase = "running" /\ DocAt(v) \in D =>
               /\ SendOK(task[v], hand[v], doc', sri', Astray')
               /\ AskOK(task[v], hand[v], doc', sri', Astray')
        /\ \A x \in D : x \notin Astray' => DocOK(x, doc', sri')
    OBVIOUS
  <1>3. \A v \in M : FALSE
    OBVIOUS
  <1> HIDE DEF M, D
  <1> QED BY <1>1, <1>2, <1>3, SriKept

\* Two handlers of checks have two documents.
LEMMA OneAsks ==
    ASSUME TypeOK, RowsInv, NEW v \in Workers, NEW w \in Workers,
           task[v].phase = "running", task[v].effect \in Polling,
           task[w].phase = "running", task[w].effect \in Polling, DocAt(v) = DocAt(w)
    PROVE  v = w
  <1>1. /\ Holds(task[v], task[v].effect) /\ Holds(task[w], task[w].effect)
        /\ task[v].effect \in Effects /\ task[w].effect \in Effects
    BY RunningHas DEF Holds
  <1>2. effect[task[v].effect] = "open" /\ effect[task[w].effect] = "open"
    BY <1>1 DEF RowsInv
  <1>3. KeyOf[task[v].effect] = KeyOf[task[w].effect]
    BY DEF DocAt
  <1>4. task[v].effect = task[w].effect
    BY <1>2, <1>3 DEF RowsInv
  <1> QED BY <1>1, <1>4 DEF RowsInv

\* The transitions of a status, one by one.
LEMMA TransitionsAre ==
    ASSUME TypeOK, NEW d \in Docs
    PROVE  /\ CanTransition(d, "PENDING_SEND") <=> doc[d].status = "SIGNED"
           /\ CanTransition(d, "RECEIVED") <=> doc[d].status = "PENDING_SEND"
           /\ CanTransition(d, "RETURNED") <=> doc[d].status = "PENDING_SEND"
           /\ CanTransition(d, "AUTHORIZED") <=> doc[d].status = "RECEIVED"
           /\ CanTransition(d, "NOT_AUTHORIZED") <=> doc[d].status = "RECEIVED"
           /\ CanTransition(d, "SIGNED") <=> doc[d].status \in {"RETURNED", "NOT_AUTHORIZED"}
           /\ CanTransition(d, "VOIDED") <=> doc[d].status = "AUTHORIZED"
  <1>1. doc[d].status \in Status
    BY TypeParts DEF DocRow
  <1> QED BY <1>1 DEF CanTransition, Transitions, Status

\* A step that touches neither the handlers, the documents nor the SRI.
LEMMA NothingKeeps ==
    ASSUME SriInv, UNCHANGED <<task, hand, doc, sri, Astray>>
    PROVE  SriInv'
  BY DEF SriInv, HandOK, SendOK, AskOK, Sending, Asking, Told, DocOK

\* A request moves no document that a handler deals with.
LEMMA RequestSri ==
    ASSUME TypeOK, SriInv, NEW r \in Requests, RequestStep(r)
    PROVE  SriInv'
  <1> DEFINE d == req[r].doc
  <1>1. ASSUME NEW x \in Docs, ReadToSend(r, x) \/ ReadToCheck(r, x) \/ ReadToRebuild(r, x) \/ ReadToVoid(r, x)
        PROVE  SriInv'
    BY <1>1, NothingKeeps
       DEF ReadToSend, ReadToCheck, ReadToRebuild, ReadToVoid, Starts, runVars, history, told, Astray
  <1>2. CASE EnqueueSend(r) \/ EnqueueRequestedCheck(r)
    BY <1>2, NothingKeeps
       DEF EnqueueSend, EnqueueRequestedCheck, Request, ReusesCheck, CreatesCheck, history, told, Astray
  <1>3. CASE RequestDies(r)
    BY <1>3, NothingKeeps DEF RequestDies, runVars, told, Astray
  <1>4. req[r] # NoRequest => d \in Docs
    BY DEF TypeOK
  <1> HIDE DEF d
  <1>5. CASE SetPendingSend(r)
    <2>1. d \in Docs /\ UNCHANGED <<task, hand, Astray, sri>>
      BY <1>4, <1>5 DEF SetPendingSend, At, runVars, history, told, Astray
    <2>2. CASE doc' = doc
      BY <2>1, <2>2, NothingKeeps
    <2>3. CASE TriggerAllows(d, "PENDING_SEND") /\ SetStatus(d, "PENDING_SEND")
      <3>1. doc[d].status \in {"SIGNED", "PENDING_SEND"}
        BY <2>1, <2>3, TransitionsAre DEF TriggerAllows
      <3>2. /\ doc'[d].status = "PENDING_SEND" /\ doc'[d].xml = doc[d].xml
            /\ \A x \in Docs \ {d} : doc'[x] = doc[x]
        BY <2>1, <2>3, StatusMoves DEF Status
      <3>3. ASSUME NEW v \in Workers, task[v].phase = "running", DocAt(v) = d
            PROVE  /\ SendOK(task[v], hand[v], doc', sri', Astray)
                   /\ AskOK(task[v], hand[v], doc', sri', Astray)
        <4>1. /\ SendOK(task[v], hand[v], doc, sri, Astray)
              /\ AskOK(task[v], hand[v], doc, sri, Astray)
          BY DEF SriInv
        <4>2. SendOK(task[v], hand[v], doc', sri', Astray)
          BY <2>1, <3>2, <3>3, <4>1 DEF SendOK, Told, DocAt
        <4>3. AskOK(task[v], hand[v], doc', sri', Astray)
          BY <3>1, <3>3, <4>1 DEF AskOK, DocAt
        <4> QED BY <4>2, <4>3
      <3>4. d \notin Astray => DocOK(d, doc', sri')
        BY <2>1, <3>1, <3>2 DEF SriInv, DocOK
      <3> QED BY <2>1, <3>2, <3>3, <3>4, DocumentKeeps
    <2> QED BY <1>5, <2>2, <2>3 DEF SetPendingSend, d
  <1>6. CASE CommitRebuild(r)
    <2>1. d \in Docs /\ UNCHANGED <<task, hand, Astray, sri>>
      BY <1>4, <1>6 DEF CommitRebuild, At, runVars, history, told, Astray
    <2>2. CASE doc' = doc
      BY <2>1, <2>2, NothingKeeps
    <2>3. CASE /\ TriggerAllows(d, "SIGNED")
               /\ doc' = [doc EXCEPT ![d] = [status |-> "SIGNED", xml |-> @.xml + 1]]
      <3>1. doc[d].status \in {"SIGNED", "RETURNED", "NOT_AUTHORIZED"}
        BY <2>1, <2>3, TransitionsAre DEF TriggerAllows
      <3>2. doc'[d].status = "SIGNED" /\ \A x \in Docs \ {d} : doc'[x] = doc[x]
        BY <2>1, <2>3, TypeParts
      <3>3. ASSUME NEW v \in Workers, task[v].phase = "running", DocAt(v) = d
            PROVE  /\ SendOK(task[v], hand[v], doc', sri', Astray)
                   /\ AskOK(task[v], hand[v], doc', sri', Astray)
        BY <3>1, <3>3 DEF SriInv, SendOK, AskOK, DocAt
      <3>4. d \notin Astray => DocOK(d, doc', sri')
        BY <2>1, <3>1, <3>2 DEF SriInv, DocOK
      <3> QED BY <2>1, <3>2, <3>3, <3>4, DocumentKeeps
    <2> QED BY <1>6, <2>2, <2>3 DEF CommitRebuild, d
  <1>7. CASE SetVoided(r)
    <2>1. d \in Docs /\ UNCHANGED <<task, hand, Astray, sri>>
      BY <1>4, <1>7 DEF SetVoided, At, runVars, history, told, Astray
    <2>2. TriggerAllows(d, "VOIDED") /\ SetStatus(d, "VOIDED")
      BY <1>7 DEF SetVoided, d
    <2>3. doc[d].status \in {"AUTHORIZED", "VOIDED"}
      BY <2>1, <2>2, TransitionsAre DEF TriggerAllows
    <2>4. /\ doc'[d].status = "VOIDED" /\ doc'[d].xml = doc[d].xml
          /\ \A x \in Docs \ {d} : doc'[x] = doc[x]
      BY <2>1, <2>2, StatusMoves DEF Status
    <2>5. ASSUME NEW v \in Workers, task[v].phase = "running", DocAt(v) = d
          PROVE  /\ SendOK(task[v], hand[v], doc', sri', Astray)
                 /\ AskOK(task[v], hand[v], doc', sri', Astray)
      BY <2>3, <2>5 DEF SriInv, SendOK, AskOK, DocAt
    <2>6. d \notin Astray => DocOK(d, doc', sri')
      BY <2>1, <2>3, <2>4 DEF SriInv, DocOK
    <2> QED BY <2>1, <2>4, <2>5, <2>6, DocumentKeeps
  <1> QED BY <1>1, <1>2, <1>3, <1>5, <1>6, <1>7 DEF RequestStep

\* The SRI decides on what it holds: nobody was told otherwise.
LEMMA DecidesSri ==
    ASSUME TypeOK, SriInv, NEW d \in Docs, SriDecides(d)
    PROVE  SriInv'
  <1>1. PICK verdict \in {"authorized", "rejected"} : sri' = [sri EXCEPT ![d].verdict = verdict]
    BY DEF SriDecides
  <1>2. /\ sri'[d].verdict = verdict /\ sri'[d].xml = sri[d].xml
        /\ \A x \in Docs \ {d} : sri'[x] = sri[x]
    BY <1>1, TypeParts DEF SriRow
  <1>3. sri[d].verdict = "processing" /\ UNCHANGED <<task, hand, Astray, doc>>
    BY DEF SriDecides, runVars, history, told, Astray
  <1>4. ASSUME NEW v \in Workers, task[v].phase = "running", DocAt(v) = d
        PROVE  /\ SendOK(task[v], hand[v], doc', sri', Astray)
               /\ AskOK(task[v], hand[v], doc', sri', Astray)
    <2>1. /\ SendOK(task[v], hand[v], doc, sri, Astray)
          /\ AskOK(task[v], hand[v], doc, sri, Astray)
      BY DEF SriInv
    <2>2. SendOK(task[v], hand[v], doc', sri', Astray)
      BY <1>2, <1>3, <1>4, <2>1 DEF SendOK, Told, DocAt
    <2>3. AskOK(task[v], hand[v], doc', sri', Astray)
      BY <1>2, <1>3, <1>4, <2>1 DEF AskOK, DocAt
    <2> QED BY <2>2, <2>3
  <1>5. d \notin Astray => DocOK(d, doc', sri')
    <2>1. d \notin Astray => doc[d].status \in {"PENDING_SEND", "RECEIVED"} /\ sri[d].xml = doc[d].xml
      BY <1>3 DEF SriInv, DocOK
    <2> QED BY <1>2, <1>3, <2>1 DEF DocOK
  <1> QED BY <1>2, <1>3, <1>4, <1>5, DocumentKeeps

\* One handler moves, to a place where it does not deal with the SRI.
LEMMA OneApartKeeps ==
    ASSUME TypeOK, SriInv, NEW w \in Workers, Apart(task'[w], hand'[w]),
           \A v \in Workers \ {w} : task'[v] = task[v] /\ hand'[v] = hand[v],
           UNCHANGED <<doc, sri, Astray>>
    PROVE  SriInv'
  <1> DEFINE M == {w}
  <1>1. /\ M \in SUBSET Workers /\ \A v \in M : Apart(task'[v], hand'[v])
        /\ \A v \in Workers \ M : task'[v] = task[v] /\ hand'[v] = hand[v]
    OBVIOUS
  <1> HIDE DEF M
  <1> QED BY <1>1, ApartKeeps

\* Only w's task can change in a step of w.
TaskOfOnly(w) == \A v \in Workers \ {w} : task'[v] = task[v]

\* What the outbox does for a handler concerns that handler alone.
LEMMA OnlyItsTask ==
    ASSUME TypeOK, NEW w \in Workers,
           \/ \E e \in Effects : Begin(w, e)
           \/ Succeed(w) \/ Refuse(w) \/ Fail(w) \/ Requeue(w) \/ Commit(w)
           \/ CommitFails(w) \/ Record(w) \/ UNCHANGED runVars
    PROVE  TaskOfOnly(w)
  <1>1. task \in [Workers -> [phase : Phases, effect : Effects] \cup {Idle}]
    BY TypeParts DEF RunsTypeOK
  <1> QED BY <1>1 DEF TaskOfOnly, Begin, Succeed, Refuse, Fail, Ends, Requeue, Commit, CommitFails,
                     Record, runVars

\* The steps that end or begin a run know nothing of the SRI.
LEMMA EmptyHandedSri ==
    ASSUME TypeOK, SriInv, NEW w \in Workers,
           \/ \E e \in Effects : Claim(w, e)
           \/ RefuseStale(w) \/ AskAgainLater(w) \/ HandlerReturns(w) \/ CommitDone(w)
           \/ CommitLost(w) \/ RecordOutcome(w) \/ HandlerFails(w)
    PROVE  SriInv'
  <1>1. UNCHANGED <<doc, sri, Astray>>
    BY DEF Claim, RefuseStale, AskAgainLater, HandlerReturns, CommitDone, CommitLost,
           RecordOutcome, HandlerFails, history, told, Astray
  <1>2. TaskOfOnly(w)
    BY OnlyItsTask DEF Claim, RefuseStale, AskAgainLater, HandlerReturns, CommitDone, CommitLost,
           RecordOutcome, HandlerFails
  <1>3. hand'[w] = NoHand /\ \A v \in Workers \ {w} : hand'[v] = hand[v]
    <2>1. CASE LetsGo(w)
      BY <2>1, LetsGoTo
    <2>2. CASE hand' = hand /\ task[w].phase # "running"
      BY <2>2 DEF SriInv, HandOK
    <2>3. CASE \/ \E e \in Effects : Claim(w, e)
               \/ CommitDone(w) \/ CommitLost(w) \/ RecordOutcome(w)
      BY <2>2, <2>3 DEF Claim, Begin, Idle, CommitDone, Commit, CommitLost, CommitFails,
                        RecordOutcome, Record
    <2> QED BY <2>1, <2>3 DEF RefuseStale, AskAgainLater, HandlerReturns, HandlerFails
  <1> QED BY <1>1, <1>2, <1>3, EmptyApart, OneApartKeeps DEF TaskOfOnly

\* The steps that follow a status the handler has written.
LEMMA AfterwardsSri ==
    ASSUME TypeOK, SriInv, NEW w \in Workers, EnqueueCheck(w) \/ Notify(w) \/ QueueEmail(w)
    PROVE  SriInv'
  <1>1. UNCHANGED <<task, doc, sri, Astray>>
    BY DEF EnqueueCheck, Notify, QueueEmail, runVars, history, told, Astray
  <1>2. PICK at \in {"end", "notified"} :
            Moves(w, at) /\ (at = "notified" => task[w].effect \in Polling) /\ task[w].phase = "running"
    BY DEF EnqueueCheck, Notify, QueueEmail, Running
  <1>3. hand'[w].at = at /\ \A v \in Workers \ {w} : hand'[v] = hand[v]
    <2>1. at \in Places
      BY DEF Places
    <2>2. Moves(w, at)
      BY <1>2
    <2>3. /\ hand'[w] = HandAt(at, hand[w].xml, hand[w].answer)
          /\ \A v \in Workers \ {w} : hand'[v] = hand[v]
      BY <2>1, <2>2, MovesTo
    <2> QED BY <2>3 DEF HandAt
  <1>4. Apart(task'[w], hand'[w])
    BY <1>1, <1>2, <1>3 DEF Apart, HandOK, Sending, Asking, SendPlaces, CheckPlaces
  <1> QED BY <1>1, <1>3, <1>4, OneApartKeeps

\* One handler moves, and deals with the SRI about documents D.
LEMMA OneMovesKeeps ==
    ASSUME TypeOK, SriInv, NEW w \in Workers, NEW D \in SUBSET Docs,
           \A v \in Workers \ {w} : task'[v] = task[v] /\ hand'[v] = hand[v],
           \A d \in Docs \ D : doc'[d] = doc[d] /\ sri'[d] = sri[d],
           Astray \subseteq Astray',
           \A v \in Workers \ {w} : task[v].phase = "running" /\ DocAt(v) \in D =>
               /\ SendOK(task[v], hand[v], doc', sri', Astray')
               /\ AskOK(task[v], hand[v], doc', sri', Astray'),
           HandOK(task'[w], hand'[w]),
           SendOK(task'[w], hand'[w], doc', sri', Astray'),
           AskOK(task'[w], hand'[w], doc', sri', Astray'),
           \A u \in Workers \ {w} :
               /\ Sending(task'[w], hand'[w]) /\ Sending(task'[u], hand'[u])
               /\ DocOf[task'[w].effect] = DocOf[task'[u].effect]
               => DocOf[task'[w].effect] \in Astray',
           \A d \in D : d \notin Astray' => DocOK(d, doc', sri')
    PROVE  SriInv'
  <1> DEFINE M == {w}
  <1>1. /\ M \in SUBSET Workers
        /\ \A v \in Workers \ M : task'[v] = task[v] /\ hand'[v] = hand[v]
        /\ \A v \in Workers \ M : task[v].phase = "running" /\ DocAt(v) \in D =>
               /\ SendOK(task[v], hand[v], doc', sri', Astray')
               /\ AskOK(task[v], hand[v], doc', sri', Astray')
        /\ \A v \in M : /\ HandOK(task'[v], hand'[v])
                        /\ SendOK(task'[v], hand'[v], doc', sri', Astray')
                        /\ AskOK(task'[v], hand'[v], doc', sri', Astray')
    OBVIOUS
  <1>2. \A v \in M, u \in Workers :
           /\ Sending(task'[v], hand'[v]) /\ Sending(task'[u], hand'[u])
           /\ DocOf[task'[v].effect] = DocOf[task'[u].effect]
           => u = v \/ DocOf[task'[v].effect] \in Astray'
    OBVIOUS
  <1> HIDE DEF M
  <1> QED BY <1>1, <1>2, SriKept

\* A handler of a row to send, or to check, begins.
LEMMA ReadSri ==
    ASSUME TypeOK, RowsInv, SriInv, NEW w \in Workers, ReadForSend(w) \/ ReadForCheck(w)
    PROVE  SriInv'
  <1> DEFINE d == DocAt(w)
  <1>1. UNCHANGED <<task, doc, sri>> /\ task[w].phase = "running" /\ d \in Docs /\ task[w].effect \in Effects
    BY RunningHas DEF ReadForSend, ReadForCheck, Running, runVars
  <1>2. Astray \subseteq Astray'
    BY DEF ReadForSend, ReadForCheck, history, told, Astray
  <1>3. \A v \in Workers \ {w} : hand'[v] = hand[v]
    BY TypeParts DEF ReadForSend, ReadForCheck, Moves
  <1>4. /\ HandOK(task'[w], hand'[w])
        /\ SendOK(task'[w], hand'[w], doc', sri', Astray')
        /\ AskOK(task'[w], hand'[w], doc', sri', Astray')
        /\ \A u \in Workers \ {w} :
               /\ Sending(task'[w], hand'[w]) /\ Sending(task'[u], hand'[u])
               /\ DocOf[task'[w].effect] = DocOf[task'[u].effect]
               => DocOf[task'[w].effect] \in Astray'
    <2>1. CASE ReadForSend(w)
      <3>1. /\ hand'[w].at = "sending" /\ hand'[w].xml = doc[d].xml
            /\ task[w].effect \in Sends /\ task[w].effect \notin Polling
        BY <1>1, <2>1, TypeParts DEF ReadForSend, Running, HandRow
      <3>2. doc[d].status = "PENDING_SEND"
        BY <1>1, <2>1, TransitionsAre DEF ReadForSend
      <3>3. HandOK(task'[w], hand'[w])
        BY <1>1, <3>1 DEF HandOK, SendPlaces
      <3>4. SendOK(task'[w], hand'[w], doc', sri', Astray')
        BY <1>1, <3>1, <3>2 DEF SendOK, DocAt
      <3>5. AskOK(task'[w], hand'[w], doc', sri', Astray')
        BY <1>1, <3>1 DEF AskOK, Asking
      <3>6. ASSUME NEW u \in Workers, Sending(task'[u], hand'[u]), DocOf[task'[w].effect] = DocOf[task'[u].effect],
                   u # w
            PROVE  DocOf[task'[w].effect] \in Astray'
        <4>1. task'[u] = task[u] /\ hand'[u] = hand[u] /\ DocAt(u) = d
          BY <1>1, <1>3, <3>6 DEF DocAt
        <4>2. BeingSent(d)
          BY <3>6, <4>1 DEF BeingSent, Running, Sending
        <4>3. d \in Astray'
          BY <2>1, <4>2 DEF ReadForSend, Astray
        <4> QED BY <1>1, <4>3 DEF DocAt
      <3> QED BY <3>3, <3>4, <3>5, <3>6
    <2>2. CASE ReadForCheck(w)
      <3>1. hand'[w].at = "asking" /\ task[w].effect \in Polling /\ task[w].effect \notin Sends
        BY <2>2, TypeParts DEF ReadForCheck, Running, Moves, HandRow
      <3>2. doc[d].status = "RECEIVED"
        BY <1>1, <2>2, TransitionsAre DEF ReadForCheck
      <3>3. HandOK(task'[w], hand'[w])
        BY <1>1, <3>1 DEF HandOK, CheckPlaces
      <3>4. AskOK(task'[w], hand'[w], doc', sri', Astray')
        BY <1>1, <3>1, <3>2 DEF AskOK, DocAt
      <3>5. ~Sending(task'[w], hand'[w])
        BY <1>1, <3>1 DEF Sending
      <3> QED BY <3>3, <3>4, <3>5 DEF SendOK
    <2> QED BY <2>1, <2>2
  <1>5. {} \in SUBSET Docs /\ \A v \in Workers \ {w} : task'[v] = task[v] /\ hand'[v] = hand[v]
    BY <1>1, <1>3
  <1> HIDE DEF d
  <1> QED BY <1>1, <1>2, <1>4, <1>5, OneMovesKeeps

\* The SRI takes in, or not, a version of d: what it answers w holds for w, and whatever
\* the other handlers know of d still holds.
LEMMA ReceptionSri ==
    ASSUME TypeOK, SriInv, NEW w \in Workers, NEW answer \in Answers, Reception(w, answer),
           UNCHANGED doc, Astray \subseteq Astray',
           answer = "other" /\ DocAt(w) \notin Astray' => sri'[DocAt(w)].verdict \in {"none", "rejected"}
    PROVE  /\ \A x \in Docs \ {DocAt(w)} : sri'[x] = sri[x]
           /\ DocAt(w) \notin Astray' =>
                 DocOK(DocAt(w), doc', sri') /\ Told(answer, DocAt(w), doc', sri')
           /\ \A v \in Workers : task[v].phase = "running" /\ DocAt(v) = DocAt(w) =>
                 /\ v = w \/ SendOK(task[v], hand[v], doc', sri', Astray')
                 /\ hand[v].at = "sending" => SendOK(task[v], hand[v], doc', sri', Astray')
                 /\ AskOK(task[v], hand[v], doc', sri', Astray')
  <1> DEFINE d == DocAt(w)
             Says(a) == \/ sri[d].verdict \in {"none", "rejected"} /\ a \in {"DEVUELTA", "other"}
                        \/ sri[d].verdict = "processing" /\ a \in {"70", "other"}
                        \/ sri[d].verdict = "authorized" /\ a \in {"43", "other"}
  <1>1. d \in Docs /\ task[w].phase = "running" /\ task[w].effect \in Sends /\ hand[w].at = "sending"
    BY RunningHas DEF Reception, Running
  <1>2. \/ /\ sri[d].verdict \in {"none", "rejected"} /\ answer \in {"RECIBIDA", "other"}
           /\ sri' = [sri EXCEPT ![d] = [verdict |-> "processing", xml |-> hand[w].xml]]
        \/ sri' = sri /\ Says(answer)
    BY DEF Reception, Accepts
  <1>3. \/ sri' = sri /\ Says(answer)
        \/ /\ sri[d].verdict \in {"none", "rejected"} /\ answer \in {"RECIBIDA", "other"}
           /\ sri'[d].verdict = "processing" /\ sri'[d].xml = hand[w].xml
    BY <1>1, <1>2, TypeParts
  <1>4. \A x \in Docs \ {d} : sri'[x] = sri[x]
    BY <1>1, <1>2, TypeParts
  <1>5. /\ SendOK(task[w], hand[w], doc, sri, Astray) /\ Sending(task[w], hand[w])
        /\ d \notin Astray => DocOK(d, doc, sri)
    BY <1>1 DEF SriInv, Sending
  <1>6. d \notin Astray => doc[d].status = "PENDING_SEND" /\ hand[w].xml = doc[d].xml
    BY <1>5 DEF SendOK, DocAt
  <1>7. ASSUME d \notin Astray' PROVE DocOK(d, doc', sri') /\ Told(answer, d, doc', sri')
    <2>1. /\ doc' = doc /\ doc[d].status = "PENDING_SEND" /\ hand[w].xml = doc[d].xml
          /\ sri[d].verdict = "processing" => sri[d].xml = doc[d].xml
          /\ DocOK(d, doc, sri)
      BY <1>5, <1>6, <1>7 DEF DocOK
    <2>2. answer = "other" => sri'[d].verdict \in {"none", "rejected"}
      BY <1>7
    <2>3. CASE sri' = sri /\ Says(answer)
      <3>1. DocOK(d, doc', sri')
        BY <2>1, <2>3 DEF DocOK
      <3>2. Told(answer, d, doc', sri')
        BY <2>1, <2>2, <2>3 DEF Told
      <3> QED BY <3>1, <3>2
    <2>4. CASE /\ answer \in {"RECIBIDA", "other"}
               /\ sri'[d].verdict = "processing" /\ sri'[d].xml = hand[w].xml
      <3>1. answer = "RECIBIDA"
        BY <2>2, <2>4
      <3> QED BY <2>1, <2>4, <3>1 DEF DocOK, Told
    <2> QED BY <1>3, <2>3, <2>4
  <1>8. ASSUME NEW v \in Workers, task[v].phase = "running", DocAt(v) = d
        PROVE  /\ v = w \/ SendOK(task[v], hand[v], doc', sri', Astray')
               /\ hand[v].at = "sending" => SendOK(task[v], hand[v], doc', sri', Astray')
               /\ AskOK(task[v], hand[v], doc', sri', Astray')
    <2>1. /\ SendOK(task[v], hand[v], doc, sri, Astray) /\ AskOK(task[v], hand[v], doc, sri, Astray)
          /\ Sending(task[v], hand[v]) /\ d \notin Astray => v = w
      BY <1>5, <1>8 DEF SriInv, DocAt
    <2>2. v = w \/ SendOK(task[v], hand[v], doc', sri', Astray')
      BY <1>8, <2>1 DEF SendOK, DocAt
    <2>3. hand[v].at = "sending" => SendOK(task[v], hand[v], doc', sri', Astray')
      BY <1>8, <2>1 DEF SendOK, DocAt
    <2>4. AskOK(task[v], hand[v], doc', sri', Astray')
      <3>1. CASE sri' = sri
        BY <2>1, <3>1 DEF AskOK
      <3>2. CASE d \notin Astray
        BY <1>6, <1>8, <2>1, <3>2 DEF AskOK, DocAt
      <3>3. CASE sri[d].verdict \in {"none", "rejected"} /\ d \in Astray
        BY <1>8, <2>1, <3>3 DEF AskOK, DocAt
      <3> QED BY <1>3, <3>1, <3>2, <3>3
    <2> QED BY <2>2, <2>3, <2>4
  <1> QED BY <1>4, <1>7, <1>8

\* The submission of a document, answered or lost.
LEMMA SubmitSri ==
    ASSUME TypeOK, SriInv, NEW w \in Workers, Submit(w) \/ SubmitLost(w)
    PROVE  SriInv'
  <1> DEFINE d == DocAt(w)
  <1> DEFINE no == sri'[d].verdict \in {"none", "rejected"}
  <1>1. CASE SubmitLost(w)
    <2>1. PICK a \in Answers : Reception(w, a)
      BY <1>1 DEF SubmitLost
    <2>2. PICK answer \in Answers \ {"other"} : Reception(w, answer)
      BY <2>1 DEF Reception, Answers
    <2>3. UNCHANGED <<task, hand, doc, Astray>> /\ d \in Docs
      BY <1>1, <2>1, RunningHas DEF SubmitLost, runVars, Astray, Reception, Running
    <2>4. /\ \A x \in Docs \ {d} : sri'[x] = sri[x]
          /\ d \notin Astray' => DocOK(d, doc', sri')
          /\ \A v \in Workers : task[v].phase = "running" /\ DocAt(v) = d =>
                /\ v = w \/ SendOK(task[v], hand[v], doc', sri', Astray')
                /\ hand[v].at = "sending" => SendOK(task[v], hand[v], doc', sri', Astray')
                /\ AskOK(task[v], hand[v], doc', sri', Astray')
      BY <2>2, <2>3, ReceptionSri
    <2>5. hand[w].at = "sending"
      BY <2>1 DEF Reception, Running
    <2>6. \A v \in Workers : task[v].phase = "running" /\ DocAt(v) = d =>
             /\ SendOK(task[v], hand[v], doc', sri', Astray)
             /\ AskOK(task[v], hand[v], doc', sri', Astray)
      BY <2>3, <2>4, <2>5
    <2> QED BY <2>3, <2>4, <2>6, DocumentKeeps
  <1> SUFFICES ASSUME Submit(w) PROVE SriInv'
    BY <1>1
  <1>2. PICK answer \in Answers :
            Reception(w, answer) /\ Hears(w, "sent", answer) /\ Reads(d, answer, no)
    BY DEF Submit
  <1>3. /\ d \in Docs /\ task[w].phase = "running" /\ task[w].effect \in Sends
        /\ task[w].effect \notin Polling /\ hand[w].at = "sending"
    BY <1>2, RunningHas DEF Reception, Running
  <1>4. /\ UNCHANGED <<task, doc>> /\ Astray \subseteq Astray' /\ Astray' \subseteq Astray \cup {d}
        /\ answer = "other" /\ d \notin Astray' => no
    BY <1>2 DEF Submit, runVars, Reads, Astray
  <1>5. /\ \A x \in Docs \ {d} : sri'[x] = sri[x]
        /\ d \notin Astray' => DocOK(d, doc', sri') /\ Told(answer, d, doc', sri')
        /\ \A v \in Workers : task[v].phase = "running" /\ DocAt(v) = d =>
              /\ v = w \/ SendOK(task[v], hand[v], doc', sri', Astray')
              /\ hand[v].at = "sending" => SendOK(task[v], hand[v], doc', sri', Astray')
              /\ AskOK(task[v], hand[v], doc', sri', Astray')
    BY <1>2, <1>4, ReceptionSri
  <1>6. /\ hand'[w] = HandAt("sent", hand[w].xml, answer)
        /\ \A v \in Workers \ {w} : hand'[v] = hand[v]
    BY <1>2, HearsTo DEF Places
  <1>7. /\ hand'[w].at = "sent" /\ hand'[w].xml = hand[w].xml /\ hand'[w].answer = answer
    BY <1>6 DEF HandAt
  <1>8. HandOK(task'[w], hand'[w])
    BY <1>4, <1>3, <1>7 DEF HandOK, SendPlaces
  <1>9. SendOK(task'[w], hand'[w], doc', sri', Astray')
    <2>1. d \notin Astray' => doc[d].status = "PENDING_SEND" /\ hand[w].xml = doc[d].xml
      BY <1>3, <1>4 DEF SriInv, SendOK, Sending, DocAt
    <2> QED BY <1>4, <1>5, <1>7, <2>1 DEF SendOK, DocAt
  <1>10. AskOK(task'[w], hand'[w], doc', sri', Astray')
    BY <1>4, <1>3 DEF AskOK, Asking
  <1>11. ASSUME NEW u \in Workers \ {w}, Sending(task'[u], hand'[u]), DocOf[task'[w].effect] = DocOf[task'[u].effect]
         PROVE  DocOf[task'[w].effect] \in Astray'
    <2>1. Sending(task[u], hand[u]) /\ Sending(task[w], hand[w]) /\ DocOf[task[w].effect] = DocOf[task[u].effect]
      BY <1>3, <1>4, <1>6, <1>11 DEF Sending
    <2> QED BY <1>4, <2>1 DEF SriInv
  <1> DEFINE D == {d}
  <1>12. D \in SUBSET Docs /\ \A v \in Workers \ {w} : task'[v] = task[v] /\ hand'[v] = hand[v]
    BY <1>3, <1>4, <1>6
  <1>13. \A v \in Workers \ {w} : task[v].phase = "running" /\ DocAt(v) \in D =>
            /\ SendOK(task[v], hand[v], doc', sri', Astray')
            /\ AskOK(task[v], hand[v], doc', sri', Astray')
    BY <1>5
  <1>14. (\A x \in D : x \notin Astray' => DocOK(x, doc', sri')) /\ Astray \subseteq Astray'
    BY <1>4, <1>5
  <1>15. \A x \in Docs \ D : doc'[x] = doc[x] /\ sri'[x] = sri[x]
    BY <1>4, <1>5
  <1> HIDE DEF d, D
  <1> QED BY <1>8, <1>9, <1>10, <1>11, <1>12, <1>13, <1>14, <1>15, OneMovesKeeps

\* The SRI's verdict, heard.
LEMMA AskSri ==
    ASSUME TypeOK, SriInv, NEW w \in Workers, Ask(w)
    PROVE  SriInv'
  <1> DEFINE d == DocAt(w)
             no == sri[d].verdict = "rejected"
  <1>1. /\ UNCHANGED <<task, doc, sri>> /\ d \in Docs /\ task[w].phase = "running"
        /\ task[w].effect \in Polling /\ task[w].effect \notin Sends /\ hand[w].at = "asking"
    BY RunningHas DEF Ask, Running, runVars
  <1>2. PICK answer \in {"AUTORIZADO", "NO AUTORIZADO", "other"} :
            /\ Hears(w, "asked", answer) /\ Reads(d, answer, no)
            /\ answer = "AUTORIZADO" => sri[d].verdict = "authorized"
            /\ answer = "NO AUTORIZADO" => sri[d].verdict = "rejected"
    BY DEF Ask
  <1>3. answer \in Answers /\ "asked" \in Places
    BY DEF Answers, Places
  <1>4. /\ hand'[w] = HandAt("asked", hand[w].xml, answer)
        /\ \A v \in Workers \ {w} : hand'[v] = hand[v]
    <2>1. Hears(w, "asked", answer)
      BY <1>2
    <2> QED BY <1>3, <2>1, HearsTo
  <1>5. hand'[w].at = "asked" /\ hand'[w].answer = answer
    <2>1. \A x : HandAt("asked", x, answer).at = "asked" /\ HandAt("asked", x, answer).answer = answer
      BY DEF HandAt
    <2> QED BY <1>4, <2>1
  <1>6. HandOK(task'[w], hand'[w]) /\ ~Sending(task'[w], hand'[w])
    BY <1>1, <1>5 DEF HandOK, CheckPlaces, Sending
  <1>7. Astray \subseteq Astray' /\ (answer = "other" => d \in Astray' \/ no)
    BY <1>2 DEF Ask, Reads, Astray
  <1>8. AskOK(task'[w], hand'[w], doc', sri', Astray')
    <2>1. doc[d].status = "RECEIVED"
      BY <1>1 DEF SriInv, AskOK, Asking, DocAt
    <2> QED BY <1>1, <1>2, <1>5, <1>7, <2>1 DEF AskOK, DocAt
  <1>9. SendOK(task'[w], hand'[w], doc', sri', Astray')
    BY <1>6 DEF SendOK
  <1>10. {} \in SUBSET Docs /\ \A v \in Workers \ {w} : task'[v] = task[v] /\ hand'[v] = hand[v]
    BY <1>1, <1>4
  <1> HIDE DEF d
  <1> QED BY <1>1, <1>6, <1>7, <1>8, <1>9, <1>10, OneMovesKeeps

\* No other handler stands in the way of w's writing st ...
NobodyElse(w, st) ==
    \A v \in Workers \ {w} : task[v].phase = "running" /\ DocAt(v) = DocAt(w) =>
        /\ Sending(task[v], hand[v]) => DocAt(w) \in Astray
        /\ Asking(task[v], hand[v]) => st = "RECEIVED"

\* ... and the SRI vouches for it.
Vouched(d, st) ==
    /\ sri[d].verdict = "processing" => st \in {"PENDING_SEND", "RECEIVED"}
    /\ st \in {"RECEIVED", "AUTHORIZED", "VOIDED"} => sri[d].xml = doc[d].xml
    /\ st = "RECEIVED" => sri[d].verdict # "none"
    /\ st \in {"AUTHORIZED", "VOIDED"} => sri[d].verdict = "authorized"
    /\ st = "NOT_AUTHORIZED" => sri[d].verdict = "rejected"

\* A handler writes a status that the SRI vouches for and that is no concern of the other
\* handlers, or its run fails.
LEMMA WritesSri ==
    ASSUME TypeOK, SriInv, NEW w \in Workers, task[w].phase = "running",
           NEW st \in Status, NEW next \in Places, Writes(w, st, next),
           UNCHANGED <<sri, Astray>>,
           \/ next \in {"received", "end"} /\ task[w].effect \in Sends
           \/ next \in {"authorized", "end"} /\ task[w].effect \in Polling,
           TriggerAllows(DocAt(w), st) => NobodyElse(w, st),
           TriggerAllows(DocAt(w), st) /\ DocAt(w) \notin Astray => Vouched(DocAt(w), st)
    PROVE  SriInv'
  <1> DEFINE d == DocAt(w)
  <1>1. d \in Docs
    BY RunningHas
  <1>2. /\ \A v \in Workers \ {w} : hand'[v] = hand[v]
        /\ \A x \in Docs \ {d} : doc'[x] = doc[x]
        /\ \/ /\ TriggerAllows(d, st) /\ UNCHANGED runVars
              /\ hand'[w] = HandAt(next, 0, "none")
              /\ doc'[d].status = st /\ doc'[d].xml = doc[d].xml
           \/ Fail(w) /\ hand'[w] = NoHand /\ doc' = doc
    BY <1>1, WritesTo
  <1>3. CASE Fail(w) /\ hand'[w] = NoHand /\ doc' = doc
    <2>1. \A v \in Workers \ {w} : task'[v] = task[v]
      BY <1>3, OnlyItsTask DEF TaskOfOnly
    <2> QED BY <1>2, <1>3, <2>1, EmptyApart, OneApartKeeps
  <1>4. CASE /\ TriggerAllows(d, st) /\ UNCHANGED runVars
             /\ hand'[w] = HandAt(next, 0, "none")
             /\ doc'[d].status = st /\ doc'[d].xml = doc[d].xml
    <2>1. task' = task /\ hand'[w].at = next
      BY <1>4 DEF runVars, HandAt
    <2>2. Apart(task'[w], hand'[w])
      BY <2>1 DEF Apart, HandOK, Sending, Asking, SendPlaces, CheckPlaces
    <2>3. /\ HandOK(task'[w], hand'[w]) /\ ~Sending(task'[w], hand'[w])
          /\ SendOK(task'[w], hand'[w], doc', sri', Astray')
          /\ AskOK(task'[w], hand'[w], doc', sri', Astray')
      BY <2>2 DEF Apart, SendOK, AskOK
    <2>4. ASSUME NEW v \in Workers \ {w}, task[v].phase = "running", DocAt(v) = d
          PROVE  /\ SendOK(task[v], hand[v], doc', sri', Astray')
                 /\ AskOK(task[v], hand[v], doc', sri', Astray')
      <3>1. /\ Sending(task[v], hand[v]) => d \in Astray
            /\ Asking(task[v], hand[v]) => st = "RECEIVED"
            /\ AskOK(task[v], hand[v], doc, sri, Astray)
        BY <1>4, <2>4 DEF SriInv, NobodyElse
      <3>2. SendOK(task[v], hand[v], doc', sri', Astray')
        BY <2>4, <3>1 DEF SendOK, DocAt
      <3>3. AskOK(task[v], hand[v], doc', sri', Astray')
        BY <1>4, <2>4, <3>1 DEF AskOK, DocAt
      <3> QED BY <3>2, <3>3
    <2>5. d \notin Astray => DocOK(d, doc', sri')
      <3>1. d \notin Astray /\ sri[d].verdict = "processing" => sri[d].xml = doc[d].xml
        BY <1>1 DEF SriInv, DocOK
      <3> QED BY <1>4, <3>1 DEF DocOK, Vouched
    <2> DEFINE D == {d}
    <2>6. /\ D \in SUBSET Docs /\ Astray \subseteq Astray'
          /\ \A v \in Workers \ {w} : task'[v] = task[v] /\ hand'[v] = hand[v]
          /\ \A x \in Docs \ D : doc'[x] = doc[x] /\ sri'[x] = sri[x]
          /\ \A x \in D : x \notin Astray' => DocOK(x, doc', sri')
      BY <1>1, <1>2, <2>1, <2>5
    <2>7. \A v \in Workers \ {w} : task[v].phase = "running" /\ DocAt(v) \in D =>
             /\ SendOK(task[v], hand[v], doc', sri', Astray')
             /\ AskOK(task[v], hand[v], doc', sri', Astray')
      BY <2>4
    <2> HIDE DEF d, D
    <2> QED BY <2>3, <2>6, <2>7, OneMovesKeeps
  <1> QED BY <1>2, <1>3, <1>4

\* RECEIVED is what the SRI answered, and RETURNED that it did not take the document in.
LEMMA ReceivedSri ==
    ASSUME TypeOK, SriInv, NEW w \in Workers, SetReceived(w)
    PROVE  SriInv'
  <1> DEFINE d == DocAt(w)
  <1>1. /\ UNCHANGED <<sri, Astray>> /\ d \in Docs /\ task[w].phase = "running"
        /\ task[w].effect \in Sends /\ hand[w].at = "sent"
    BY RunningHas DEF SetReceived, Running, history, told, Astray
  <1>2. /\ Sending(task[w], hand[w]) /\ SendOK(task[w], hand[w], doc, sri, Astray)
        /\ d \notin Astray => DocOK(d, doc, sri)
    BY <1>1 DEF SriInv, Sending
  <1>3. d \notin Astray => /\ doc[d].status = "PENDING_SEND"
                               /\ Told(hand[w].answer, d, doc, sri)
    BY <1>1, <1>2 DEF SendOK, DocAt
  <1>4. ASSUME NEW v \in Workers \ {w}, task[v].phase = "running", DocAt(v) = d
        PROVE  /\ Sending(task[v], hand[v]) => d \in Astray
               /\ Asking(task[v], hand[v]) => doc[d].status = "RECEIVED"
    BY <1>2, <1>4 DEF SriInv, AskOK, DocAt
  <1>5. CASE TakenIn(w) /\ Writes(w, "RECEIVED", "received")
    <2>1. d \notin Astray => sri[d].verdict # "none" /\ sri[d].xml = doc[d].xml
      BY <1>3, <1>5 DEF TakenIn, Told
    <2>2. "RECEIVED" \in Status /\ "received" \in Places
      BY DEF Status, Places
    <2>3. NobodyElse(w, "RECEIVED")
      BY <1>4 DEF NobodyElse
    <2>4. DocAt(w) \notin Astray => Vouched(DocAt(w), "RECEIVED")
      BY <2>1 DEF Vouched
    <2> HIDE DEF d
    <2>5. Writes(w, "RECEIVED", "received")
      BY <1>5
    <2> QED BY <1>1, <2>2, <2>3, <2>4, <2>5, WritesSri
  <1>6. CASE ~TakenIn(w) /\ Writes(w, "RETURNED", "end")
    <2>1. d \notin Astray => sri[d].verdict # "processing"
      BY <1>3, <1>6 DEF TakenIn, Told
    <2>2. TriggerAllows(d, "RETURNED") => doc[d].status # "RECEIVED"
      BY <1>1, TransitionsAre DEF TriggerAllows
    <2>3. "RETURNED" \in Status /\ "end" \in Places
      BY DEF Status, Places
    <2>4. TriggerAllows(DocAt(w), "RETURNED") => NobodyElse(w, "RETURNED")
      BY <1>4, <2>2 DEF NobodyElse
    <2>5. DocAt(w) \notin Astray => Vouched(DocAt(w), "RETURNED")
      BY <2>1 DEF Vouched
    <2> HIDE DEF d
    <2>6. Writes(w, "RETURNED", "end")
      BY <1>6
    <2> QED BY <1>1, <2>3, <2>4, <2>5, <2>6, WritesSri
  <1> QED BY <1>5, <1>6 DEF SetReceived

\* AUTHORIZED and NOT_AUTHORIZED are the SRI's verdict.
LEMMA VerdictSri ==
    ASSUME TypeOK, RowsInv, SriInv, NEW w \in Workers, SetVerdict(w)
    PROVE  SriInv'
  <1> DEFINE d == DocAt(w)
  <1>1. /\ UNCHANGED <<sri, Astray>> /\ d \in Docs /\ task[w].phase = "running"
        /\ task[w].effect \in Polling /\ hand[w].at = "asked"
    BY RunningHas DEF SetVerdict, Running, history, told, Astray
  <1>2. /\ AskOK(task[w], hand[w], doc, sri, Astray)
        /\ d \notin Astray => DocOK(d, doc, sri)
    BY <1>1 DEF SriInv
  <1>3. /\ doc[d].status = "RECEIVED"
        /\ \/ hand[w].answer = "AUTORIZADO" /\ sri[d].verdict = "authorized"
           \/ hand[w].answer # "AUTORIZADO" /\ (d \in Astray \/ sri[d].verdict = "rejected")
    BY <1>1, <1>2 DEF AskOK, Asking, DocAt
  <1>4. ASSUME NEW v \in Workers \ {w}, task[v].phase = "running", DocAt(v) = d
        PROVE  /\ Sending(task[v], hand[v]) => d \in Astray
               /\ ~Asking(task[v], hand[v])
    <2>1. ~Asking(task[v], hand[v])
      BY <1>1, <1>4, OneAsks DEF Asking
    <2>2. SendOK(task[v], hand[v], doc, sri, Astray)
      BY DEF SriInv
    <2> QED BY <1>3, <1>4, <2>1, <2>2 DEF SendOK, DocAt
  <1>5. d \notin Astray => sri[d].xml = doc[d].xml
    BY <1>2, <1>3 DEF DocOK
  <1>6. CASE hand[w].answer = "AUTORIZADO" /\ Writes(w, "AUTHORIZED", "authorized")
    <2>1. "AUTHORIZED" \in Status /\ "authorized" \in Places
      BY DEF Status, Places
    <2>2. sri[d].verdict = "authorized"
      BY <1>3, <1>6
    <2>3. DocAt(w) \notin Astray => Vouched(DocAt(w), "AUTHORIZED")
      BY <1>5, <2>2 DEF Vouched
    <2>4. NobodyElse(w, "AUTHORIZED")
      BY <1>4 DEF NobodyElse
    <2>5. Writes(w, "AUTHORIZED", "authorized")
      BY <1>6
    <2> HIDE DEF d
    <2> QED BY <1>1, <2>1, <2>3, <2>4, <2>5, WritesSri
  <1>7. CASE hand[w].answer # "AUTORIZADO" /\ Writes(w, "NOT_AUTHORIZED", "end")
    <2>1. "NOT_AUTHORIZED" \in Status /\ "end" \in Places
      BY DEF Status, Places
    <2>2. d \notin Astray => sri[d].verdict = "rejected"
      BY <1>3, <1>7
    <2>3. DocAt(w) \notin Astray => Vouched(DocAt(w), "NOT_AUTHORIZED")
      BY <2>2 DEF Vouched
    <2>4. NobodyElse(w, "NOT_AUTHORIZED")
      BY <1>4 DEF NobodyElse
    <2>5. Writes(w, "NOT_AUTHORIZED", "end")
      BY <1>7
    <2> HIDE DEF d
    <2> QED BY <1>1, <2>1, <2>3, <2>4, <2>5, WritesSri
  <1> QED BY <1>6, <1>7 DEF SetVerdict

\* Every step keeps what the handlers know of the SRI.
LEMMA SriStep == TypeOK /\ RowsInv /\ SriInv /\ [Next]_vars => SriInv'
<1> SUFFICES ASSUME TypeOK, RowsInv, SriInv, [Next]_vars PROVE SriInv'
  OBVIOUS
<1>1. CASE UNCHANGED vars
  BY <1>1, NothingKeeps DEF vars, runVars, history, told, Astray
<1>2. ASSUME NEW e \in Effects, ReopenRow(e) PROVE SriInv'
  BY <1>2, NothingKeeps DEF ReopenRow, Reopen, history, told, Astray
<1>3. ASSUME NEW w \in Workers, WorkerStep(w) PROVE SriInv'
  BY <1>3, EmptyHandedSri, AfterwardsSri, ReadSri, SubmitSri, AskSri, ReceivedSri, VerdictSri
     DEF WorkerStep, SendStep, CheckStep
<1>4. CASE WorkerCrash
  <2>1. \A v \in Workers : Apart(task'[v], hand'[v])
    BY <1>4, EmptyApart DEF WorkerCrash
  <2>2. UNCHANGED <<doc, sri, Astray>>
    BY <1>4 DEF WorkerCrash, Astray
  <2>3. Workers \in SUBSET Workers /\ \A v \in Workers \ Workers : task'[v] = task[v] /\ hand'[v] = hand[v]
    OBVIOUS
  <2> QED BY <2>1, <2>2, <2>3, ApartKeeps
<1> QED BY <1>1, <1>2, <1>3, <1>4, RequestSri, DecidesSri DEF Next

-----------------------------------------------------------------------------
(* What the SRI was heard to say.                                          *)

\* Only the documents D change, and only the handlers M move: what M had heard concerns D,
\* or documents whose answers are lost.
LEMMA HeardKept ==
    ASSUME HeardInv, NEW D \in SUBSET Docs, NEW M \in SUBSET Workers,
           \A d \in Docs \ D : doc'[d] = doc[d] /\ sri'[d] = sri[d],
           \A v \in Workers \ M : task'[v] = task[v] /\ hand'[v] = hand[v],
           \A v \in M : Heard(v) => DocAt(v) \in D \cup unheard',
           Astray \subseteq Astray', unheard \subseteq unheard',
           \A d \in D : HeardOK(d)'
    PROVE  HeardInv'
  <1> SUFFICES ASSUME NEW d \in Docs \ D PROVE HeardOK(d)'
    BY DEF HeardInv
  <1>1. HeardOK(d) /\ doc'[d] = doc[d] /\ sri'[d] = sri[d]
    BY DEF HeardInv
  <1>2. ASSUME d \notin unheard', NEW w \in Workers, Heard(w), DocAt(w) = d
        PROVE  Heard(w)' /\ DocAt(w)' = d
    <2>1. task'[w] = task[w] /\ hand'[w] = hand[w]
      BY <1>2
    <2> QED BY <1>2, <2>1 DEF Heard, Running, TakenIn, DocAt
  <1> QED BY <1>1, <1>2 DEF HeardOK, SriHolds

\* A step that touches neither the documents nor the SRI, in which the handlers of M move,
\* having heard nothing that is not noted as lost.
LEMMA HeardMoves ==
    ASSUME HeardInv, NEW M \in SUBSET Workers, UNCHANGED <<doc, sri>>,
           \A v \in Workers \ M : task'[v] = task[v] /\ hand'[v] = hand[v],
           \A v \in M : Heard(v) => DocAt(v) \in unheard',
           Astray \subseteq Astray', unheard \subseteq unheard'
    PROVE  HeardInv'
  <1>1. {} \in SUBSET Docs /\ \A d \in Docs : doc'[d] = doc[d] /\ sri'[d] = sri[d]
    OBVIOUS
  <1> QED BY <1>1, HeardKept

\* A handler that has read, and not gone astray, has its document to itself, and the SRI
\* does not hold it until it answers this handler.
LEMMA HeardAlone ==
    ASSUME TypeOK, SriInv, HeardInv, NEW w \in Workers, Running(w, Sends, "sending") \/ Running(w, Sends, "sent"),
           DocAt(w) \notin Astray \cup unheard, SriHolds(DocAt(w))
    PROVE  Heard(w)
  <1>1. DocAt(w) \in Docs /\ Sending(task[w], hand[w])
    BY RunningHas DEF Running, Sending
  <1>2. doc[DocAt(w)].status = "PENDING_SEND"
    BY <1>1 DEF SriInv, SendOK, DocAt
  <1>3. PICK v \in Workers : Heard(v) /\ DocAt(v) = DocAt(w)
    BY <1>1, <1>2 DEF HeardInv, HeardOK
  <1>4. v = w
    BY <1>1, <1>3 DEF SriInv, Heard, Running, Sending, DocAt
  <1> QED BY <1>3, <1>4

\* A request sends or rebuilds what the SRI does not hold, and voids what it authorized.
LEMMA RequestHeard ==
    ASSUME TypeOK, HeardInv, NEW r \in Requests, RequestStep(r)
    PROVE  HeardInv'
  <1> DEFINE M == {}
  <1>1. /\ M \in SUBSET Workers /\ \A v \in M : FALSE
        /\ req[r] # NoRequest => req[r].doc \in Docs
    BY DEF TypeOK
  <1> HIDE DEF M
  <1>2. UNCHANGED <<task, hand, sri>> /\ UNCHANGED <<Astray, unheard>>
    BY DEF RequestStep, ReadToSend, ReadToCheck, ReadToRebuild, ReadToVoid, Starts, SetPendingSend,
           EnqueueSend, EnqueueRequestedCheck, Request, ReusesCheck, CreatesCheck, CommitRebuild,
           SetVoided, RequestDies, runVars, history, told, Astray
  <1>3. CASE doc' = doc
    BY <1>1, <1>2, <1>3, HeardMoves
  <1>4. CASE doc' # doc
    <2>0. PICK d \in Docs : req[r].doc = d
      BY <1>1, <1>4 DEF RequestStep, ReadToSend, ReadToCheck, ReadToRebuild, ReadToVoid, Starts,
           SetPendingSend, EnqueueSend, EnqueueRequestedCheck, CommitRebuild, SetVoided, RequestDies, At
    <2> DEFINE D == {d}
    <2>1. \/ SetPendingSend(r) /\ TriggerAllows(d, "PENDING_SEND") /\ SetStatus(d, "PENDING_SEND")
          \/ /\ CommitRebuild(r) /\ TriggerAllows(d, "SIGNED")
             /\ doc' = [doc EXCEPT ![d] = [status |-> "SIGNED", xml |-> @.xml + 1]]
          \/ SetVoided(r) /\ TriggerAllows(d, "VOIDED") /\ SetStatus(d, "VOIDED")
      BY <1>4, <2>0 DEF RequestStep, ReadToSend, ReadToCheck, ReadToRebuild, ReadToVoid, Starts,
           SetPendingSend, EnqueueSend, EnqueueRequestedCheck, CommitRebuild, SetVoided, RequestDies
    <2>2. d \in Docs
      BY <2>0
    <2>3. \A x \in Docs \ {d} : doc'[x] = doc[x]
      BY <2>1, <2>2, StatusMoves, TypeParts DEF Status
    <2>4. \/ doc'[d].status = "PENDING_SEND" /\ doc[d].status \in {"SIGNED", "PENDING_SEND"}
          \/ doc'[d].status = "SIGNED" /\ doc[d].status \in {"SIGNED", "RETURNED", "NOT_AUTHORIZED"}
          \/ doc'[d].status = "VOIDED" /\ doc[d].status \in {"AUTHORIZED", "VOIDED"}
      BY <2>1, <2>2, TransitionsAre, StatusMoves, TypeParts DEF TriggerAllows, Status
    <2>5. HeardOK(d)'
      <3>1. HeardOK(d)
        BY <2>2 DEF HeardInv
      <3>2. \A w \in Workers : Heard(w) /\ DocAt(w) = d => Heard(w)' /\ DocAt(w)' = d
        BY <1>2 DEF Heard, Running, TakenIn, DocAt
      <3> QED BY <1>2, <2>4, <3>1, <3>2 DEF HeardOK, SriHolds
    <2>6. /\ D \in SUBSET Docs /\ \A x \in Docs \ D : doc'[x] = doc[x] /\ sri'[x] = sri[x]
          /\ \A x \in D : HeardOK(x)'
      BY <1>2, <2>2, <2>3, <2>5
    <2> HIDE DEF D
    <2> QED BY <1>1, <1>2, <2>6, HeardKept
  <1> QED BY <1>3, <1>4

\* The SRI decides on what it was heard to hold.
LEMMA DecidesHeard ==
    ASSUME TypeOK, HeardInv, NEW d \in Docs, SriDecides(d)
    PROVE  HeardInv'
  <1> DEFINE M == {}
             D == {d}
  <1>1. PICK verdict \in {"authorized", "rejected"} : sri' = [sri EXCEPT ![d].verdict = verdict]
    BY DEF SriDecides
  <1>2. sri[d].verdict = "processing" /\ \A x \in Docs \ {d} : sri'[x] = sri[x]
    BY <1>1, TypeParts DEF SriDecides
  <1>3. UNCHANGED <<task, hand, doc>> /\ UNCHANGED <<Astray, unheard>>
    BY DEF SriDecides, runVars, history, told, Astray
  <1>4. HeardOK(d) /\ \A w \in Workers : Heard(w) /\ DocAt(w) = d => Heard(w)' /\ DocAt(w)' = d
    BY <1>3 DEF HeardInv, Heard, Running, TakenIn, DocAt
  <1>5. HeardOK(d)'
    BY <1>2, <1>3, <1>4 DEF HeardOK, SriHolds
  <1>6. /\ M \in SUBSET Workers /\ (\A v \in M : FALSE) /\ D \in SUBSET Docs
        /\ \A x \in Docs \ D : doc'[x] = doc[x] /\ sri'[x] = sri[x]
        /\ \A x \in D : HeardOK(x)'
    BY <1>2, <1>3, <1>5
  <1> HIDE DEF M, D
  <1> QED BY <1>3, <1>6, HeardKept

\* The steps of a handler that write no status and submit nothing.
LEMMA QuietHeard ==
    ASSUME TypeOK, HeardInv, NEW w \in Workers,
           \/ \E e \in Effects : Claim(w, e)
           \/ RefuseStale(w) \/ AskAgainLater(w) \/ HandlerReturns(w) \/ CommitDone(w)
           \/ CommitLost(w) \/ RecordOutcome(w) \/ HandlerFails(w)
           \/ EnqueueCheck(w) \/ Notify(w) \/ QueueEmail(w)
           \/ ReadForSend(w) \/ ReadForCheck(w) \/ Ask(w)
    PROVE  HeardInv'
  <1> DEFINE M == {w}
  <1>1. UNCHANGED <<doc, sri>>
    BY DEF Claim, RefuseStale, AskAgainLater, HandlerReturns, CommitDone, CommitLost, RecordOutcome,
           HandlerFails, EnqueueCheck, Notify, QueueEmail, ReadForSend, ReadForCheck, Ask
  <1>2. Astray \subseteq Astray' /\ unheard \subseteq unheard'
    BY DEF Claim, RefuseStale, AskAgainLater, HandlerReturns, CommitDone, CommitLost, RecordOutcome,
           HandlerFails, Interrupts, EnqueueCheck, Notify, QueueEmail, ReadForSend, ReadForCheck, Ask,
           Reads, history, told, Astray
  <1>3. TaskOfOnly(w)
    <2>1. CASE \/ EnqueueCheck(w) \/ Notify(w) \/ QueueEmail(w)
               \/ ReadForSend(w) \/ ReadForCheck(w) \/ Ask(w)
      BY <2>1 DEF EnqueueCheck, Notify, QueueEmail, ReadForSend, ReadForCheck, Ask, runVars, TaskOfOnly
    <2> QED BY <2>1, OnlyItsTask DEF Claim, RefuseStale, AskAgainLater, HandlerReturns, CommitDone,
                                     CommitLost, RecordOutcome, HandlerFails
  <1>4. \A v \in Workers \ {w} : hand'[v] = hand[v]
    <2>1. CASE Ask(w)
      BY <2>1, TypeParts DEF Ask, Hears
    <2> QED BY <2>1, TypeParts DEF Claim, RefuseStale, AskAgainLater, HandlerReturns, CommitDone, CommitLost,
           RecordOutcome, HandlerFails, EnqueueCheck, Notify, QueueEmail, ReadForSend, ReadForCheck,
           LetsGo, Moves
  <1>5. Heard(w) => DocAt(w) \in unheard'
    <2>1. CASE HandlerFails(w)
      BY <2>1 DEF HandlerFails, Interrupts
    <2>2. CASE \/ \E e \in Effects : Claim(w, e)
               \/ CommitDone(w) \/ CommitLost(w) \/ RecordOutcome(w)
      BY <2>2 DEF Claim, Begin, Idle, CommitDone, Commit, CommitLost, CommitFails, RecordOutcome, Record,
                  Heard, Running
    <2> QED BY <2>1, <2>2 DEF RefuseStale, AskAgainLater, HandlerReturns, EnqueueCheck, Notify, QueueEmail,
                              ReadForSend, ReadForCheck, Ask, Heard, Running
  <1>6. /\ M \in SUBSET Workers /\ \A v \in M : Heard(v) => DocAt(v) \in unheard'
        /\ \A v \in Workers \ M : task'[v] = task[v] /\ hand'[v] = hand[v]
    BY <1>3, <1>4, <1>5 DEF TaskOfOnly
  <1> HIDE DEF M
  <1> QED BY <1>1, <1>2, <1>6, HeardMoves

\* What the SRI takes in is heard by the handler, or its answer is lost or misread.
LEMMA SubmitHeard ==
    ASSUME TypeOK, SriInv, HeardInv, NEW w \in Workers, Submit(w) \/ SubmitLost(w)
    PROVE  HeardInv'
  <1>0. PICK d \in Docs : DocAt(w) = d
    BY RunningHas DEF Submit, SubmitLost, Reception, Running
  <1> DEFINE D == {d}
             M == {w}
  <1>1. PICK answer \in Answers :
            /\ Reception(w, answer)
            /\ \/ /\ Submit(w) /\ Hears(w, "sent", answer)
                  /\ Reads(d, answer, sri'[d].verdict \in {"none", "rejected"})
               \/ SubmitLost(w)
    BY <1>0 DEF Submit, SubmitLost
  <1>2. /\ d \in Docs /\ task[w].phase = "running" /\ task[w].effect \in Sends /\ hand[w].at = "sending"
    BY <1>1 DEF Reception, Running
  <1>3. UNCHANGED <<task, doc>> /\ Astray \subseteq Astray' /\ unheard \subseteq unheard'
    BY <1>0, <1>1 DEF Submit, SubmitLost, Reads, runVars, Astray
  <1>4. /\ \A x \in Docs \ {d} : sri'[x] = sri[x]
        /\ \/ /\ sri[d].verdict \in {"none", "rejected"} /\ answer \in {"RECIBIDA", "other"}
              /\ sri'[d].verdict = "processing"
           \/ /\ sri' = sri
              /\ \/ sri[d].verdict \in {"none", "rejected"}
                 \/ sri[d].verdict \in {"processing", "authorized"}
    BY <1>0, <1>1, <1>2, TypeParts DEF Reception, Accepts, SriRow
  <1>5. /\ \A v \in Workers \ {w} : hand'[v] = hand[v]
        /\ Submit(w) => hand'[w].at = "sent" /\ hand'[w].answer = answer
    <2>1. CASE SubmitLost(w) /\ ~Submit(w)
      BY <2>1 DEF SubmitLost
    <2>2. CASE Hears(w, "sent", answer)
      BY <2>2, TypeParts DEF Hears, HandRow
    <2>3. CASE SubmitLost(w) /\ Submit(w)
      <3>1. hand' = hand /\ \E a \in Answers : Hears(w, "sent", a)
        BY <2>3 DEF SubmitLost, Submit
      <3>2. hand[w].at = "sent"
        BY <3>1, TypeParts DEF Hears, HandRow
      <3> QED BY <1>2, <3>2
    <2> QED BY <1>1, <2>1, <2>2, <2>3
  <1>6. ~Heard(w)
    BY <1>2 DEF Heard, Running
  <1>7. d \notin Astray \cup unheard => sri[d].verdict \in {"none", "rejected"}
    BY <1>0, <1>1, <1>2, <1>4, <1>6, HeardAlone DEF Reception, SriHolds
  <1>8. HeardOK(d)'
    <2>1. doc'[d].status \in {"AUTHORIZED", "VOIDED"} => sri'[d].verdict = "authorized"
      BY <1>2, <1>3, <1>4 DEF HeardInv, HeardOK
    <2>2. ASSUME d \notin Astray' \cup unheard', sri'[d].verdict \in {"processing", "authorized"}
          PROVE  /\ doc'[d].status = "PENDING_SEND"
                 /\ \E v \in Workers : Heard(v)' /\ DocAt(v)' = d
      <3>1. d \notin Astray \cup unheard
        BY <1>3, <2>2
      <3>2. sri'[d].verdict = "processing" /\ answer \in {"RECIBIDA", "other"} /\ sri' # sri
        BY <1>4, <1>7, <2>2, <3>1
      <3>3. Submit(w) /\ answer = "RECIBIDA"
        BY <1>0, <1>1, <2>2, <3>2 DEF SubmitLost, Reads, Astray
      <3>4. Heard(w)' /\ DocAt(w)' = d
        BY <1>0, <1>2, <1>3, <1>5, <3>3 DEF Heard, Running, TakenIn, DocAt
      <3>5. doc[d].status = "PENDING_SEND"
        BY <1>0, <1>2, <3>1 DEF SriInv, SendOK, Sending, DocAt
      <3> QED BY <1>3, <3>4, <3>5
    <2> QED BY <2>1, <2>2 DEF HeardOK, SriHolds
  <1>9. /\ M \in SUBSET Workers /\ D \in SUBSET Docs
        /\ \A x \in Docs \ D : doc'[x] = doc[x] /\ sri'[x] = sri[x]
        /\ \A v \in Workers \ M : task'[v] = task[v] /\ hand'[v] = hand[v]
        /\ \A v \in M : Heard(v) => DocAt(v) \in D \cup unheard'
        /\ \A x \in D : HeardOK(x)'
    BY <1>0, <1>2, <1>3, <1>4, <1>5, <1>6, <1>8
  <1> HIDE DEF M, D
  <1> QED BY <1>3, <1>9, HeardKept

\* A handler writes what it heard, or the trigger refuses it.
LEMMA WritesHeard ==
    ASSUME TypeOK, RowsInv, SriInv, HeardInv, NEW w \in Workers, SetReceived(w) \/ SetVerdict(w)
    PROVE  HeardInv'
  <1>0. PICK d \in Docs : DocAt(w) = d
    BY RunningHas DEF SetReceived, SetVerdict, Running
  <1> DEFINE D == {d}
             M == {w}
  <1>1. PICK st \in Status, next \in Places :
            /\ Writes(w, st, next)
            /\ \/ Running(w, Sends, "sent") /\ st = "RECEIVED" /\ TakenIn(w)
               \/ Running(w, Sends, "sent") /\ st = "RETURNED" /\ ~TakenIn(w)
               \/ Running(w, Polling, "asked") /\ st = "AUTHORIZED" /\ hand[w].answer = "AUTORIZADO"
               \/ Running(w, Polling, "asked") /\ st = "NOT_AUTHORIZED" /\ hand[w].answer # "AUTORIZADO"
    BY DEF SetReceived, SetVerdict, Status, Places
  <1>2. task[w].phase = "running" /\ d \in Docs
    BY <1>1 DEF Running
  <1>3. UNCHANGED sri /\ UNCHANGED <<Astray, unheard>>
    BY DEF SetReceived, SetVerdict, history, told, Astray
  <1>4. /\ \A v \in Workers \ {w} : hand'[v] = hand[v]
        /\ \A x \in Docs \ {d} : doc'[x] = doc[x]
        /\ \/ TriggerAllows(d, st) /\ UNCHANGED runVars /\ doc'[d].status = st
           \/ Fail(w) /\ doc' = doc /\ ~TriggerAllows(d, st)
    <2>1. /\ \A v \in Workers \ {w} : hand'[v] = hand[v]
          /\ \A x \in Docs \ {d} : doc'[x] = doc[x]
      BY <1>0, <1>1, <1>2, WritesTo
    <2>2. \/ TriggerAllows(d, st) /\ SetStatus(d, st) /\ UNCHANGED runVars
          \/ ~TriggerAllows(d, st) /\ Fail(w) /\ UNCHANGED doc
      BY <1>0, <1>1 DEF Writes
    <2> QED BY <1>2, <2>1, <2>2, StatusMoves
  <1>5. TaskOfOnly(w)
    BY <1>4, OnlyItsTask
  <1>6. HeardOK(d) /\ SendOK(task[w], hand[w], doc, sri, Astray) /\ AskOK(task[w], hand[w], doc, sri, Astray)
    BY <1>2 DEF HeardInv, SriInv
  <1>7. CASE Running(w, Sends, "sent")
    <2>1. d \notin Astray => doc[d].status = "PENDING_SEND" /\ TriggerAllows(d, st)
      <3>1. d \notin Astray => doc[d].status = "PENDING_SEND"
        BY <1>0, <1>6, <1>7 DEF SendOK, Sending, Running, DocAt
      <3> QED BY <1>1, <1>2, <1>7, <3>1, TransitionsAre, TypeParts DEF TriggerAllows, Running
    <2>2. d \notin Astray \cup unheard /\ st = "RETURNED" => ~SriHolds(d)
      BY <1>0, <1>1, <1>7, HeardAlone DEF Heard
    <2>3. HeardOK(d)'
      BY <1>1, <1>3, <1>4, <1>6, <1>7, <2>1, <2>2, TypeParts DEF HeardOK, SriHolds, Running
    <2>4. D \in SUBSET Docs /\ \A x \in Docs \ D : doc'[x] = doc[x] /\ sri'[x] = sri[x]
      BY <1>2, <1>3, <1>4
    <2>5. /\ M \in SUBSET Workers /\ \A v \in Workers \ M : task'[v] = task[v] /\ hand'[v] = hand[v]
          /\ \A v \in M : Heard(v) => DocAt(v) \in D \cup unheard'
          /\ \A x \in D : HeardOK(x)'
      BY <1>0, <1>4, <1>5, <2>3 DEF TaskOfOnly
    <2> HIDE DEF M, D
    <2> QED BY <1>3, <2>4, <2>5, HeardKept
  <1>8. CASE Running(w, Polling, "asked")
    <2>1. /\ doc[d].status = "RECEIVED"
          /\ hand[w].answer = "AUTORIZADO" => sri[d].verdict = "authorized"
          /\ hand[w].answer # "AUTORIZADO" => d \in Astray \/ sri[d].verdict = "rejected"
      BY <1>0, <1>6, <1>8 DEF AskOK, Asking, Running, DocAt
    <2>2. task[w].effect \notin Sends
      BY <1>8 DEF Running
    <2>3. HeardOK(d)'
      BY <1>1, <1>3, <1>4, <2>1, <2>2 DEF HeardOK, SriHolds, Running
    <2>4. D \in SUBSET Docs /\ \A x \in Docs \ D : doc'[x] = doc[x] /\ sri'[x] = sri[x]
      BY <1>2, <1>3, <1>4
    <2>5. /\ M \in SUBSET Workers /\ \A v \in Workers \ M : task'[v] = task[v] /\ hand'[v] = hand[v]
          /\ \A v \in M : Heard(v) => DocAt(v) \in D \cup unheard'
          /\ \A x \in D : HeardOK(x)'
      BY <1>0, <1>4, <1>5, <2>3 DEF TaskOfOnly
    <2> HIDE DEF M, D
    <2> QED BY <1>3, <2>4, <2>5, HeardKept
  <1> QED BY <1>1, <1>7, <1>8

\* Every step keeps what was heard.
LEMMA HeardStep == TypeOK /\ RowsInv /\ SriInv /\ HeardInv /\ [Next]_vars => HeardInv'
<1> SUFFICES ASSUME TypeOK, RowsInv, SriInv, HeardInv, [Next]_vars PROVE HeardInv'
  OBVIOUS
<1>1. ASSUME UNCHANGED <<task, hand, doc, sri, Astray, unheard>> PROVE HeardInv'
  <2> DEFINE M == {}
  <2>1. M \in SUBSET Workers /\ \A v \in M : FALSE
    OBVIOUS
  <2> HIDE DEF M
  <2> QED BY <1>1, <2>1, HeardMoves
<1>2. CASE UNCHANGED vars
  BY <1>1, <1>2 DEF vars, runVars, history, told, Astray
<1>3. ASSUME NEW e \in Effects, ReopenRow(e) PROVE HeardInv'
  BY <1>1, <1>3 DEF ReopenRow, Reopen, history, told, Astray
<1>4. ASSUME NEW w \in Workers, WorkerStep(w) PROVE HeardInv'
  BY <1>4, QuietHeard, SubmitHeard, WritesHeard DEF WorkerStep, SendStep, CheckStep
<1>5. CASE WorkerCrash
  <2>1. UNCHANGED <<doc, sri>> /\ Astray' = Astray /\ unheard \subseteq unheard'
    BY <1>5 DEF WorkerCrash, Interrupts, Astray
  <2>2. \A v \in Workers : Heard(v) => DocAt(v) \in unheard'
    BY <1>5 DEF WorkerCrash, Interrupts
  <2>3. Workers \in SUBSET Workers /\ \A v \in Workers \ Workers : task'[v] = task[v] /\ hand'[v] = hand[v]
    OBVIOUS
  <2> QED BY <2>1, <2>2, <2>3, HeardMoves
<1> QED BY <1>2, <1>3, <1>4, <1>5, RequestHeard, DecidesHeard DEF Next

-----------------------------------------------------------------------------
(* What takes a document on.                                               *)

\* A live row stays so, unless it settles or its run gets where it settles.
LEMMA LiveKept ==
    ASSUME NEW M \in SUBSET Workers, NEW E \in SUBSET Effects,
           \A v \in Workers \ M : task'[v] = task[v] /\ hand'[v] = hand[v],
           \A v \in M : \/ task'[v] = Idle \/ task'[v].effect \in E \/ ~Spent(task'[v], hand'[v])
                        \/ /\ task[v] # Idle /\ task'[v].effect = task[v].effect
                           /\ Spent(task[v], hand[v]),
           \A e \in Effects \ E : Live(e) => effect'[e] \in {"open", "failed"}
    PROVE  \A e \in Effects \ E : Live(e) => Live(e)'
  <1> SUFFICES ASSUME NEW e \in Effects \ E, Live(e) PROVE Live(e)'
    OBVIOUS
  <1>1. Unsettled(e)'
    BY DEF Unsettled
  <1>2. ASSUME NEW v \in Workers, task'[v] # Idle, task'[v].effect = e
        PROVE  ~Spent(task'[v], hand'[v])
    <2>1. CASE v \notin M
      <3>1. task'[v] = task[v] /\ hand'[v] = hand[v]
        BY <2>1
      <3> QED BY <1>2, <3>1 DEF Live
    <2>2. CASE v \in M
      BY <1>2, <2>2 DEF Live
    <2> QED BY <2>1, <2>2
  <1> QED BY <1>1, <1>2 DEF Live

\* Only the handlers M, the rows E and the documents D are concerned by the step: it is
\* enough to look at what they were taking on, and at D.
LEMMA QueuesKept ==
    ASSUME TypeOK, QueuesInv,
           NEW M \in SUBSET Workers, NEW E \in SUBSET Effects, NEW D \in SUBSET Docs,
           \A v \in Workers \ M : task'[v] = task[v] /\ hand'[v] = hand[v],
           \A e \in Effects \ E : Live(e) => Live(e)',
           \A d \in Docs \ D : doc'[d].status = doc[d].status,
           interrupted \subseteq interrupted', adopted \subseteq adopted',
           fanout \subseteq fanout', mail \subseteq mail',
           \A r \in Requests, d \in Docs : At(r, "send", "enqueue") /\ req[r].doc = d =>
               req'[r] = req[r] \/ PendingOK(d)',
           \A e \in E, d \in Docs : DocOf[e] = d =>
               (e \in Sends => PendingOK(d)') /\ (e \in Polling => ReceivedOK(d)'),
           \A v \in M, d \in Docs : Running(v, Sends, "received") /\ DocAt(v) = d => ReceivedOK(d)',
           \A v \in M, d \in Docs : Announcing(task[v], hand[v], d) => AnnouncedOK(d)',
           \A d \in D : PendingOK(d)' /\ ReceivedOK(d)' /\ AnnouncedOK(d)'
    PROVE  QueuesInv'
  <1> SUFFICES ASSUME NEW d \in Docs \ D
               PROVE  PendingOK(d)' /\ ReceivedOK(d)' /\ AnnouncedOK(d)'
    BY DEF QueuesInv
  <1>1. doc'[d].status = doc[d].status /\ PendingOK(d) /\ ReceivedOK(d) /\ AnnouncedOK(d)
    BY DEF QueuesInv
  <1>2. PendingOK(d)'
    <2> SUFFICES ASSUME d \notin interrupted', doc'[d].status = "PENDING_SEND", ~PendingOK(d)'
                 PROVE  SendComes(d)'
      BY DEF PendingOK
    <2>1. SendComes(d)
      BY <1>1 DEF PendingOK
    <2>2. ASSUME NEW e \in RowsOf(d, Sends), Live(e) PROVE SendComes(d)'
      <3>1. e \in Effects \ E /\ e \in Sends /\ DocOf[e] = d
        BY <2>2 DEF RowsOf
      <3>2. Live(e)'
        BY <2>2, <3>1
      <3>3. e \in RowsOf(d, Sends)
        OBVIOUS
      <3> QED BY <3>2, <3>3 DEF SendComes, RowsOf
    <2>3. ASSUME NEW r \in Requests, At(r, "send", "enqueue"), req[r].doc = d PROVE SendComes(d)'
      <3>1. req'[r] = req[r]
        BY <2>3
      <3> QED BY <2>3, <3>1 DEF SendComes, At
    <2> QED BY <2>1, <2>2, <2>3 DEF SendComes
  <1>3. ReceivedOK(d)'
    <2> SUFFICES ASSUME d \notin interrupted' \cup adopted', doc'[d].status = "RECEIVED", ~ReceivedOK(d)'
                 PROVE  CheckComes(d)'
      BY DEF ReceivedOK
    <2>1. CheckComes(d)
      BY <1>1 DEF ReceivedOK
    <2>2. ASSUME NEW e \in RowsOf(d, Polling), Live(e) PROVE CheckComes(d)'
      <3>1. e \in Effects \ E /\ e \in Polling /\ DocOf[e] = d
        BY <2>2 DEF RowsOf
      <3>2. Live(e)'
        BY <2>2, <3>1
      <3>3. e \in RowsOf(d, Polling)
        OBVIOUS
      <3> QED BY <3>2, <3>3 DEF CheckComes, RowsOf
    <2>3. ASSUME NEW v \in Workers, Running(v, Sends, "received"), DocAt(v) = d PROVE CheckComes(d)'
      <3>1. task'[v] = task[v] /\ hand'[v] = hand[v]
        BY <2>3
      <3> QED BY <2>3, <3>1 DEF CheckComes, Running, DocAt
    <2> QED BY <2>1, <2>2, <2>3 DEF CheckComes
  <1>4. AnnouncedOK(d)'
    <2> SUFFICES ASSUME d \notin interrupted', doc'[d].status \in {"AUTHORIZED", "VOIDED"}, ~AnnouncedOK(d)'
                 PROVE  d \in fanout' \cap mail' \/ \E v \in Workers : Announcing(task[v], hand[v], d)'
      BY DEF AnnouncedOK
    <2>1. CASE d \in fanout \cap mail
      BY <2>1
    <2>2. ASSUME NEW v \in Workers, Announcing(task[v], hand[v], d)
          PROVE  \E u \in Workers : Announcing(task[u], hand[u], d)'
      <3>1. task'[v] = task[v] /\ hand'[v] = hand[v]
        BY <2>2
      <3> QED BY <2>2, <3>1 DEF Announcing
    <2> QED BY <1>1, <2>1, <2>2 DEF AnnouncedOK
  <1> QED BY <1>2, <1>3, <1>4

\* A step of no handler, on at most one document, which settles no row.
LEMMA NoHandlerQueues ==
    ASSUME TypeOK, QueuesInv, UNCHANGED <<task, hand, adopted, fanout, mail>>,
           \A e \in Effects : effect[e] \in {"open", "failed"} => effect'[e] \in {"open", "failed"},
           interrupted \subseteq interrupted', NEW D \in SUBSET Docs,
           \A d \in Docs \ D : doc'[d].status = doc[d].status,
           \A r \in Requests, d \in Docs : At(r, "send", "enqueue") /\ req[r].doc = d =>
               req'[r] = req[r] \/ PendingOK(d)',
           \A d \in D : PendingOK(d)' /\ ReceivedOK(d)' /\ AnnouncedOK(d)'
    PROVE  QueuesInv'
  <1> DEFINE M == {}
             E == {}
  <1>1. /\ M \in SUBSET Workers /\ E \in SUBSET Effects
        /\ \A v \in Workers \ M : task'[v] = task[v] /\ hand'[v] = hand[v]
        /\ \A e \in Effects \ E : Live(e) => effect'[e] \in {"open", "failed"}
    BY DEF Live, Unsettled
  <1>2. (\A v \in M : FALSE) /\ (\A e \in E : FALSE)
    OBVIOUS
  <1> HIDE DEF M, E
  <1>3. \A e \in Effects \ E : Live(e) => Live(e)'
    BY <1>1, <1>2, LiveKept
  <1> QED BY <1>1, <1>2, <1>3, QueuesKept

\* A row that opens was settled or absent, and no run is about to settle it.
LEMMA OpenedIsLive ==
    ASSUME TypeOK, RowsInv, NEW e \in Effects, Request(e)
    PROVE  /\ \A f \in Effects : effect[f] \in {"open", "failed"} => effect'[f] \in {"open", "failed"}
           /\ effect'[e] = "open" /\ \A w \in Workers : task[w] # Idle => task[w].effect # e
  BY AbsentFree, TypeParts DEF Request, RunsTypeOK

\* The requests: queueSend's first statement leaves its second to do, which creates the row.
LEMMA RequestQueues ==
    ASSUME TypeOK, RowsInv, QueuesInv, NEW r \in Requests, RequestStep(r),
           NEW d \in Docs, req[r] = NoRequest \/ req[r].doc = d
    PROVE  QueuesInv'
  <1> DEFINE None == {}
             One == {d}
  <1>1. \A x \in Requests \ {r} : req'[x] = req[x]
    <2>1. req \in [Requests -> [at : {"write", "enqueue"}, op : Operations, doc : Docs] \cup {NoRequest}]
      BY DEF TypeOK
    <2>2. \/ \E v : req' = [req EXCEPT ![r] = v]
      BY DEF RequestStep, ReadToSend, ReadToCheck, ReadToRebuild, ReadToVoid, Starts,
         SetPendingSend, EnqueueSend, EnqueueRequestedCheck, CommitRebuild, SetVoided, RequestDies,
         Returns
    <2> QED BY <2>1, <2>2
  <1>2. None \in SUBSET Docs /\ (\A x \in None : FALSE) /\ One \in SUBSET Docs
        /\ (\A x \in One : x = d) /\ (\A x \in Docs \ One : x # d)
    OBVIOUS
  <1> HIDE DEF None, One
  <1>3. ASSUME NEW x \in Docs, ReadToSend(r, x) \/ ReadToCheck(r, x) \/ ReadToRebuild(r, x) \/ ReadToVoid(r, x)
        PROVE  QueuesInv'
    <2>1. /\ UNCHANGED <<task, hand, adopted, fanout, mail, interrupted, effect, doc>>
          /\ req[r] = NoRequest
      BY <1>3 DEF ReadToSend, ReadToCheck, ReadToRebuild, ReadToVoid, Starts, runVars, history, emitted
    <2>2. \A x1 \in Requests : At(x1, "send", "enqueue") => req'[x1] = req[x1]
      BY <1>1, <2>1 DEF At
    <2> QED BY <1>2, <2>1, <2>2, NoHandlerQueues
  <1>4. CASE SetPendingSend(r)
    <2>1. /\ UNCHANGED <<task, hand, adopted, fanout, mail, interrupted, effect>>
          /\ \A x \in Requests : At(x, "send", "enqueue") => req'[x] = req[x]
      BY <1>1, <1>4 DEF SetPendingSend, runVars, history, emitted, At
    <2>2. CASE doc' = doc
      BY <1>2, <2>1, <2>2, NoHandlerQueues
    <2>3. CASE /\ SetStatus(d, "PENDING_SEND")
               /\ req' = [req EXCEPT ![r].at = "enqueue"]
      <3>1. doc'[d].status = "PENDING_SEND" /\ \A x \in Docs \ {d} : doc'[x] = doc[x]
        BY <2>1, <2>3, StatusMoves DEF Status
      <3>2. req[r] \in [at : {"write", "enqueue"}, op : Operations, doc : Docs] /\ req[r].op = "send"
        BY <1>4 DEF SetPendingSend, At, TypeOK
      <3>3. req'[r] = [req[r] EXCEPT !.at = "enqueue"]
        BY <2>3 DEF TypeOK
      <3>4. req'[r].at = "enqueue" /\ req'[r].op = "send" /\ req'[r].doc = d
        BY <1>4, <3>2, <3>3 DEF SetPendingSend, At
      <3>5. req'[r] # NoRequest
        BY <3>4 DEF NoRequest
      <3>6. SendComes(d)'
        BY <3>4, <3>5 DEF SendComes, At
      <3>7. PendingOK(d)' /\ ReceivedOK(d)' /\ AnnouncedOK(d)'
        BY <3>1, <3>6 DEF PendingOK, ReceivedOK, AnnouncedOK
      <3> QED BY <1>2, <2>1, <3>1, <3>7, NoHandlerQueues
    <2> QED BY <1>4, <2>2, <2>3 DEF SetPendingSend, At
  <1>5. CASE EnqueueSend(r)
    <2>1. UNCHANGED <<task, hand, adopted, fanout, mail, interrupted, doc>>
      BY <1>1, <1>5 DEF EnqueueSend, Request, history, emitted, At
    <2>2. PICK e \in Sends : DocOf[e] = d /\ Request(e)
      BY <1>5 DEF EnqueueSend, At
    <2>3. /\ \A f \in Effects : effect[f] \in {"open", "failed"} => effect'[f] \in {"open", "failed"}
          /\ effect'[e] = "open" /\ \A w \in Workers : task[w] # Idle => task[w].effect # e
      BY <2>2, OpenedIsLive
    <2>4. Live(e)'
      BY <2>1, <2>3 DEF Live, Unsettled
    <2>5. PendingOK(d)'
      BY <2>2, <2>4 DEF PendingOK, SendComes, RowsOf
    <2>6. \A x \in Requests, y \in Docs : At(x, "send", "enqueue") /\ req[x].doc = y =>
               req'[x] = req[x] \/ PendingOK(y)'
      BY <1>1, <1>5, <2>5 DEF EnqueueSend, At
    <2> QED BY <1>2, <2>1, <2>3, <2>6, NoHandlerQueues
  <1>6. CASE EnqueueRequestedCheck(r)
    <2>1. UNCHANGED <<task, hand, adopted, fanout, mail, interrupted, doc>>
      BY <1>6 DEF EnqueueRequestedCheck, history, emitted
    <2>2. \A f \in Effects : effect[f] \in {"open", "failed"} => effect'[f] \in {"open", "failed"}
      BY <1>6, OpenedIsLive DEF EnqueueRequestedCheck, ReusesCheck, CreatesCheck
    <2>3. \A x \in Requests : At(x, "send", "enqueue") => req'[x] = req[x]
      BY <1>1, <1>6 DEF EnqueueRequestedCheck, At
    <2> QED BY <1>2, <2>1, <2>2, <2>3, NoHandlerQueues
  <1>7. CASE CommitRebuild(r)
    <2>1. /\ UNCHANGED <<task, hand, adopted, fanout, mail, interrupted, effect>>
          /\ \A x \in Requests : At(x, "send", "enqueue") => req'[x] = req[x]
      BY <1>1, <1>7 DEF CommitRebuild, runVars, history, emitted, At
    <2>2. CASE doc' = doc
      BY <1>2, <2>1, <2>2, NoHandlerQueues
    <2>3. CASE doc' = [doc EXCEPT ![d] = [status |-> "SIGNED", xml |-> @.xml + 1]]
      <3>1. doc'[d].status = "SIGNED" /\ \A x \in Docs \ {d} : doc'[x] = doc[x]
        BY <2>1, <2>3, TypeParts
      <3>2. PendingOK(d)' /\ ReceivedOK(d)' /\ AnnouncedOK(d)'
        BY <3>1 DEF PendingOK, ReceivedOK, AnnouncedOK
      <3> QED BY <1>2, <2>1, <3>1, <3>2, NoHandlerQueues
    <2> QED BY <1>7, <2>2, <2>3 DEF CommitRebuild, At
  <1>8. CASE SetVoided(r)
    <2>1. /\ UNCHANGED <<task, hand, adopted, fanout, mail, interrupted, effect>>
          /\ \A x \in Requests : At(x, "send", "enqueue") => req'[x] = req[x]
      BY <1>1, <1>8 DEF SetVoided, runVars, history, emitted, At
    <2>2. TriggerAllows(d, "VOIDED") /\ SetStatus(d, "VOIDED")
      BY <1>8 DEF SetVoided, At
    <2>3. doc[d].status \in {"AUTHORIZED", "VOIDED"}
      BY <2>1, <2>2, TransitionsAre DEF TriggerAllows
    <2>4. doc'[d].status = "VOIDED" /\ \A x \in Docs \ {d} : doc'[x] = doc[x]
      BY <2>1, <2>2, StatusMoves DEF Status
    <2>5. AnnouncedOK(d)'
      BY <2>1, <2>3 DEF QueuesInv, AnnouncedOK, Announcing
    <2>6. PendingOK(d)' /\ ReceivedOK(d)'
      BY <2>4 DEF PendingOK, ReceivedOK
    <2> QED BY <1>2, <2>1, <2>4, <2>5, <2>6, NoHandlerQueues
  <1>9. CASE RequestDies(r)
    <2>1. /\ UNCHANGED <<task, hand, adopted, fanout, mail, effect, doc>>
          /\ interrupted \subseteq interrupted'
      BY <1>9 DEF RequestDies, runVars, emitted
    <2>2. At(r, "send", "enqueue") => d \in interrupted'
      BY <1>9 DEF RequestDies
    <2>3. \A x \in Requests, y \in Docs : At(x, "send", "enqueue") /\ req[x].doc = y =>
               req'[x] = req[x] \/ PendingOK(y)'
      BY <1>1, <1>9, <2>2 DEF RequestDies, PendingOK
    <2> QED BY <1>2, <2>1, <2>3, NoHandlerQueues
  <1> QED BY <1>3, <1>4, <1>5, <1>6, <1>7, <1>8, <1>9 DEF RequestStep

\* A step of one handler on its row, the documents staying as they are.
LEMMA HandlerQueues ==
    ASSUME TypeOK, QueuesInv, NEW w \in Workers, NEW E \in SUBSET Effects,
           \A v \in Workers \ {w} : task'[v] = task[v] /\ hand'[v] = hand[v],
           UNCHANGED <<doc, req>>,
           interrupted \subseteq interrupted', adopted \subseteq adopted',
           fanout \subseteq fanout', mail \subseteq mail',
           \/ task'[w] = Idle \/ task'[w].effect \in E \/ ~Spent(task'[w], hand'[w])
           \/ /\ task[w] # Idle /\ task'[w].effect = task[w].effect
              /\ Spent(task[w], hand[w]),
           \A e \in Effects \ E : Live(e) => effect'[e] \in {"open", "failed"},
           \A e \in E, d \in Docs : DocOf[e] = d =>
               (e \in Sends => PendingOK(d)') /\ (e \in Polling => ReceivedOK(d)'),
           \A d \in Docs : Running(w, Sends, "received") /\ DocAt(w) = d => ReceivedOK(d)',
           \A d \in Docs : Announcing(task[w], hand[w], d) => AnnouncedOK(d)'
    PROVE  QueuesInv'
  <1> DEFINE M == {w}
             D == {}
  <1>1. /\ M \in SUBSET Workers /\ D \in SUBSET Docs
        /\ \A v \in Workers \ M : task'[v] = task[v] /\ hand'[v] = hand[v]
        /\ \A d \in Docs \ D : doc'[d].status = doc[d].status
        /\ \A r \in Requests : req'[r] = req[r]
        /\ \A d \in D : FALSE
    OBVIOUS
  <1>2. \A v \in M : \/ task'[v] = Idle \/ task'[v].effect \in E \/ ~Spent(task'[v], hand'[v])
                     \/ /\ task[v] # Idle /\ task'[v].effect = task[v].effect
                        /\ Spent(task[v], hand[v])
    OBVIOUS
  <1>3. /\ \A v \in M, d \in Docs : Running(v, Sends, "received") /\ DocAt(v) = d => ReceivedOK(d)'
        /\ \A v \in M, d \in Docs : Announcing(task[v], hand[v], d) => AnnouncedOK(d)'
    OBVIOUS
  <1> HIDE DEF M, D
  <1>4. \A e \in Effects \ E : Live(e) => Live(e)'
    BY <1>1, <1>2, LiveKept
  <1> QED BY <1>1, <1>3, <1>4, QueuesKept

\* Where a handler is when it has nothing to announce and no check to create.
LEMMA NoWord ==
    ASSUME NEW w \in Workers,
           task[w].phase # "running" \/ hand[w].at \in {"start", "sending", "sent", "asking", "asked", "end"}
    PROVE  ~Running(w, Sends, "received") /\ \A d \in Docs : ~Announcing(task[w], hand[w], d)
  BY DEF Running, Announcing

\* A step of one handler that settles no row it was to take on, and loses nothing.
LEMMA LosslessQueues ==
    ASSUME TypeOK, QueuesInv, NEW w \in Workers,
           \A v \in Workers \ {w} : task'[v] = task[v] /\ hand'[v] = hand[v],
           UNCHANGED <<doc, req, interrupted, adopted, fanout, mail>>,
           \/ task'[w] = Idle \/ ~Spent(task'[w], hand'[w])
           \/ /\ task[w] # Idle /\ task'[w].effect = task[w].effect
              /\ Spent(task[w], hand[w]),
           \A e \in Effects : Live(e) => effect'[e] \in {"open", "failed"},
           task[w].phase # "running" \/ hand[w].at \in {"start", "sending", "sent", "asking", "asked", "end"}
    PROVE  QueuesInv'
  <1> DEFINE E == {}
  <1>1. E \in SUBSET Effects /\ (\A e \in E : FALSE)
        /\ \A e \in Effects \ E : Live(e) => effect'[e] \in {"open", "failed"}
    OBVIOUS
  <1> HIDE DEF E
  <1> QED BY <1>1, NoWord, HandlerQueues

\* A run that begins, or ends with its row as it was or about to be settled.
LEMMA RunQueues ==
    ASSUME TypeOK, SriInv, QueuesInv, NEW w \in Workers,
           \/ \E e \in Effects : Claim(w, e)
           \/ AskAgainLater(w) \/ HandlerReturns(w) \/ CommitDone(w)
           \/ CommitLost(w) \/ RecordOutcome(w)
    PROVE  QueuesInv'
  <1> USE TypeParts DEF emitted, history
  <1>1. /\ task \in [Workers -> [phase : Phases, effect : Effects] \cup {Idle}]
        /\ effect \in [Effects -> {"absent", "open", "done", "failed"}]
    BY DEF RunsTypeOK
  <1>2. /\ TaskOfOnly(w) /\ \A v \in Workers \ {w} : hand'[v] = hand[v]
        /\ UNCHANGED <<doc, req, interrupted, adopted, fanout, mail>>
    <2>1. TaskOfOnly(w)
      BY OnlyItsTask DEF Claim, AskAgainLater, HandlerReturns, CommitDone, CommitLost, RecordOutcome
    <2> QED BY <2>1 DEF Claim, AskAgainLater, HandlerReturns, CommitDone, CommitLost, RecordOutcome, LetsGo
  <1>3. \A e \in Effects : Live(e) => effect[e] \in {"open", "failed"}
    BY DEF Live, Unsettled
  <1>4. ASSUME NEW e \in Effects, Claim(w, e) PROVE QueuesInv'
    <2>1. effect' = effect /\ task[w] = Idle /\ hand' = hand /\ task'[w].phase = "running"
      BY <1>1, <1>4 DEF Claim, Begin
    <2>2. hand[w] = NoHand /\ task[w].phase # "running"
      BY <2>1 DEF SriInv, HandOK, Idle
    <2>3. ~Spent(task'[w], hand'[w])
      BY <2>1, <2>2 DEF Spent, NoHand
    <2> QED BY <1>2, <1>3, <2>1, <2>2, <2>3, LosslessQueues DEF TaskOfOnly
  <1>5. CASE AskAgainLater(w)
    <2>1. effect' = effect /\ task'[w] = Idle /\ hand[w].at = "asking"
      BY <1>1, <1>5 DEF AskAgainLater, Requeue, Running
    <2> QED BY <1>2, <1>3, <2>1, LosslessQueues DEF TaskOfOnly
  <1>6. CASE HandlerReturns(w)
    <2>1. effect' = effect /\ task[w].phase = "running" /\ hand[w].at = "end"
      BY <1>6 DEF HandlerReturns, Succeed, Ends
    <2>2. task[w] # Idle /\ task'[w].effect = task[w].effect /\ Spent(task[w], hand[w])
      BY <1>1, <1>6, <2>1 DEF HandlerReturns, Succeed, Ends, Idle, Spent
    <2> QED BY <1>2, <1>3, <2>1, <2>2, LosslessQueues DEF TaskOfOnly
  <1>7. CASE CommitDone(w)
    <2>1. /\ task[w].phase = "succeeded" /\ task'[w] = Idle
          /\ \A e \in Effects \ {task[w].effect} : effect'[e] = effect[e]
      BY <1>1, <1>7 DEF CommitDone, Commit
    <2>2. ~Live(task[w].effect)
      BY <1>1, <2>1 DEF Live, Spent, Idle
    <2> QED BY <1>2, <1>3, <2>1, <2>2, LosslessQueues DEF TaskOfOnly
  <1>8. CASE CommitLost(w)
    <2>1. effect' = effect /\ task'[w] = Idle /\ task[w].phase = "succeeded"
      BY <1>1, <1>8 DEF CommitLost, CommitFails
    <2> QED BY <1>2, <1>3, <2>1, LosslessQueues DEF TaskOfOnly
  <1>9. CASE RecordOutcome(w)
    <2>1. /\ task[w].phase \in {"refused", "failed"} /\ task'[w] = Idle
          /\ \A e \in Effects \ {task[w].effect} : effect'[e] = effect[e]
      BY <1>1, <1>9 DEF RecordOutcome, Record
    <2>2. task[w].effect \in Effects /\ task[w] # Idle
      BY <1>1, <2>1 DEF Idle
    <2>3. task[w].phase = "refused" => ~Live(task[w].effect)
      BY <2>2 DEF Live, Spent
    <2>4. task[w].phase = "failed" =>
             effect'[task[w].effect] \in {"open", "failed", effect[task[w].effect]}
      BY <1>1, <1>9, <2>2 DEF RecordOutcome, Record
    <2>5. \A e \in Effects : Live(e) => effect'[e] \in {"open", "failed"}
      <3>1. ASSUME NEW e \in Effects, Live(e) PROVE effect'[e] \in {"open", "failed"}
        <4>1. CASE e # task[w].effect
          BY <1>3, <2>1, <3>1, <4>1
        <4>2. CASE e = task[w].effect
          BY <1>3, <2>1, <2>3, <2>4, <3>1, <4>2
        <4> QED BY <4>1, <4>2
      <3> QED BY <3>1
    <2> QED BY <1>2, <2>1, <2>5, LosslessQueues DEF TaskOfOnly
  <1> QED BY <1>4, <1>5, <1>6, <1>7, <1>8, <1>9

\* A handler that reads, submits or asks settles nothing yet.
LEMMA DealingQueues ==
    ASSUME TypeOK, QueuesInv, NEW w \in Workers,
           ReadForSend(w) \/ Submit(w) \/ SubmitLost(w) \/ ReadForCheck(w) \/ Ask(w)
    PROVE  QueuesInv'
  <1>1. /\ UNCHANGED <<task, effect, doc, req, interrupted, adopted, fanout, mail>>
        /\ task[w].phase = "running" /\ hand[w].at \in {"start", "sending", "sent", "asking", "asked", "end"}
    BY DEF ReadForSend, Submit, SubmitLost, Reception, ReadForCheck, Ask, Running, runVars, emitted, history
  <1>2. /\ \A v \in Workers \ {w} : hand'[v] = hand[v]
        /\ hand'[w].at \in {"sending", "sent", "asking", "asked"}
    <2>1. hand \in [Workers -> HandRow]
      BY TypeParts
    <2>2. CASE ReadForSend(w)
      BY <2>1, <2>2 DEF ReadForSend, HandRow
    <2>3. CASE Submit(w)
      BY <2>1, <2>3 DEF Submit, Hears, HandRow
    <2>4. CASE SubmitLost(w)
      BY <2>4 DEF SubmitLost, Reception, Running
    <2>5. CASE ReadForCheck(w)
      BY <2>1, <2>5 DEF ReadForCheck, Moves, HandRow
    <2>6. CASE Ask(w)
      BY <2>1, <2>6 DEF Ask, Hears, HandRow
    <2> QED BY <2>2, <2>3, <2>4, <2>5, <2>6
  <1>3. ~Spent(task'[w], hand'[w])
    BY <1>1, <1>2 DEF Spent
  <1>4. \A e \in Effects : Live(e) => effect'[e] \in {"open", "failed"}
    BY <1>1 DEF Live, Unsettled
  <1> QED BY <1>1, <1>2, <1>3, <1>4, LosslessQueues

\* A handler that finds its document moved on settles its row: it was not to take it on.
LEMMA RefuseQueues ==
    ASSUME TypeOK, QueuesInv, NEW w \in Workers, RefuseStale(w)
    PROVE  QueuesInv'
  <1> DEFINE E == {task[w].effect}
  <1>1. /\ UNCHANGED <<effect, doc, req, interrupted, adopted, fanout, mail>>
        /\ task[w].phase = "running" /\ hand[w].at = "start" /\ Refuse(w)
    BY DEF RefuseStale, Refuse, Ends, Running, emitted, history
  <1>2. /\ task[w].effect \in Effects /\ DocAt(w) \in Docs
        /\ task'[w].effect = task[w].effect
    <2>1. task \in [Workers -> [phase : Phases, effect : Effects] \cup {Idle}]
      BY TypeParts DEF RunsTypeOK
    <2> QED BY <1>1, <2>1, RunningHas DEF Refuse, Ends
  <1>3. /\ \A v \in Workers \ {w} : task'[v] = task[v] /\ hand'[v] = hand[v]
    <2>1. TaskOfOnly(w)
      BY <1>1, OnlyItsTask
    <2> QED BY <2>1, LetsGoTo DEF TaskOfOnly, RefuseStale
  <1>4. /\ task[w].effect \in Sends => doc[DocAt(w)].status # "PENDING_SEND"
        /\ task[w].effect \in Polling => doc[DocAt(w)].status # "RECEIVED"
    BY <1>2, TransitionsAre DEF RefuseStale, Running
  <1>5. ASSUME NEW e \in E, NEW d \in Docs, DocOf[e] = d
        PROVE  (e \in Sends => PendingOK(d)') /\ (e \in Polling => ReceivedOK(d)')
    <2>1. e = task[w].effect /\ d = DocAt(w)
      BY <1>5 DEF DocAt
    <2> QED BY <1>1, <1>4, <2>1 DEF PendingOK, ReceivedOK
  <1>6. \A e \in Effects \ E : Live(e) => effect'[e] \in {"open", "failed"}
    BY <1>1 DEF Live, Unsettled
  <1>7. E \in SUBSET Effects /\ task'[w].effect \in E
    BY <1>2
  <1> HIDE DEF E
  <1> QED BY <1>1, <1>3, <1>5, <1>6, <1>7, NoWord, HandlerQueues

\* A handler that fails or dies leaves its row as it is, and its document half way or
\* as it was.
LEMMA FailsQueues ==
    ASSUME TypeOK, QueuesInv, NEW w \in Workers, HandlerFails(w)
    PROVE  QueuesInv'
  <1> DEFINE E == {}
  <1>1. /\ UNCHANGED <<effect, doc, req, adopted, fanout, mail>>
        /\ task[w].phase = "running" /\ Fail(w) /\ Interrupts({w})
    BY DEF HandlerFails, Fail, Ends, emitted
  <1>2. task'[w].phase = "failed"
    <2>1. task \in [Workers -> [phase : Phases, effect : Effects] \cup {Idle}]
      BY TypeParts DEF RunsTypeOK
    <2> QED BY <1>1, <2>1 DEF Fail, Ends
  <1>3. \A v \in Workers \ {w} : task'[v] = task[v] /\ hand'[v] = hand[v]
    <2>1. TaskOfOnly(w)
      BY <1>1, OnlyItsTask
    <2> QED BY <2>1, LetsGoTo DEF TaskOfOnly, HandlerFails
  <1>4. ~Spent(task'[w], hand'[w])
    BY <1>2 DEF Spent
  <1>5. interrupted \subseteq interrupted' /\ (HalfWay(w) => DocAt(w) \in interrupted')
    BY <1>1 DEF Interrupts
  <1>6. \A d \in Docs : Running(w, Sends, "received") /\ DocAt(w) = d => ReceivedOK(d)'
    BY <1>5 DEF HalfWay, Running, ReceivedOK
  <1>7. \A d \in Docs : Announcing(task[w], hand[w], d) => AnnouncedOK(d)'
    BY <1>5 DEF HalfWay, Announcing, AnnouncedOK, DocAt
  <1>8. /\ E \in SUBSET Effects /\ (\A e \in E : FALSE)
        /\ \A e \in Effects \ E : Live(e) => effect'[e] \in {"open", "failed"}
    BY <1>1 DEF Live, Unsettled
  <1> HIDE DEF E
  <1> QED BY <1>1, <1>3, <1>4, <1>5, <1>6, <1>7, <1>8, HandlerQueues

\* When the worker dies, so do all its handlers.
LEMMA CrashQueues ==
    ASSUME TypeOK, QueuesInv, WorkerCrash
    PROVE  QueuesInv'
  <1> DEFINE M == Workers
             E == {}
             D == {}
  <1>1. /\ UNCHANGED <<effect, doc, req, adopted, fanout, mail>>
        /\ \A v \in Workers : task'[v] = Idle
        /\ interrupted' = interrupted \cup {DocAt(w) : w \in {v \in Workers : HalfWay(v)}}
    BY DEF WorkerCrash, Forget, emitted, Interrupts
  <1>2. interrupted \subseteq interrupted' /\ \A v \in Workers : HalfWay(v) => DocAt(v) \in interrupted'
    BY <1>1
  <1>3. \A v \in M, d \in Docs : Running(v, Sends, "received") /\ DocAt(v) = d => ReceivedOK(d)'
    BY <1>2 DEF HalfWay, Running, ReceivedOK
  <1>4. \A v \in M, d \in Docs : Announcing(task[v], hand[v], d) => AnnouncedOK(d)'
    BY <1>2 DEF HalfWay, Announcing, AnnouncedOK, DocAt
  <1>5. /\ M \in SUBSET Workers /\ E \in SUBSET Effects /\ D \in SUBSET Docs
        /\ (\A e \in E : FALSE) /\ (\A d \in D : FALSE)
        /\ \A v \in Workers \ M : FALSE
        /\ \A v \in M : task'[v] = Idle
        /\ \A e \in Effects \ E : Live(e) => effect'[e] \in {"open", "failed"}
    BY <1>1 DEF Live, Unsettled
  <1>6. \A r \in Requests : req'[r] = req[r]
    BY <1>1
  <1> HIDE DEF M, E, D
  <1>7. \A e \in Effects \ E : Live(e) => Live(e)'
    BY <1>5, LiveKept
  <1> QED BY <1>1, <1>2, <1>3, <1>4, <1>5, <1>6, <1>7, QueuesKept

\* After RECEIVED comes the enqueue of the check, which creates a live row or adopts one.
LEMMA EnqueueQueues ==
    ASSUME TypeOK, RowsInv, QueuesInv, NEW w \in Workers, EnqueueCheck(w)
    PROVE  QueuesInv'
  <1> DEFINE E == {}
  <1>1. /\ UNCHANGED <<task, doc, req, interrupted, fanout, mail>>
        /\ task[w].phase = "running" /\ hand[w].at = "received" /\ Moves(w, "end")
        /\ adopted \subseteq adopted'
    BY DEF EnqueueCheck, Running, emitted
  <1>2. hand'[w].at = "end" /\ \A v \in Workers \ {w} : task'[v] = task[v] /\ hand'[v] = hand[v]
    BY <1>1, TypeParts DEF Moves, HandRow
  <1>3. task[w] # Idle /\ Spent(task[w], hand[w]) /\ task'[w].effect = task[w].effect
    BY <1>1 DEF Spent, Idle
  <1>4. /\ \A f \in Effects : effect[f] \in {"open", "failed"} => effect'[f] \in {"open", "failed"}
        /\ \A d \in Docs : DocAt(w) = d => ReceivedOK(d)'
    <2>1. CASE ReusesCheck(DocAt(w)) /\ adopted' = adopted \cup {DocAt(w)}
      <3>1. \A d \in Docs : DocAt(w) = d => ReceivedOK(d)'
        BY <2>1 DEF ReceivedOK
      <3> QED BY <2>1, <3>1 DEF ReusesCheck
    <2>2. CASE CreatesCheck(DocAt(w))
      <3>1. PICK e \in Polling : KeyOf[e] = DocAt(w) /\ Request(e)
        BY <2>2 DEF CreatesCheck
      <3>2. /\ \A f \in Effects : effect[f] \in {"open", "failed"} => effect'[f] \in {"open", "failed"}
            /\ effect'[e] = "open" /\ \A v \in Workers : task[v] # Idle => task[v].effect # e
        BY <3>1, OpenedIsLive
      <3>3. Live(e)'
        BY <1>1, <3>2 DEF Live, Unsettled
      <3>4. DocOf[e] = DocAt(w)
        BY <3>1
      <3>5. \A d \in Docs : DocAt(w) = d => ReceivedOK(d)'
        BY <3>3, <3>4 DEF ReceivedOK, CheckComes, RowsOf
      <3> QED BY <3>2, <3>5
    <2> QED BY <2>1, <2>2 DEF EnqueueCheck
  <1>5. \A d \in Docs : ~Announcing(task[w], hand[w], d)
    BY <1>1 DEF Announcing
  <1>6. /\ E \in SUBSET Effects /\ (\A e \in E : FALSE)
        /\ \A e \in Effects \ E : Live(e) => effect'[e] \in {"open", "failed"}
    BY <1>4 DEF Live, Unsettled
  <1> HIDE DEF E
  <1> QED BY <1>1, <1>2, <1>3, <1>4, <1>5, <1>6, HandlerQueues

\* After AUTHORIZED come the notification and the e-mail, one after the other.
LEMMA AnnounceQueues ==
    ASSUME TypeOK, QueuesInv, NEW w \in Workers, Notify(w) \/ QueueEmail(w)
    PROVE  QueuesInv'
  <1> DEFINE E == {}
  <1>1. /\ UNCHANGED <<task, effect, doc, req, interrupted, adopted>>
        /\ task[w].phase = "running" /\ hand[w].at \in {"authorized", "notified"}
        /\ fanout \subseteq fanout' /\ mail \subseteq mail'
    BY DEF Notify, QueueEmail, Running, runVars, history
  <1>2. /\ \A v \in Workers \ {w} : task'[v] = task[v] /\ hand'[v] = hand[v]
        /\ Notify(w) => hand'[w].at = "notified"
    BY <1>1, TypeParts DEF Notify, QueueEmail, Moves, HandRow
  <1>3. task[w] # Idle /\ Spent(task[w], hand[w]) /\ task'[w].effect = task[w].effect
    BY <1>1 DEF Spent, Idle
  <1>4. ASSUME NEW d \in Docs, Announcing(task[w], hand[w], d) PROVE AnnouncedOK(d)'
    <2>1. DocAt(w) = d
      BY <1>4 DEF Announcing, DocAt
    <2>2. CASE Notify(w)
      <3>1. d \in fanout'
        BY <2>1, <2>2 DEF Notify
      <3>2. Announcing(task[w], hand[w], d)'
        BY <1>1, <1>2, <1>4, <2>2, <3>1 DEF Announcing
      <3> QED BY <3>2 DEF AnnouncedOK
    <2>3. CASE QueueEmail(w)
      <3>1. d \in fanout' /\ d \in mail'
        BY <1>1, <1>4, <2>1, <2>3 DEF QueueEmail, Announcing, Running
      <3> QED BY <3>1 DEF AnnouncedOK
    <2> QED BY <2>2, <2>3
  <1>5. ~Running(w, Sends, "received")
    BY <1>1 DEF Running
  <1>6. /\ E \in SUBSET Effects /\ (\A e \in E : FALSE)
        /\ \A e \in Effects \ E : Live(e) => effect'[e] \in {"open", "failed"}
    BY <1>1 DEF Live, Unsettled
  <1> HIDE DEF E
  <1> QED BY <1>1, <1>2, <1>3, <1>4, <1>5, <1>6, HandlerQueues

\* A status that is written leaves the handler where the next row comes from.
LEMMA WritesQueues ==
    ASSUME TypeOK, QueuesInv, NEW w \in Workers, task[w].phase = "running",
           hand[w].at \in {"sent", "asked"}, NEW d \in Docs, DocAt(w) = d,
           NEW e \in Effects, task[w].effect = e,
           NEW st \in Status, NEW next \in Places, Writes(w, st, next),
           UNCHANGED <<req, interrupted, adopted, fanout, mail>>,
           \/ st = "RECEIVED" /\ next = "received" /\ e \in Sends
           \/ st = "AUTHORIZED" /\ next = "authorized"
           \/ st \in {"RETURNED", "NOT_AUTHORIZED"} /\ next = "end"
    PROVE  QueuesInv'
  <1>1. /\ \A v \in Workers \ {w} : hand'[v] = hand[v]
        /\ \A x \in Docs \ {d} : doc'[x] = doc[x]
        /\ \/ UNCHANGED runVars /\ hand'[w] = HandAt(next, 0, "none") /\ doc'[d].status = st
           \/ Fail(w) /\ hand'[w] = NoHand /\ doc' = doc
    BY WritesTo
  <1>2. CASE Fail(w) /\ hand'[w] = NoHand /\ doc' = doc
    <2>1. task'[w].phase = "failed" /\ effect' = effect
      <3>1. task \in [Workers -> [phase : Phases, effect : Effects] \cup {Idle}]
        BY TypeParts DEF RunsTypeOK
      <3> QED BY <1>2, <3>1 DEF Fail, Ends
    <2>2. TaskOfOnly(w)
      BY <1>2, OnlyItsTask
    <2>3. ~Spent(task'[w], hand'[w])
      BY <2>1 DEF Spent
    <2>4. \A f \in Effects : Live(f) => effect'[f] \in {"open", "failed"}
      BY <2>1 DEF Live, Unsettled
    <2> QED BY <1>1, <1>2, <2>2, <2>3, <2>4, LosslessQueues DEF TaskOfOnly
  <1>3. CASE UNCHANGED runVars /\ hand'[w] = HandAt(next, 0, "none") /\ doc'[d].status = st
    <2> DEFINE M == {w}
               E == {e}
               D == {d}
    <2>1. task' = task /\ effect' = effect /\ hand'[w].at = next
      BY <1>3 DEF runVars, HandAt
    <2>2. PendingOK(d)'
      BY <1>3 DEF PendingOK
    <2>3. ReceivedOK(d)'
      <3>1. CASE st = "RECEIVED"
        <4>1. Running(w, Sends, "received")' /\ DocAt(w)' = d
          BY <2>1, <3>1 DEF Running, DocAt
        <4> QED BY <4>1 DEF ReceivedOK, CheckComes
      <3> QED BY <1>3, <3>1 DEF ReceivedOK
    <2>4. AnnouncedOK(d)'
      <3>1. CASE st = "AUTHORIZED"
        <4>1. Announcing(task[w], hand[w], d)'
          BY <2>1, <3>1 DEF Announcing, DocAt
        <4> QED BY <4>1 DEF AnnouncedOK
      <3> QED BY <1>3, <3>1 DEF AnnouncedOK
    <2>5. /\ M \in SUBSET Workers /\ E \in SUBSET Effects /\ D \in SUBSET Docs
          /\ \A v \in Workers \ M : task'[v] = task[v] /\ hand'[v] = hand[v]
          /\ \A x \in Docs \ D : doc'[x].status = doc[x].status
          /\ \A v \in M : task'[v].effect \in E
      BY <1>1, <2>1
    <2>6. \A f \in E, x \in Docs : DocOf[f] = x =>
             (f \in Sends => PendingOK(x)') /\ (f \in Polling => ReceivedOK(x)')
      <3>1. DocOf[e] = d
        BY DEF DocAt
      <3> QED BY <2>2, <2>3, <3>1
    <2>7. \A x \in D : PendingOK(x)' /\ ReceivedOK(x)' /\ AnnouncedOK(x)'
      BY <2>2, <2>3, <2>4
    <2>8. /\ \A v \in M : ~Running(v, Sends, "received")
          /\ \A v \in M, x \in Docs : ~Announcing(task[v], hand[v], x)
      BY NoWord
    <2>9. \A f \in Effects \ E : Live(f) => effect'[f] \in {"open", "failed"}
      BY <2>1 DEF Live, Unsettled
    <2> HIDE DEF M, E, D
    <2>10. \A f \in Effects \ E : Live(f) => Live(f)'
      BY <2>5, <2>9, LiveKept
    <2> QED BY <2>5, <2>6, <2>7, <2>8, <2>10, QueuesKept
  <1> QED BY <1>1, <1>2, <1>3

\* Every step leaves a document with what takes it on.
LEMMA QueuesStep == TypeOK /\ RowsInv /\ SriInv /\ QueuesInv /\ [Next]_vars => QueuesInv'
<1> SUFFICES ASSUME TypeOK, RowsInv, SriInv, QueuesInv, [Next]_vars PROVE QueuesInv'
  OBVIOUS
<1>1. ASSUME UNCHANGED <<task, hand, req, doc, interrupted, adopted, fanout, mail>>,
             \A e \in Effects : effect[e] \in {"open", "failed"} => effect'[e] \in {"open", "failed"}
      PROVE  QueuesInv'
  <2> DEFINE D == {}
  <2>1. D \in SUBSET Docs /\ \A d \in D : FALSE
    OBVIOUS
  <2> HIDE DEF D
  <2> QED BY <1>1, <2>1, NoHandlerQueues
<1>2. CASE UNCHANGED vars
  BY <1>1, <1>2 DEF vars, runVars, emitted, history
<1>3. ASSUME NEW r \in Requests, RequestStep(r) PROVE QueuesInv'
  <2>1. CASE req[r] = NoRequest
    <3>1. PICK d \in Docs : TRUE
      BY <1>3, <2>1 DEF RequestStep, SetPendingSend, EnqueueSend, EnqueueRequestedCheck, CommitRebuild,
                        SetVoided, RequestDies, At
    <3> QED BY <1>3, <2>1, RequestQueues
  <2>2. CASE req[r] # NoRequest
    <3>1. PICK d \in Docs : req[r].doc = d
      BY <2>2 DEF TypeOK
    <3> QED BY <1>3, <3>1, RequestQueues
  <2> QED BY <2>1, <2>2
<1>4. ASSUME NEW w \in Workers, WorkerStep(w) PROVE QueuesInv'
  <2>1. CASE SetReceived(w) \/ SetVerdict(w)
    <3>1. task[w].phase = "running" /\ UNCHANGED <<req, interrupted, adopted, fanout, mail>>
      BY <2>1 DEF SetReceived, SetVerdict, Running, emitted, history
    <3>2. PICK d \in Docs, e \in Effects : DocAt(w) = d /\ task[w].effect = e
      BY <3>1, RunningHas
    <3>3. "RECEIVED" \in Status /\ "RETURNED" \in Status /\ "AUTHORIZED" \in Status /\ "NOT_AUTHORIZED" \in Status
          /\ "received" \in Places /\ "end" \in Places /\ "authorized" \in Places
      BY DEF Status, Places
    <3>4. CASE SetReceived(w)
      BY <3>1, <3>2, <3>3, <3>4, WritesQueues DEF SetReceived, Running
    <3>5. CASE SetVerdict(w)
      BY <3>1, <3>2, <3>3, <3>5, WritesQueues DEF SetVerdict, Running
    <3> QED BY <2>1, <3>4, <3>5
  <2> QED BY <1>4, <2>1, RunQueues, DealingQueues, RefuseQueues, FailsQueues, EnqueueQueues, AnnounceQueues
             DEF WorkerStep, SendStep, CheckStep
<1>5. ASSUME NEW e \in Effects, ReopenRow(e) PROVE QueuesInv'
  <2>1. \A f \in Effects : effect[f] \in {"open", "failed"} => effect'[f] \in {"open", "failed"}
    BY <1>5, TypeParts DEF ReopenRow, Reopen, RunsTypeOK
  <2> QED BY <1>1, <1>5, <2>1 DEF ReopenRow, Reopen, emitted, history
<1>6. ASSUME NEW d \in Docs, SriDecides(d) PROVE QueuesInv'
  BY <1>1, <1>6 DEF SriDecides, runVars, emitted, history
<1> QED BY <1>2, <1>3, <1>4, <1>5, <1>6, CrashQueues DEF Next

-----------------------------------------------------------------------------
(* The theorems.                                                           *)

\* Documents begin SIGNED, with no rows, no runs and nothing at the SRI.
LEMMA IInvInit == Init => IInv
<1> SUFFICES ASSUME Init PROVE IInv
  OBVIOUS
<1> USE DEF Init, RunsInit
<1>1. RunsTypeOK
  BY DEF RunsTypeOK
<1>2. TypeOK
  BY <1>1 DEF TypeOK, Status, Places, Answers, NoHand
<1>3. \A w \in Workers : task[w] = Idle /\ hand[w] = NoHand
  OBVIOUS
<1>4. RowsInv
  BY <1>1, <1>3 DEF RowsInv, Holds, Idle
<1>5. SriInv
  <2>1. \A w \in Workers : Apart(task[w], hand[w])
    BY <1>3, EmptyApart
  <2>2. \A d \in Docs : DocOK(d, doc, sri)
    BY DEF DocOK
  <2> QED BY <2>1, <2>2 DEF SriInv, Apart, SendOK, AskOK
<1>6. QueuesInv
  BY DEF QueuesInv, PendingOK, ReceivedOK, AnnouncedOK
<1>7. HeardInv
  BY DEF HeardInv, HeardOK, SriHolds
<1> QED BY <1>2, <1>4, <1>5, <1>6, <1>7 DEF IInv

\* The parts of the invariant are kept together.
LEMMA IInvStep == IInv /\ [Next]_vars => IInv'
<1> SUFFICES ASSUME IInv, [Next]_vars PROVE IInv'
  OBVIOUS
<1>1. RowsInv'
  BY RunsSimulated, RowsStep DEF IInv
<1>2. TypeOK'
  BY <1>1, TypeStep DEF IInv, RowsInv
<1> QED BY <1>1, <1>2, SriStep, HeardStep, QueuesStep DEF IInv

\* The inductive invariant the properties rest on.
THEOREM TransmissionInvariant == Spec => []IInv
  BY IInvInit, IInvStep, PTL DEF Spec

\* Every variable keeps its type, rows, handlers, requests and documents alike.
THEOREM TransmissionTyping == Spec => []TypeOK
<1>1. IInv => TypeOK
  BY DEF IInv
<1> QED BY <1>1, TransmissionInvariant, PTL

\* What sendToSri and checkAuthorization write is what the SRI did: AUTHORIZED always is its
\* verdict; RECEIVED, AUTHORIZED and NOT_AUTHORIZED speak of the version it holds, unless two
\* SRI_SEND handlers submitted the document at once or an answer without a verdict was taken
\* for a no; RETURNED means it does not hold the document, if no answer was lost either.
THEOREM TheStatusIsTheSris == Spec => []StatusIsTheSris
<1>1. IInv => StatusIsTheSris
  BY DEF IInv, SriInv, DocOK, HeardInv, HeardOK, Astray, StatusIsTheSris
<1> QED BY <1>1, TransmissionInvariant, PTL

\* A PENDING_SEND document has an SRI_SEND row that will, or can, be run, or queueSend is
\* about to create it: no interleaving of sends, rebuilds and handlers loses it, only
\* queueSend's being cut in two.
THEOREM PendingAlwaysHasSend == Spec => []PendingHasSend
<1>1. IInv => PendingHasSend
  BY DEF IInv, QueuesInv, PendingOK, SendComes, Live, PendingHasSend, HasSend
<1> QED BY <1>1, TransmissionInvariant, PTL

\* A RECEIVED document has an SRI_AUTHORIZE row that will, or can, be run, or sendToSri is
\* about to create it; the exceptions are a cut before the enqueue and a row reused.
THEOREM ReceivedAlwaysHasCheck == Spec => []ReceivedHasCheck
<1>1. IInv => ReceivedHasCheck
  BY DEF IInv, QueuesInv, ReceivedOK, CheckComes, Live, ReceivedHasCheck, HasCheck
<1> QED BY <1>1, TransmissionInvariant, PTL

\* An authorized document's notification, webhooks and e-mail exist, or its handler is
\* about to create them, whatever the other handlers and the requests do.
THEOREM AuthorizedAlwaysAnnounced == Spec => []AuthorizedIsAnnounced
<1>1. IInv => AuthorizedIsAnnounced
  <2> SUFFICES ASSUME IInv, NEW d \in Docs \ interrupted, doc[d].status \in {"AUTHORIZED", "VOIDED"}
               PROVE  d \in fanout \cap mail \/ BeingAnnounced(d)
    BY DEF AuthorizedIsAnnounced
  <2>1. d \in fanout \cap mail \/ \E w \in Workers : Announcing(task[w], hand[w], d)
    BY DEF IInv, QueuesInv, AnnouncedOK
  <2> QED BY <2>1 DEF Announcing, BeingAnnounced, HalfWay, DocAt
<1> QED BY <1>1, TransmissionInvariant, PTL

\* The handlers, the requests and the SRI use the outbox as EffectRuns describes it, and
\* Outbox implements EffectRuns: what is proved here holds of handlers run by the broker,
\* the worker and the sweep.
THEOREM TransmissionUsesTheOutbox == Spec => RunsSpec
<1>1. Init => RunsInit
  BY DEF Init
<1> QED BY <1>1, RunsSimulated, PTL DEF Spec, RunsSpec

=============================================================================
