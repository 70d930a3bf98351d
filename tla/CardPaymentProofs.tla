------------------------- MODULE CardPaymentProofs --------------------------
(***************************************************************************)
(* Proofs about CardPayment, for any attempts, confirms, jobs and failures.*)
(* That credit is backed follows from one fact carried along: whoever goes *)
(* on with "approved" goes on with a charge that Payphone captured, and    *)
(* that a captured charge stays captured.  That outcomes are kept follows  *)
(* from the row's lock.  That captured money is tracked follows from what  *)
(* a caller with an answer, or about to ask, knows of the charge.          *)
(***************************************************************************)
EXTENDS CardPayment, TLAPS

USE CardAssumption

-----------------------------------------------------------------------------
(* The two halves of the type invariant.                                   *)

RowsOK ==
    /\ payment \in [status : {"PENDING", "VERIFIED"}, from : Nat]
    /\ ends \in Nat
    /\ session \in [Attempts -> {"none", "checked", "open"}]
    /\ attempt \in [Attempts -> [status : {"ABSENT", "PENDING"} \cup Decided,
                                 id : BOOLEAN, applied : BOOLEAN, old : BOOLEAN]]
    /\ charge \in [Attempts -> [state : {"none", "held", "declined", "reversed", "captured"},
                                exact : BOOLEAN]]
    /\ failures \in Nat
    /\ unrecorded \cup misexpired \subseteq Attempts /\ half \in BOOLEAN

\* What a caller may be doing: a confirm does not sweep, a job does not confirm.
MayBe(c, t) ==
    /\ t \in Task
    /\ c \in Confirms => t.at \notin Sweeping
    /\ c \in Jobs => t.at \notin Inside \cup {"recovering", "done"}

TasksOK == DOMAIN task = Callers /\ task = [c \in Callers |-> task[c]]
           /\ \A c \in Callers : MayBe(c, task[c])

\* The type invariant is its two halves, before a step and after it.
LEMMA TypeSplit == TypeOK <=> RowsOK /\ TasksOK
  BY DEF TypeOK, RowsOK, TasksOK, MayBe, Callers

\* The same after a step.
LEMMA TypeSplitNext == TypeOK' <=> RowsOK' /\ TasksOK'
  BY DEF TypeOK, RowsOK, TasksOK, MayBe, Callers

USE DEF Places, Inside, HalfWay, Applying, Sweeping

\* The place of a task tells its kind.
LEMMA TaskKinds ==
    ASSUME NEW t \in Task
    PROVE  /\ t.at \in Places
           /\ t.at \in Inside \cup {"recovering"} => t \in ConfirmTask
           /\ t.at \in Applying => t \in ApplyTask
           /\ t.at \in {"sweeping", "applying"} => t \in LoopTask
           /\ t.at = "inquired" => t \in AskTask
  BY DEF Task, ConfirmTask, ApplyTask, LoopTask, AskTask

\* A step of one caller keeps the tasks well formed if its new task is.
LEMMA OneMoves ==
    ASSUME TasksOK, NEW c \in Callers, NEW t, MayBe(c, t),
           task' = [task EXCEPT ![c] = t]
    PROVE  TasksOK' /\ task'[c] = t /\ \A d \in Callers \ {c} : task'[d] = task[d]
  BY DEF TasksOK, MayBe

-----------------------------------------------------------------------------
(* The inductive invariant.                                                *)

\* A charge that pays for a period; ch is charge, before or after a step.
Good(a, ch) == ch[a].state = "captured" /\ ch[a].exact

Backed(t, ch) ==
    /\ t.at = "answered" => t.answer # "none"
    /\ t.at \in {"answered", "inquired"} /\ t.answer = "approved" => Good(t.attempt, ch)
    /\ t.at \in Applying => Good(t.attempt, ch)
    /\ t.at \in Applying \cup {"applying"} => \A a \in t.todo : Good(a, ch)

AllBacked == /\ \A a \in Attempts : attempt[a].status = "APPROVED" => Good(a, charge)
             /\ \A c \in Callers : Backed(task[c], charge)

IInv == TypeOK /\ AllBacked /\ CreditIsBacked

\* What Payphone answers is so, and it takes nothing back.
LEMMA Asked ==
    ASSUME RowsOK, NEW a \in Attempts, NEW answer \in Answers, AsksPayphone(a, answer)
    PROVE  /\ answer = "approved" => Good(a, charge')
           /\ answer # "none"
           /\ \A b \in Attempts : Good(b, charge) => Good(b, charge')
           /\ charge' \in [Attempts -> [state : {"none", "held", "declined", "reversed", "captured"},
                                        exact : BOOLEAN]]
           /\ failures' \in Nat
  <1> DEFINE Charges == [state : {"none", "held", "declined", "reversed", "captured"},
                         exact : BOOLEAN]
             new == [charge[a] EXCEPT !.state = "captured"]
  <1>1. charge \in [Attempts -> Charges] /\ failures \in Nat
    BY DEF RowsOK
  <1>2. new \in Charges /\ new.state = "captured" /\ new.exact = charge[a].exact
    BY <1>1
  <1>3. \/ UNCHANGED charge /\ answer # "approved"
        \/ charge' = [charge EXCEPT ![a] = new] /\ (answer = "approved" => charge[a].exact)
    BY <1>1 DEF AsksPayphone, Confirmed, Unreachable, Charge
  <1>4. failures' \in Nat /\ answer # "none"
    BY <1>1 DEF AsksPayphone, Confirmed, Unreachable
  <1> HIDE DEF new
  <1> QED BY <1>1, <1>2, <1>3, <1>4 DEF Good

\* The new task of a step is well formed and backed.
NewTask(c) == \E t : MayBe(c, t) /\ task' = [task EXCEPT ![c] = t] /\ Backed(t, charge')

\* A witness makes a new task.
LEMMA IsNewTask ==
    ASSUME NEW c, NEW t, MayBe(c, t), task' = [task EXCEPT ![c] = t], Backed(t, charge')
    PROVE  NewTask(c)
  BY DEF NewTask

\* To apply an attempt, its charge must be good.
LEMMA StartsBacked ==
    ASSUME NEW c \in Callers, NEW a \in Attempts, NEW todo \in SUBSET Attempts, NEW ch,
           Good(a, ch), \A b \in todo : Good(b, ch)
    PROVE  MayBe(c, Starting(a, todo)) /\ Backed(Starting(a, todo), ch)
  <1>1. Starting(a, todo) \in ApplyTask
    BY DEF Starting, ApplyTask
  <1> QED BY <1>1 DEF Starting, MayBe, Task, Backed

\* Who has ended or is idle claims nothing.
LEMMA DoneBacked ==
    ASSUME NEW c \in Confirms, NEW ch
    PROVE  MayBe(c, [at |-> "done"]) /\ Backed([at |-> "done"], ch)
  BY DEF MayBe, Task, Backed

\* A confirm that goes to another place of its transaction, unanswered.
LEMMA StaysInside ==
    ASSUME NEW c \in Confirms, NEW t \in ConfirmTask, NEW ch, t.at # "answered"
    PROVE  MayBe(c, t) /\ Backed(t, ch)
  <1>1. t.at \in Inside \cup {"recovering"}
    BY DEF ConfirmTask
  <1> QED BY <1>1 DEF MayBe, Task, Backed

\* A confirm, at each of its statements.
LEMMA ConfirmMoves ==
    ASSUME TypeOK, AllBacked, NEW c \in Confirms,
           ConfirmStep(c) \/ Fails(c) \/ RecoverFails(c)
    PROVE  NewTask(c)
  <1>0. /\ TasksOK /\ RowsOK
        /\ task[c] \in Task /\ c \in Callers /\ task = [d \in Callers |-> task[d]]
    BY TypeSplit DEF TasksOK, MayBe, Callers
  <1>1. ASSUME NEW a \in Attempts, Claims(c, a) PROVE NewTask(c)
    <2> DEFINE t == [at |-> "claimed", attempt |-> a, paid |-> FALSE, answer |-> "none"]
    <2>1. t \in ConfirmTask /\ t.at # "answered"
      BY DEF ConfirmTask, Answers
    <2>2. task' = [task EXCEPT ![c] = t]
      BY <1>1 DEF Claims, Takes
    <2> HIDE DEF t
    <2> QED BY <2>1, <2>2, StaysInside, IsNewTask
  <1>2. CASE ReadsPayment(c)
    <2>1. task[c] \in ConfirmTask
      BY <1>0, <1>2, TaskKinds DEF ReadsPayment, At
    <2> DEFINE a == task[c].attempt
               asking == [task[c] EXCEPT !.at = "asking", !.paid = payment.status = "VERIFIED"]
    <2>2. a \in Attempts
      BY <2>1 DEF ConfirmTask
    <2>3. CASE attempt[a].status = "PENDING"
      <3>1. task' = [task EXCEPT ![c] = asking]
        BY <1>2, <2>3 DEF ReadsPayment
      <3>2. asking \in ConfirmTask /\ asking.at # "answered"
        BY <2>1 DEF ConfirmTask
      <3> HIDE DEF asking
      <3> QED BY <3>1, <3>2, StaysInside, IsNewTask
    <2>4. CASE attempt[a].status = "APPROVED"
      <3>1. task' = [task EXCEPT ![c] = Starting(a, {})]
        BY <1>2, <2>4 DEF ReadsPayment
      <3>2. Good(a, charge')
        BY <1>2, <2>2, <2>4 DEF ReadsPayment, AllBacked
      <3> HIDE DEF a
      <3> QED BY <1>0, <2>2, <3>1, <3>2, StartsBacked, IsNewTask
    <2>5. CASE attempt[a].status \notin {"PENDING", "APPROVED"}
      <3>1. task' = [task EXCEPT ![c] = [at |-> "done"]]
        BY <1>2, <2>5 DEF ReadsPayment
      <3> QED BY <3>1, DoneBacked, IsNewTask
    <2> QED BY <2>3, <2>4, <2>5
  <1>3. CASE Asks(c)
    <2>1. task[c] \in ConfirmTask
      BY <1>0, <1>3, TaskKinds DEF Asks, At
    <2>2. PICK answer \in Answers :
             /\ AsksPayphone(task[c].attempt, answer)
             /\ task' = [task EXCEPT ![c].at = "answered", ![c].answer = answer]
      BY <1>3 DEF Asks
    <2> DEFINE t == [task[c] EXCEPT !.at = "answered", !.answer = answer]
    <2>3. task' = [task EXCEPT ![c] = t]
      BY <2>2, <1>0
    <2>4. /\ t \in ConfirmTask /\ t.at = "answered" /\ t.answer = answer
          /\ t.attempt = task[c].attempt /\ t.attempt \in Attempts
      BY <2>1 DEF ConfirmTask
    <2> HIDE DEF t
    <2>5. answer # "none" /\ (answer = "approved" => Good(t.attempt, charge'))
      BY <1>0, <2>2, <2>4, Asked
    <2>6. MayBe(c, t) /\ Backed(t, charge')
      BY <2>4, <2>5 DEF MayBe, Task, Backed
    <2> QED BY <2>3, <2>6, IsNewTask
  <1>4. CASE Writes(c)
    <2>1. task[c] \in ConfirmTask /\ task[c].at = "answered"
      BY <1>0, <1>4, TaskKinds DEF Writes, At
    <2> DEFINE a == task[c].attempt
               st == Outcome(task[c].answer, task[c].paid)
               recovering == [task[c] EXCEPT !.at = "recovering"]
    <2>2. \/ task' = [task EXCEPT ![c] = recovering]
          \/ st = "APPROVED" /\ task' = [task EXCEPT ![c] = Starting(a, {})]
          \/ task' = [task EXCEPT ![c] = [at |-> "done"]]
      BY <1>4, <1>0 DEF Writes, Loses, Goes
    <2>3. CASE task' = [task EXCEPT ![c] = recovering]
      <3>1. recovering \in ConfirmTask /\ recovering.at # "answered"
        BY <2>1 DEF ConfirmTask
      <3> HIDE DEF recovering
      <3> QED BY <2>3, <3>1, StaysInside, IsNewTask
    <2>4. CASE st = "APPROVED" /\ task' = [task EXCEPT ![c] = Starting(a, {})]
      <3>1. task[c].answer = "approved" /\ a \in Attempts
        <4>1. task[c].answer \in Answers \ {"none"} /\ a \in Attempts
          BY <1>0, <2>1 DEF ConfirmTask, AllBacked, Backed
        <4> HIDE DEF a
        <4> QED BY <4>1, <2>4 DEF Outcome, Answers
      <3>2. Good(a, charge')
        BY <1>4, <1>0, <2>1, <3>1 DEF Writes, AllBacked, Backed
      <3> HIDE DEF a
      <3> QED BY <1>0, <2>4, <3>1, <3>2, StartsBacked, IsNewTask
    <2>5. CASE task' = [task EXCEPT ![c] = [at |-> "done"]]
      BY <2>5, DoneBacked, IsNewTask
    <2> QED BY <2>2, <2>3, <2>4, <2>5
  <1>5. CASE Recovers(c) \/ RecoverFails(c)
    <2>1. task' = [task EXCEPT ![c] = [at |-> "done"]]
      BY <1>5 DEF Recovers, RecoverFails, Ends
    <2> QED BY <2>1, DoneBacked, IsNewTask
  <1>6. CASE Fails(c)
    <2>1. task[c] \in ConfirmTask /\ Goes(c, "recovering")
      BY <1>0, <1>6, TaskKinds DEF Fails, Loses
    <2> DEFINE t == [task[c] EXCEPT !.at = "recovering"]
    <2>2. task' = [task EXCEPT ![c] = t]
      BY <1>0, <2>1 DEF Goes
    <2>3. t \in ConfirmTask /\ t.at # "answered"
      BY <2>1 DEF ConfirmTask
    <2> HIDE DEF t
    <2> QED BY <2>2, <2>3, StaysInside, IsNewTask
  <1> QED BY <1>1, <1>2, <1>3, <1>4, <1>5, <1>6 DEF ConfirmStep

\* An application, of a confirm or a job, keeps its good charge until it leaves.
LEMMA ApplyMoves ==
    ASSUME TypeOK, AllBacked, NEW c \in Callers, ApplyStep(c) \/ ApplyFails(c)
    PROVE  NewTask(c)
  <1>0. /\ TasksOK /\ RowsOK
        /\ task[c] \in Task /\ task = [d \in Callers |-> task[d]]
    BY TypeSplit DEF TasksOK, MayBe
  <1>1. task[c].at \in Applying /\ UNCHANGED charge
    BY DEF ApplyStep, ApplyFails, ReadsToApply, Verifies, ReadsSubscription, Snapshots,
           Renews, Dates, Stamps, At
  <1>2. /\ task[c] \in ApplyTask /\ task[c].attempt \in Attempts
        /\ task[c].todo \in SUBSET Attempts
        /\ Good(task[c].attempt, charge) /\ \A b \in task[c].todo : Good(b, charge)
    BY <1>0, <1>1, TaskKinds DEF ApplyTask, AllBacked, Backed
  <1>3. ASSUME NEW p \in Applying, Goes(c, p) PROVE NewTask(c)
    <2> DEFINE t == [task[c] EXCEPT !.at = p]
    <2>1. task' = [task EXCEPT ![c] = t]
      BY <1>0, <1>3 DEF Goes
    <2>2. /\ t \in ApplyTask /\ t.at \in Applying
          /\ t.attempt = task[c].attempt /\ t.todo = task[c].todo
      BY <1>2 DEF ApplyTask
    <2> HIDE DEF t
    <2>3. MayBe(c, t) /\ Backed(t, charge')
      BY <1>1, <1>2, <2>2 DEF MayBe, Task, Backed
    <2> QED BY <2>1, <2>3, IsNewTask
  <1>4. CASE ReadsSubscription(c)
    <2> DEFINE t == [task[c] EXCEPT !.at = "snapshotting", !.base = ends]
    <2>1. task' = [task EXCEPT ![c] = t]
      BY <1>0, <1>4 DEF ReadsSubscription
    <2>2. /\ t \in ApplyTask /\ t.at \in Applying
          /\ t.attempt = task[c].attempt /\ t.todo = task[c].todo
      BY <1>0, <1>2 DEF ApplyTask, RowsOK
    <2> HIDE DEF t
    <2>3. MayBe(c, t) /\ Backed(t, charge')
      BY <1>1, <1>2, <2>2 DEF MayBe, Task, Backed
    <2> QED BY <2>1, <2>3, IsNewTask
  <1>5. CASE Leaves(c)
    <2>1. CASE c \in Jobs
      <3> DEFINE t == [at |-> "applying", todo |-> task[c].todo, ids |-> {}]
      <3>1. task' = [task EXCEPT ![c] = t]
        BY <1>0, <1>5, <2>1 DEF Leaves, Returns
      <3>2. t \in LoopTask /\ t.at = "applying" /\ t.todo = task[c].todo
        BY <1>2 DEF LoopTask
      <3> HIDE DEF t
      <3>3. MayBe(c, t) /\ Backed(t, charge')
        BY <1>1, <1>2, <2>1, <3>2 DEF MayBe, Task, Backed
      <3> QED BY <3>1, <3>3, IsNewTask
    <2>2. CASE c \notin Jobs
      <3>1. c \in Confirms /\ task' = [task EXCEPT ![c] = [at |-> "done"]]
        BY <1>5, <2>2 DEF Leaves, Ends, Callers
      <3> QED BY <3>1, DoneBacked, IsNewTask
    <2> QED BY <2>1, <2>2
  <1>6. \/ \E p \in Applying : Goes(c, p)
        \/ ReadsSubscription(c) \/ Leaves(c)
    BY DEF ApplyStep, ApplyFails, ReadsToApply, Verifies, Snapshots, Renews, Dates, Stamps
  <1> QED BY <1>3, <1>4, <1>5, <1>6

\* A job knows of attempts only, and applies those that are APPROVED.
LEMMA LoopBacked ==
    ASSUME NEW j \in Jobs, NEW t \in LoopTask, NEW ch,
           t.at = "applying" => \A b \in t.todo : Good(b, ch)
    PROVE  MayBe(j, t) /\ Backed(t, ch)
  <1>1. t.at \in {"sweeping", "applying"}
    BY DEF LoopTask
  <1> QED BY <1>1 DEF MayBe, Task, Backed

\* The sweep goes on with what is left of its attempts.
LEMMA SweepMoves ==
    ASSUME TasksOK, NEW j \in Jobs, NEW todo \in SUBSET Attempts, Sweeps(j, todo),
           task[j].ids \in SUBSET Attempts
    PROVE  NewTask(j)
  <1> DEFINE t == [at |-> "sweeping", todo |-> todo, ids |-> task[j].ids]
  <1>1. task' = [task EXCEPT ![j] = t]
    BY DEF Sweeps, TasksOK, Callers
  <1>2. t \in LoopTask /\ t.at = "sweeping"
    BY DEF LoopTask
  <1> HIDE DEF t
  <1> QED BY <1>1, <1>2, LoopBacked, IsNewTask

\* An idle caller holds nothing.
LEMMA IdleBacked ==
    ASSUME NEW c \in Callers, NEW ch
    PROVE  MayBe(c, Idle) /\ Backed(Idle, ch)
  BY DEF Idle, MayBe, Task, Backed

\* The job, at each of its statements.
LEMMA JobMoves ==
    ASSUME TypeOK, AllBacked, NEW j \in Jobs, JobStep(j) \/ JobFails(j)
    PROVE  NewTask(j)
  <1>0. /\ TasksOK /\ RowsOK
        /\ task[j] \in Task /\ j \in Callers /\ task = [d \in Callers |-> task[d]]
    BY TypeSplit DEF TasksOK, MayBe, Callers
  <1>1. ASSUME NEW a \in Attempts, Expires(j, a) PROVE NewTask(j)
    <2>1. task[j] \in LoopTask /\ Sweeps(j, task[j].todo \ {a})
      BY <1>0, <1>1, TaskKinds DEF Expires, At
    <2>2. task[j].todo \ {a} \in SUBSET Attempts /\ task[j].ids \in SUBSET Attempts
      BY <2>1 DEF LoopTask
    <2> QED BY <1>0, <2>1, <2>2, SweepMoves
  <1>2. ASSUME NEW a \in Attempts, Inquires(j, a) PROVE NewTask(j)
    <2>1. task[j] \in LoopTask
      BY <1>0, <1>2, TaskKinds DEF Inquires, At
    <2>2. task[j].todo \ {a} \in SUBSET Attempts /\ task[j].ids \in SUBSET Attempts
      BY <2>1 DEF LoopTask
    <2>3. PICK answer \in Answers :
             /\ AsksPayphone(a, answer)
             /\ \/ Sweeps(j, task[j].todo \ {a})
                \/ task' = [task EXCEPT ![j] =
                               [at |-> "inquired", todo |-> task[j].todo \ {a},
                                ids |-> task[j].ids, attempt |-> a, answer |-> answer]]
      BY <1>0, <1>2 DEF Inquires
    <2>4. CASE Sweeps(j, task[j].todo \ {a})
      BY <1>0, <2>2, <2>4, SweepMoves
    <2>5. CASE ~Sweeps(j, task[j].todo \ {a})
      <3> DEFINE t == [at |-> "inquired", todo |-> task[j].todo \ {a},
                       ids |-> task[j].ids, attempt |-> a, answer |-> answer]
      <3>1. task' = [task EXCEPT ![j] = t]
        BY <2>3, <2>5
      <3>2. t \in AskTask /\ t.at = "inquired" /\ t.attempt = a /\ t.answer = answer
        BY <2>2, <2>3 DEF AskTask
      <3>3. answer = "approved" => Good(a, charge')
        BY <1>0, <2>3, Asked
      <3> HIDE DEF t
      <3>4. MayBe(j, t) /\ Backed(t, charge')
        BY <3>2, <3>3 DEF MayBe, Task, Backed
      <3> QED BY <3>1, <3>4, IsNewTask
    <2> QED BY <2>4, <2>5
  <1>3. ASSUME NEW a \in Attempts, Applies(j, a) PROVE NewTask(j)
    <2>1. task[j] \in LoopTask /\ task[j].at = "applying" /\ a \in task[j].todo
      BY <1>0, <1>3, TaskKinds DEF Applies, At
    <2> DEFINE rest == task[j].todo \ {a}
    <2>2. task' = [task EXCEPT ![j] = Starting(a, rest)]
      BY <1>0, <1>3 DEF Applies
    <2>3. /\ rest \in SUBSET Attempts
          /\ Good(a, charge') /\ \A b \in rest : Good(b, charge')
      BY <1>0, <1>3, <2>1 DEF Applies, AllBacked, Backed, LoopTask
    <2> HIDE DEF rest
    <2> QED BY <1>0, <2>2, <2>3, StartsBacked, IsNewTask
  <1>4. CASE Starts(j)
    <2> DEFINE t == [at |-> "sweeping", todo |-> Stale, ids |-> {a \in Stale : attempt[a].id}]
    <2>1. task' = [task EXCEPT ![j] = t]
      BY <1>4 DEF Starts
    <2>2. t \in LoopTask /\ t.at = "sweeping"
      BY DEF LoopTask, Stale, Pending
    <2> HIDE DEF t
    <2> QED BY <2>1, <2>2, LoopBacked, IsNewTask
  <1>5. CASE Settles(j)
    <2>1. task[j] \in AskTask /\ Sweeps(j, task[j].todo)
      BY <1>0, <1>5, TaskKinds DEF Settles, At
    <2>2. task[j].todo \in SUBSET Attempts /\ task[j].ids \in SUBSET Attempts
      BY <2>1 DEF AskTask
    <2> QED BY <1>0, <2>1, <2>2, SweepMoves
  <1>6. CASE FindsUnapplied(j)
    <2> DEFINE t == [at |-> "applying", todo |-> Unapplied, ids |-> {}]
    <2>1. task' = [task EXCEPT ![j] = t]
      BY <1>6 DEF FindsUnapplied
    <2>2. t \in LoopTask /\ \A b \in t.todo : Good(b, charge')
      BY <1>6 DEF LoopTask, Unapplied, FindsUnapplied, AllBacked
    <2> HIDE DEF t
    <2> QED BY <2>1, <2>2, LoopBacked, IsNewTask
  <1>7. CASE JobEnds(j) \/ JobFails(j)
    <2>1. task' = [task EXCEPT ![j] = Idle]
      BY <1>7 DEF JobEnds, JobFails
    <2> QED BY <1>0, <2>1, IdleBacked, IsNewTask
  <1> QED BY <1>1, <1>2, <1>3, <1>4, <1>5, <1>6, <1>7 DEF JobStep

-----------------------------------------------------------------------------
(* The rows.                                                               *)

\* The actions that touch a charge.
LEMMA ChargeActors ==
    ASSUME Next
    PROVE  \/ UNCHANGED charge
           \/ \E a \in Attempts : Pays(a) \/ Reverses(a)
           \/ \E c \in Confirms : Asks(c)
           \/ \E j \in Jobs, a \in Attempts : Inquires(j, a)
  BY DEF Next, ConfirmStep, ApplyStep, JobStep, ChecksPayment, OpensSession, Age, Claims,
         ReadsPayment, Writes, Recovers, Fails, RecoverFails, ReadsToApply, Verifies,
         ReadsSubscription, Snapshots, Renews, Dates, Stamps, ApplyFails, Starts, Expires,
         Settles, FindsUnapplied, Applies, JobEnds, JobFails, Crash

\* Only the payer, Payphone and those who ask it change a charge.
LEMMA ChargeKinds ==
    ASSUME TypeOK, Next
    PROVE  \/ UNCHANGED charge
           \/ \E a \in Attempts : Pays(a) \/ Reverses(a)
           \/ \E a \in Attempts, answer \in Answers : AsksPayphone(a, answer)
  <1>1. ASSUME NEW c \in Confirms, Asks(c)
        PROVE  \E a \in Attempts, answer \in Answers : AsksPayphone(a, answer)
    <2>1. task[c] \in Task /\ task[c].at = "asking"
      BY <1>1 DEF TypeOK, Callers, Asks, At
    <2>2. task[c].attempt \in Attempts
      BY <2>1, TaskKinds DEF ConfirmTask
    <2> QED BY <1>1, <2>2 DEF Asks
  <1>2. ASSUME NEW j \in Jobs, NEW a \in Attempts, Inquires(j, a)
        PROVE  \E answer \in Answers : AsksPayphone(a, answer)
    BY <1>2 DEF Inquires
  <1> QED BY <1>1, <1>2, ChargeActors

ChargeOK == charge \in [Attempts -> [state : {"none", "held", "declined", "reversed", "captured"},
                                     exact : BOOLEAN]]

\* Charges stay well formed, and a captured one stays captured.
LEMMA ChargesKept ==
    ASSUME TypeOK, Next
    PROVE  ChargeOK' /\ \A a \in Attempts : Good(a, charge) => Good(a, charge')
  <1>0. RowsOK /\ ChargeOK
    BY TypeSplit DEF RowsOK, ChargeOK
  <1>1. CASE UNCHANGED charge
    BY <1>0, <1>1 DEF ChargeOK
  <1>2. ASSUME NEW a \in Attempts, Pays(a)
        PROVE  ChargeOK' /\ \A b \in Attempts : Good(b, charge) => Good(b, charge')
    <2>1. PICK st \in {"held", "declined"}, exact \in BOOLEAN :
             charge' = [charge EXCEPT ![a] = [state |-> st, exact |-> exact]]
      BY <1>2 DEF Pays
    <2>2. charge[a].state = "none"
      BY <1>2 DEF Pays
    <2> QED BY <1>0, <2>1, <2>2 DEF ChargeOK, Good
  <1>3. ASSUME NEW a \in Attempts, Reverses(a)
        PROVE  ChargeOK' /\ \A b \in Attempts : Good(b, charge) => Good(b, charge')
    <2> DEFINE new == [charge[a] EXCEPT !.state = "reversed"]
    <2>1. charge' = [charge EXCEPT ![a] = new] /\ charge[a].state = "held"
      BY <1>0, <1>3 DEF Reverses, Charge, ChargeOK
    <2>2. new \in [state : {"none", "held", "declined", "reversed", "captured"}, exact : BOOLEAN]
      BY <1>0 DEF ChargeOK
    <2> HIDE DEF new
    <2> QED BY <1>0, <2>1, <2>2 DEF ChargeOK, Good
  <1>4. ASSUME NEW a \in Attempts, NEW answer \in Answers, AsksPayphone(a, answer)
        PROVE  ChargeOK' /\ \A b \in Attempts : Good(b, charge) => Good(b, charge')
    BY <1>0, <1>4, Asked DEF ChargeOK
  <1> QED BY <1>1, <1>2, <1>3, <1>4, ChargeKinds

AttemptRow == [status : {"ABSENT", "PENDING"} \cup Decided,
               id : BOOLEAN, applied : BOOLEAN, old : BOOLEAN]

\* Who writes to the rows of payphone_transactions.
LEMMA AttemptKinds ==
    ASSUME Next
    PROVE  \/ UNCHANGED attempt
           \/ \E a \in Attempts : OpensSession(a) \/ Age(a)
           \/ \E c \in Confirms : Writes(c) \/ Recovers(c)
           \/ \E c \in Callers : Stamps(c)
           \/ \E j \in Jobs, a \in Attempts : Expires(j, a)
           \/ \E j \in Jobs : Settles(j)
  <1>1. ASSUME NEW a \in Attempts, ChecksPayment(a) \/ Pays(a) \/ Reverses(a)
        PROVE  UNCHANGED attempt
    BY <1>1 DEF ChecksPayment, Pays, Reverses
  <1>2. ASSUME NEW c \in Confirms, ConfirmStep(c) \/ Fails(c) \/ RecoverFails(c)
        PROVE  UNCHANGED attempt \/ Writes(c) \/ Recovers(c)
    BY <1>2 DEF ConfirmStep, Claims, ReadsPayment, Asks, Fails, RecoverFails
  <1>3. ASSUME NEW c \in Callers, ApplyStep(c) \/ ApplyFails(c)
        PROVE  UNCHANGED attempt \/ Stamps(c)
    BY <1>3 DEF ApplyStep, ReadsToApply, Verifies, ReadsSubscription, Snapshots, Renews,
                Dates, ApplyFails
  <1>4. ASSUME NEW j \in Jobs, JobStep(j) \/ JobFails(j)
        PROVE  UNCHANGED attempt \/ Settles(j) \/ \E a \in Attempts : Expires(j, a)
    BY <1>4 DEF JobStep, Starts, Inquires, FindsUnapplied, Applies, JobEnds, JobFails
  <1> QED BY <1>1, <1>2, <1>3, <1>4 DEF Next, Crash

\* An attempt's row is changed one at a time, and APPROVED only with a good charge.
LEMMA AttemptsKept ==
    ASSUME TypeOK, AllBacked, Next
    PROVE  /\ attempt' \in [Attempts -> AttemptRow]
           /\ \A a \in Attempts : attempt'[a].status = "APPROVED" => Good(a, charge')
  <1> DEFINE Kept == /\ attempt' \in [Attempts -> AttemptRow]
                     /\ \A a \in Attempts : attempt'[a].status = "APPROVED" => Good(a, charge')
  <1> SUFFICES Kept
    OBVIOUS
  <1>0. /\ TasksOK /\ RowsOK /\ attempt \in [Attempts -> AttemptRow]
        /\ \A c \in Callers : task[c] \in Task
    BY TypeSplit DEF RowsOK, TasksOK, MayBe, AttemptRow
  <1>1. \A a \in Attempts : Good(a, charge) => Good(a, charge')
    BY ChargesKept
  <1>2. CASE UNCHANGED attempt
    BY <1>0, <1>1, <1>2 DEF AllBacked
  <1>3. ASSUME NEW a \in Attempts, NEW new \in AttemptRow, attempt' = [attempt EXCEPT ![a] = new],
               new.status = "APPROVED" => attempt[a].status = "APPROVED" \/ Good(a, charge)
        PROVE  Kept
    BY <1>0, <1>1, <1>3 DEF AllBacked
  <1>4. ASSUME NEW a \in Attempts, NEW st \in Decided \cup {"PENDING"}, Sets(a, st, TRUE),
               st = "APPROVED" => Good(a, charge)
        PROVE  Kept
    <2> DEFINE new == [attempt[a] EXCEPT !.status = st, !.id = TRUE]
    <2>1. attempt' = [attempt EXCEPT ![a] = new]
      BY <1>0, <1>4 DEF Sets
    <2>2. new \in AttemptRow /\ new.status = st
      BY <1>0, <1>4 DEF AttemptRow
    <2> HIDE DEF new, Kept
    <2> QED BY <1>3, <1>4, <2>1, <2>2
  <1>5. ASSUME NEW a \in Attempts, OpensSession(a) \/ Age(a) PROVE Kept
    <2> DEFINE opened == [attempt[a] EXCEPT !.status = "PENDING"]
               old == [attempt[a] EXCEPT !.old = TRUE]
    <2>1. attempt' = [attempt EXCEPT ![a] = opened] \/ attempt' = [attempt EXCEPT ![a] = old]
      BY <1>0, <1>5 DEF OpensSession, Age
    <2>2. /\ opened \in AttemptRow /\ opened.status = "PENDING"
          /\ old \in AttemptRow /\ old.status = attempt[a].status
      BY <1>0 DEF AttemptRow
    <2> HIDE DEF opened, old, Kept
    <2> QED BY <1>3, <2>1, <2>2
  <1>6. ASSUME NEW c \in Confirms, Writes(c) \/ Recovers(c) PROVE Kept
    <2>1. c \in Callers /\ task[c] \in ConfirmTask /\ task[c].attempt \in Attempts
      BY <1>0, <1>6, TaskKinds DEF Writes, Recovers, At, ConfirmTask, Callers
    <2>2. CASE Recovers(c)
      <3> HIDE DEF Kept
      <3> QED BY <1>4, <2>1, <2>2 DEF Recovers
    <2>3. CASE Writes(c)
      <3>1. PICK st : st = Outcome(task[c].answer, task[c].paid)
        OBVIOUS
      <3>2. task[c].answer \in Answers \ {"none"} /\ task[c].at = "answered"
        BY <2>1, <2>3 DEF ConfirmTask, AllBacked, Backed, Writes, At
      <3>3. st \in Decided \cup {"PENDING"} /\ (st = "APPROVED" => task[c].answer = "approved")
        BY <3>1, <3>2 DEF Outcome, Answers, Decided
      <3>4. st = "APPROVED" => Good(task[c].attempt, charge)
        BY <2>1, <3>2, <3>3 DEF AllBacked, Backed
      <3>5. Sets(task[c].attempt, st, TRUE)
        BY <2>3, <3>1 DEF Writes
      <3> HIDE DEF Kept
      <3> QED BY <1>4, <2>1, <3>3, <3>4, <3>5
    <2> QED BY <1>6, <2>2, <2>3
  <1>7. ASSUME NEW c \in Callers, Stamps(c) PROVE Kept
    <2> DEFINE a == task[c].attempt
               new == [attempt[a] EXCEPT !.status = "APPROVED", !.applied = TRUE]
    <2>1. a \in Attempts /\ Good(a, charge)
      BY <1>0, <1>7, TaskKinds DEF Stamps, At, ApplyTask, AllBacked, Backed
    <2>2. attempt' = [attempt EXCEPT ![a] = new]
      BY <1>0, <1>7 DEF Stamps
    <2>3. new \in AttemptRow
      BY <1>0, <2>1 DEF AttemptRow, Decided
    <2> HIDE DEF a, new, Kept
    <2> QED BY <1>3, <2>1, <2>2, <2>3
  <1>8. ASSUME NEW j \in Jobs, NEW a \in Attempts, Expires(j, a) PROVE Kept
    <2> DEFINE new == [attempt[a] EXCEPT !.status = "EXPIRED"]
    <2>1. attempt' = [attempt EXCEPT ![a] = new]
      BY <1>0, <1>8 DEF Expires
    <2>2. new \in AttemptRow /\ new.status = "EXPIRED"
      BY <1>0 DEF AttemptRow, Decided
    <2> HIDE DEF new, Kept
    <2> QED BY <1>3, <2>1, <2>2
  <1>9. ASSUME NEW j \in Jobs, Settles(j) PROVE Kept
    <2>1. j \in Callers /\ task[j] \in AskTask /\ task[j].at = "inquired"
          /\ task[j].attempt \in Attempts
      BY <1>0, <1>9, TaskKinds DEF Settles, At, AskTask, Callers
    <2>2. PICK st : st = IF task[j].answer = "approved" THEN "APPROVED" ELSE "EXPIRED"
      OBVIOUS
    <2>3. Sets(task[j].attempt, st, TRUE)
      BY <1>9, <2>2 DEF Settles
    <2>4. st = "APPROVED" => Good(task[j].attempt, charge)
      BY <2>1, <2>2 DEF AllBacked, Backed
    <2>5. st \in Decided \cup {"PENDING"}
      BY <2>2 DEF Decided
    <2> HIDE DEF Kept
    <2> QED BY <1>4, <2>1, <2>3, <2>4, <2>5
  <1> HIDE DEF Kept
  <1> QED BY <1>2, <1>5, <1>6, <1>7, <1>8, <1>9, AttemptKinds

\* The payment and the period change for an application only.
CreditOK == /\ payment \in [status : {"PENDING", "VERIFIED"}, from : Nat]
            /\ ends \in Nat

\* Credit stays backed.
LEMMA CreditKept ==
    ASSUME TypeOK, AllBacked, CreditIsBacked, Next
    PROVE  CreditOK' /\ CreditIsBacked'
  <1>0. /\ TasksOK /\ CreditOK /\ \A c \in Callers : task[c] \in Task
    BY TypeSplit DEF RowsOK, TasksOK, MayBe, CreditOK
  <1>1. \A a \in Attempts : Good(a, charge) => Good(a, charge')
    BY ChargesKept
  <1>2. CASE UNCHANGED <<payment, ends>>
    <2>1. CreditOK'
      BY <1>0, <1>2 DEF CreditOK
    <2>2. CreditIsBacked'
      BY <1>1, <1>2 DEF CreditIsBacked, Captured, Good
    <2> QED BY <2>1, <2>2
  <1>3. ASSUME NEW c \in Callers, Verifies(c) \/ Snapshots(c) \/ Renews(c) \/ Dates(c)
        PROVE  CreditOK' /\ CreditIsBacked'
    <2>1. /\ task[c] \in ApplyTask /\ task[c].attempt \in Attempts /\ task[c].base \in Nat
          /\ Good(task[c].attempt, charge)
      BY <1>0, <1>3, TaskKinds DEF Verifies, Snapshots, Renews, Dates, At, ApplyTask,
                                   AllBacked, Backed
    <2>2. \E a \in Attempts : Captured(a)' /\ charge'[a].exact
      BY <1>1, <2>1 DEF Captured, Good
    <2>3. CreditOK'
      <3>1. CASE UNCHANGED payment /\ ends' = task[c].base + 1
        BY <1>0, <2>1, <3>1 DEF CreditOK
      <3>2. CASE UNCHANGED ends /\ payment' = [status |-> "VERIFIED", from |-> task[c].base]
        BY <1>0, <2>1, <3>2 DEF CreditOK
      <3>3. CASE UNCHANGED ends /\ payment' = [payment EXCEPT !.status = "VERIFIED"]
        BY <1>0, <3>3 DEF CreditOK
      <3> QED BY <1>3, <3>1, <3>2, <3>3 DEF Verifies, Snapshots, Renews, Dates
    <2> QED BY <2>2, <2>3 DEF CreditIsBacked
  <1>4. \/ UNCHANGED <<payment, ends>>
        \/ \E c \in Callers : Verifies(c) \/ Snapshots(c) \/ Renews(c) \/ Dates(c)
    <2>1. ASSUME NEW a \in Attempts, \/ ChecksPayment(a) \/ OpensSession(a) \/ Age(a)
                                     \/ Pays(a) \/ Reverses(a)
          PROVE  UNCHANGED <<payment, ends>>
      BY <2>1 DEF ChecksPayment, OpensSession, Age, Pays, Reverses
    <2>2. ASSUME NEW c \in Confirms, ConfirmStep(c) \/ Fails(c) \/ RecoverFails(c)
          PROVE  UNCHANGED <<payment, ends>>
      BY <2>2 DEF ConfirmStep, Claims, ReadsPayment, Asks, Writes, Recovers, Fails, RecoverFails
    <2>3. ASSUME NEW c \in Callers, ApplyStep(c) \/ ApplyFails(c)
          PROVE  \/ UNCHANGED <<payment, ends>>
                 \/ Verifies(c) \/ Snapshots(c) \/ Renews(c) \/ Dates(c)
      BY <2>3 DEF ApplyStep, ReadsToApply, ReadsSubscription, Stamps, ApplyFails
    <2>4. ASSUME NEW j \in Jobs, JobStep(j) \/ JobFails(j)
          PROVE  UNCHANGED <<payment, ends>>
      BY <2>4 DEF JobStep, Starts, Expires, Inquires, Settles, FindsUnapplied, Applies,
                  JobEnds, JobFails
    <2> QED BY <2>1, <2>2, <2>3, <2>4 DEF Next, Crash
  <1> QED BY <1>2, <1>3, <1>4

\* What is left of the rows.
RestOK == /\ session \in [Attempts -> {"none", "checked", "open"}]
          /\ failures \in Nat
          /\ unrecorded \cup misexpired \subseteq Attempts /\ half \in BOOLEAN

\* Sessions and histories stay well formed.
LEMMA RestKept ==
    ASSUME TypeOK, Next
    PROVE  RestOK'
  <1>0. /\ TasksOK /\ RowsOK /\ RestOK /\ \A c \in Callers : task[c] \in Task
    BY TypeSplit DEF RowsOK, TasksOK, MayBe, RestOK
  <1> USE DEF RestOK
  <1>1. ASSUME NEW a \in Attempts, \/ ChecksPayment(a) \/ OpensSession(a) \/ Age(a)
                                   \/ Pays(a) \/ Reverses(a)
        PROVE  RestOK'
    BY <1>0, <1>1 DEF ChecksPayment, OpensSession, Age, Pays, Reverses, history
  <1>2. ASSUME NEW c \in Callers, At(c, "answered") \/ At(c, "recovering")
        PROVE  task[c].attempt \in Attempts
    BY <1>0, <1>2, TaskKinds DEF At, ConfirmTask
  <1>3. ASSUME NEW cs \in SUBSET Callers, Forgets(cs)
        PROVE  unrecorded' \subseteq Attempts
    BY <1>0, <1>2, <1>3 DEF Forgets, Answered
  <1>4. ASSUME NEW cs \in SUBSET Callers, Halves(cs)
        PROVE  half' \in BOOLEAN
    BY <1>0, <1>4 DEF Halves
  <1>5. ASSUME NEW c \in Confirms, ConfirmStep(c) \/ Fails(c) \/ RecoverFails(c)
        PROVE  RestOK'
    <2>0. c \in Callers /\ {c} \in SUBSET Callers
      BY DEF Callers
    <2>1. CASE ConfirmStep(c) /\ ~Asks(c) /\ ~Writes(c)
      BY <1>0, <2>1 DEF ConfirmStep, Claims, ReadsPayment, Recovers, history
    <2>2. CASE Asks(c)
      <3>1. task[c].attempt \in Attempts
        BY <1>0, <2>0, <2>2, TaskKinds DEF Asks, At, ConfirmTask
      <3> QED BY <1>0, <2>2, <3>1, Asked DEF Asks, history
    <2>3. CASE Writes(c)
      <3>1. task[c].attempt \in Attempts
        BY <1>2, <2>0, <2>3 DEF Writes
      <3>2. unrecorded' \subseteq Attempts
        BY <1>0, <2>3, <3>1 DEF Writes, Misreads
      <3>3. failures' \in Nat
        BY <1>0, <2>3 DEF Writes, Loses, Counts
      <3> QED BY <1>0, <2>3, <3>2, <3>3 DEF Writes
    <2>4. CASE Fails(c)
      BY <1>0, <2>4 DEF Fails, Loses, Counts, history
    <2>5. CASE RecoverFails(c)
      <3>1. unrecorded' \subseteq Attempts
        BY <1>3, <2>0, <2>5 DEF RecoverFails
      <3> QED BY <1>0, <2>5, <3>1 DEF RecoverFails, Counts
    <2> QED BY <1>5, <2>1, <2>2, <2>3, <2>4, <2>5
  <1>6. ASSUME NEW c \in Callers, ApplyStep(c) \/ ApplyFails(c) PROVE RestOK'
    <2>1. CASE ApplyStep(c)
      BY <1>0, <2>1 DEF ApplyStep, ReadsToApply, Verifies, ReadsSubscription, Snapshots,
                        Renews, Dates, Stamps, history
    <2>2. CASE ApplyFails(c)
      <3>1. half' \in BOOLEAN
        BY <1>4, <2>2 DEF ApplyFails
      <3> QED BY <1>0, <2>2, <3>1 DEF ApplyFails, Counts
    <2> QED BY <1>6, <2>1, <2>2
  <1>7. ASSUME NEW j \in Jobs, NEW a \in Attempts, Expires(j, a) PROVE RestOK'
    BY <1>0, <1>7 DEF Expires
  <1>8. ASSUME NEW j \in Jobs, NEW a \in Attempts, Inquires(j, a) PROVE RestOK'
    BY <1>0, <1>8, Asked DEF Inquires, history
  <1>9. ASSUME NEW j \in Jobs, Settles(j) PROVE RestOK'
    <2>1. task[j].attempt \in Attempts
      BY <1>0, <1>9, TaskKinds DEF Settles, At, AskTask, Callers
    <2> QED BY <1>0, <1>9, <2>1 DEF Settles, Misreads
  <1>10. ASSUME NEW j \in Jobs, NEW a \in Attempts, Applies(j, a) PROVE RestOK'
    BY <1>0, <1>10 DEF Applies, history
  <1>11. CASE Crash
    <2>1. unrecorded' \subseteq Attempts /\ half' \in BOOLEAN
      BY <1>3, <1>4, <1>11 DEF Crash, Callers
    <2> QED BY <1>0, <1>11, <2>1 DEF Crash, Counts
  <1>12. ASSUME NEW j \in Jobs, Starts(j) \/ FindsUnapplied(j) \/ JobEnds(j) \/ JobFails(j)
         PROVE  RestOK'
    BY <1>0, <1>12 DEF Starts, FindsUnapplied, JobEnds, JobFails, Counts, history
  <1> HIDE DEF RestOK
  <1> QED BY <1>1, <1>5, <1>6, <1>7, <1>8, <1>9, <1>10, <1>11, <1>12 DEF Next, JobStep

-----------------------------------------------------------------------------
(* The theorems.                                                           *)

\* Whoever moved, every task is well formed and backed.
LEMMA TasksKept ==
    ASSUME TypeOK, AllBacked, Next
    PROVE  TasksOK' /\ \A c \in Callers : Backed(task'[c], charge')
  <1>0. TasksOK /\ \A c \in Callers : task[c] \in Task /\ Backed(task[c], charge)
    BY TypeSplit DEF TasksOK, MayBe, AllBacked
  <1>1. ASSUME NEW c \in Callers PROVE Backed(task[c], charge')
    <2>1. /\ task[c].at \in Applying \cup {"answered", "inquired"} => task[c].attempt \in Attempts
          /\ task[c].at \in Applying \cup {"applying"} => task[c].todo \subseteq Attempts
      BY <1>0, TaskKinds DEF ConfirmTask, ApplyTask, AskTask, LoopTask
    <2>2. \A a \in Attempts : Good(a, charge) => Good(a, charge')
      BY ChargesKept
    <2> QED BY <1>0, <2>1, <2>2 DEF Backed
  <1>2. ASSUME NEW c \in Callers, NewTask(c)
        PROVE  TasksOK' /\ \A d \in Callers : Backed(task'[d], charge')
    <2>1. PICK t : MayBe(c, t) /\ task' = [task EXCEPT ![c] = t] /\ Backed(t, charge')
      BY <1>2 DEF NewTask
    <2>2. TasksOK' /\ task'[c] = t /\ \A d \in Callers \ {c} : task'[d] = task[d]
      BY <1>0, <2>1, OneMoves
    <2> QED BY <1>1, <2>1, <2>2
  <1>3. CASE UNCHANGED task
    BY <1>0, <1>1, <1>3 DEF TasksOK
  <1>4. CASE Crash
    <2>1. \A c \in Callers : task'[c] = Idle \/ (c \in Confirms /\ task'[c] = [at |-> "done"])
      BY <1>4 DEF Crash, Callers
    <2>2. \A c \in Callers : MayBe(c, task'[c]) /\ Backed(task'[c], charge')
      BY <2>1, IdleBacked, DoneBacked
    <2>3. task' = [c \in Callers |-> task'[c]]
      BY <1>4 DEF Crash
    <2> QED BY <2>2, <2>3 DEF TasksOK, MayBe
  <1>5. ASSUME NEW c \in Confirms, ConfirmStep(c) \/ Fails(c) \/ RecoverFails(c)
        PROVE  TasksOK' /\ \A d \in Callers : Backed(task'[d], charge')
    BY <1>2, <1>5, ConfirmMoves DEF Callers
  <1>6. ASSUME NEW c \in Callers, ApplyStep(c) \/ ApplyFails(c)
        PROVE  TasksOK' /\ \A d \in Callers : Backed(task'[d], charge')
    BY <1>2, <1>6, ApplyMoves
  <1>7. ASSUME NEW j \in Jobs, JobStep(j) \/ JobFails(j)
        PROVE  TasksOK' /\ \A d \in Callers : Backed(task'[d], charge')
    BY <1>2, <1>7, JobMoves DEF Callers
  <1>8. ASSUME NEW a \in Attempts, \/ ChecksPayment(a) \/ OpensSession(a) \/ Age(a)
                                   \/ Pays(a) \/ Reverses(a)
        PROVE  UNCHANGED task
    BY <1>8 DEF ChecksPayment, OpensSession, Age, Pays, Reverses
  <1> QED BY <1>3, <1>4, <1>5, <1>6, <1>7, <1>8 DEF Next

\* The inductive invariant holds.
LEMMA Inductive == Spec => []IInv
<1>1. Init => IInv
  <2> SUFFICES ASSUME Init PROVE IInv
    OBVIOUS
  <2>1. TypeOK
    BY DEF Init, TypeOK, Idle, Task, Callers
  <2>2. AllBacked
    BY DEF Init, AllBacked, Backed, Idle
  <2>3. CreditIsBacked
    BY DEF Init, CreditIsBacked
  <2> QED BY <2>1, <2>2, <2>3 DEF IInv
<1>2. IInv /\ [Next]_vars => IInv'
  <2> SUFFICES ASSUME IInv, [Next]_vars PROVE IInv'
    OBVIOUS
  <2>1. CASE Next
    <3>1. TypeOK /\ AllBacked /\ CreditIsBacked
      BY DEF IInv
    <3>2. TasksOK' /\ \A c \in Callers : Backed(task'[c], charge')
      BY <2>1, <3>1, TasksKept
    <3>3. /\ attempt' \in [Attempts -> AttemptRow]
          /\ \A a \in Attempts : attempt'[a].status = "APPROVED" => Good(a, charge')
      BY <2>1, <3>1, AttemptsKept
    <3>4. CreditOK' /\ CreditIsBacked'
      BY <2>1, <3>1, CreditKept
    <3>5. ChargeOK' /\ RestOK'
      BY <2>1, <3>1, ChargesKept, RestKept
    <3>6. RowsOK'
      BY <3>3, <3>4, <3>5 DEF RowsOK, AttemptRow, CreditOK, ChargeOK, RestOK
    <3>7. TypeOK'
      BY <3>2, <3>6, TypeSplitNext
    <3> QED BY <3>2, <3>3, <3>4, <3>7 DEF IInv, AllBacked
  <2>2. CASE UNCHANGED vars
    BY <2>2 DEF IInv, TypeOK, AllBacked, CreditIsBacked, Captured, Good, Backed, vars, history
  <2> QED BY <2>1, <2>2
<1> QED BY <1>1, <1>2, PTL DEF Spec

\* Type correctness: rows, charges and callers are well formed.
THEOREM Typing == Spec => []TypeOK
<1>1. IInv => TypeOK
  BY DEF IInv
<1> QED BY <1>1, Inductive, PTL

\* No period is granted and no payment VERIFIED without a captured charge of
\* the amount that was asked, however confirms, attempts and jobs overlap.
THEOREM CreditNeedsCapture == Spec => []CreditIsBacked
<1>1. IInv => CreditIsBacked
  BY DEF IInv
<1> QED BY <1>1, Inductive, PTL

-----------------------------------------------------------------------------
(* The row's lock: while a confirm that found its attempt undecided holds  *)
(* it, the attempt stays so.                                               *)

LockInv ==
    /\ \A c, d \in Confirms :
          task[c].at \in Inside /\ task[d].at \in Inside /\ task[c].attempt = task[d].attempt
              => c = d
    /\ \A c \in Confirms :
          task[c].at \in {"asking", "answered"} => attempt[task[c].attempt].status = "PENDING"

\* How a confirm comes to be inside its transaction.
Entered(c) ==
    \/ task'[c] = task[c]
    \/ \E a \in Attempts : /\ Claims(c, a) /\ task'[c].at = "claimed" /\ task'[c].attempt = a
                             /\ \A d \in Callers \ {c} : task'[d] = task[d]
    \/ /\ ReadsPayment(c) \/ Asks(c)
       /\ task[c].at \in Inside /\ task'[c].attempt = task[c].attempt
       /\ task'[c].at \in {"asking", "answered"} => attempt'[task[c].attempt].status = "PENDING"

\* A confirm is inside because it was, it claimed the row, or it went on.
LEMMA Entering ==
    ASSUME TypeOK, AllBacked, LockInv, Next, NEW c \in Confirms, task'[c].at \in Inside
    PROVE  Entered(c)
  <1>0. /\ TasksOK /\ c \in Callers /\ task[c] \in Task /\ c \notin Jobs
        /\ task = [d \in Callers |-> task[d]]
    BY TypeSplit DEF TasksOK, MayBe, Callers
  <1>1. ASSUME NEW a \in Attempts, Claims(c, a) PROVE Entered(c)
    BY <1>0, <1>1 DEF Claims, Takes, Entered
  <1>2. CASE ReadsPayment(c)
    <2>1. task[c] \in ConfirmTask /\ task[c].at = "claimed"
      BY <1>0, <1>2, TaskKinds DEF ReadsPayment, At
    <2> DEFINE a == task[c].attempt
    <2>2. CASE attempt[a].status = "PENDING"
      <3>1. task'[c] = [task[c] EXCEPT !.at = "asking", !.paid = payment.status = "VERIFIED"]
        BY <1>0, <1>2, <2>2 DEF ReadsPayment
      <3>2. task'[c].attempt = task[c].attempt
        BY <2>1, <3>1 DEF ConfirmTask
      <3>3. attempt'[a].status = "PENDING"
        BY <1>2, <2>2 DEF ReadsPayment
      <3> QED BY <1>2, <2>1, <3>2, <3>3 DEF Entered
    <2>3. CASE attempt[a].status # "PENDING"
      <3>1. task'[c].at \in {"approved", "done"}
        BY <1>0, <1>2, <2>3 DEF ReadsPayment, Starting
      <3> QED BY <3>1
    <2> QED BY <2>2, <2>3
  <1>3. CASE Asks(c)
    <2>1. task[c] \in ConfirmTask /\ task[c].at = "asking"
      BY <1>0, <1>3, TaskKinds DEF Asks, At
    <2>2. PICK answer \in Answers : task' = [task EXCEPT ![c].at = "answered", ![c].answer = answer]
      BY <1>3 DEF Asks
    <2>3. task'[c].attempt = task[c].attempt
      BY <1>0, <2>1, <2>2 DEF ConfirmTask
    <2>4. attempt'[task[c].attempt].status = "PENDING"
      BY <1>3, <2>1 DEF Asks, LockInv
    <2> QED BY <1>3, <2>1, <2>3, <2>4 DEF Entered
  <1>4. CASE Writes(c) \/ Fails(c)
    <2>1. task[c] \in ConfirmTask
      BY <1>0, <1>4, TaskKinds DEF Writes, Fails, At
    <2>2. \/ task' = [task EXCEPT ![c].at = "recovering"]
          \/ task' = [task EXCEPT ![c] = [task[c] EXCEPT !.at = "recovering"]]
          \/ task' = [task EXCEPT ![c] = Starting(task[c].attempt, {})]
          \/ task' = [task EXCEPT ![c] = [at |-> "done"]]
      BY <1>0, <1>4 DEF Writes, Fails, Loses, Goes
    <2>3. task'[c].at \notin Inside
      BY <1>0, <2>1, <2>2 DEF Starting, ConfirmTask
    <2> QED BY <2>3
  <1>5. CASE Recovers(c) \/ RecoverFails(c)
    <2>1. task' = [task EXCEPT ![c] = [at |-> "done"]]
      BY <1>5 DEF Recovers, RecoverFails, Ends
    <2>2. task'[c].at \notin Inside
      BY <1>0, <2>1
    <2> QED BY <2>2
  <1>6. CASE ApplyStep(c) \/ ApplyFails(c)
    <2>1. task[c] \in ApplyTask
      BY <1>0, <1>6, TaskKinds DEF ApplyStep, ApplyFails, ReadsToApply, Verifies,
            ReadsSubscription, Snapshots, Renews, Dates, Stamps, At
    <2>2. \/ \E p \in Applying : task' = [task EXCEPT ![c].at = p]
          \/ task' = [task EXCEPT ![c].at = "snapshotting", ![c].base = ends]
          \/ task' = [task EXCEPT ![c] = [at |-> "done"]]
      BY <1>0, <1>6 DEF ApplyStep, ApplyFails, ReadsToApply, Verifies, ReadsSubscription,
            Snapshots, Renews, Dates, Stamps, Goes, Leaves, Ends
    <2>3. task'[c].at \notin Inside
      BY <1>0, <2>1, <2>2 DEF ApplyTask
    <2> QED BY <2>3
  <1>7. ASSUME NEW d \in Callers \ {c},
               \/ d \in Confirms /\ (ConfirmStep(d) \/ Fails(d) \/ RecoverFails(d))
               \/ ApplyStep(d) \/ ApplyFails(d)
               \/ d \in Jobs /\ (JobStep(d) \/ JobFails(d))
        PROVE  Entered(c)
    <2>1. NewTask(d)
      BY <1>7, ConfirmMoves, ApplyMoves, JobMoves
    <2> QED BY <1>0, <1>7, <2>1 DEF Entered, NewTask
  <1>8. CASE Crash
    BY <1>0, <1>8 DEF Crash, Idle
  <1>9. ASSUME NEW a \in Attempts, \/ ChecksPayment(a) \/ OpensSession(a) \/ Age(a)
                                   \/ Pays(a) \/ Reverses(a)
        PROVE  Entered(c)
    BY <1>9 DEF ChecksPayment, OpensSession, Age, Pays, Reverses, Entered
  <1> QED BY <1>0, <1>1, <1>2, <1>3, <1>4, <1>5, <1>6, <1>7, <1>8, <1>9 DEF Next, ConfirmStep, Callers

\* Nobody but its holder writes another status to a locked row.
LEMMA HeldKept ==
    ASSUME TypeOK, AllBacked, LockInv, Next,
           NEW c \in Confirms, task[c].at \in {"asking", "answered"}, task'[c] = task[c]
    PROVE  attempt'[task[c].attempt].status = "PENDING"
  <1> DEFINE a == task[c].attempt
  <1>0. /\ TasksOK /\ c \in Callers /\ task[c] \in ConfirmTask /\ a \in Attempts
        /\ task = [d \in Callers |-> task[d]]
        /\ attempt \in [Attempts -> AttemptRow]
        /\ attempt[a].status = "PENDING" /\ Holds(c, a)
    BY TypeSplit, TaskKinds DEF TasksOK, MayBe, Callers, RowsOK, AttemptRow, ConfirmTask,
                                LockInv, Holds
  <1>1. Locked(a)
    BY <1>0 DEF Locked
  <1>2. ASSUME NEW b \in Attempts, ~Locked(b), \A d \in Attempts \ {b} : attempt'[d] = attempt[d]
        PROVE  attempt'[a].status = "PENDING"
    BY <1>0, <1>1, <1>2
  <1>3. CASE UNCHANGED attempt
    BY <1>0, <1>3
  <1>4. ASSUME NEW b \in Attempts, OpensSession(b) \/ Age(b)
        PROVE  attempt'[a].status = "PENDING"
    BY <1>0, <1>4 DEF OpensSession, Age, AttemptRow
  <1>5. ASSUME NEW d \in Confirms, Writes(d) PROVE attempt'[a].status = "PENDING"
    <2>1. d \in Callers /\ task[d] \in ConfirmTask /\ task[d].at = "answered"
      BY <1>0, <1>5, TaskKinds DEF Writes, At, TasksOK, MayBe, Callers
    <2>2. CASE d = c
      <3>1. \/ task' = [task EXCEPT ![c].at = "recovering"]
            \/ task' = [task EXCEPT ![c] = [task[c] EXCEPT !.at = "recovering"]]
            \/ task' = [task EXCEPT ![c] = Starting(task[c].attempt, {})]
            \/ task' = [task EXCEPT ![c] = [at |-> "done"]]
        BY <1>0, <1>5, <2>2 DEF Writes, Loses, Goes
      <3>2. task'[c].at # "answered"
        BY <1>0, <3>1 DEF Starting, ConfirmTask
      <3> QED BY <2>1, <2>2, <3>2
    <2>3. CASE d # c
      <3>1. task[d].attempt # a
        BY <2>1, <2>3 DEF LockInv
      <3> QED BY <1>0, <1>5, <3>1 DEF Writes, Sets
    <2> QED BY <2>2, <2>3
  <1>6. ASSUME NEW d \in Confirms, Recovers(d) PROVE attempt'[a].status = "PENDING"
    <2>1. task[d].attempt # a
      BY <1>1, <1>6 DEF Recovers
    <2> QED BY <1>0, <1>6, <2>1 DEF Recovers, Sets
  <1>7. ASSUME NEW d \in Callers, Stamps(d) PROVE attempt'[a].status = "PENDING"
    <2>1. task[d].attempt # a
      BY <1>1, <1>7 DEF Stamps
    <2> QED BY <1>0, <1>7, <2>1 DEF Stamps
  <1>8. ASSUME NEW j \in Jobs, NEW b \in Attempts, Expires(j, b)
        PROVE  attempt'[a].status = "PENDING"
    BY <1>0, <1>1, <1>8 DEF Expires
  <1>9. ASSUME NEW j \in Jobs, Settles(j) PROVE attempt'[a].status = "PENDING"
    <2>1. task[j].attempt # a
      BY <1>1, <1>9 DEF Settles
    <2> QED BY <1>0, <1>9, <2>1 DEF Settles, Sets
  <1> QED BY <1>3, <1>4, <1>5, <1>6, <1>7, <1>8, <1>9, AttemptKinds

\* The lock has one holder for each attempt.
LEMMA Locking == Spec => []LockInv
<1>1. Init => LockInv
  BY DEF Init, LockInv, Idle, Callers
<1>2. IInv /\ LockInv /\ [Next]_vars => LockInv'
  <2> SUFFICES ASSUME IInv, LockInv, [Next]_vars PROVE LockInv'
    OBVIOUS
  <2>1. CASE Next
    <3>0. TypeOK /\ AllBacked
      BY DEF IInv
    <3>1. ASSUME NEW c \in Confirms, NEW d \in Confirms, c # d,
                 task'[c].at \in Inside, task'[d].at \in Inside
          PROVE  task'[c].attempt # task'[d].attempt
      <4>1. Entered(c) /\ Entered(d)
        BY <2>1, <3>0, <3>1, Entering
      <4>2. ASSUME NEW e \in Confirms, NEW f \in Confirms, e # f, NEW a \in Attempts,
                   Claims(e, a), task'[e].attempt = a, task'[f].at \in Inside,
                   task'[f] = task[f]
            PROVE  task'[e].attempt # task'[f].attempt
        BY <4>2 DEF Claims, Locked, Holds
      <4>3. ASSUME NEW e \in Confirms,
                   \/ task'[e] = task[e]
                   \/ task[e].at \in Inside /\ task'[e].attempt = task[e].attempt,
                   task'[e].at \in Inside
            PROVE  task[e].at \in Inside /\ task'[e].attempt = task[e].attempt
        BY <4>3
      <4>4. CASE \E a \in Attempts : /\ Claims(c, a) /\ task'[c].attempt = a
                                     /\ \A e \in Callers \ {c} : task'[e] = task[e]
        BY <3>1, <4>2, <4>4 DEF Callers
      <4>5. CASE \E a \in Attempts : /\ Claims(d, a) /\ task'[d].attempt = a
                                     /\ \A e \in Callers \ {d} : task'[e] = task[e]
        BY <3>1, <4>2, <4>5 DEF Callers
      <4>6. CASE /\ task[c].at \in Inside /\ task'[c].attempt = task[c].attempt
                 /\ task[d].at \in Inside /\ task'[d].attempt = task[d].attempt
        BY <3>1, <4>6 DEF LockInv
      <4> QED BY <3>1, <4>1, <4>3, <4>4, <4>5, <4>6 DEF Entered
    <3>2. ASSUME NEW c \in Confirms, task'[c].at \in {"asking", "answered"}
          PROVE  attempt'[task'[c].attempt].status = "PENDING"
      <4>1. Entered(c)
        BY <2>1, <3>0, <3>2, Entering
      <4>2. CASE task'[c] = task[c]
        BY <2>1, <3>0, <3>2, <4>2, HeldKept
      <4> QED BY <3>2, <4>1, <4>2 DEF Entered
    <3> QED BY <3>1, <3>2 DEF LockInv
  <2>2. CASE UNCHANGED vars
    BY <2>2 DEF LockInv, vars
  <2> QED BY <2>1, <2>2
<1> QED BY <1>1, <1>2, Inductive, PTL DEF Spec

\* A page submitted twice never changes an outcome: a confirm with Payphone's
\* answer holds its row, and holds it undecided.
THEOREM OutcomesAreKept == Spec => OutcomeKept
<1>1. LockInv /\ [Next]_vars =>
        [\A a \in Attempts :
            attempt[a].status \in Decided /\ attempt'[a].status # attempt[a].status
                => \A c \in Confirms : ~(Holds(c, a) /\ At(c, "answered"))]_vars
  <2> SUFFICES ASSUME LockInv, NEW a \in Attempts, attempt[a].status \in Decided,
                      NEW c \in Confirms
               PROVE  ~(Holds(c, a) /\ At(c, "answered"))
    OBVIOUS
  <2> QED BY DEF LockInv, Holds, At, Decided
<1> QED BY <1>1, Locking, PTL DEF Spec, OutcomeKept
-----------------------------------------------------------------------------
(* Captured money.  An id is written only for a charge that was made, a    *)
(* charge goes forward only, and who holds an answer, or is to ask, knows  *)
(* something of it that stays true.                                        *)

\* What a step may do to a charge.
Forward(old, new) ==
    /\ old.state = "none" => new.state # "captured"
    /\ old.state # "none" => new.exact = old.exact /\ new.state # "none"
    /\ old.state \in {"declined", "reversed", "captured"} => new.state = old.state

\* What a caller knows, of charge ch and attempts at.
Sure(t, ch, at) ==
    /\ t.at \in Inside \cup {"recovering"} => ch[t.attempt].state # "none"
    /\ t.at \in {"answered", "inquired"} => t.answer # "none"
    /\ t.at \in {"answered", "inquired"} /\ t.answer = "declined" =>
           ch[t.attempt].state \in {"declined", "reversed"}
    /\ t.at \in {"answered", "inquired"} /\ t.answer = "mismatch" =>
           ~ch[t.attempt].exact /\ ch[t.attempt].state # "none"
    /\ t.at \in {"sweeping", "inquired", "applying"} => \A a \in t.ids : at[a].id
    /\ t.at = "inquired" => at[t.attempt].id /\ t.answer # "unreachable"

\* A charge of the right amount that is captured or may yet be.
Wanted(a, ch) == ch[a].exact /\ ch[a].state \in {"held", "captured"}

Excused == unrecorded \cup misexpired

\* Of such a charge: once its id is known the attempt was never closed against it, and
\* before that, who captured it still has the answer.
Followed(a) ==
    /\ attempt[a].id => attempt[a].status \in {"PENDING", "APPROVED", "DUPLICATE"}
    /\ ~attempt[a].id /\ Captured(a) => \E c \in Confirms : Answered(c) /\ task[c].attempt = a

TrackInv ==
    /\ \A c \in Callers : Sure(task[c], charge, attempt)
    /\ \A a \in Attempts : attempt[a].id => charge[a].state # "none"
    /\ \A a \in Attempts \ Excused : Wanted(a, charge) => Followed(a)

\* Asking Payphone takes a charge forward, and its answer tells about it.
LEMMA AskedForward ==
    ASSUME RowsOK, NEW a \in Attempts, NEW answer \in Answers, AsksPayphone(a, answer)
    PROVE  /\ \A b \in Attempts : Forward(charge[b], charge'[b])
           /\ \A b \in Attempts \ {a} : charge'[b] = charge[b]
           /\ answer # "none"
           /\ answer = "declined" => charge[a].state \notin {"held", "captured"}
           /\ answer = "mismatch" => ~charge[a].exact /\ charge[a].state \in {"held", "captured"}
  <1> DEFINE Charges == [state : {"none", "held", "declined", "reversed", "captured"},
                         exact : BOOLEAN]
             new == [charge[a] EXCEPT !.state = "captured"]
  <1>1. charge \in [Attempts -> Charges]
    BY DEF RowsOK
  <1>2. new.state = "captured" /\ new.exact = charge[a].exact
    BY <1>1
  <1>3. \/ UNCHANGED charge
        \/ charge' = [charge EXCEPT ![a] = new] /\ charge[a].state \in {"held", "captured"}
    BY <1>1 DEF AsksPayphone, Confirmed, Unreachable, Charge
  <1>4. /\ answer # "none"
        /\ answer = "declined" => charge[a].state \notin {"held", "captured"}
        /\ answer = "mismatch" => ~charge[a].exact /\ charge[a].state \in {"held", "captured"}
    BY <1>1 DEF AsksPayphone, Confirmed, Unreachable
  <1> HIDE DEF new
  <1>5. CASE UNCHANGED charge
    BY <1>4, <1>5 DEF Forward
  <1>6. CASE charge' = [charge EXCEPT ![a] = new] /\ charge[a].state \in {"held", "captured"}
    <2>1. /\ charge'[a] = new
          /\ \A b \in Attempts \ {a} : charge'[b] = charge[b]
      BY <1>1, <1>6
    <2>2. Forward(charge[a], charge'[a])
      BY <1>2, <1>6, <2>1 DEF Forward
    <2>3. \A b \in Attempts \ {a} : Forward(charge[b], charge'[b])
      BY <2>1 DEF Forward
    <2> QED BY <1>4, <2>1, <2>2, <2>3
  <1> QED BY <1>3, <1>5, <1>6

\* Every step takes the charges forward.
LEMMA ChargesForward ==
    ASSUME TypeOK, Next
    PROVE  \A a \in Attempts : Forward(charge[a], charge'[a])
  <1>0. RowsOK /\ ChargeOK
    BY TypeSplit DEF RowsOK, ChargeOK
  <1>1. CASE UNCHANGED charge
    BY <1>1 DEF Forward
  <1>2. ASSUME NEW a \in Attempts, Pays(a)
        PROVE  \A b \in Attempts : Forward(charge[b], charge'[b])
    <2>1. PICK st \in {"held", "declined"}, exact \in BOOLEAN :
             charge' = [charge EXCEPT ![a] = [state |-> st, exact |-> exact]]
      BY <1>2 DEF Pays
    <2>2. charge[a].state = "none"
      BY <1>2 DEF Pays
    <2> QED BY <1>0, <2>1, <2>2 DEF ChargeOK, Forward
  <1>3. ASSUME NEW a \in Attempts, Reverses(a)
        PROVE  \A b \in Attempts : Forward(charge[b], charge'[b])
    <2> DEFINE new == [charge[a] EXCEPT !.state = "reversed"]
    <2>1. charge' = [charge EXCEPT ![a] = new] /\ charge[a].state = "held"
      BY <1>0, <1>3 DEF Reverses, Charge, ChargeOK
    <2>2. new.state = "reversed" /\ new.exact = charge[a].exact
      BY <1>0 DEF ChargeOK
    <2> HIDE DEF new
    <2> QED BY <1>0, <2>1, <2>2 DEF ChargeOK, Forward
  <1>4. ASSUME NEW a \in Attempts, NEW answer \in Answers, AsksPayphone(a, answer)
        PROVE  \A b \in Attempts : Forward(charge[b], charge'[b])
    BY <1>0, <1>4, AskedForward
  <1> QED BY <1>1, <1>2, <1>3, <1>4, ChargeKinds

\* What Payphone's id, once written, says.
IdsKept ==
    \A a \in Attempts : /\ attempt[a].id => attempt'[a].id
                        /\ attempt'[a].id => charge[a].state # "none"

\* An id is written by who knows of the charge, and never taken back.
LEMMA IdsStay ==
    ASSUME TypeOK, TrackInv, Next
    PROVE  IdsKept
  <1>0. /\ TasksOK /\ attempt \in [Attempts -> AttemptRow]
        /\ \A c \in Callers : task[c] \in Task
    BY TypeSplit DEF RowsOK, TasksOK, MayBe, AttemptRow
  <1>1. ASSUME NEW a \in Attempts, NEW new, attempt' = [attempt EXCEPT ![a] = new],
               new.id = attempt[a].id \/ (new.id /\ charge[a].state # "none")
        PROVE  IdsKept
    <2>1. attempt'[a] = new /\ \A b \in Attempts \ {a} : attempt'[b] = attempt[b]
      BY <1>0, <1>1
    <2>2. \A b \in Attempts : attempt[b].id => charge[b].state # "none"
      BY DEF TrackInv
    <2> QED BY <1>1, <2>1, <2>2 DEF IdsKept
  <1>2. ASSUME NEW a \in Attempts, NEW st, Sets(a, st, TRUE), charge[a].state # "none"
        PROVE  IdsKept
    <2> DEFINE new == [attempt[a] EXCEPT !.status = st, !.id = TRUE]
    <2>1. attempt' = [attempt EXCEPT ![a] = new]
      BY <1>0, <1>2 DEF Sets
    <2>2. new.id
      BY <1>0 DEF AttemptRow
    <2> HIDE DEF new
    <2> QED BY <1>1, <1>2, <2>1, <2>2
  <1>3. CASE UNCHANGED attempt
    BY <1>3 DEF IdsKept, TrackInv
  <1>4. ASSUME NEW a \in Attempts, OpensSession(a) \/ Age(a) PROVE IdsKept
    <2> DEFINE opened == [attempt[a] EXCEPT !.status = "PENDING"]
               old == [attempt[a] EXCEPT !.old = TRUE]
    <2>1. attempt' = [attempt EXCEPT ![a] = opened] \/ attempt' = [attempt EXCEPT ![a] = old]
      BY <1>0, <1>4 DEF OpensSession, Age
    <2>2. opened.id = attempt[a].id /\ old.id = attempt[a].id
      BY <1>0 DEF AttemptRow
    <2> HIDE DEF opened, old
    <2> QED BY <1>1, <2>1, <2>2
  <1>5. ASSUME NEW c \in Confirms, Writes(c) \/ Recovers(c) PROVE IdsKept
    <2>1. c \in Callers /\ task[c] \in ConfirmTask /\ task[c].attempt \in Attempts
      BY <1>0, <1>5, TaskKinds DEF Writes, Recovers, At, ConfirmTask, Callers
    <2>2. charge[task[c].attempt].state # "none"
      BY <1>5, <2>1 DEF Writes, Recovers, At, TrackInv, Sure
    <2>3. \E st : Sets(task[c].attempt, st, TRUE)
      BY <1>5 DEF Writes, Recovers
    <2> QED BY <1>2, <2>1, <2>2, <2>3
  <1>6. ASSUME NEW c \in Callers, Stamps(c) PROVE IdsKept
    <2> DEFINE a == task[c].attempt
               new == [attempt[a] EXCEPT !.status = "APPROVED", !.applied = TRUE]
    <2>1. a \in Attempts
      BY <1>0, <1>6, TaskKinds DEF Stamps, At, ApplyTask
    <2>2. attempt' = [attempt EXCEPT ![a] = new]
      BY <1>0, <1>6 DEF Stamps
    <2>3. new.id = attempt[a].id
      BY <1>0, <2>1 DEF AttemptRow
    <2> HIDE DEF a, new
    <2> QED BY <1>1, <2>1, <2>2, <2>3
  <1>7. ASSUME NEW j \in Jobs, NEW a \in Attempts, Expires(j, a) PROVE IdsKept
    <2> DEFINE new == [attempt[a] EXCEPT !.status = "EXPIRED"]
    <2>1. attempt' = [attempt EXCEPT ![a] = new]
      BY <1>0, <1>7 DEF Expires
    <2>2. new.id = attempt[a].id
      BY <1>0 DEF AttemptRow
    <2> HIDE DEF new
    <2> QED BY <1>1, <2>1, <2>2
  <1>8. ASSUME NEW j \in Jobs, Settles(j) PROVE IdsKept
    <2>1. j \in Callers /\ task[j] \in AskTask /\ task[j].at = "inquired"
          /\ task[j].attempt \in Attempts
      BY <1>0, <1>8, TaskKinds DEF Settles, At, AskTask, Callers
    <2>2. charge[task[j].attempt].state # "none"
      BY <2>1 DEF TrackInv, Sure
    <2>3. \E st : Sets(task[j].attempt, st, TRUE)
      BY <1>8 DEF Settles
    <2> QED BY <1>2, <2>1, <2>2, <2>3
  <1> QED BY <1>3, <1>4, <1>5, <1>6, <1>7, <1>8, AttemptKinds


\* What a caller knows stays true.
LEMMA SureStays ==
    ASSUME TypeOK, IdsKept, \A a \in Attempts : Forward(charge[a], charge'[a]),
           NEW c \in Callers, Sure(task[c], charge, attempt)
    PROVE  Sure(task[c], charge', attempt')
  <1>1. /\ task[c].at \in Inside \cup {"recovering", "inquired"} => task[c].attempt \in Attempts
        /\ task[c].at \in {"sweeping", "inquired", "applying"} => task[c].ids \subseteq Attempts
    <2>1. task[c] \in Task
      BY DEF TypeOK
    <2> QED BY <2>1, TaskKinds DEF ConfirmTask, LoopTask, AskTask
  <1>2. \A a \in Attempts : attempt[a].id => attempt'[a].id
    BY DEF IdsKept
  <1>3. ASSUME NEW a \in Attempts
        PROVE  /\ charge[a].state # "none" => charge'[a].state # "none"
               /\ charge[a].state \in {"declined", "reversed"} =>
                      charge'[a].state \in {"declined", "reversed"}
               /\ ~charge[a].exact /\ charge[a].state # "none" =>
                      ~charge'[a].exact /\ charge'[a].state # "none"
    BY DEF Forward
  <1> QED BY <1>1, <1>2, <1>3 DEF Sure

\* Who neither confirms nor sweeps need not know anything.
LEMMA SureElsewhere ==
    ASSUME NEW t, NEW ch, NEW at, t.at \in Applying \cup {"idle", "done"}
    PROVE  Sure(t, ch, at)
  BY DEF Sure

\* What a confirm knows after its step.
LEMMA ConfirmIsSure ==
    ASSUME TypeOK, TrackInv, NEW c \in Confirms,
           ConfirmStep(c) \/ Fails(c) \/ RecoverFails(c)
    PROVE  Sure(task'[c], charge', attempt')
  <1>0. /\ TasksOK /\ RowsOK
        /\ task[c] \in Task /\ c \in Callers /\ task = [d \in Callers |-> task[d]]
    BY TypeSplit DEF TasksOK, MayBe, Callers
  <1>1. ASSUME NEW t \in ConfirmTask, t.at \in {"claimed", "asking", "recovering"},
               t.attempt \in Attempts, task' = [task EXCEPT ![c] = t],
               charge'[t.attempt].state # "none"
        PROVE  Sure(task'[c], charge', attempt')
    <2>1. task'[c] = t
      BY <1>0, <1>1
    <2> QED BY <1>1, <2>1 DEF Sure
  <1>2. ASSUME NEW t, t.at \in Applying \cup {"idle", "done"}, task' = [task EXCEPT ![c] = t]
        PROVE  Sure(task'[c], charge', attempt')
    <2>1. task'[c] = t
      BY <1>0, <1>2
    <2> QED BY <1>2, <2>1, SureElsewhere
  <1>3. ASSUME NEW a \in Attempts, Claims(c, a) PROVE Sure(task'[c], charge', attempt')
    <2> DEFINE t == [at |-> "claimed", attempt |-> a, paid |-> FALSE, answer |-> "none"]
    <2>1. t \in ConfirmTask /\ t.at = "claimed" /\ t.attempt = a
      BY DEF ConfirmTask, Answers
    <2>2. task' = [task EXCEPT ![c] = t] /\ charge'[a].state # "none"
      BY <1>3 DEF Claims, Takes
    <2> HIDE DEF t
    <2> QED BY <1>1, <2>1, <2>2
  <1>4. ASSUME NEW a, task[c].at \in Inside \cup {"recovering"}, a = task[c].attempt
        PROVE  task[c] \in ConfirmTask /\ a \in Attempts /\ charge[a].state # "none"
    <2>1. task[c] \in ConfirmTask
      BY <1>0, <1>4, TaskKinds
    <2> QED BY <1>0, <1>4, <2>1 DEF ConfirmTask, TrackInv, Sure
  <1>5. CASE ReadsPayment(c)
    <2> DEFINE asking == [task[c] EXCEPT !.at = "asking", !.paid = payment.status = "VERIFIED"]
    <2>1. PICK a : a = task[c].attempt
      OBVIOUS
    <2>2. task[c] \in ConfirmTask /\ a \in Attempts /\ charge'[a].state # "none"
      BY <1>4, <1>5, <2>1 DEF ReadsPayment, At
    <2>3. asking \in ConfirmTask /\ asking.at = "asking" /\ asking.attempt = a
      BY <2>1, <2>2 DEF ConfirmTask
    <2>4. \/ task' = [task EXCEPT ![c] = asking]
          \/ task' = [task EXCEPT ![c] = Starting(a, {})]
          \/ task' = [task EXCEPT ![c] = [at |-> "done"]]
      BY <1>5, <2>1 DEF ReadsPayment
    <2> HIDE DEF asking
    <2>5. CASE task' = [task EXCEPT ![c] = asking]
      BY <1>1, <2>2, <2>3, <2>5
    <2>6. CASE task' = [task EXCEPT ![c] = Starting(a, {})]
      <3>1. Starting(a, {}).at = "approved"
        BY DEF Starting
      <3> QED BY <1>2, <2>6, <3>1
    <2>7. CASE task' = [task EXCEPT ![c] = [at |-> "done"]]
      BY <1>2, <2>7
    <2> QED BY <2>4, <2>5, <2>6, <2>7
  <1>6. CASE Asks(c)
    <2>1. PICK a : a = task[c].attempt
      OBVIOUS
    <2>2. task[c] \in ConfirmTask /\ a \in Attempts /\ charge[a].state # "none"
      BY <1>4, <1>6, <2>1 DEF Asks, At
    <2>3. PICK answer \in Answers :
             /\ AsksPayphone(a, answer)
             /\ task' = [task EXCEPT ![c].at = "answered", ![c].answer = answer]
      BY <1>6, <2>1 DEF Asks
    <2>4. /\ Forward(charge[a], charge'[a]) /\ answer # "none"
          /\ answer = "declined" => charge[a].state \notin {"held", "captured"}
          /\ answer = "mismatch" => ~charge[a].exact
      BY <1>0, <2>2, <2>3, AskedForward
    <2>5. charge[a].state \in {"none", "held", "declined", "reversed", "captured"}
      BY <1>0, <2>2 DEF RowsOK
    <2>6. /\ charge'[a].state # "none"
          /\ answer = "declined" => charge'[a].state \in {"declined", "reversed"}
          /\ answer = "mismatch" => ~charge'[a].exact
      BY <2>2, <2>4, <2>5 DEF Forward
    <2>7. task'[c].at = "answered" /\ task'[c].answer = answer /\ task'[c].attempt = a
      BY <1>0, <2>1, <2>2, <2>3 DEF ConfirmTask
    <2> QED BY <2>4, <2>6, <2>7 DEF Sure
  <1>7. CASE Writes(c) \/ Fails(c)
    <2> DEFINE recovering == [task[c] EXCEPT !.at = "recovering"]
    <2>1. PICK a : a = task[c].attempt
      OBVIOUS
    <2>2. task[c] \in ConfirmTask /\ a \in Attempts /\ charge'[a].state # "none"
      BY <1>4, <1>7, <2>1 DEF Writes, Fails, At
    <2>3. recovering \in ConfirmTask /\ recovering.at = "recovering" /\ recovering.attempt = a
      BY <2>1, <2>2 DEF ConfirmTask
    <2>4. \/ task' = [task EXCEPT ![c] = recovering]
          \/ task' = [task EXCEPT ![c] = Starting(a, {})]
          \/ task' = [task EXCEPT ![c] = [at |-> "done"]]
      BY <1>0, <1>7, <2>1 DEF Writes, Fails, Loses, Goes
    <2> HIDE DEF recovering
    <2>5. CASE task' = [task EXCEPT ![c] = recovering]
      BY <1>1, <2>2, <2>3, <2>5
    <2>6. CASE task' = [task EXCEPT ![c] = Starting(a, {})]
      <3>1. Starting(a, {}).at = "approved"
        BY DEF Starting
      <3> QED BY <1>2, <2>6, <3>1
    <2>7. CASE task' = [task EXCEPT ![c] = [at |-> "done"]]
      BY <1>2, <2>7
    <2> QED BY <2>4, <2>5, <2>6, <2>7
  <1>8. CASE Recovers(c) \/ RecoverFails(c)
    <2>1. task' = [task EXCEPT ![c] = [at |-> "done"]]
      BY <1>8 DEF Recovers, RecoverFails, Ends
    <2> QED BY <1>2, <2>1
  <1> QED BY <1>3, <1>5, <1>6, <1>7, <1>8 DEF ConfirmStep

\* What an application knows, and a job it returns to.
LEMMA ApplierIsSure ==
    ASSUME TypeOK, NEW c \in Callers, ApplyStep(c) \/ ApplyFails(c)
    PROVE  Sure(task'[c], charge', attempt')
  <1>0. task[c] \in Task /\ task = [d \in Callers |-> task[d]]
    BY TypeSplit DEF TasksOK, MayBe
  <1>1. task[c] \in ApplyTask
    BY <1>0, TaskKinds DEF ApplyStep, ApplyFails, ReadsToApply, Verifies, ReadsSubscription,
          Snapshots, Renews, Dates, Stamps, At
  <1>2. \/ \E p \in Applying : task' = [task EXCEPT ![c].at = p]
        \/ task' = [task EXCEPT ![c].at = "snapshotting", ![c].base = ends]
        \/ task' = [task EXCEPT ![c] = [at |-> "done"]]
        \/ Returns(c)
    BY <1>0 DEF ApplyStep, ApplyFails, ReadsToApply, Verifies, ReadsSubscription,
          Snapshots, Renews, Dates, Stamps, Goes, Leaves, Ends
  <1>3. CASE Returns(c)
    <2>1. task'[c].at = "applying" /\ task'[c].ids = {}
      BY <1>0, <1>3 DEF Returns
    <2> QED BY <2>1 DEF Sure
  <1>4. CASE ~Returns(c)
    <2>1. task'[c].at \in Applying \cup {"idle", "done"}
      BY <1>0, <1>1, <1>2, <1>4 DEF ApplyTask
    <2> QED BY <2>1, SureElsewhere
  <1> QED BY <1>3, <1>4

\* A sweep that asks only about attempts whose id is known.
Sweeper(t) == /\ t.at \in {"sweeping", "applying"}
              /\ t.ids \subseteq Attempts /\ \A a \in t.ids : attempt[a].id

\* What a job knows after its step.
LEMMA JobIsSure ==
    ASSUME TypeOK, TrackInv, IdsKept, NEW j \in Jobs, JobStep(j) \/ JobFails(j)
    PROVE  Sure(task'[j], charge', attempt')
  <1>0. /\ TasksOK /\ RowsOK
        /\ task[j] \in Task /\ j \in Callers /\ task = [d \in Callers |-> task[d]]
    BY TypeSplit DEF TasksOK, MayBe, Callers
  <1>1. ASSUME NEW t, Sweeper(t), task' = [task EXCEPT ![j] = t]
        PROVE  Sure(task'[j], charge', attempt')
    <2>1. task'[j] = t
      BY <1>0, <1>1
    <2> QED BY <1>1, <2>1 DEF Sure, Sweeper, IdsKept
  <1>2. ASSUME NEW t, t.at \in Applying \cup {"idle", "done"}, task' = [task EXCEPT ![j] = t]
        PROVE  Sure(task'[j], charge', attempt')
    <2>1. task'[j] = t
      BY <1>0, <1>2
    <2> QED BY <1>2, <2>1, SureElsewhere
  <1>3. ASSUME task[j].at \in {"sweeping", "inquired"}
        PROVE  task[j].ids \subseteq Attempts /\ \A a \in task[j].ids : attempt[a].id
    <2>1. task[j] \in LoopTask \cup AskTask
      BY <1>0, <1>3, TaskKinds
    <2> QED BY <1>0, <1>3, <2>1 DEF LoopTask, AskTask, TrackInv, Sure
  <1>4. ASSUME NEW todo, task[j].at \in {"sweeping", "inquired"}, Sweeps(j, todo)
        PROVE  Sure(task'[j], charge', attempt')
    <2> DEFINE t == [at |-> "sweeping", todo |-> todo, ids |-> task[j].ids]
    <2>1. task' = [task EXCEPT ![j] = t]
      BY <1>0, <1>4 DEF Sweeps
    <2>2. Sweeper(t)
      BY <1>3, <1>4 DEF Sweeper
    <2> HIDE DEF t
    <2> QED BY <1>1, <2>1, <2>2
  <1>5. ASSUME NEW a \in Attempts, Inquires(j, a), \A todo : ~Sweeps(j, todo)
        PROVE  Sure(task'[j], charge', attempt')
    <2>1. /\ task[j].ids \subseteq Attempts /\ a \in task[j].ids
          /\ \A b \in task[j].ids : attempt[b].id
      BY <1>3, <1>5 DEF Inquires, At
    <2>2. PICK answer \in Answers :
             /\ AsksPayphone(a, answer) /\ answer # "unreachable"
             /\ task' = [task EXCEPT ![j] =
                             [at |-> "inquired", todo |-> task[j].todo \ {a},
                              ids |-> task[j].ids, attempt |-> a, answer |-> answer]]
      BY <1>0, <1>5 DEF Inquires
    <2>3. /\ Forward(charge[a], charge'[a]) /\ answer # "none"
          /\ answer = "declined" => charge[a].state \notin {"held", "captured"}
          /\ answer = "mismatch" => ~charge[a].exact
      BY <1>0, <2>2, AskedForward
    <2>4. /\ charge[a].state \in {"none", "held", "declined", "reversed", "captured"}
          /\ charge[a].state # "none"
      BY <1>0, <2>1 DEF RowsOK, TrackInv
    <2>5. /\ charge'[a].state # "none"
          /\ answer = "declined" => charge'[a].state \in {"declined", "reversed"}
          /\ answer = "mismatch" => ~charge'[a].exact
      BY <2>3, <2>4 DEF Forward
    <2>6. /\ task'[j].at = "inquired" /\ task'[j].answer = answer /\ task'[j].attempt = a
          /\ task'[j].ids = task[j].ids
      BY <1>0, <2>2
    <2> QED BY <2>1, <2>2, <2>3, <2>5, <2>6 DEF Sure, IdsKept
  <1>6. ASSUME NEW a \in Attempts, Inquires(j, a)
        PROVE  Sure(task'[j], charge', attempt')
    <2>1. task[j].at \in {"sweeping", "inquired"}
      BY <1>6 DEF Inquires, At
    <2>2. CASE \E todo : Sweeps(j, todo)
      BY <1>4, <2>1, <2>2
    <2>3. CASE ~\E todo : Sweeps(j, todo)
      BY <1>5, <1>6, <2>3
    <2> QED BY <2>2, <2>3
  <1>7. ASSUME NEW a \in Attempts, Expires(j, a) PROVE Sure(task'[j], charge', attempt')
    <2>1. task[j].at \in {"sweeping", "inquired"} /\ Sweeps(j, task[j].todo \ {a})
      BY <1>7 DEF Expires, At
    <2> QED BY <1>4, <2>1
  <1>8. CASE Settles(j)
    <2>1. task[j].at \in {"sweeping", "inquired"} /\ Sweeps(j, task[j].todo)
      BY <1>8 DEF Settles, At
    <2> QED BY <1>4, <2>1
  <1>9. ASSUME NEW a \in Attempts, Applies(j, a) PROVE Sure(task'[j], charge', attempt')
    <2> DEFINE t == Starting(a, task[j].todo \ {a})
    <2>1. task' = [task EXCEPT ![j] = t]
      BY <1>0, <1>9 DEF Applies
    <2>2. t.at = "approved"
      BY DEF Starting
    <2> HIDE DEF t
    <2> QED BY <1>2, <2>1, <2>2
  <1>10. CASE Starts(j)
    <2> DEFINE t == [at |-> "sweeping", todo |-> Stale, ids |-> {a \in Stale : attempt[a].id}]
    <2>1. task' = [task EXCEPT ![j] = t]
      BY <1>10 DEF Starts
    <2>2. Sweeper(t)
      BY DEF Sweeper, Stale, Pending
    <2> HIDE DEF t
    <2> QED BY <1>1, <2>1, <2>2
  <1>11. CASE FindsUnapplied(j)
    <2> DEFINE t == [at |-> "applying", todo |-> Unapplied, ids |-> {}]
    <2>1. task' = [task EXCEPT ![j] = t]
      BY <1>11 DEF FindsUnapplied
    <2>2. Sweeper(t)
      BY DEF Sweeper
    <2> HIDE DEF t
    <2> QED BY <1>1, <2>1, <2>2
  <1>12. CASE JobEnds(j) \/ JobFails(j)
    <2>1. task' = [task EXCEPT ![j] = Idle] /\ Idle.at = "idle"
      BY <1>12 DEF JobEnds, JobFails, Idle
    <2> QED BY <1>2, <2>1
  <1> QED BY <1>6, <1>7, <1>8, <1>9, <1>10, <1>11, <1>12 DEF JobStep

\* Histories only grow.
LEMMA ExcusesGrow ==
    ASSUME Next
    PROVE  Excused \subseteq unrecorded' \cup misexpired'
  <1> USE DEF Excused
  <1>1. ASSUME NEW a \in Attempts, \/ ChecksPayment(a) \/ OpensSession(a) \/ Age(a)
                                   \/ Pays(a) \/ Reverses(a)
        PROVE  Excused \subseteq unrecorded' \cup misexpired'
    BY <1>1 DEF ChecksPayment, OpensSession, Age, Pays, Reverses, history
  <1>2. ASSUME NEW c \in Confirms, ConfirmStep(c) \/ Fails(c) \/ RecoverFails(c)
        PROVE  Excused \subseteq unrecorded' \cup misexpired'
    BY <1>2 DEF ConfirmStep, Claims, ReadsPayment, Asks, Writes, Recovers, Fails, RecoverFails,
                Misreads, Forgets, history
  <1>3. ASSUME NEW c \in Callers, ApplyStep(c) \/ ApplyFails(c)
        PROVE  Excused \subseteq unrecorded' \cup misexpired'
    BY <1>3 DEF ApplyStep, ReadsToApply, Verifies, ReadsSubscription, Snapshots, Renews,
                Dates, Stamps, ApplyFails, history
  <1>4. ASSUME NEW j \in Jobs, JobStep(j) \/ JobFails(j)
        PROVE  Excused \subseteq unrecorded' \cup misexpired'
    BY <1>4 DEF JobStep, Starts, Expires, Inquires, Settles, Misreads, FindsUnapplied,
                Applies, JobEnds, JobFails, history
  <1>5. CASE Crash
    BY <1>5 DEF Crash, Forgets
  <1> QED BY <1>1, <1>2, <1>3, <1>4, <1>5 DEF Next

\* A wanted attempt whose id is known is written again only as what it may be.
LEMMA FollowedRow ==
    ASSUME TypeOK, TrackInv, Next, NEW a \in Attempts,
           a \notin unrecorded' \cup misexpired', Wanted(a, charge),
           attempt'[a].id
    PROVE  attempt'[a].status \in {"PENDING", "APPROVED", "DUPLICATE"}
  <1> DEFINE Open(st) == st \in {"PENDING", "APPROVED", "DUPLICATE"}
  <1>0. /\ TasksOK /\ attempt \in [Attempts -> AttemptRow]
        /\ \A c \in Callers : task[c] \in Task
    BY TypeSplit DEF RowsOK, TasksOK, MayBe, AttemptRow
  <1>1. attempt[a].id => Open(attempt[a].status)
    BY ExcusesGrow DEF TrackInv, Followed, Excused
  <1>2. CASE attempt'[a] = attempt[a]
    BY <1>1, <1>2
  <1>3. ASSUME attempt'[a] # attempt[a], NEW b \in Attempts, NEW new,
               attempt' = [attempt EXCEPT ![b] = new]
        PROVE  a = b /\ attempt'[a] = new
    BY <1>0, <1>3
  <1>4. ASSUME NEW b \in Attempts, NEW st, Sets(b, st, TRUE), attempt'[a] # attempt[a]
        PROVE  a = b /\ attempt'[a].status = st
    <2> DEFINE new == [attempt[b] EXCEPT !.status = st, !.id = TRUE]
    <2>1. attempt' = [attempt EXCEPT ![b] = new]
      BY <1>0, <1>4 DEF Sets
    <2>2. new.status = st
      BY <1>0 DEF AttemptRow
    <2> HIDE DEF new
    <2> QED BY <1>3, <1>4, <2>1, <2>2
  <1>5. ASSUME NEW b \in Attempts, OpensSession(b) \/ Age(b), attempt'[a] # attempt[a]
        PROVE  Open(attempt'[a].status)
    <2> DEFINE opened == [attempt[b] EXCEPT !.status = "PENDING"]
               old == [attempt[b] EXCEPT !.old = TRUE]
    <2>1. \/ attempt' = [attempt EXCEPT ![b] = opened]
          \/ attempt[b].status = "PENDING" /\ attempt' = [attempt EXCEPT ![b] = old]
      BY <1>0, <1>5 DEF OpensSession, Age
    <2>2. opened.status = "PENDING" /\ old.status = attempt[b].status
      BY <1>0 DEF AttemptRow
    <2> HIDE DEF opened, old
    <2> QED BY <1>3, <1>5, <2>1, <2>2
  <1>6. ASSUME NEW c \in Confirms, Writes(c), attempt'[a] # attempt[a]
        PROVE  Open(attempt'[a].status)
    <2>1. /\ c \in Callers /\ task[c] \in ConfirmTask /\ task[c].attempt \in Attempts
          /\ task[c].at = "answered" /\ task[c].answer \in Answers
      BY <1>0, <1>6, TaskKinds DEF Writes, At, ConfirmTask, Callers
    <2>2. PICK st : st = Outcome(task[c].answer, task[c].paid)
      OBVIOUS
    <2>3. a = task[c].attempt /\ attempt'[a].status = st
      <3>1. Sets(task[c].attempt, st, TRUE)
        BY <1>6, <2>2 DEF Writes
      <3> QED BY <1>4, <1>6, <2>1, <3>1
    <2>4. task[c].answer # "unreadable"
      BY <1>6, <2>3 DEF Writes, Misreads
    <2>5. task[c].answer \notin {"none", "declined", "mismatch"}
      BY <2>1, <2>3 DEF TrackInv, Sure, Wanted
    <2>6. task[c].answer \in {"approved", "unreachable"}
      BY <2>1, <2>4, <2>5 DEF Answers
    <2>7. Open(st)
      BY <2>2, <2>6 DEF Outcome
    <2> QED BY <2>3, <2>7
  <1>7. ASSUME NEW c \in Confirms, Recovers(c), attempt'[a] # attempt[a]
        PROVE  Open(attempt'[a].status)
    <2>1. task[c].attempt \in Attempts
      BY <1>0, <1>7, TaskKinds DEF Recovers, At, ConfirmTask, Callers
    <2>2. Sets(task[c].attempt, "PENDING", TRUE)
      BY <1>7 DEF Recovers
    <2> QED BY <1>4, <1>7, <2>1, <2>2
  <1>8. ASSUME NEW c \in Callers, Stamps(c), attempt'[a] # attempt[a]
        PROVE  Open(attempt'[a].status)
    <2> DEFINE b == task[c].attempt
               new == [attempt[b] EXCEPT !.status = "APPROVED", !.applied = TRUE]
    <2>1. b \in Attempts
      BY <1>0, <1>8, TaskKinds DEF Stamps, At, ApplyTask
    <2>2. attempt' = [attempt EXCEPT ![b] = new]
      BY <1>0, <1>8 DEF Stamps
    <2>3. new.status = "APPROVED"
      BY <1>0, <2>1 DEF AttemptRow
    <2> HIDE DEF b, new
    <2> QED BY <1>3, <1>8, <2>1, <2>2, <2>3
  <1>9. ASSUME NEW j \in Jobs, NEW b \in Attempts, Expires(j, b), attempt'[a] # attempt[a]
        PROVE  Open(attempt'[a].status)
    <2> DEFINE new == [attempt[b] EXCEPT !.status = "EXPIRED"]
    <2>1. attempt' = [attempt EXCEPT ![b] = new]
      BY <1>0, <1>9 DEF Expires
    <2>2. new.id = attempt[b].id
      BY <1>0 DEF AttemptRow
    <2> HIDE DEF new
    <2>3. a = b /\ attempt[b].id
      BY <1>3, <1>9, <2>1, <2>2
    <2> QED BY <1>9, <2>3 DEF Expires
  <1>10. ASSUME NEW j \in Jobs, Settles(j), attempt'[a] # attempt[a]
         PROVE  Open(attempt'[a].status)
    <2>1. /\ j \in Callers /\ task[j] \in AskTask /\ task[j].attempt \in Attempts
          /\ task[j].at = "inquired" /\ task[j].answer \in Answers
      BY <1>0, <1>10, TaskKinds DEF Settles, At, AskTask, Callers
    <2>2. PICK st : st = IF task[j].answer = "approved" THEN "APPROVED" ELSE "EXPIRED"
      OBVIOUS
    <2>3. a = task[j].attempt /\ attempt'[a].status = st
      <3>1. Sets(task[j].attempt, st, TRUE)
        BY <1>10, <2>2 DEF Settles
      <3> QED BY <1>4, <1>10, <2>1, <3>1
    <2>4. task[j].answer # "unreadable"
      BY <1>10, <2>3 DEF Settles, Misreads
    <2>5. task[j].answer \notin {"none", "declined", "mismatch", "unreachable"}
      BY <2>1, <2>3 DEF TrackInv, Sure, Wanted
    <2>6. task[j].answer = "approved"
      BY <2>1, <2>4, <2>5 DEF Answers
    <2> QED BY <2>2, <2>3, <2>6
  <1> HIDE DEF Open
  <1>11. CASE attempt'[a] # attempt[a]
    BY <1>5, <1>6, <1>7, <1>8, <1>9, <1>10, <1>11, AttemptKinds DEF Open
  <1> QED BY <1>2, <1>11 DEF Open

\* Who has an answer that is not written keeps it, unless the answer is given up as lost.
LEMMA AnswerKept ==
    ASSUME TypeOK, AllBacked, Next, NEW a \in Attempts, a \notin unrecorded', ~attempt'[a].id,
           ~attempt[a].id, NEW c \in Confirms, Answered(c), task[c].attempt = a
    PROVE  task'[c].at \in {"recovering", "answered"} /\ task'[c].attempt = a
  <1>0. /\ TasksOK /\ attempt \in [Attempts -> AttemptRow] /\ c \in Callers /\ c \notin Jobs
        /\ task[c] \in ConfirmTask /\ task = [d \in Callers |-> task[d]]
    BY TypeSplit, TaskKinds DEF RowsOK, TasksOK, MayBe, AttemptRow, Callers, Answered, At
  <1>1. task[c].at \in {"recovering", "answered"}
    BY DEF Answered, At
  <1>2. CASE task'[c] = task[c]
    BY <1>1, <1>2
  <1>3. CASE Writes(c) \/ Recovers(c)
    <2>1. \E st : Sets(a, st, TRUE)
      BY <1>3 DEF Writes, Recovers
    <2>2. attempt'[a].id
      BY <1>0, <2>1 DEF Sets, AttemptRow
    <2> QED BY <2>2
  <1>4. CASE Fails(c)
    <2>1. Goes(c, "recovering")
      BY <1>4 DEF Fails, Loses
    <2> QED BY <1>0, <2>1 DEF Goes, ConfirmTask
  <1>5. CASE RecoverFails(c)
    BY <1>5 DEF RecoverFails, Forgets
  <1>6. CASE Crash
    BY <1>6 DEF Crash, Forgets
  <1>7. CASE ConfirmStep(c) /\ ~Writes(c) /\ ~Recovers(c)
    BY <1>1, <1>7 DEF ConfirmStep, Claims, ReadsPayment, Asks, At
  <1>8. CASE ApplyStep(c) \/ ApplyFails(c)
    BY <1>1, <1>8 DEF ApplyStep, ApplyFails, ReadsToApply, Verifies, ReadsSubscription,
          Snapshots, Renews, Dates, Stamps, At
  <1>9. ASSUME NEW d \in Callers \ {c},
               \/ d \in Confirms /\ (ConfirmStep(d) \/ Fails(d) \/ RecoverFails(d))
               \/ ApplyStep(d) \/ ApplyFails(d)
               \/ d \in Jobs /\ (JobStep(d) \/ JobFails(d))
        PROVE  task'[c] = task[c]
    <2>1. NewTask(d)
      BY <1>9, ConfirmMoves, ApplyMoves, JobMoves
    <2> QED BY <1>0, <1>9, <2>1 DEF NewTask
  <1>10. ASSUME NEW b \in Attempts, \/ ChecksPayment(b) \/ OpensSession(b) \/ Age(b)
                                    \/ Pays(b) \/ Reverses(b)
         PROVE  task'[c] = task[c]
    BY <1>10 DEF ChecksPayment, OpensSession, Age, Pays, Reverses
  <1>11. CASE \E d \in Confirms : ConfirmStep(d) \/ Fails(d) \/ RecoverFails(d)
    BY <1>2, <1>3, <1>4, <1>5, <1>7, <1>9, <1>11 DEF Callers
  <1>12. CASE \E d \in Callers : ApplyStep(d) \/ ApplyFails(d)
    BY <1>2, <1>8, <1>9, <1>12
  <1>13. CASE \E d \in Jobs : JobStep(d) \/ JobFails(d)
    BY <1>0, <1>2, <1>9, <1>13 DEF Callers
  <1> QED BY <1>2, <1>6, <1>10, <1>11, <1>12, <1>13 DEF Next

\* Who captures a charge has the answer, or its id was known.
LEMMA AnswerComes ==
    ASSUME TypeOK, TrackInv, Next, NEW a \in Attempts, ~attempt'[a].id, ~attempt[a].id,
           charge[a].state # "captured", charge'[a].state = "captured"
    PROVE  \E c \in Confirms : task'[c].at = "answered" /\ task'[c].attempt = a
  <1>0. /\ TasksOK /\ RowsOK /\ charge[a].state \notin {"none", "captured"}
        /\ task = [d \in Callers |-> task[d]]
    BY TypeSplit, ChargesForward DEF Forward, TasksOK
  <1>1. ~UNCHANGED charge
    BY <1>0
  <1>2. ASSUME NEW b \in Attempts, Pays(b) PROVE FALSE
    <2>1. \E new : charge' = [charge EXCEPT ![b] = new]
      BY <1>2 DEF Pays
    <2>2. b # a
      BY <1>0, <1>2 DEF Pays
    <2> QED BY <1>0, <2>1, <2>2 DEF RowsOK
  <1>3. ASSUME NEW b \in Attempts, Reverses(b) PROVE FALSE
    BY <1>0, <1>3 DEF Reverses, Charge, RowsOK
  <1>4. ASSUME NEW j \in Jobs, NEW b \in Attempts, Inquires(j, b) PROVE FALSE
    <2>1. \E answer \in Answers : AsksPayphone(b, answer)
      BY <1>4 DEF Inquires
    <2>2. a = b
      BY <1>0, <2>1, AskedForward
    <2>3. task[j].at = "sweeping" /\ b \in task[j].ids
      BY <1>4 DEF Inquires, At
    <2> QED BY <2>2, <2>3 DEF TrackInv, Sure, Callers
  <1>5. ASSUME NEW c \in Confirms, Asks(c)
        PROVE  task'[c].at = "answered" /\ task'[c].attempt = a
    <2>1. c \in Callers /\ task[c] \in ConfirmTask /\ task[c].attempt \in Attempts
      BY <1>0, <1>5, TaskKinds DEF Asks, At, ConfirmTask, TasksOK, MayBe, Callers
    <2>2. PICK answer \in Answers :
             /\ AsksPayphone(task[c].attempt, answer)
             /\ task' = [task EXCEPT ![c].at = "answered", ![c].answer = answer]
      BY <1>5 DEF Asks
    <2>3. task[c].attempt = a
      BY <1>0, <2>1, <2>2, AskedForward
    <2> QED BY <1>0, <2>1, <2>2, <2>3 DEF ConfirmTask
  <1> QED BY <1>1, <1>2, <1>3, <1>4, <1>5, ChargeActors

\* A wanted charge goes on being followed.
LEMMA FollowedKept ==
    ASSUME TypeOK, AllBacked, TrackInv, Next, NEW a \in Attempts,
           a \notin unrecorded' \cup misexpired', Wanted(a, charge')
    PROVE  Followed(a)'
  <1>0. /\ a \notin Excused /\ Forward(charge[a], charge'[a])
        /\ charge[a].state \in {"none", "held", "declined", "reversed", "captured"}
    BY ExcusesGrow, ChargesForward, TypeSplit DEF RowsOK
  <1>1. IdsKept
    BY IdsStay
  <1>2. Wanted(a, charge) \/ charge[a].state = "none"
    BY <1>0 DEF Wanted, Forward
  <1>3. CASE Wanted(a, charge)
    <2>1. Followed(a)
      BY <1>0, <1>3 DEF TrackInv
    <2>2. attempt'[a].id => attempt'[a].status \in {"PENDING", "APPROVED", "DUPLICATE"}
      BY <1>3, FollowedRow
    <2>3. ASSUME ~attempt'[a].id, charge'[a].state = "captured"
          PROVE  \E c \in Confirms : task'[c].at \in {"recovering", "answered"} /\ task'[c].attempt = a
      <3>1. ~attempt[a].id
        BY <1>1, <2>3 DEF IdsKept
      <3>2. CASE charge[a].state = "captured"
        <4>1. PICK c \in Confirms : Answered(c) /\ task[c].attempt = a
          BY <2>1, <3>1, <3>2 DEF Followed, Captured
        <4> QED BY <2>3, <3>1, <4>1, AnswerKept
      <3>3. CASE charge[a].state # "captured"
        BY <2>3, <3>1, <3>3, AnswerComes
      <3> QED BY <3>2, <3>3
    <2> QED BY <2>2, <2>3 DEF Followed, Captured, Answered, At
  <1>4. CASE charge[a].state = "none"
    <2>1. ~attempt'[a].id /\ charge'[a].state # "captured"
      BY <1>0, <1>1, <1>4 DEF IdsKept, Forward
    <2> QED BY <2>1 DEF Followed, Captured
  <1> QED BY <1>2, <1>3, <1>4

\* Everyone stays sure of what he knows.
LEMMA SureKept ==
    ASSUME TypeOK, AllBacked, TrackInv, Next, NEW c \in Callers
    PROVE  Sure(task'[c], charge', attempt')
  <1>0. /\ TasksOK /\ Sure(task[c], charge, attempt) /\ Confirms \cap Jobs = {}
        /\ task = [d \in Callers |-> task[d]]
    BY TypeSplit DEF TrackInv, TasksOK
  <1>1. /\ IdsKept /\ \A a \in Attempts : Forward(charge[a], charge'[a])
    BY IdsStay, ChargesForward
  <1>2. CASE task'[c] = task[c]
    BY <1>0, <1>1, <1>2, SureStays
  <1>3. CASE Crash
    <2>1. task'[c].at \in {"idle", "done"}
      BY <1>3 DEF Crash, Idle
    <2> QED BY <2>1, SureElsewhere
  <1>4. ASSUME NEW d \in Callers \ {c},
               \/ d \in Confirms /\ (ConfirmStep(d) \/ Fails(d) \/ RecoverFails(d))
               \/ ApplyStep(d) \/ ApplyFails(d)
               \/ d \in Jobs /\ (JobStep(d) \/ JobFails(d))
        PROVE  task'[c] = task[c]
    <2>1. NewTask(d)
      BY <1>4, ConfirmMoves, ApplyMoves, JobMoves
    <2> QED BY <1>0, <1>4, <2>1 DEF NewTask
  <1>5. ASSUME NEW b \in Attempts, \/ ChecksPayment(b) \/ OpensSession(b) \/ Age(b)
                                   \/ Pays(b) \/ Reverses(b)
        PROVE  task'[c] = task[c]
    BY <1>5 DEF ChecksPayment, OpensSession, Age, Pays, Reverses
  <1>6. CASE \E d \in Confirms : ConfirmStep(d) \/ Fails(d) \/ RecoverFails(d)
    BY <1>2, <1>4, <1>6, ConfirmIsSure DEF Callers
  <1>7. CASE \E d \in Callers : ApplyStep(d) \/ ApplyFails(d)
    BY <1>2, <1>4, <1>7, ApplierIsSure
  <1>8. CASE \E d \in Jobs : JobStep(d) \/ JobFails(d)
    BY <1>1, <1>2, <1>4, <1>8, JobIsSure DEF Callers
  <1> QED BY <1>2, <1>3, <1>5, <1>6, <1>7, <1>8 DEF Next

\* The tracking invariant holds.
LEMMA Tracking == Spec => []TrackInv
<1>1. Init => TrackInv
  BY DEF Init, TrackInv, Sure, Idle, Callers, Wanted
<1>2. IInv /\ TrackInv /\ [Next]_vars => TrackInv'
  <2> SUFFICES ASSUME IInv, TrackInv, [Next]_vars PROVE TrackInv'
    OBVIOUS
  <2>1. CASE Next
    <3>0. TypeOK /\ AllBacked
      BY DEF IInv
    <3>1. \A c \in Callers : Sure(task'[c], charge', attempt')
      BY <2>1, <3>0, SureKept
    <3>2. \A a \in Attempts : attempt'[a].id => charge'[a].state # "none"
      BY <2>1, <3>0, IdsStay, ChargesForward DEF IdsKept, Forward
    <3>3. \A a \in Attempts \ (unrecorded' \cup misexpired') :
             Wanted(a, charge') => Followed(a)'
      BY <2>1, <3>0, FollowedKept
    <3> QED BY <3>1, <3>2, <3>3 DEF TrackInv, Excused
  <2>2. CASE UNCHANGED vars
    BY <2>2 DEF TrackInv, Sure, Wanted, Followed, Excused, Captured, Answered, At, vars, history
  <2> QED BY <2>1, <2>2
<1> QED BY <1>1, <1>2, Inductive, PTL DEF Spec

\* Money that was captured, as it was asked for, is not forgotten, however many
\* sessions, confirms and jobs there are and whatever of them fails or crashes, but for
\* the holes the property names.
THEOREM CapturedIsTracked == Spec => []MoneyIsTracked
<1>1. TrackInv => MoneyIsTracked
  BY DEF TrackInv, MoneyIsTracked, Excused, Wanted, Followed, Captured, Tracked
<1> QED BY <1>1, Tracking, PTL
=============================================================================
